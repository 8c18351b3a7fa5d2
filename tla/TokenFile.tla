------------------------------ MODULE TokenFile ------------------------------
(* The bearer token (server/internal/auth) and the processes that share its file:
   a server reads the file when it starts, makes it on its first run, and only
   then finds out whether the port is free; clients read it on their own.
   Nothing locks the file, a server may die between any two steps, and the user
   may remove it to have a new token made, but not within a write.           *)

CONSTANTS Token, Server

VARIABLES file,     \* the token file: absent, empty, or what is in it
          server,   \* per server process: how far it is, and its token
          disturbed \* history: since some server was last alone, the file was removed
                    \* under a server or found absent by one beside another

tokenVars == <<file, server, disturbed>>

Absent == "absent"
Empty == "empty"   \* also the token of one who has none

(* Nothing that can be mistaken for a token: 32 random bytes in hexadecimal. *)
ASSUME TokenAssumption == Token \cap {Absent, Empty} = {}

Down == [phase |-> "down", token |-> Empty]
At(phase, token) == [phase |-> phase, token |-> token]
Phase(p) == server[p].phase

TokenTypeOK ==
  /\ file \in Token \cup {Absent, Empty}
  /\ server \in [Server -> {Down} \cup [phase : {"making", "writing", "loaded", "up"},
                                        token : Token]]
  /\ disturbed \in BOOLEAN

TokenInit == file = Absent /\ server = [p \in Server |-> Down] /\ disturbed = FALSE

(* The process that has the port, and the token it asks for. *)
Up == {p \in Server : Phase(p) = "up"}
secret == IF Up = {} THEN Empty ELSE server[CHOOSE p \in Up : TRUE].token

Alone(p) == \A q \in Server \ {p} : server[q] = Down
NoneRuns == \A p \in Server : server[p] = Down

-----------------------------------------------------------------------------
(* LoadOrCreate.  A file that is there but empty ends the process at once. *)

Load(p) ==
  /\ Phase(p) = "down" /\ file \in Token
  /\ server' = [server EXCEPT ![p] = At("loaded", file)]
  /\ UNCHANGED <<file, disturbed>>

(* No file: a token is made, and nothing keeps another server from doing so. *)
Generate(p, fresh) ==
  /\ Phase(p) = "down" /\ file = Absent
  /\ server' = [server EXCEPT ![p] = At("making", fresh)]
  /\ disturbed' = (disturbed \/ ~ Alone(p))
  /\ UNCHANGED file

(* os.WriteFile makes or truncates the file first and fills it next. *)
CreateFile(p) ==
  /\ Phase(p) = "making"
  /\ file' = Empty
  /\ server' = [server EXCEPT ![p].phase = "writing"]
  /\ UNCHANGED disturbed

(* Broken WriteToken: that the file could not be filled goes unnoticed. *)
WriteToken_unnoticed(p) ==
  /\ Phase(p) = "writing"
  /\ server' = [server EXCEPT ![p].phase = "loaded"]
  /\ UNCHANGED <<file, disturbed>>

WriteToken(p) ==
  /\ Phase(p) = "writing"
  /\ file' = server[p].token
  /\ server' = [server EXCEPT ![p].phase = "loaded"]
  /\ UNCHANGED disturbed

Gone(p) ==
  /\ server' = [server EXCEPT ![p] = Down]
  /\ disturbed' = (disturbed /\ ~ Alone(p))
  /\ UNCHANGED file

(* ListenAndServe: a server that finds the port taken ends. *)
Listen(p) ==
  /\ Phase(p) = "loaded"
  /\ IF Up # {} THEN Gone(p)
     ELSE /\ server' = [server EXCEPT ![p].phase = "up"]
          /\ UNCHANGED <<file, disturbed>>

(* A crash, or the end by a signal. *)
Stop(p) == Phase(p) # "down" /\ Gone(p)

Runs(p) == Load(p) \/ CreateFile(p) \/ WriteToken(p) \/ Listen(p) \/ Stop(p)

RemoveFile ==
  /\ file # Absent /\ \A p \in Server : Phase(p) # "writing"
  /\ file' = Absent
  /\ disturbed' = ~ NoneRuns
  /\ UNCHANGED server

TokenNext ==
  \/ \E p \in Server : Runs(p) \/ \E fresh \in Token : Generate(p, fresh)
  \/ RemoveFile

TokenSpec == TokenInit /\ [][TokenNext]_tokenVars

-----------------------------------------------------------------------------

(* The file holds the token of every server that is past loading it, whatever
   crashed before and whoever else is starting, as long as no two servers make
   the file side by side and it is not removed under a server.               *)
TokenIsShared ==
  ~ disturbed => \A p \in Server : Phase(p) \in {"loaded", "up"} => file = server[p].token
=============================================================================
