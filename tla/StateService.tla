---------------------------- MODULE StateService ----------------------------
(* What is behind the address that clients poll: servers that come and go with
   their token file, and an answer to GET /state that changes as sessions do.
   The answers are those of Aggregation; which of them comes next is left open. *)
EXTENDS TokenFile

CONSTANTS Answer,  \* what GET /state may say
          NoAgents \* what it says when no session is live

ASSUME AnswerAssumption == NoAgents \in Answer

VARIABLE view   \* what GET /state would say now, when a server is up

serviceVars == <<tokenVars, view>>

ServiceTypeOK == TokenTypeOK /\ view \in Answer

ServiceInit == TokenInit /\ view = NoAgents

(* The right answer, if anyone is there to give it. *)
Current == IF Up = {} THEN {} ELSE {view}

(* 32 random bytes: a token that nobody holds.  Which one does not matter. *)
NewToken(inUse) == CHOOSE t \in Token \ inUse : TRUE

(* A process starts or ends; a server that comes up has no sessions. *)
Processes(inUse) ==
  /\ \E p \in Server :
       \/ Runs(p)
       \/ Token \ inUse # {} /\ Generate(p, NewToken(inUse))
  /\ view' = IF Up' = Up THEN view ELSE NoAgents

Changes ==
  /\ Up # {}
  /\ view' \in Answer \ {view}
  /\ UNCHANGED tokenVars

Service(inUse) ==
  \/ Processes(inUse)
  \/ Changes
  \/ RemoveFile /\ UNCHANGED view

Tokens == {file} \cup {server[p].token : p \in Server}

(* What the server makes of a request: its answer, if the token is its own. *)
Success(answer) == [snapshot |-> answer]
Failed(why) == [failure |-> why]
Respond(token) == IF token = secret THEN Success(view) ELSE Failed("rejected")
=============================================================================
