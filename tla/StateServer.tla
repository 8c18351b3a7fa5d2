---------------------------- MODULE StateServer ----------------------------
(* The HTTP layer of src/server/internal/api over the session manager: handlers
   run concurrently, and GET /state takes its snapshot under the manager's lock
   but builds the response after leaving it, with a later reading of the clock.
   A connection carries one request at a time, and holds its last answer until
   the next one.  The terminal client has one connection; the tray, whose polls
   overlap, has one for each poll that is out, and whatever order their answers
   reach the screen in is TrayClient's matter.                               *)
EXTENDS Sessions, Aggregation, EventValidation

CONSTANTS Conn,             \* connections of clients
          Input,            \* the bodies posted in this instance
          WaitingTooLong    \* age at which a WAITING session counts as urgent

(* Whoever posts may send anything for an identifier, a name or a date. *)
Envelope == [eventID : EventId \cup Unfit, source : Tool \cup Unfit,
             sessionID : SessionID \cup Unfit, event : STRING, timestamp : STRING]

ASSUME InputAssumption == Input \subseteq [content : Content, ev : Envelope]
ASSUME UnfitAssumption == Unfit \cap (EventId \cup Tool \cup SessionID) = {}
ASSUME ToolAssumption == Tool \subseteq Nat \ {NoTool}
ASSUME UrgencyAssumption == WaitingTooLong \in Nat

VARIABLE call   \* how far the GET /state on each connection has come

svars == <<now, sessions, updatedAt, restarts, call>>

NoCall == [stage |-> "none"]
Stage(c) == call[c].stage

SInit ==
  /\ Init
  /\ call = [c \in Conn |-> NoCall]

-----------------------------------------------------------------------------

(* A body that is refused changes nothing, and the reply says nothing of state. *)
handleEvents ==
  /\ \E body \in Input : IF Parse(body) THEN Apply(Normalized(body.ev))
                                       ELSE UNCHANGED vars
  /\ UNCHANGED call

(* Snapshot's copies of the live rows. *)
Copies ==
  {[tool |-> k[1], sessionID |-> k[2],
    state |-> Live[k].state, since |-> Live[k].since] : k \in DOMAIN Live}

handleState_Snapshot(c) ==
  /\ Stage(c) # "snapshot"
  /\ Snapshot
  /\ call' = [call EXCEPT ![c] = [stage     |-> "snapshot",
                                  recs      |-> Copies,
                                  updatedAt |-> ReconciledAt]]

(* Broken handler: the response is stamped with the time it was built. *)
handleState_Build_stamped(c) ==
  /\ Stage(c) = "snapshot"
  /\ call' = [call EXCEPT ![c] =
                [stage    |-> "answered",
                 response |-> Build(@.recs, updatedAt, now, WaitingTooLong),
                 servedAt |-> now]]
  /\ UNCHANGED vars

handleState_Build(c) ==
  /\ Stage(c) = "snapshot"
  /\ call' = [call EXCEPT ![c] =
                [stage    |-> "answered",
                 response |-> Build(@.recs, @.updatedAt, now, WaitingTooLong),
                 servedAt |-> now]]
  /\ UNCHANGED vars

(* The requests in flight die with the process. *)
ServerRestart ==
  /\ Restart
  /\ call' = [c \in Conn |-> IF Stage(c) = "snapshot" THEN NoCall ELSE call[c]]

SNext ==
  \/ handleEvents
  \/ \E c \in Conn : handleState_Snapshot(c) \/ handleState_Build(c)
  \/ Tick /\ UNCHANGED call
  \/ ServerRestart

SSpec == SInit /\ [][SNext]_svars

(* Time passes, connections go on being polled, and handlers finish. *)
SFairSpec ==
  /\ SSpec
  /\ WF_svars(Tick /\ UNCHANGED call)
  /\ \A c \in Conn : /\ WF_svars(handleState_Snapshot(c))
                       /\ WF_svars(handleState_Build(c))

-----------------------------------------------------------------------------
(* What an answer tells.  The urgency order is docs/protocol.md §9's. *)

Order == <<"waiting", "error", "unknown", "executing", "done", "idle">>

(* s is the first state of Order among states, or IDLE when there is none. *)
Heads(s, states) ==
  \E i \in 1..6 : /\ Order[i] = s
                  /\ s \in states \cup {"idle"}
                  /\ \A j \in 1 .. i - 1 : Order[j] \notin states

Answered(c) == Stage(c) = "answered"
Headline(c) == call[c].response.overall
Tools(c) == call[c].response.tools

(* Types of the calls, and of the table whatever is posted: nothing that is unfit
   or unheard of gets a row, an identity in one, or a tool in an answer.     *)
STypeOK ==
  /\ TypeOK
  /\ \A c \in Conn :
       /\ Stage(c) \in {"none", "snapshot", "answered"}
       /\ Stage(c) = "snapshot" => \A r \in call[c].recs : <<r.tool, r.sessionID>> \in Key
       /\ Answered(c) => /\ Headline(c).tool \in Tool \cup {NoTool}
                         /\ \A n \in DOMAIN Tools(c) : n \in Tool /\ Tools(c)[n].activeSessions > 0

(* The headline is the most urgent tool's state, and names the first such tool,
   or none exactly when everything is IDLE.                                  *)
HeadlineIsMostUrgent ==
  \A c \in Conn :
    Answered(c) =>
      LET head  == Headline(c)
          tools == Tools(c)
      IN /\ Heads(head.state, {tools[n].state : n \in DOMAIN tools})
         /\ IF head.state = "idle" THEN head.tool = NoTool
            ELSE /\ head.tool \in DOMAIN tools
                 /\ tools[head.tool].state = head.state
                 /\ \A n \in DOMAIN tools :
                      tools[n].state = head.state => head.tool <= n

(* The flag and the date of a tool tell one story: a tool flagged as waiting too
   long shows a date that old at the moment of the answer, and one that shows
   a date older by a second, the precision of dates, is flagged.             *)
WaitingTooLongFollowsSince ==
  \A c \in Conn :
    Answered(c) =>
      \A n \in DOMAIN Tools(c) :
        LET status == Tools(c)[n]
            age    == call[c].servedAt - status.since
        IN /\ status.waitingTooLong => status.state = "waiting" /\ age >= WaitingTooLong
           /\ (status.state = "waiting" /\ age >= WaitingTooLong + Second)
                => status.waitingTooLong

(* No date in an answer is later than its updatedAt, nor that than the answer,
   and a session cannot be newer than the table it was read from: the snapshot
   is one moment of the table although the answer is built later.            *)
AnswerIsOneMoment ==
  \A c \in Conn :
    Answered(c) =>
      /\ call[c].response.updatedAt <= call[c].servedAt
      /\ \A n \in DOMAIN Tools(c) : Tools(c)[n].since <= call[c].response.updatedAt

ChangedAt(one) ==
  CASE one.stage = "none"     -> 0
    [] one.stage = "snapshot" -> formatTime(one.updatedAt)
    [] one.stage = "answered" -> one.response.updatedAt

Taken(c) == Stage(c) # "snapshot" /\ Stage(c)' = "snapshot"
Built(c) == Stage(c) = "snapshot" /\ Stage(c)' = "answered"

(* Requests overlap and are answered in any order, but no snapshot is of an older
   table than any that was taken or answered before it, for whichever client and
   by whichever server; and an answer has the updatedAt of its own snapshot,
   whatever was changed while it was built.  So who asks after an answer is not
   told of an older table; who has two requests out may get theirs exchanged. *)
SnapshotsNeverGoBack ==
  [][\A c \in Conn :
       /\ Taken(c) => \A d \in Conn : ChangedAt(call'[c]) >= ChangedAt(call[d])
       /\ Built(c) => ChangedAt(call'[c]) = ChangedAt(call[c])]_svars

(* If the most urgent state among the live sessions settles, whoever goes on polling
   is in the end only ever answered with that state, and again and again.    *)
ScreensConverge ==
  \A c \in Conn, s \in AgentState :
    <>[]Heads(s, {Live[k].state : k \in DOMAIN Live})
      => []<>Answered(c) /\ <>[](Answered(c) => Headline(c).state = s)
=============================================================================
