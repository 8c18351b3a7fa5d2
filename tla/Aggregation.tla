----------------------------- MODULE Aggregation -----------------------------
(* GET /state's payload from the live sessions (src/server/internal/aggregation):
   one status per tool and one headline.  A tool is a number, in the order that
   Go's sort.Strings gives their names.                                      *)
EXTENDS Integers, FiniteSets, StateMachine

CONSTANT Second   \* ticks in a second: the dates of an answer are cut to it
ASSUME SecondAssumption == Second \in Nat \ {0}

NoTool == 0   \* the JSON null, and the zero string

(* RFC 3339 has no fractions of a second in it. *)
formatTime(t) == (t \div Second) * Second

(* Broken priority: UNKNOWN is thought to be worse than anything. *)
priority_unknownFirst == [waiting |-> 6, error |-> 5, unknown |-> 7,
                          executing |-> 3, done |-> 2, idle |-> 1]

priority == [waiting |-> 6, error |-> 5, unknown |-> 4,
             executing |-> 3, done |-> 2, idle |-> 1]

(* The most urgent of states, from IDLE upwards. *)
mostUrgent(states) ==
  CHOOSE s \in states \cup {"idle"} :
    \A other \in states : priority[other] <= priority[s]

(* Broken toolStatus: the date is that of the newest session. *)
toolStatus_newest(recs, t, waitingTooLong) ==
  LET state   == mostUrgent({r.state : r \in recs})
      holders == {r \in recs : r.state = state}
  IN [state          |-> state,
      since          |-> formatTime(CHOOSE d \in {r.since : r \in holders} :
                                      \A r \in holders : d >= r.since),
      activeSessions |-> Cardinality(recs),
      waitingTooLong |-> /\ state = "waiting"
                         /\ \E r \in holders : t - r.since >= waitingTooLong]

(* recs: the non-empty set of one tool's sessions, each with its own identity. *)
toolStatus(recs, t, waitingTooLong) ==
  LET state   == mostUrgent({r.state : r \in recs})
      holders == {r \in recs : r.state = state}
  IN [state          |-> state,
      since          |-> formatTime(CHOOSE d \in {r.since : r \in holders} :
                                      \A r \in holders : d <= r.since),
      activeSessions |-> Cardinality(recs),
      waitingTooLong |-> /\ state = "waiting"
                         /\ \E r \in holders : t - r.since >= waitingTooLong]

(* Broken overall: the last name wins a tie. *)
overall_lastName(tools) ==
  LET state   == mostUrgent({tools[n].state : n \in DOMAIN tools})
      holders == {n \in DOMAIN tools : tools[n].state = state}
  IN [state |-> state,
      tool  |-> IF state = "idle" THEN NoTool
                ELSE CHOOSE n \in holders : \A m \in holders : n >= m]

(* The first name, in order, among the tools in the most urgent state. *)
overall(tools) ==
  LET state   == mostUrgent({tools[n].state : n \in DOMAIN tools})
      holders == {n \in DOMAIN tools : tools[n].state = state}
  IN [state |-> state,
      tool  |-> IF state = "idle" THEN NoTool
                ELSE CHOOSE n \in holders : \A m \in holders : n <= m]

(* recs: a set of records with the tool, the session, its state and its date. *)
Build(recs, changedAt, t, waitingTooLong) ==
  LET tools == [n \in {r.tool : r \in recs} |->
                  toolStatus({r \in recs : r.tool = n}, t, waitingTooLong)]
  IN [updatedAt |-> formatTime(changedAt), overall |-> overall(tools), tools |-> tools]
=============================================================================
