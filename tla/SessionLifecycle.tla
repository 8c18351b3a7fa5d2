-------------------------- MODULE SessionLifecycle --------------------------
(* What docs/protocol.md promises of a session, without tables, locks, dedup or
   cadence: timers that fire on the tick they are due.  Sessions implements it
   although its timers fire only when a call happens to read the clock.      *)
EXTENDS Integers, StateMachine

CONSTANTS Key, DoneDuration, StaleFloor, MaxTime

VARIABLES now,   \* the server's clock
          table  \* live sessions: state, entered at, last heard of, ends at

Never == -1

vars == <<now, table>>

Session == [state : AgentState, since : Nat \cup {Never},
            heard : Nat, endsAt : Nat \cup {Never}]

TypeOK ==
  /\ now \in Nat
  /\ DOMAIN table \subseteq Key
  /\ table \in [DOMAIN table -> Session]

Init ==
  /\ now = 0
  /\ table = << >>

-----------------------------------------------------------------------------

(* When an UNKNOWN session became so is not promised. *)
Dated(state, t) == IF state = "unknown" THEN Never ELSE t

Stranger == [state |-> "unknown", since |-> Never, heard |-> now, endsAt |-> Never]

(* Any event but session_ended, for a session known or not. *)
Receive(k, ev) ==
  LET old  == IF k \in DOMAIN table THEN table[k] ELSE Stranger
      next == NextState(old.state, ev)
      new  == [state  |-> next,
               since  |-> Dated(next, IF next = old.state THEN old.since ELSE now),
               heard  |-> now,
               endsAt |-> IF ev = "session_started" THEN Never ELSE old.endsAt]
  IN /\ table' = [j \in DOMAIN table \cup {k} |-> IF j = k THEN new ELSE table[j]]
     /\ UNCHANGED now

(* The end of a session in need of attention shows for DoneDuration. *)
EndUrgent(k) ==
  /\ table[k].state \in {"waiting", "error", "unknown"}
  /\ table' = [table EXCEPT ![k].heard = now, ![k].endsAt = now + DoneDuration]
  /\ UNCHANGED now

EndQuietly(k) ==
  /\ table[k].state \in {"idle", "done", "executing"}
  /\ table' = [j \in DOMAIN table \ {k} |-> table[j]]
  /\ UNCHANGED now

(* What the next tick may make of a session that stays. *)
Aged(row) ==
  IF row.state = "done" /\ row.since + DoneDuration <= now + 1
  THEN {[row EXCEPT !.state = "idle", !.since = @ + DoneDuration]}
  ELSE {row} \cup
       {lost \in {[row EXCEPT !.state = "unknown", !.since = Never]} :
          row.state = "executing" /\ now + 1 - row.heard > StaleFloor}

Tick ==
  LET staying == {k \in DOMAIN table :
                    table[k].endsAt = Never \/ table[k].endsAt > now + 1}
  IN /\ now < MaxTime
     /\ now' = now + 1
     /\ DOMAIN table' = staying
     /\ table' = [k \in staying |-> table'[k]]
     /\ \A k \in staying : table'[k] \in Aged(table[k])

Restart ==
  /\ table' = << >>
  /\ UNCHANGED now

Next ==
  \/ \E k \in Key :
       \/ \E ev \in NormalizedEventType \ {"session_ended"} : Receive(k, ev)
       \/ k \in DOMAIN table /\ (EndUrgent(k) \/ EndQuietly(k))
  \/ Tick
  \/ Restart

Spec == Init /\ [][Next]_vars
=============================================================================
