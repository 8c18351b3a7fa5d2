--------------------------- MODULE SessionsHistory ---------------------------
(* Sessions with the record of what it has accepted, to tell what it remembers
   from what it was told.  The record only watches.                          *)
EXTENDS Sessions

CONSTANT MaxLog   \* bound: events accepted per session in a behaviour
ASSUME LogAssumption == MaxLog \in Nat

VARIABLES log,    \* ids accepted for each key since the server started
          birth,  \* Len(log) when the current row of the key was created
          step    \* what the last call was, and did

hvars == <<now, sessions, updatedAt, restarts, log, birth, step>>

(* The repeats that a row can still recognise. *)
Recent(k) ==
  {log[k][i] : i \in {i \in birth[k] + 1 .. Len(log[k]) :
                        i > Len(log[k]) - MaxSeenEventIDs}}

NoCall == [repeat |-> FALSE, recent |-> FALSE, untouched |-> TRUE]

HInit ==
  /\ Init
  /\ log = [k \in Key |-> << >>]
  /\ birth = [k \in Key |-> 0]
  /\ step = NoCall

Accepted(ev) == ~ Duplicate(ev) /\ (ev.event = "session_ended" => Tracked(ev))

HApply(ev) ==
  LET k == ev.key
  IN /\ Len(log[k]) < MaxLog
     /\ Apply(ev)
     /\ log' = IF Accepted(ev) THEN [log EXCEPT ![k] = Append(@, ev.eventID)] ELSE log
     /\ birth' = IF Tracked(ev) THEN birth ELSE [birth EXCEPT ![k] = Len(log[k])]
     /\ step' = [repeat    |-> ev.eventID \in Range(log[k]),
                 recent    |-> Tracked(ev) /\ ev.eventID \in Recent(k),
                 untouched |-> sessions' = Live]

HRestart ==
  /\ Restart
  /\ log' = [k \in Key |-> << >>]
  /\ birth' = [k \in Key |-> 0]
  /\ step' = NoCall

HNext ==
  \/ \E ev \in Event : HApply(ev)
  \/ (Snapshot \/ Tick) /\ step' = NoCall /\ UNCHANGED <<log, birth>>
  \/ HRestart

HSpec == HInit /\ [][HNext]_hvars

-----------------------------------------------------------------------------

(* A repeat of any of the last MaxSeenEventIDs events accepted by the row that is
   in the table is a no-op, whatever came in between: the FIFO forgets neither
   too early nor out of order.                                               *)
RecentRepeatIsNoOp == step.recent => step.untouched

(* docs/protocol.md:57 and PRD.md: a repeated eventId is a no-op, without
   exception.  It is applied again once the row that remembered it has left
   the table, or has accepted MaxSeenEventIDs others.                        *)
DuplicateIsNoOp == step.repeat => step.untouched

(* docs/protocol.md:165: a session that ends while WAITING, ERROR or UNKNOWN shows
   that state for doneDuration (a fresh session_started apart).  Any later
   event of the session that was still on its way replaces it at once.       *)
LingeringStateStaysVisible ==
  [][\A k \in DOMAIN sessions :
       LET rec == sessions[k]
       IN (rec.removeAt > now /\ restarts' = restarts) =>
            /\ k \in DOMAIN sessions'
            /\ sessions'[k].state = rec.state \/ sessions'[k].removeAt = NoTime]_hvars
=============================================================================
