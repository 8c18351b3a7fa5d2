------------------------------ MODULE Sessions ------------------------------
(* The session manager of src/server/internal/sessions: the in-memory table
   that POST /events writes (Apply) and GET /state reads (Snapshot), both under
   one mutex, so each call is one step.  Time-based changes have no timer of
   their own: a call first reconciles the table with the clock it reads under
   the lock.  The server may stop and start again at any time, with an empty
   table.                                                                    *)
EXTENDS SessionTable

CONSTANTS Tool, SessionID,
          MaxTime,      \* bound: the clock stops here
          MaxRestarts   \* bound: restarts of the server in a behaviour

ASSUME BoundAssumption == MaxTime \in Nat /\ MaxRestarts \in Nat

VARIABLES now,       \* the clock Manager.now reads
          sessions,  \* Manager.sessions, from keys to rows
          updatedAt, \* Manager.updatedAt
          restarts   \* how often the server has been started anew

vars == <<now, sessions, updatedAt, restarts>>

Key == Tool \X SessionID
Event == [key : Key, eventID : EventId, event : NormalizedEventType]

TypeOK ==
  /\ now \in Nat
  /\ updatedAt \in Nat
  /\ restarts \in Nat
  /\ DOMAIN sessions \subseteq Key
  /\ sessions \in [DOMAIN sessions -> SessionRecord]

Init ==
  /\ now = 0
  /\ sessions = << >>
  /\ updatedAt = now
  /\ restarts = 0

-----------------------------------------------------------------------------

(* What a call finds once it has reconciled the table. *)
Live == reconcile(sessions, now)

(* Broken ReconciledAt: only an event counts as a change, or only a removal. *)
ReconciledAt_eventsOnly == updatedAt
ReconciledAt_removalsOnly ==
  IF DOMAIN Live # DOMAIN sessions THEN now ELSE updatedAt

ReconciledAt == IF Live # sessions THEN now ELSE updatedAt

Tracked(ev) == ev.key \in DOMAIN Live
Duplicate(ev) == Tracked(ev) /\ ev.eventID \in Live[ev.key].seenEventIDs

(* An accepted event is recorded on the row before it acts on it. *)
Received(ev, rec) == observe(markSeen(rec, ev.eventID), now)

ReceivedRow(ev) ==
  Received(ev, IF Tracked(ev) THEN Live[ev.key] ELSE create("unknown", now))

(* Broken Revived: a fresh start does not cancel the pending removal. *)
Revived_never(ev, rec) == rec

(* A session that says it is fresh has no removal ahead of it. *)
Revived(ev, rec) ==
  IF ev.event = "session_started" THEN [rec EXCEPT !.removeAt = NoTime] ELSE rec

-----------------------------------------------------------------------------
(* Apply, by what becomes of the event. *)

ApplyDuplicate(ev) ==
  /\ Duplicate(ev)
  /\ sessions' = Live
  /\ updatedAt' = ReconciledAt
  /\ UNCHANGED <<now, restarts>>

ApplyIgnored(ev) ==
  /\ ev.event = "session_ended"
  /\ ~ Tracked(ev)
  /\ sessions' = Live
  /\ updatedAt' = ReconciledAt
  /\ UNCHANGED <<now, restarts>>

ApplyStart(ev) ==
  /\ ev.event = "session_started"
  /\ ~ Tracked(ev)
  /\ sessions' = put(Live, ev.key, Received(ev, create("idle", now)))
  /\ updatedAt' = now
  /\ UNCHANGED <<now, restarts>>

ApplyEnd(ev) ==
  /\ ev.event = "session_ended"
  /\ Tracked(ev) /\ ~ Duplicate(ev)
  /\ sessions' =
       LET rec == ReceivedRow(ev)
       IN IF rec.state \in Urgent
          THEN put(Live, ev.key, scheduleRemoval(rec, now))
          ELSE delete(Live, ev.key)
  /\ updatedAt' = now
  /\ UNCHANGED <<now, restarts>>

ApplyTransition(ev) ==
  /\ ev.event # "session_ended"
  /\ ev.event = "session_started" => Tracked(ev)
  /\ ~ Duplicate(ev)
  /\ sessions' =
       LET rec  == ReceivedRow(ev)
           next == NextState(rec.state, ev.event)
       IN put(Live, ev.key, Revived(ev, setState(rec, next, now)))
  /\ updatedAt' = now
  /\ UNCHANGED <<now, restarts>>

Apply(ev) ==
  \/ ApplyDuplicate(ev)
  \/ ApplyIgnored(ev)
  \/ ApplyStart(ev)
  \/ ApplyEnd(ev)
  \/ ApplyTransition(ev)

Snapshot ==
  /\ sessions' = Live
  /\ updatedAt' = ReconciledAt
  /\ UNCHANGED <<now, restarts>>

Tick ==
  /\ now < MaxTime
  /\ now' = now + 1
  /\ UNCHANGED <<sessions, updatedAt, restarts>>

(* The process dies and a new one starts: the table is only in memory. *)
Restart ==
  /\ restarts < MaxRestarts
  /\ restarts' = restarts + 1
  /\ sessions' = << >>
  /\ updatedAt' = now
  /\ UNCHANGED now

Next ==
  \/ \E ev \in Event : Apply(ev)
  \/ Snapshot
  \/ Tick
  \/ Restart

Spec == Init /\ [][Next]_vars

(* Time passes, and clients poll GET /state for as long as they run (the CLI
   each second, the tray each 300ms).  Nothing is assumed of events.         *)
FairSpec == Spec /\ WF_vars(Tick) /\ WF_vars(Snapshot)

-----------------------------------------------------------------------------
(* What holds of the table at every moment, reconciled or not. *)

(* A row holds a DONE deadline exactly while it is DONE, and the deadline is
   doneDuration after the instant the row shows as since: the window is
   neither restarted nor left behind by any way into or out of DONE.         *)
DoneWindow ==
  \A k \in DOMAIN sessions :
    LET rec == sessions[k]
    IN rec.doneExpiresAt = IF rec.state = "done" THEN rec.since + DoneDuration
                                                ELSE NoTime

(* Dates never run ahead of what GET /state reports as updatedAt, though DONE
   expiry dates itself from a deadline and staleness from the clock; a pending
   removal is at most doneDuration after the last event.                     *)
DatesOrdered ==
  /\ updatedAt <= now
  /\ \A k \in DOMAIN sessions :
       LET rec == sessions[k]
       IN /\ rec.since <= updatedAt
          /\ rec.lastEventAt <= updatedAt
          /\ rec.removeAt <= rec.lastEventAt + DoneDuration

(* The dedup set and the FIFO that bounds it never drift apart: same ids, no
   id queued twice, never longer than MaxSeenEventIDs.                       *)
DedupMemory ==
  \A k \in DOMAIN sessions :
    LET rec  == sessions[k]
        fifo == rec.seenEventIDFIFO
    IN /\ rec.seenEventIDs = Range(fifo)
       /\ Cardinality(rec.seenEventIDs) = Len(fifo)
       /\ Len(fifo) <= MaxSeenEventIDs

-----------------------------------------------------------------------------
(* What a step may do. *)

Kept == DOMAIN sessions \cap DOMAIN sessions'

(* No event was accepted for k in this step: an accepted one leaves a new id at
   the end of the FIFO, or a later arrival if the row was made anew.         *)
Unheard(k) ==
  /\ sessions'[k].seenEventIDFIFO = sessions[k].seenEventIDFIFO
  /\ sessions'[k].lastEventAt = sessions[k].lastEventAt

(* What a client sees of the table. *)
Visible == [k \in DOMAIN sessions |-> <<sessions[k].state, sessions[k].since>>]

ChangeIsDated ==
  Visible' # Visible => updatedAt' = now

(* updatedAt moves to the current time whenever the visible table changes, by
   an event, a deadline, staleness or a restart alike.                       *)
UpdatedAtCoversEveryChange == [][ChangeIsDated]_vars

CallSettles ==
  now' = now =>
    \A k \in DOMAIN sessions' :
      LET rec == sessions'[k]
      IN /\ rec.state = "done" => now < rec.since + DoneDuration
         /\ rec.removeAt # NoTime => now < rec.removeAt

(* Every call leaves a table in which nothing is overdue: no DONE past its
   window, no ended session past its removal, even though no timer runs.     *)
NothingOverdueAfterACall == [][CallSettles]_vars

Decay ==
  \A k \in Kept :
    LET rec  == sessions[k]
        next == sessions'[k]
    IN Unheard(k) =>
         \/ next.state = rec.state /\ next.since = rec.since
         \/ /\ rec.state = "done" /\ next.state = "idle"
            /\ next.since = rec.since + DoneDuration
         \/ rec.state = "executing" /\ next.state = "unknown"

(* Without an event of its own a session changes in two ways only: DONE to IDLE
   dated at the end of its window, and EXECUTING to UNKNOWN.  So WAITING and
   ERROR are never inferred and UNKNOWN does not resolve by itself.          *)
TimeOnlyDecays == [][Decay]_vars

StaleWhenSilent ==
  \A k \in Kept :
    LET rec     == sessions[k]
        gaps    == rec.recentIntervals
        silence == now - rec.lastEventAt
        short   == {i \in DOMAIN gaps : gaps[i] * StaleFactor < silence}
    IN (Unheard(k) /\ rec.state = "executing" /\ sessions'[k].state = "unknown") =>
         /\ silence > StaleFloor
         /\ Len(gaps) >= StaleMinSamples
         /\ 2 * Cardinality(short) >= Len(gaps)

(* Silence makes an EXECUTING session UNKNOWN only when it exceeds the floor
   and, times StaleFactor, at least half of the session's own recent gaps, of
   which there are enough: stated by counting, without a median.             *)
StaleOnlyWhenSilent == [][StaleWhenSilent]_vars

ExplicitAlarm ==
  \A k \in DOMAIN sessions' :
    LET before == IF k \in DOMAIN sessions THEN sessions[k].state ELSE "none"
        enters(state) == before # state /\ sessions'[k].state = state
        accepted(event) == \E ev \in Event : /\ ev.key = k /\ ev.event = event
                                            /\ ApplyTransition(ev)
    IN /\ enters("waiting") => accepted("permission_requested")
       /\ enters("error") => accepted("task_failed")

(* A session enters WAITING only by a permission_requested for it and ERROR
   only by a task_failed for it, accepted in that step.                      *)
AlarmsAreExplicit == [][ExplicitAlarm]_vars

GoneWhenEnded ==
  \A k \in DOMAIN sessions \ DOMAIN sessions' :
    \/ sessions[k].removeAt \in 0..now
    \/ /\ sessions[k].state \in {"idle", "done", "executing"}
       /\ \E ev \in Event : ev.key = k /\ ApplyEnd(ev)
    \/ restarts' # restarts

(* A session leaves the table only when it was ended: at once by a session_ended
   that finds it IDLE, DONE or EXECUTING, or at a removal scheduled earlier; or
   with the whole table when the server restarts.                            *)
GoneOnlyWhenEnded == [][GoneWhenEnded]_vars

-----------------------------------------------------------------------------
(* The lifecycle this manager implements. *)

(* A row as a client would find it by asking now; the date of an UNKNOWN row is
   that of the first call after the silence, and is not part of the promise. *)
Shown(rec) ==
  [state  |-> rec.state,
   since  |-> IF rec.state = "unknown" THEN NoTime ELSE rec.since,
   heard  |-> rec.lastEventAt,
   endsAt |-> rec.removeAt]

Lifecycle ==
  INSTANCE SessionLifecycle WITH table <- [k \in DOMAIN Live |-> Shown(Live[k])]

(* Lazy expiry cannot be told from timers that fire on time: whatever calls come
   when, and whatever they skip as duplicate or ignored, what a client would
   find goes through the steps of the lifecycle, each on its tick.           *)
ImplementsLifecycle == Lifecycle!Spec

-----------------------------------------------------------------------------
(* What eventually happens, as far as the clock runs. *)

(* DONE is ephemeral: every DONE period whose window closes within the run is
   left, although only reads by clients move the table.                      *)
DoneIsEphemeral ==
  \A k \in Key, t \in 0..(MaxTime - DoneDuration) :
    LET showing == /\ k \in DOMAIN sessions
                   /\ sessions[k].state = "done" /\ sessions[k].since = t
    IN showing ~> ~ showing

(* An ended session is forgotten: every scheduled removal that falls within the
   run is carried out, unless an event moves or cancels it first.            *)
EndedIsForgotten ==
  \A k \in Key, t \in 0..MaxTime :
    LET pending == k \in DOMAIN sessions /\ sessions[k].removeAt = t
    IN pending ~> ~ pending
=============================================================================
