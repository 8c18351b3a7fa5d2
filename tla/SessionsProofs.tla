--------------------------- MODULE SessionsProofs ---------------------------
(* Theorems of Sessions, for every value of its constants. *)
EXTENDS Sessions, SequenceTheorems, FiniteSetTheorems, WellFoundedInduction, TLAPS

-----------------------------------------------------------------------------
(* Types. *)

(* A row that may not have heard of an event yet, as create makes it. *)
Row == [state           : AgentState,
        since           : Nat,
        lastEventAt     : Nat \cup {NoTime},
        seenEventIDs    : SUBSET EventId,
        seenEventIDFIFO : Seq(EventId),
        recentIntervals : Seq(Nat),
        removeAt        : Nat \cup {NoTime},
        doneExpiresAt   : Nat \cup {NoTime}]

IsTable(S) == DOMAIN S \subseteq Key /\ S \in [DOMAIN S -> SessionRecord]

(* The next state is a state, for any state and any event. *)
LEMMA NextStateType ==
  ASSUME NEW cur \in AgentState, NEW ev \in NormalizedEventType
  PROVE  NextState(cur, ev) \in AgentState
BY DEF NextState, Unexpected, matrix, fromEvent, IntoExecuting, IntoWaiting,
       IntoDone, IntoError, AgentState, NormalizedEventType

LEMMA RecordIsRow == SessionRecord \subseteq Row
BY DEF SessionRecord, Row

LEMMA CreateType ==
  ASSUME NEW state \in AgentState, NEW t \in Nat
  PROVE  create(state, t) \in Row
BY DEF create, Row, NoTime

LEMMA SetStateType ==
  ASSUME NEW rec \in SessionRecord, NEW next \in AgentState, NEW t \in Nat
  PROVE  setState(rec, next, t) \in SessionRecord
<1> DEFINE since    == IF rec.state # next THEN t ELSE rec.since
           deadline == IF next = "done" THEN t + DoneDuration ELSE NoTime
<1>1. since \in Nat
  BY DEF SessionRecord
<1>2. deadline \in Nat \cup {NoTime}
  BY DurationAssumption
<1> HIDE DEF since, deadline
<1>3. [rec EXCEPT !.state = next, !.since = since, !.doneExpiresAt = deadline]
        \in SessionRecord
  BY <1>1, <1>2 DEF SessionRecord
<1> QED
  BY <1>3 DEF setState, since, deadline

LEMMA MarkSeenType ==
  ASSUME NEW rec \in Row, NEW id \in EventId
  PROVE  markSeen(rec, id) \in Row
<1> DEFINE fifo == Append(rec.seenEventIDFIFO, id)
<1>1. fifo \in Seq(EventId) /\ fifo # << >>
  BY AppendProperties DEF Row
<1>2. Tail(fifo) \in Seq(EventId)
  BY <1>1
<1> HIDE DEF fifo
<1> QED
  BY <1>1, <1>2 DEF markSeen, Row, fifo

LEMMA LastNType ==
  ASSUME NEW s \in Seq(Nat), NEW n \in Nat
  PROVE  lastN(s, n) \in Seq(Nat)
BY SubSeqProperties DEF lastN

LEMMA ObserveType ==
  ASSUME NEW rec \in Row, NEW t \in Nat
  PROVE  observe(rec, t) \in SessionRecord
<1> DEFINE gap == t - rec.lastEventAt
           grown == lastN(Append(rec.recentIntervals, gap), MaxIntervals)
<1>1. ASSUME gap > 0, rec.lastEventAt # NoTime
      PROVE  grown \in Seq(Nat)
  <2>1. gap \in Nat
    BY <1>1 DEF Row, NoTime
  <2>2. Append(rec.recentIntervals, gap) \in Seq(Nat)
    BY <2>1 DEF Row
  <2> QED
    BY <2>2, LastNType, CadenceAssumption
<1> HIDE DEF grown
<1> QED
  BY <1>1 DEF observe, Row, SessionRecord, grown

LEMMA ExpireType ==
  ASSUME NEW rec \in SessionRecord, NEW t \in Nat
  PROVE  expire(rec, t) \in SessionRecord
<1>1. CASE doneExpired(rec, t)
  <2>1. rec.doneExpiresAt \in Nat
    BY <1>1 DEF doneExpired, SessionRecord
  <2> QED
    BY <1>1, <2>1, SetStateType DEF expire, AgentState
<1>2. CASE ~ doneExpired(rec, t) /\ goneStale(rec, t)
  <2>1. setState(rec, "unknown", t) \in SessionRecord
    BY SetStateType DEF AgentState
  <2> QED
    BY <1>2, <2>1, EmptySeq DEF expire, SessionRecord
<1> QED
  BY <1>1, <1>2 DEF expire

LEMMA ReconcileType ==
  ASSUME NEW S, IsTable(S), NEW t \in Nat
  PROVE  IsTable(reconcile(S, t))
<1> DEFINE kept == {k \in DOMAIN S : ~ removalDue(S[k], t)}
<1>1. kept \subseteq DOMAIN S
  OBVIOUS
<1>2. \A k \in kept : expire(S[k], t) \in SessionRecord
  BY ExpireType DEF IsTable
<1> QED
  BY <1>1, <1>2 DEF reconcile, IsTable

LEMMA PutType ==
  ASSUME NEW S, IsTable(S), NEW k \in Key, NEW rec \in SessionRecord
  PROVE  IsTable(put(S, k, rec))
BY DEF put, IsTable

LEMMA DeleteType ==
  ASSUME NEW S, IsTable(S), NEW k
  PROVE  IsTable(delete(S, k))
BY DEF delete, Restrict, IsTable

LEMMA LiveType ==
  ASSUME TypeOK
  PROVE  IsTable(Live) /\ ReconciledAt \in Nat
BY ReconcileType DEF TypeOK, IsTable, Live, ReconciledAt

LEMMA ReceivedType ==
  ASSUME TypeOK, NEW ev \in Event
  PROVE  /\ ReceivedRow(ev) \in SessionRecord
         /\ \A state \in AgentState : Received(ev, create(state, now)) \in SessionRecord
<1>1. ev.eventID \in EventId /\ now \in Nat
  BY DEF Event, TypeOK
<1>2. \A rec \in Row : Received(ev, rec) \in SessionRecord
  BY <1>1, MarkSeenType, ObserveType DEF Received
<1>3. \A state \in AgentState : create(state, now) \in Row
  BY <1>1, CreateType
<1>4. CASE Tracked(ev)
  <2>1. Live[ev.key] \in Row
    BY <1>4, LiveType, RecordIsRow DEF Tracked, IsTable
  <2> QED
    BY <1>2, <1>3, <1>4, <2>1 DEF ReceivedRow
<1>5. CASE ~ Tracked(ev)
  <2>1. create("unknown", now) \in Row
    BY <1>3 DEF AgentState
  <2> QED
    BY <1>2, <1>3, <1>5, <2>1 DEF ReceivedRow
<1> QED
  BY <1>4, <1>5

LEMMA ScheduleRemovalType ==
  ASSUME NEW rec \in SessionRecord, NEW t \in Nat
  PROVE  scheduleRemoval(rec, t) \in SessionRecord
<1>1. t + DoneDuration \in Nat
  BY DurationAssumption
<1> QED
  BY <1>1 DEF scheduleRemoval, SessionRecord

(* The row an accepted event leaves behind. *)
LEMMA TransitionType ==
  ASSUME TypeOK, NEW ev \in Event
  PROVE  LET rec == ReceivedRow(ev)
         IN Revived(ev, setState(rec, NextState(rec.state, ev.event), now))
              \in SessionRecord
<1> DEFINE rec == ReceivedRow(ev)
           next == NextState(rec.state, ev.event)
<1>1. rec \in SessionRecord /\ now \in Nat
  BY ReceivedType DEF TypeOK
<1>2. next \in AgentState
  BY <1>1, NextStateType DEF SessionRecord, Event
<1>3. setState(rec, next, now) \in SessionRecord
  BY <1>1, <1>2, SetStateType
<1> HIDE DEF rec, next
<1> QED
  BY <1>3 DEF Revived, SessionRecord, rec, next

LEMMA TypeStep ==
  ASSUME TypeOK, [Next]_vars
  PROVE  TypeOK'
<1>1. IsTable(Live) /\ ReconciledAt \in Nat /\ now \in Nat /\ restarts \in Nat
  BY LiveType DEF TypeOK
<1>2. (now' \in Nat /\ updatedAt' \in Nat /\ restarts' \in Nat /\ IsTable(sessions'))
        => TypeOK'
  BY DEF TypeOK, IsTable
<1>3. ASSUME NEW ev \in Event, ApplyDuplicate(ev)
      PROVE  TypeOK'
  BY <1>1, <1>2, <1>3 DEF ApplyDuplicate
<1>4. ASSUME NEW ev \in Event, ApplyIgnored(ev)
      PROVE  TypeOK'
  BY <1>1, <1>2, <1>4 DEF ApplyIgnored
<1>5. ASSUME NEW ev \in Event, ApplyStart(ev)
      PROVE  TypeOK'
  <2>1. Received(ev, create("idle", now)) \in SessionRecord
    BY ReceivedType DEF AgentState
  <2>2. IsTable(put(Live, ev.key, Received(ev, create("idle", now))))
    BY <1>1, <2>1, PutType DEF Event
  <2> QED
    BY <1>1, <1>2, <1>5, <2>2 DEF ApplyStart
<1>6. ASSUME NEW ev \in Event, ApplyEnd(ev)
      PROVE  TypeOK'
  <2>1. scheduleRemoval(ReceivedRow(ev), now) \in SessionRecord
    BY <1>1, ReceivedType, ScheduleRemovalType
  <2>2. /\ IsTable(put(Live, ev.key, scheduleRemoval(ReceivedRow(ev), now)))
        /\ IsTable(delete(Live, ev.key))
    BY <1>1, <2>1, PutType, DeleteType DEF Event
  <2> QED
    BY <1>1, <1>2, <1>6, <2>2 DEF ApplyEnd
<1>7. ASSUME NEW ev \in Event, ApplyTransition(ev)
      PROVE  TypeOK'
  <2>1. PICK rec \in SessionRecord : sessions' = put(Live, ev.key, rec)
    BY <1>7, TransitionType DEF ApplyTransition
  <2>2. IsTable(put(Live, ev.key, rec))
    BY <1>1, PutType DEF Event
  <2> QED
    BY <1>1, <1>2, <1>7, <2>1, <2>2 DEF ApplyTransition
<1>8. CASE Snapshot
  BY <1>1, <1>2, <1>8 DEF Snapshot
<1>9. CASE Tick
  BY <1>1, <1>2, <1>9 DEF Tick, TypeOK, IsTable
<1>10. CASE Restart
  BY <1>1, <1>2, <1>10 DEF Restart, IsTable
<1>11. CASE UNCHANGED vars
  BY <1>11 DEF vars, TypeOK
<1> QED
  BY <1>3, <1>4, <1>5, <1>6, <1>7, <1>8, <1>9, <1>10, <1>11 DEF Next, Apply

(* Every reachable table is a table of well-formed rows. *)
THEOREM TypeCorrect == Spec => []TypeOK
<1>1. Init => TypeOK
  BY DEF Init, TypeOK
<1>2. TypeOK /\ [Next]_vars => TypeOK'
  BY TypeStep
<1> QED
  BY <1>1, <1>2, PTL DEF Spec

-----------------------------------------------------------------------------
(* Where the rows of the next table come from. *)

(* The three ways an accepted event leaves a row in the table. *)
StartedRow(ev) == Received(ev, create("idle", now))
EndedRow(ev) == scheduleRemoval(ReceivedRow(ev), now)
MovedRow(ev) ==
  Revived(ev, setState(ReceivedRow(ev), NextState(ReceivedRow(ev).state, ev.event), now))

LEMMA LiveRow ==
  ASSUME NEW k \in DOMAIN Live
  PROVE  /\ k \in DOMAIN sessions
         /\ ~ removalDue(sessions[k], now)
         /\ Live[k] = expire(sessions[k], now)
BY DEF Live, reconcile

LEMMA PutRow ==
  ASSUME NEW S, NEW j, NEW rec, NEW k \in DOMAIN put(S, j, rec)
  PROVE  IF k = j THEN put(S, j, rec)[k] = rec
                  ELSE k \in DOMAIN S /\ put(S, j, rec)[k] = S[k]
BY DEF put

(* Every row of the next table was there, or was there once reconciled, or is
   what one accepted event for its key has made.                             *)
LEMMA RowOrigin ==
  ASSUME [Next]_vars, NEW k \in DOMAIN sessions'
  PROVE  \/ /\ k \in DOMAIN sessions /\ sessions'[k] = sessions[k]
            /\ sessions' = sessions /\ updatedAt' = updatedAt
            /\ now' = now + 1 \/ UNCHANGED vars
         \/ /\ k \in DOMAIN Live /\ sessions'[k] = Live[k]
            /\ updatedAt' \in {now, ReconciledAt} /\ now' = now
         \/ \E ev \in Event :
              /\ ev.key = k /\ now' = now /\ updatedAt' = now
              /\ \/ ApplyStart(ev) /\ sessions'[k] = StartedRow(ev)
                 \/ /\ ApplyEnd(ev) /\ ReceivedRow(ev).state \in Urgent
                    /\ sessions'[k] = EndedRow(ev)
                 \/ ApplyTransition(ev) /\ sessions'[k] = MovedRow(ev)
<1>1. ASSUME NEW ev \in Event, ApplyDuplicate(ev) \/ ApplyIgnored(ev)
      PROVE  k \in DOMAIN Live /\ sessions'[k] = Live[k]
             /\ updatedAt' \in {now, ReconciledAt} /\ now' = now
  BY <1>1 DEF ApplyDuplicate, ApplyIgnored
<1>2. ASSUME NEW ev \in Event, ApplyStart(ev)
      PROVE  /\ now' = now /\ updatedAt' = now
             /\ \/ ev.key = k /\ sessions'[k] = StartedRow(ev)
                \/ k \in DOMAIN Live /\ sessions'[k] = Live[k]
  BY <1>2, PutRow DEF ApplyStart, StartedRow
<1>3. ASSUME NEW ev \in Event, ApplyEnd(ev)
      PROVE  /\ now' = now /\ updatedAt' = now
             /\ \/ /\ ev.key = k /\ ReceivedRow(ev).state \in Urgent
                   /\ sessions'[k] = EndedRow(ev)
                \/ k \in DOMAIN Live /\ sessions'[k] = Live[k]
  <2>1. CASE ReceivedRow(ev).state \in Urgent
    <3>1. sessions' = put(Live, ev.key, EndedRow(ev))
      BY <1>3, <2>1 DEF ApplyEnd, EndedRow
    <3> QED
      BY <1>3, <2>1, <3>1, PutRow DEF ApplyEnd
  <2>2. CASE ReceivedRow(ev).state \notin Urgent
    BY <1>3, <2>2 DEF ApplyEnd, delete, Restrict
  <2> QED
    BY <2>1, <2>2
<1>4. ASSUME NEW ev \in Event, ApplyTransition(ev)
      PROVE  /\ now' = now /\ updatedAt' = now
             /\ \/ ev.key = k /\ sessions'[k] = MovedRow(ev)
                \/ k \in DOMAIN Live /\ sessions'[k] = Live[k]
  <2>1. sessions' = put(Live, ev.key, MovedRow(ev))
    BY <1>4 DEF ApplyTransition, MovedRow
  <2> QED
    BY <1>4, <2>1, PutRow DEF ApplyTransition
<1>5. CASE Snapshot
  BY <1>5 DEF Snapshot
<1>6. CASE Tick \/ UNCHANGED vars
  BY <1>6 DEF Tick, vars
<1>7. CASE Restart
  BY <1>7 DEF Restart
<1> QED
  BY <1>1, <1>2, <1>3, <1>4, <1>5, <1>6, <1>7 DEF Next, Apply

(* What recording an arrival does and does not change. *)
LEMMA ReceivedKeeps ==
  ASSUME NEW ev \in Event, NEW rec \in Row
  PROVE  LET new == Received(ev, rec)
         IN /\ new.state = rec.state
            /\ new.since = rec.since
            /\ new.removeAt = rec.removeAt
            /\ new.doneExpiresAt = rec.doneExpiresAt
            /\ new.lastEventAt = now
BY DEF Received, observe, markSeen, Row

(* The row before the event acts: the live one, or a new one in UNKNOWN. *)
LEMMA ReceivedRowKeeps ==
  ASSUME TypeOK, NEW ev \in Event
  PROVE  LET new == ReceivedRow(ev)
             old == IF Tracked(ev) THEN Live[ev.key] ELSE create("unknown", now)
         IN /\ old \in Row
            /\ new.state = old.state
            /\ new.since = old.since
            /\ new.removeAt = old.removeAt
            /\ new.doneExpiresAt = old.doneExpiresAt
            /\ new.lastEventAt = now
<1> DEFINE old == IF Tracked(ev) THEN Live[ev.key] ELSE create("unknown", now)
<1>1. old \in Row
  BY LiveType, RecordIsRow, CreateType DEF Tracked, IsTable, TypeOK, AgentState
<1> QED
  BY <1>1, ReceivedKeeps DEF ReceivedRow

-----------------------------------------------------------------------------
(* The DONE window. *)

DoneRow(rec) ==
  rec.doneExpiresAt = IF rec.state = "done" THEN rec.since + DoneDuration ELSE NoTime

(* DONE is never entered from DONE. *)
LEMMA DoneIsEntered ==
  ASSUME NEW cur \in AgentState, NEW ev \in NormalizedEventType,
         NextState(cur, ev) = "done"
  PROVE  cur # "done"
BY DEF NextState, Unexpected, matrix, fromEvent, IntoExecuting, IntoWaiting,
       IntoDone, IntoError, AgentState, NormalizedEventType

LEMMA SetStateDone ==
  ASSUME NEW rec \in SessionRecord, NEW next \in AgentState, NEW t \in Nat,
         next = "done" => rec.state # "done"
  PROVE  DoneRow(setState(rec, next, t))
BY DEF DoneRow, setState, SessionRecord

LEMMA ExpireDone ==
  ASSUME NEW rec \in SessionRecord, NEW t \in Nat, DoneRow(rec)
  PROVE  DoneRow(expire(rec, t))
<1>1. CASE doneExpired(rec, t)
  <2>1. rec.doneExpiresAt \in Nat
    BY <1>1 DEF doneExpired, SessionRecord
  <2> QED
    BY <1>1, <2>1, SetStateDone DEF expire, AgentState
<1>2. CASE ~ doneExpired(rec, t) /\ goneStale(rec, t)
  <2>1. DoneRow(setState(rec, "unknown", t)) /\ setState(rec, "unknown", t) \in SessionRecord
    BY SetStateDone, SetStateType DEF AgentState
  <2> QED
    BY <1>2, <2>1 DEF expire, DoneRow, SessionRecord
<1> QED
  BY <1>1, <1>2 DEF expire

LEMMA DoneWindowStep ==
  ASSUME TypeOK, DoneWindow, [Next]_vars
  PROVE  DoneWindow'
<1>1. \A k \in DOMAIN sessions : sessions[k] \in SessionRecord /\ DoneRow(sessions[k])
  BY DEF TypeOK, DoneWindow, DoneRow
<1>2. \A k \in DOMAIN Live : DoneRow(Live[k])
  BY <1>1, LiveRow, ExpireDone DEF TypeOK
<1>3. ASSUME NEW ev \in Event
      PROVE  DoneRow(ReceivedRow(ev)) /\ DoneRow(StartedRow(ev))
  <2>1. DoneRow(create("unknown", now)) /\ DoneRow(create("idle", now))
    BY DEF DoneRow, create
  <2>2. create("idle", now) \in Row
    BY CreateType DEF AgentState, TypeOK
  <2>3. DoneRow(ReceivedRow(ev))
    BY <1>2, <2>1, ReceivedRowKeeps DEF DoneRow, Tracked
  <2>4. DoneRow(StartedRow(ev))
    BY <2>1, <2>2, ReceivedKeeps DEF DoneRow, StartedRow
  <2> QED
    BY <2>3, <2>4
<1>4. ASSUME NEW ev \in Event, ReceivedRow(ev).state \in Urgent
      PROVE  DoneRow(EndedRow(ev))
  BY <1>4, ReceivedType DEF DoneRow, EndedRow, scheduleRemoval, Urgent, SessionRecord
<1>5. ASSUME NEW ev \in Event
      PROVE  DoneRow(MovedRow(ev))
  <2> DEFINE rec == ReceivedRow(ev)
             next == NextState(rec.state, ev.event)
  <2>1. rec \in SessionRecord /\ now \in Nat
    BY ReceivedType DEF TypeOK
  <2>2. next \in AgentState /\ (next = "done" => rec.state # "done")
    BY <2>1, NextStateType, DoneIsEntered DEF SessionRecord, Event
  <2>3. DoneRow(setState(rec, next, now)) /\ setState(rec, next, now) \in SessionRecord
    BY <2>1, <2>2, SetStateDone, SetStateType
  <2> HIDE DEF rec, next
  <2> QED
    BY <2>3 DEF DoneRow, MovedRow, Revived, SessionRecord, rec, next
<1>6. ASSUME NEW k \in DOMAIN sessions'
      PROVE  DoneRow(sessions'[k])
  BY <1>1, <1>2, <1>3, <1>4, <1>5, RowOrigin
<1> QED
  BY <1>6 DEF DoneWindow, DoneRow

(* The DONE window is kept for every value of the constants: the deadline is
   neither lost nor left behind by expiry, staleness, events or the end.     *)
THEOREM DoneWindowHolds == Spec => []DoneWindow
<1>1. Init => DoneWindow
  BY DEF Init, DoneWindow
<1>2. TypeOK /\ DoneWindow /\ [Next]_vars => DoneWindow'
  BY DoneWindowStep
<1> QED
  BY <1>1, <1>2, TypeCorrect, PTL DEF Spec

-----------------------------------------------------------------------------
(* Dates. *)

DatedRow(rec, t) ==
  /\ rec.since <= t
  /\ rec.lastEventAt <= t
  /\ rec.removeAt <= rec.lastEventAt + DoneDuration

(* Reconciling dates a row no later than the updatedAt it leaves. *)
LEMMA LiveDates ==
  ASSUME TypeOK, DatesOrdered, NEW k \in DOMAIN Live
  PROVE  DatedRow(Live[k], ReconciledAt) /\ DatedRow(Live[k], now)
<1>1. /\ sessions[k] \in SessionRecord /\ DatedRow(sessions[k], updatedAt)
      /\ updatedAt \in Nat /\ now \in Nat /\ updatedAt <= now
  BY LiveRow DEF TypeOK, DatesOrdered, DatedRow
<1>2. DatedRow(sessions[k], now)
  BY <1>1 DEF DatedRow, SessionRecord
<1>3. ASSUME NEW next \in AgentState, NEW t \in Nat, t <= now
      PROVE  DatedRow(setState(sessions[k], next, t), now)
  BY <1>1, <1>2, <1>3 DEF DatedRow, setState, SessionRecord
<1>4. DatedRow(Live[k], now)
  <2>1. CASE doneExpired(sessions[k], now)
    <3>1. sessions[k].doneExpiresAt \in Nat /\ sessions[k].doneExpiresAt <= now
      BY <1>1, <2>1 DEF doneExpired, SessionRecord
    <3> QED
      BY <1>3, <2>1, <3>1, LiveRow DEF expire, AgentState
  <2>2. CASE ~ doneExpired(sessions[k], now) /\ goneStale(sessions[k], now)
    <3>1. /\ setState(sessions[k], "unknown", now) \in SessionRecord
          /\ DatedRow(setState(sessions[k], "unknown", now), now)
      BY <1>1, <1>3, SetStateType DEF AgentState
    <3> QED
      BY <2>2, <3>1, LiveRow DEF expire, DatedRow, SessionRecord
  <2>3. CASE ~ doneExpired(sessions[k], now) /\ ~ goneStale(sessions[k], now)
    BY <1>2, <2>3, LiveRow DEF expire
  <2> QED
    BY <2>1, <2>2, <2>3
<1>5. CASE Live = sessions
  BY <1>1, <1>4, <1>5 DEF ReconciledAt
<1>6. CASE Live # sessions
  BY <1>4, <1>6 DEF ReconciledAt
<1> QED
  BY <1>4, <1>5, <1>6

LEMMA DatesStep ==
  ASSUME TypeOK, DatesOrdered, [Next]_vars
  PROVE  DatesOrdered'
<1>1. /\ updatedAt \in Nat /\ now \in Nat /\ updatedAt <= now
      /\ updatedAt <= ReconciledAt /\ ReconciledAt <= now
  BY DEF TypeOK, DatesOrdered, ReconciledAt
<1>2. \A k \in DOMAIN sessions : DatedRow(sessions[k], updatedAt)
  BY DEF DatesOrdered, DatedRow
<1>3. updatedAt' <= now'
  BY <1>1 DEF Next, vars, Apply, ApplyDuplicate, ApplyIgnored, ApplyStart, ApplyEnd,
              ApplyTransition, Snapshot, Tick, Restart
<1>4. ASSUME NEW ev \in Event
      PROVE  /\ ReceivedRow(ev) \in SessionRecord
             /\ DatedRow(ReceivedRow(ev), now) /\ DatedRow(StartedRow(ev), now)
  <2>1. /\ DatedRow(ReceivedRow(ev), now) /\ ReceivedRow(ev) \in SessionRecord
    <3>1. CASE Tracked(ev)
      <4>1. DatedRow(Live[ev.key], now) /\ Live[ev.key] \in SessionRecord
        BY <3>1, LiveDates, LiveType DEF Tracked, IsTable
      <4>2. /\ ReceivedRow(ev).since = Live[ev.key].since
            /\ ReceivedRow(ev).removeAt = Live[ev.key].removeAt
            /\ ReceivedRow(ev).lastEventAt = now
        BY <3>1, ReceivedRowKeeps
      <4>3. Live[ev.key].lastEventAt + DoneDuration <= now + DoneDuration
        BY <1>1, <4>1, DurationAssumption DEF DatedRow, SessionRecord
      <4>4. /\ Live[ev.key].removeAt \in Int /\ Live[ev.key].lastEventAt \in Nat
            /\ Live[ev.key].removeAt <= Live[ev.key].lastEventAt + DoneDuration
        BY <4>1 DEF DatedRow, SessionRecord, NoTime
      <4> QED
        BY <1>1, <4>1, <4>2, <4>3, <4>4, ReceivedType, DurationAssumption DEF DatedRow
    <3>2. CASE ~ Tracked(ev)
      <4>1. /\ ReceivedRow(ev).since = now /\ ReceivedRow(ev).removeAt = NoTime
            /\ ReceivedRow(ev).lastEventAt = now
        BY <3>2, ReceivedRowKeeps DEF create
      <4> QED
        BY <1>1, <4>1, ReceivedType, DurationAssumption DEF DatedRow, NoTime
    <3> QED
      BY <3>1, <3>2
  <2>2. create("idle", now) \in Row
    BY <1>1, CreateType DEF AgentState
  <2>3. /\ StartedRow(ev).since = now /\ StartedRow(ev).removeAt = NoTime
        /\ StartedRow(ev).lastEventAt = now
    BY <2>2, ReceivedKeeps DEF StartedRow, create
  <2>4. DatedRow(StartedRow(ev), now)
    BY <1>1, <2>3, DurationAssumption DEF DatedRow, NoTime
  <2> QED
    BY <2>1, <2>4
<1>5. ASSUME NEW ev \in Event
      PROVE  DatedRow(EndedRow(ev), now) /\ DatedRow(MovedRow(ev), now)
  <2> DEFINE rec == ReceivedRow(ev)
             next == NextState(rec.state, ev.event)
  <2>1. rec \in SessionRecord /\ DatedRow(rec, now) /\ rec.lastEventAt = now
    BY <1>4, ReceivedRowKeeps
  <2>2. next \in AgentState
    BY <2>1, NextStateType DEF SessionRecord, Event
  <2>3. setState(rec, next, now) \in SessionRecord
    BY <1>1, <2>1, <2>2, SetStateType
  <2>4. DatedRow(setState(rec, next, now), now)
    BY <1>1, <2>1 DEF DatedRow, setState, SessionRecord
  <2> HIDE DEF rec, next
  <2>5. DatedRow(Revived(ev, setState(rec, next, now)), now)
    BY <2>3, <2>4, DurationAssumption DEF DatedRow, Revived, SessionRecord, NoTime
  <2>6. DatedRow(scheduleRemoval(rec, now), now)
    BY <1>1, <2>1, DurationAssumption DEF DatedRow, scheduleRemoval, SessionRecord
  <2> QED
    BY <2>5, <2>6 DEF EndedRow, MovedRow, rec, next
<1>6. ASSUME NEW k \in DOMAIN sessions'
      PROVE  DatedRow(sessions'[k], updatedAt')
  BY <1>2, <1>4, <1>5, LiveDates, RowOrigin
<1> QED
  BY <1>3, <1>6 DEF DatesOrdered, DatedRow

(* No row is dated later than the updatedAt that GET /state would report with it,
   although expiry is dated from a deadline and found by a later call.       *)
THEOREM DatesOrderedHolds == Spec => []DatesOrdered
<1>1. Init => DatesOrdered
  BY DEF Init, DatesOrdered
<1>2. TypeOK /\ DatesOrdered /\ [Next]_vars => DatesOrdered'
  BY DatesStep
<1> QED
  BY <1>1, <1>2, TypeCorrect, PTL DEF Spec

-----------------------------------------------------------------------------
(* The dedup memory. *)

(* DedupMemory is not inductive: to cut the queue and the set alike one must know
   that no id is queued twice.                                               *)
MemoryRow(rec) ==
  LET fifo == rec.seenEventIDFIFO
  IN /\ rec.seenEventIDs = Range(fifo)
     /\ \A i, j \in 1..Len(fifo) : fifo[i] = fifo[j] => i = j
     /\ IsFiniteSet(rec.seenEventIDs)
     /\ Cardinality(rec.seenEventIDs) = Len(fifo)
     /\ Len(fifo) <= MaxSeenEventIDs

MemoryInv == \A k \in DOMAIN sessions : MemoryRow(sessions[k])

(* Queueing a new id keeps the queue free of repeats and adds it to the set. *)
LEMMA AppendMemory ==
  ASSUME NEW fifo \in Seq(EventId), NEW id \in EventId, id \notin Range(fifo),
         \A i, j \in 1..Len(fifo) : fifo[i] = fifo[j] => i = j
  PROVE  LET new == Append(fifo, id)
         IN /\ Range(new) = Range(fifo) \cup {id}
            /\ \A i, j \in 1..Len(new) : new[i] = new[j] => i = j
<1> DEFINE new == Append(fifo, id)
<1>1. /\ Len(new) = Len(fifo) + 1 /\ new \in Seq(EventId)
      /\ \A i \in 1..Len(fifo) : new[i] = fifo[i]
      /\ new[Len(fifo) + 1] = id
  BY AppendProperties
<1>2. /\ DOMAIN new = 1..Len(fifo) + 1 /\ DOMAIN fifo = 1..Len(fifo) /\ Len(fifo) \in Nat
  BY <1>1
<1> HIDE DEF new
<1>3. \A i \in 1..Len(fifo) : fifo[i] # id
  BY <1>2 DEF Range
<1>4. Range(new) = Range(fifo) \cup {id}
  BY <1>1, <1>2 DEF Range
<1>5. \A i, j \in 1..Len(new) : new[i] = new[j] => i = j
  BY <1>1, <1>2, <1>3
<1> QED
  BY <1>4, <1>5 DEF new

(* Cutting the oldest id takes it, and only it, out of the set. *)
LEMMA TailMemory ==
  ASSUME NEW fifo \in Seq(EventId), fifo # << >>,
         \A i, j \in 1..Len(fifo) : fifo[i] = fifo[j] => i = j
  PROVE  /\ Range(Tail(fifo)) = Range(fifo) \ {Head(fifo)}
         /\ Head(fifo) \in Range(fifo)
         /\ \A i, j \in 1..Len(Tail(fifo)) : Tail(fifo)[i] = Tail(fifo)[j] => i = j
<1> DEFINE tail == Tail(fifo)
<1>1. /\ tail \in Seq(EventId) /\ Len(tail) = Len(fifo) - 1
      /\ \A i \in 1..Len(tail) : tail[i] = fifo[i + 1]
  BY HeadTailProperties
<1>2. /\ DOMAIN tail = 1..Len(tail) /\ DOMAIN fifo = 1..Len(fifo)
      /\ Len(fifo) \in Nat /\ Len(fifo) > 0 /\ Head(fifo) = fifo[1]
  BY <1>1
<1> HIDE DEF tail
<1>3. \A i \in 1..Len(tail) : i + 1 \in 1..Len(fifo) /\ tail[i] # fifo[1]
  BY <1>1, <1>2
<1>4. \A i \in 2..Len(fifo) : i - 1 \in 1..Len(tail) /\ tail[i - 1] = fifo[i]
  BY <1>1, <1>2
<1>5. Range(tail) \subseteq Range(fifo) \ {fifo[1]}
  BY <1>1, <1>2, <1>3 DEF Range
<1>6. Range(fifo) \ {fifo[1]} \subseteq Range(tail)
  <2> SUFFICES ASSUME NEW i \in 1..Len(fifo), fifo[i] # fifo[1]
               PROVE  fifo[i] \in Range(tail)
    BY <1>2 DEF Range
  <2>1. i \in 2..Len(fifo)
    BY <1>2
  <2> QED
    BY <1>2, <1>4, <2>1 DEF Range
<1>7. fifo[1] \in Range(fifo)
  BY <1>2 DEF Range
<1>8. \A i, j \in 1..Len(tail) : tail[i] = tail[j] => i = j
  BY <1>1, <1>2, <1>3
<1> QED
  BY <1>2, <1>5, <1>6, <1>7, <1>8 DEF tail

(* Remembering an event not seen before keeps set and queue together, and, when
   there is any memory, makes the queue another one.                         *)
LEMMA MarkSeenMemory ==
  ASSUME NEW rec \in Row, NEW id \in EventId, id \notin rec.seenEventIDs,
         MemoryRow(rec)
  PROVE  /\ MemoryRow(markSeen(rec, id))
         /\ MaxSeenEventIDs > 0 =>
              markSeen(rec, id).seenEventIDFIFO # rec.seenEventIDFIFO
<1> DEFINE fifo == rec.seenEventIDFIFO
           new  == Append(fifo, id)
           ids  == rec.seenEventIDs \cup {id}
<1>1. /\ fifo \in Seq(EventId) /\ Len(fifo) \in Nat /\ id \notin Range(fifo)
      /\ \A i, j \in 1..Len(fifo) : fifo[i] = fifo[j] => i = j
      /\ Len(fifo) <= MaxSeenEventIDs
  BY DEF MemoryRow, Row
<1>2. /\ new \in Seq(EventId) /\ new # << >> /\ Len(new) = Len(fifo) + 1
      /\ new[Len(fifo) + 1] = id
  BY <1>1, AppendProperties
<1>3. /\ Range(new) = ids
      /\ \A i, j \in 1..Len(new) : new[i] = new[j] => i = j
  BY <1>1, AppendMemory DEF MemoryRow
<1>4. IsFiniteSet(ids) /\ Cardinality(ids) = Len(new)
  BY <1>2, FS_AddElement DEF MemoryRow
<1>5. CASE Len(new) > MaxSeenEventIDs
  <2>1. /\ Tail(new) \in Seq(EventId) /\ Len(Tail(new)) = Len(fifo)
        /\ \A i \in 1..Len(fifo) : Tail(new)[i] = new[i + 1]
    BY <1>2, HeadTailProperties
  <2>2. /\ Range(Tail(new)) = ids \ {Head(new)} /\ Head(new) \in ids
        /\ \A i, j \in 1..Len(Tail(new)) : Tail(new)[i] = Tail(new)[j] => i = j
    BY <1>2, <1>3, TailMemory
  <2>3. /\ IsFiniteSet(ids \ {Head(new)})
        /\ Cardinality(ids \ {Head(new)}) = Len(Tail(new))
    <3>1. /\ IsFiniteSet(ids \ {Head(new)})
          /\ Cardinality(ids \ {Head(new)}) = Cardinality(ids) - 1
      <4> HIDE DEF ids, new
      <4> QED
        BY <1>4, <2>2, FS_RemoveElement
    <3> HIDE DEF ids, new, fifo
    <3> QED
      BY <1>1, <1>2, <1>4, <2>1, <3>1
  <2>4. /\ markSeen(rec, id).seenEventIDs = ids \ {Head(new)}
        /\ markSeen(rec, id).seenEventIDFIFO = Tail(new)
    BY <1>5 DEF markSeen, Row
  <2>5. MaxSeenEventIDs > 0 => Tail(new) # fifo
    <3>1. SUFFICES ASSUME MaxSeenEventIDs > 0
                   PROVE  Tail(new) # fifo
      OBVIOUS
    <3>2. Len(fifo) \in 1..Len(fifo)
      BY <1>1, <1>2, <1>5, <3>1, DedupAssumption
    <3>3. Tail(new)[Len(fifo)] = id
      BY <1>2, <2>1, <3>2
    <3>4. fifo[Len(fifo)] \in Range(fifo)
      BY <1>1, <3>2 DEF Range
    <3> QED
      BY <1>1, <3>3, <3>4
  <2> HIDE DEF fifo, new, ids
  <2> QED
    BY <1>1, <2>1, <2>2, <2>3, <2>4, <2>5 DEF MemoryRow, fifo
<1>6. CASE ~ Len(new) > MaxSeenEventIDs
  <2>1. /\ markSeen(rec, id).seenEventIDs = ids
        /\ markSeen(rec, id).seenEventIDFIFO = new
    BY <1>6 DEF markSeen, Row
  <2>2. Len(new) <= MaxSeenEventIDs /\ new # fifo
    BY <1>1, <1>2, <1>6, DedupAssumption
  <2> HIDE DEF fifo, new, ids
  <2> QED
    BY <1>3, <1>4, <2>1, <2>2 DEF MemoryRow, fifo
<1> QED
  BY <1>5, <1>6

(* Nothing but an accepted event touches the memory of a row. *)
LEMMA MemoryKept ==
  /\ \A rec \in SessionRecord, next \in AgentState, t \in Nat :
       LET new == setState(rec, next, t)
       IN new.seenEventIDs = rec.seenEventIDs /\ new.seenEventIDFIFO = rec.seenEventIDFIFO
  /\ \A rec \in SessionRecord, t \in Nat :
       LET new == scheduleRemoval(rec, t)
       IN new.seenEventIDs = rec.seenEventIDs /\ new.seenEventIDFIFO = rec.seenEventIDFIFO
  /\ \A rec \in Row, t \in Nat :
       LET new == observe(rec, t)
       IN new.seenEventIDs = rec.seenEventIDs /\ new.seenEventIDFIFO = rec.seenEventIDFIFO
<1>1. \A rec \in SessionRecord, next \in AgentState, t \in Nat :
        LET new == setState(rec, next, t)
        IN new.seenEventIDs = rec.seenEventIDs /\ new.seenEventIDFIFO = rec.seenEventIDFIFO
  BY DEF setState, SessionRecord
<1>2. \A rec \in SessionRecord, t \in Nat :
        LET new == scheduleRemoval(rec, t)
        IN new.seenEventIDs = rec.seenEventIDs /\ new.seenEventIDFIFO = rec.seenEventIDFIFO
  BY DEF scheduleRemoval, SessionRecord
<1>3. \A rec \in Row, t \in Nat :
        LET new == observe(rec, t)
        IN new.seenEventIDs = rec.seenEventIDs /\ new.seenEventIDFIFO = rec.seenEventIDFIFO
  BY DEF observe, Row
<1> QED
  BY <1>1, <1>2, <1>3

(* Reconciling a row keeps its memory, its last arrival and its removal, and makes
   of its state and date what the table says time may make of them.          *)
LEMMA ExpireKeeps ==
  ASSUME NEW rec \in SessionRecord, NEW t \in Nat
  PROVE  LET new == expire(rec, t)
         IN /\ new.seenEventIDs = rec.seenEventIDs
            /\ new.seenEventIDFIFO = rec.seenEventIDFIFO
            /\ new.lastEventAt = rec.lastEventAt
            /\ new.removeAt = rec.removeAt
            /\ \/ /\ ~ doneExpired(rec, t)
                  /\ new.state = rec.state /\ new.since = rec.since
                  /\ new.doneExpiresAt = rec.doneExpiresAt
               \/ /\ doneExpired(rec, t)
                  /\ new.state = "idle" /\ new.since = rec.doneExpiresAt
               \/ rec.state = "executing" /\ new.state = "unknown"
<1>1. CASE doneExpired(rec, t)
  BY <1>1 DEF expire, doneExpired, setState, SessionRecord
<1>2. CASE ~ doneExpired(rec, t) /\ goneStale(rec, t)
  <2>1. setState(rec, "unknown", t) \in SessionRecord
    BY SetStateType DEF AgentState
  <2>2. LET new == setState(rec, "unknown", t)
        IN /\ new.seenEventIDs = rec.seenEventIDs
           /\ new.seenEventIDFIFO = rec.seenEventIDFIFO
           /\ new.lastEventAt = rec.lastEventAt
           /\ new.removeAt = rec.removeAt
           /\ new.state = "unknown"
    BY DEF setState, SessionRecord
  <2> QED
    BY <1>2, <2>1, <2>2 DEF expire, goneStale, SessionRecord
<1>3. CASE ~ doneExpired(rec, t) /\ ~ goneStale(rec, t)
  BY <1>3 DEF expire
<1> QED
  BY <1>1, <1>2, <1>3

(* An accepted event is one its row does not remember. *)
LEMMA ReceivedMemory ==
  ASSUME TypeOK, MemoryInv, NEW ev \in Event, ~ Duplicate(ev)
  PROVE  /\ MemoryRow(ReceivedRow(ev))
         /\ \A state \in AgentState : MemoryRow(Received(ev, create(state, now)))
         /\ (Tracked(ev) /\ MaxSeenEventIDs > 0) =>
              ReceivedRow(ev).seenEventIDFIFO # Live[ev.key].seenEventIDFIFO
<1>1. ev.eventID \in EventId /\ now \in Nat
  BY DEF Event, TypeOK
<1>2. ASSUME NEW rec \in Row, MemoryRow(rec), ev.eventID \notin rec.seenEventIDs
      PROVE  /\ MemoryRow(Received(ev, rec))
             /\ MaxSeenEventIDs > 0 =>
                  Received(ev, rec).seenEventIDFIFO # rec.seenEventIDFIFO
  <2>1. markSeen(rec, ev.eventID) \in Row
    BY <1>1, MarkSeenType
  <2>2. /\ MemoryRow(markSeen(rec, ev.eventID))
        /\ MaxSeenEventIDs > 0 =>
             markSeen(rec, ev.eventID).seenEventIDFIFO # rec.seenEventIDFIFO
    BY <1>1, <1>2, MarkSeenMemory
  <2> QED
    BY <1>1, <2>1, <2>2, MemoryKept DEF Received, MemoryRow
<1>3. ASSUME NEW state \in AgentState
      PROVE  create(state, now) \in Row /\ MemoryRow(create(state, now))
             /\ ev.eventID \notin create(state, now).seenEventIDs
  BY <1>1, CreateType, FS_EmptySet, DedupAssumption DEF create, MemoryRow, Range
<1>4. CASE Tracked(ev)
  <2>1. Live[ev.key] \in Row /\ ev.eventID \notin Live[ev.key].seenEventIDs
    BY <1>4, LiveType, RecordIsRow DEF Tracked, Duplicate, IsTable
  <2>2. MemoryRow(Live[ev.key])
    BY <1>1, <1>4, LiveRow, ExpireKeeps DEF MemoryInv, MemoryRow, TypeOK, Tracked
  <2> QED
    BY <1>2, <1>3, <1>4, <2>1, <2>2 DEF ReceivedRow
<1>5. CASE ~ Tracked(ev)
  BY <1>2, <1>3, <1>5 DEF ReceivedRow, AgentState
<1> QED
  BY <1>4, <1>5

LEMMA MovedMemory ==
  ASSUME TypeOK, NEW ev \in Event
  PROVE  /\ EndedRow(ev).seenEventIDs = ReceivedRow(ev).seenEventIDs
         /\ EndedRow(ev).seenEventIDFIFO = ReceivedRow(ev).seenEventIDFIFO
         /\ MovedRow(ev).seenEventIDs = ReceivedRow(ev).seenEventIDs
         /\ MovedRow(ev).seenEventIDFIFO = ReceivedRow(ev).seenEventIDFIFO
<1> DEFINE rec == ReceivedRow(ev)
           next == NextState(rec.state, ev.event)
           moved == setState(rec, next, now)
<1>1. rec \in SessionRecord /\ now \in Nat
  BY ReceivedType DEF TypeOK
<1>2. next \in AgentState
  BY <1>1, NextStateType DEF SessionRecord, Event
<1>3. /\ moved \in SessionRecord
      /\ moved.seenEventIDs = rec.seenEventIDs
      /\ moved.seenEventIDFIFO = rec.seenEventIDFIFO
  BY <1>1, <1>2, SetStateType, MemoryKept
<1>4. /\ scheduleRemoval(rec, now).seenEventIDs = rec.seenEventIDs
      /\ scheduleRemoval(rec, now).seenEventIDFIFO = rec.seenEventIDFIFO
  BY <1>1, MemoryKept
<1> HIDE DEF moved
<1>5. /\ Revived(ev, moved).seenEventIDs = moved.seenEventIDs
      /\ Revived(ev, moved).seenEventIDFIFO = moved.seenEventIDFIFO
  BY <1>3 DEF Revived, SessionRecord
<1> QED
  BY <1>3, <1>4, <1>5 DEF EndedRow, MovedRow, moved

LEMMA MemoryStep ==
  ASSUME TypeOK, MemoryInv, [Next]_vars
  PROVE  MemoryInv'
<1>1. \A k \in DOMAIN Live : MemoryRow(Live[k])
  BY LiveRow, ExpireKeeps DEF MemoryInv, MemoryRow, TypeOK
<1>2. ASSUME NEW ev \in Event, ApplyStart(ev)
      PROVE  MemoryRow(StartedRow(ev))
  BY <1>2, ReceivedMemory DEF ApplyStart, Duplicate, StartedRow, AgentState
<1>3. ASSUME NEW ev \in Event, ApplyEnd(ev) \/ ApplyTransition(ev)
      PROVE  MemoryRow(EndedRow(ev)) /\ MemoryRow(MovedRow(ev))
  <2>1. MemoryRow(ReceivedRow(ev))
    BY <1>3, ReceivedMemory DEF ApplyEnd, ApplyTransition
  <2> QED
    BY <2>1, MovedMemory DEF MemoryRow
<1>4. ASSUME NEW k \in DOMAIN sessions'
      PROVE  MemoryRow(sessions'[k])
  BY <1>1, <1>2, <1>3, RowOrigin DEF MemoryInv
<1> QED
  BY <1>4 DEF MemoryInv

(* The strengthening holds in every reachable state: no row queues an id twice. *)
THEOREM MemoryInvHolds == Spec => []MemoryInv
<1>1. Init => MemoryInv
  BY DEF Init, MemoryInv
<1>2. TypeOK /\ MemoryInv /\ [Next]_vars => MemoryInv'
  BY MemoryStep
<1> QED
  BY <1>1, <1>2, TypeCorrect, PTL DEF Spec

(* Set and queue of seen event ids agree and stay within the bound, whatever the
   bound, the number of ids and the order in which they come.                *)
THEOREM DedupMemoryHolds == Spec => []DedupMemory
<1>1. MemoryInv => DedupMemory
  BY DEF MemoryInv, MemoryRow, DedupMemory
<1> QED
  BY <1>1, MemoryInvHolds, PTL

-----------------------------------------------------------------------------
(* What a step may do. *)

LEMMA WaitingIsRequested ==
  ASSUME NEW cur \in AgentState, NEW ev \in NormalizedEventType
  PROVE  /\ NextState(cur, ev) = "waiting" => ev = "permission_requested"
         /\ NextState(cur, ev) = "error" => ev = "task_failed"
BY DEF NextState, Unexpected, matrix, fromEvent, IntoExecuting, IntoWaiting,
       IntoDone, IntoError, AgentState, NormalizedEventType

(* States of the rows an accepted event leaves. *)
LEMMA AcceptedStates ==
  ASSUME TypeOK, NEW ev \in Event
  PROVE  /\ StartedRow(ev).state = "idle"
         /\ EndedRow(ev).state = ReceivedRow(ev).state
         /\ MovedRow(ev).state = NextState(ReceivedRow(ev).state, ev.event)
         /\ NextState(ReceivedRow(ev).state, ev.event) \in AgentState
<1> DEFINE rec == ReceivedRow(ev)
           next == NextState(rec.state, ev.event)
<1>1. rec \in SessionRecord /\ now \in Nat
  BY ReceivedType DEF TypeOK
<1>2. next \in AgentState
  BY <1>1, NextStateType DEF SessionRecord, Event
<1>3. setState(rec, next, now) \in SessionRecord /\ setState(rec, next, now).state = next
  <2>1. setState(rec, next, now) \in SessionRecord
    BY <1>1, <1>2, SetStateType
  <2> HIDE DEF next, rec
  <2>2. setState(rec, next, now).state = next
    BY <1>1 DEF setState, SessionRecord
  <2> QED
    BY <2>1, <2>2
<1>4. create("idle", now) \in Row
  BY <1>1, CreateType DEF AgentState
<1>5. StartedRow(ev).state = "idle"
  BY <1>4, ReceivedKeeps DEF StartedRow, create
<1>6. EndedRow(ev).state = rec.state
  BY <1>1 DEF EndedRow, scheduleRemoval, SessionRecord
<1> HIDE DEF next, rec
<1>7. Revived(ev, setState(rec, next, now)).state = next
  BY <1>3 DEF Revived, SessionRecord
<1> QED
  BY <1>2, <1>5, <1>6, <1>7 DEF MovedRow, next, rec

LEMMA AlarmsStep ==
  ASSUME TypeOK, Next, NEW k \in DOMAIN sessions',
         NEW state \in {"waiting", "error"}, sessions'[k].state = state,
         k \in DOMAIN sessions => sessions[k].state # state
  PROVE  \E ev \in Event :
           /\ ev.key = k /\ ApplyTransition(ev)
           /\ ev.event = IF state = "waiting" THEN "permission_requested" ELSE "task_failed"
<1>1. k \in DOMAIN Live => k \in DOMAIN sessions /\ Live[k].state # state
  <2> SUFFICES ASSUME k \in DOMAIN Live
               PROVE  k \in DOMAIN sessions /\ Live[k].state # state
    OBVIOUS
  <2>1. k \in DOMAIN sessions /\ sessions[k] \in SessionRecord
    BY LiveRow DEF TypeOK
  <2> QED
    BY <2>1, LiveRow, ExpireKeeps DEF TypeOK
<1>2. PICK ev \in Event :
        /\ ev.key = k
        /\ \/ ApplyStart(ev) /\ sessions'[k] = StartedRow(ev)
           \/ ApplyEnd(ev) /\ sessions'[k] = EndedRow(ev)
           \/ ApplyTransition(ev) /\ sessions'[k] = MovedRow(ev)
  BY <1>1, RowOrigin
<1>3. ~ ApplyStart(ev) \/ sessions'[k] # StartedRow(ev)
  BY AcceptedStates
<1>4. ~ ApplyEnd(ev) \/ sessions'[k] # EndedRow(ev)
  BY <1>1, <1>2, AcceptedStates, ReceivedRowKeeps DEF ApplyEnd, Tracked
<1>5. ApplyTransition(ev) /\ NextState(ReceivedRow(ev).state, ev.event) = state
  BY <1>2, <1>3, <1>4, AcceptedStates
<1>6. ReceivedRow(ev).state \in AgentState /\ ev.event \in NormalizedEventType
  BY ReceivedType DEF SessionRecord, Event
<1> QED
  BY <1>2, <1>5, <1>6, WaitingIsRequested

(* WAITING and ERROR are never inferred: no silence, deadline, read or restart of
   the server brings one about, whatever the tuning.                         *)
THEOREM AlarmsAreExplicitHolds == Spec => AlarmsAreExplicit
<1>1. ASSUME TypeOK, Next, NEW k \in DOMAIN sessions'
      PROVE  LET before == IF k \in DOMAIN sessions THEN sessions[k].state ELSE "none"
                 enters(state) == before # state /\ sessions'[k].state = state
                 accepted(event) == \E ev \in Event : /\ ev.key = k /\ ev.event = event
                                                     /\ ApplyTransition(ev)
             IN /\ enters("waiting") => accepted("permission_requested")
                /\ enters("error") => accepted("task_failed")
  <2> DEFINE before == IF k \in DOMAIN sessions THEN sessions[k].state ELSE "none"
  <2>1. ASSUME before # "waiting", sessions'[k].state = "waiting"
        PROVE  \E ev \in Event : /\ ev.key = k /\ ev.event = "permission_requested"
                                 /\ ApplyTransition(ev)
    <3>1. k \in DOMAIN sessions => sessions[k].state # "waiting"
      BY <2>1
    <3> QED
      BY <1>1, <2>1, <3>1, AlarmsStep
  <2>2. ASSUME before # "error", sessions'[k].state = "error"
        PROVE  \E ev \in Event : /\ ev.key = k /\ ev.event = "task_failed"
                                 /\ ApplyTransition(ev)
    <3>1. k \in DOMAIN sessions => sessions[k].state # "error"
      BY <2>2
    <3> QED
      BY <1>1, <2>2, <3>1, AlarmsStep
  <2> QED
    BY <2>1, <2>2
<1>2. TypeOK /\ [Next]_vars => [ExplicitAlarm]_vars
  BY <1>1 DEF ExplicitAlarm
<1> QED
  BY <1>2, TypeCorrect, PTL DEF Spec, AlarmsAreExplicit

(* Every visible change moves updatedAt to the time of the call that made it. *)
THEOREM UpdatedAtHolds == Spec => UpdatedAtCoversEveryChange
<1>1. ASSUME Next, Visible' # Visible
      PROVE  updatedAt' = now
  <2>1. sessions' # sessions
    BY <1>1 DEF Visible
  <2>2. ASSUME sessions' = Live, updatedAt' = ReconciledAt
        PROVE  updatedAt' = now
    BY <2>1, <2>2 DEF ReconciledAt
  <2>3. ASSUME NEW ev \in Event, Apply(ev)
        PROVE  updatedAt' = now
    BY <2>2, <2>3 DEF Apply, ApplyDuplicate, ApplyIgnored, ApplyStart, ApplyEnd,
                      ApplyTransition
  <2> QED
    BY <1>1, <2>1, <2>2, <2>3 DEF Next, Snapshot, Tick, Restart
<1>2. [Next]_vars => [ChangeIsDated]_vars
  BY <1>1 DEF ChangeIsDated
<1> QED
  BY <1>2, PTL DEF Spec, UpdatedAtCoversEveryChange

(* A session is only forgotten when it was ended, or with all others. *)
THEOREM GoneOnlyWhenEndedHolds == Spec => GoneOnlyWhenEnded
<1>1. ASSUME TypeOK, Next, NEW k \in DOMAIN sessions \ DOMAIN sessions'
      PROVE  \/ sessions[k].removeAt \in 0..now
             \/ /\ sessions[k].state \in {"idle", "done", "executing"}
                /\ \E ev \in Event : ev.key = k /\ ApplyEnd(ev)
             \/ restarts' # restarts
  <2>1. sessions[k] \in SessionRecord /\ now \in Nat
    BY <1>1 DEF TypeOK
  <2>2. CASE k \notin DOMAIN Live
    <3>1. removalDue(sessions[k], now)
      BY <2>2 DEF Live, reconcile
    <3> QED
      BY <2>1, <3>1 DEF removalDue, SessionRecord
  <2>3. CASE k \in DOMAIN Live
    <3>1. ASSUME NEW ev \in Event, ApplyEnd(ev)
          PROVE  ev.key = k /\ ReceivedRow(ev).state \notin Urgent
      <4>1. ReceivedRow(ev).state \notin Urgent
        BY <1>1, <2>3, <3>1 DEF ApplyEnd, put
      <4> QED
        BY <1>1, <2>3, <3>1, <4>1 DEF ApplyEnd, delete, Restrict
    <3>2. ASSUME NEW ev \in Event, ApplyEnd(ev)
          PROVE  sessions[k].state \in {"idle", "done", "executing"}
      <4>1. Live[k].state \notin Urgent
        BY <1>1, <3>1, <3>2, ReceivedRowKeeps DEF ApplyEnd
      <4>2. Live[k].state = sessions[k].state
            \/ sessions[k].state \in {"done", "executing"}
        BY <1>1, <2>1, <2>3, LiveRow, ExpireKeeps DEF doneExpired
      <4> QED
        BY <2>1, <4>1, <4>2 DEF Urgent, SessionRecord, AgentState
    <3>3. ASSUME NEW ev \in Event, Apply(ev)
          PROVE  ApplyEnd(ev)
      BY <1>1, <2>3, <3>3 DEF Apply, ApplyDuplicate, ApplyIgnored, ApplyStart,
                              ApplyTransition, put
    <3>4. ~ Snapshot /\ ~ Tick
      BY <1>1, <2>3 DEF Snapshot, Tick
    <3>5. ASSUME Restart
          PROVE  restarts' # restarts
      BY <1>1, <3>5 DEF Restart, TypeOK
    <3> QED
      BY <1>1, <3>1, <3>2, <3>3, <3>4, <3>5 DEF Next
  <2> QED
    BY <2>2, <2>3
<1>2. TypeOK /\ [Next]_vars => [GoneWhenEnded]_vars
  BY <1>1 DEF GoneWhenEnded
<1> QED
  BY <1>2, TypeCorrect, PTL DEF Spec, GoneOnlyWhenEnded

LEMMA CallSettlesStep ==
  ASSUME TypeOK, DoneWindow, DoneDuration > 0, Next, ~ UNCHANGED vars, now' = now,
         NEW k \in DOMAIN sessions'
  PROVE  /\ sessions'[k].state = "done" => now < sessions'[k].since + DoneDuration
         /\ sessions'[k].removeAt # NoTime => now < sessions'[k].removeAt
<1> DEFINE Timely(rec) ==
             /\ rec.state = "done" => now < rec.since + DoneDuration
             /\ rec.removeAt # NoTime => now < rec.removeAt
<1>1. now \in Nat /\ DoneDuration \in Nat
  BY DurationAssumption DEF TypeOK
<1>2. ASSUME NEW j \in DOMAIN Live
      PROVE  Timely(Live[j])
  <2>1. /\ sessions[j] \in SessionRecord /\ DoneRow(sessions[j])
        /\ ~ removalDue(sessions[j], now) /\ Live[j] = expire(sessions[j], now)
    BY LiveRow DEF TypeOK, DoneWindow, DoneRow
  <2>2. Live[j].removeAt # NoTime => now < Live[j].removeAt
    <3>1. Live[j].removeAt = sessions[j].removeAt
      BY <1>1, <2>1, ExpireKeeps
    <3>2. sessions[j].removeAt \in Nat \cup {NoTime}
      BY <2>1 DEF SessionRecord
    <3> QED
      BY <1>1, <2>1, <3>1, <3>2 DEF removalDue, NoTime
  <2>3. Live[j].state = "done" =>
          /\ sessions[j].state = "done" /\ Live[j].since = sessions[j].since
          /\ ~ doneExpired(sessions[j], now)
    BY <1>1, <2>1, ExpireKeeps
  <2>4. Live[j].state = "done" => now < Live[j].since + DoneDuration
    BY <1>1, <2>1, <2>3 DEF doneExpired, DoneRow, SessionRecord, NoTime
  <2> QED
    BY <2>2, <2>4
<1>3. ASSUME NEW ev \in Event
      PROVE  ReceivedRow(ev).removeAt # NoTime => now < ReceivedRow(ev).removeAt
  <2>1. CASE Tracked(ev)
    BY <1>2, <2>1, ReceivedRowKeeps DEF Tracked
  <2>2. CASE ~ Tracked(ev)
    BY <2>2, ReceivedRowKeeps DEF create
  <2> QED
    BY <2>1, <2>2
<1>4. ASSUME NEW ev \in Event
      PROVE  Timely(StartedRow(ev))
  <2>1. create("idle", now) \in Row
    BY <1>1, CreateType DEF AgentState
  <2>2. StartedRow(ev).removeAt = NoTime /\ StartedRow(ev).state = "idle"
    BY <2>1, ReceivedKeeps DEF StartedRow, create
  <2> QED
    BY <2>2
<1>5. ASSUME NEW ev \in Event, ReceivedRow(ev).state \in Urgent
      PROVE  Timely(EndedRow(ev))
  <2>1. ReceivedRow(ev) \in SessionRecord
    BY ReceivedType
  <2>2. EndedRow(ev).removeAt = now + DoneDuration
    BY <2>1 DEF EndedRow, scheduleRemoval, SessionRecord
  <2>3. EndedRow(ev).state # "done"
    BY <1>5, AcceptedStates DEF Urgent
  <2> QED
    BY <1>1, <2>2, <2>3
<1>6. ASSUME NEW ev \in Event
      PROVE  Timely(MovedRow(ev))
  <2> DEFINE rec == ReceivedRow(ev)
             next == NextState(rec.state, ev.event)
             moved == setState(rec, next, now)
  <2>1. rec \in SessionRecord
    BY ReceivedType
  <2>2. next \in AgentState /\ (next = "done" => rec.state # "done")
    BY <2>1, NextStateType, DoneIsEntered DEF SessionRecord, Event
  <2>3. rec.removeAt # NoTime => now < rec.removeAt
    BY <1>3
  <2> HIDE DEF next, rec
  <2>4. moved \in SessionRecord
    BY <1>1, <2>1, <2>2, SetStateType
  <2>5. /\ moved.removeAt = rec.removeAt /\ moved.state = next
        /\ next = "done" => moved.since = now
    BY <2>1, <2>2 DEF setState, SessionRecord
  <2> HIDE DEF moved
  <2>6. LET row == Revived(ev, moved)
        IN /\ row.state = moved.state /\ row.since = moved.since
           /\ row.removeAt \in {moved.removeAt, NoTime}
    BY <2>4 DEF Revived, SessionRecord
  <2>7. Timely(Revived(ev, moved))
    BY <1>1, <2>3, <2>5, <2>6
  <2> QED
    BY <2>7 DEF MovedRow, moved, next, rec
<1>7. ~ (now' = now + 1)
  BY <1>1
<1> QED
  BY <1>2, <1>4, <1>5, <1>6, <1>7, RowOrigin

(* With a positive doneDuration no call leaves an expired DONE or an ended session
   past its removal in the table, though nothing but calls looks at the clock. *)
THEOREM NothingOverdueHolds ==
  ASSUME DoneDuration > 0
  PROVE  Spec => NothingOverdueAfterACall
<1>1. TypeOK /\ DoneWindow /\ [Next]_vars => [CallSettles]_vars
  BY CallSettlesStep DEF CallSettles
<1> QED
  BY <1>1, TypeCorrect, DoneWindowHolds, PTL DEF Spec, NothingOverdueAfterACall

(* An ended session is heard of again only before its removal. *)
PendingInv == \A k \in DOMAIN sessions :
                sessions[k].removeAt # NoTime
                  => sessions[k].lastEventAt < sessions[k].removeAt

LEMMA PendingStep ==
  ASSUME TypeOK, PendingInv, DoneDuration > 0, [Next]_vars
  PROVE  PendingInv'
<1> DEFINE Ahead(rec) == rec.removeAt # NoTime => rec.lastEventAt < rec.removeAt
<1>1. now \in Nat /\ DoneDuration \in Nat
  BY DurationAssumption DEF TypeOK
<1>2. ASSUME NEW j \in DOMAIN Live
      PROVE  /\ Ahead(Live[j])
             /\ Live[j].removeAt # NoTime => now < Live[j].removeAt
  <2>1. /\ sessions[j] \in SessionRecord /\ Ahead(sessions[j])
        /\ ~ removalDue(sessions[j], now) /\ Live[j] = expire(sessions[j], now)
    BY LiveRow DEF TypeOK, PendingInv
  <2> QED
    BY <1>1, <2>1, ExpireKeeps DEF removalDue, SessionRecord
<1>3. ASSUME NEW ev \in Event
      PROVE  /\ ReceivedRow(ev).removeAt # NoTime => now < ReceivedRow(ev).removeAt
             /\ ReceivedRow(ev).lastEventAt = now
  <2>1. CASE Tracked(ev)
    BY <1>2, <2>1, ReceivedRowKeeps DEF Tracked
  <2>2. CASE ~ Tracked(ev)
    BY <2>2, ReceivedRowKeeps DEF create
  <2> QED
    BY <2>1, <2>2
<1>4. ASSUME NEW ev \in Event
      PROVE  Ahead(StartedRow(ev)) /\ Ahead(EndedRow(ev)) /\ Ahead(MovedRow(ev))
  <2> DEFINE rec == ReceivedRow(ev)
             next == NextState(rec.state, ev.event)
             moved == setState(rec, next, now)
  <2>1. rec \in SessionRecord
    BY ReceivedType
  <2>2. Ahead(StartedRow(ev))
    <3>1. create("idle", now) \in Row
      BY <1>1, CreateType DEF AgentState
    <3> QED
      BY <3>1, ReceivedKeeps DEF StartedRow, create
  <2>3. Ahead(EndedRow(ev))
    <3>1. /\ EndedRow(ev).removeAt = now + DoneDuration
          /\ EndedRow(ev).lastEventAt = rec.lastEventAt
      BY <2>1 DEF EndedRow, scheduleRemoval, SessionRecord
    <3> QED
      BY <1>1, <1>3, <3>1
  <2>4. next \in AgentState
    BY <2>1, NextStateType DEF SessionRecord, Event
  <2>5. rec.lastEventAt = now /\ (rec.removeAt # NoTime => now < rec.removeAt)
    BY <1>3
  <2> HIDE DEF next, rec
  <2>6. /\ moved \in SessionRecord
        /\ moved.removeAt = rec.removeAt /\ moved.lastEventAt = rec.lastEventAt
    <3>1. moved \in SessionRecord
      BY <1>1, <2>1, <2>4, SetStateType
    <3>2. moved.removeAt = rec.removeAt /\ moved.lastEventAt = rec.lastEventAt
      BY <2>1 DEF setState, SessionRecord
    <3> QED
      BY <3>1, <3>2
  <2> HIDE DEF moved
  <2>7. Ahead(Revived(ev, moved))
    BY <2>5, <2>6 DEF Revived, SessionRecord
  <2> QED
    BY <2>2, <2>3, <2>7 DEF MovedRow, moved, next, rec
<1>5. ASSUME NEW k \in DOMAIN sessions'
      PROVE  Ahead(sessions'[k])
  BY <1>2, <1>4, RowOrigin DEF PendingInv
<1> QED
  BY <1>5 DEF PendingInv

(* Where no event was accepted the row is as it was, or as reconciled. *)
LEMMA UnheardRow ==
  ASSUME TypeOK, MemoryInv, PendingInv, MaxSeenEventIDs > 0,
         [Next]_vars, NEW k \in Kept, Unheard(k)
  PROVE  \/ sessions'[k] = sessions[k]
         \/ k \in DOMAIN Live /\ sessions'[k] = Live[k]
<1>1. /\ k \in DOMAIN sessions /\ k \in DOMAIN sessions'
      /\ sessions[k] \in SessionRecord /\ now \in Nat
  BY DEF Kept, TypeOK
<1>2. ASSUME NEW ev \in Event, ev.key = k,
             \/ ApplyStart(ev) /\ sessions'[k] = StartedRow(ev)
             \/ ApplyEnd(ev) /\ sessions'[k] = EndedRow(ev)
             \/ ApplyTransition(ev) /\ sessions'[k] = MovedRow(ev)
      PROVE  FALSE
  <2>1. CASE Tracked(ev)
    <3>1. Live[k].seenEventIDFIFO = sessions[k].seenEventIDFIFO
      BY <1>1, <1>2, <2>1, LiveRow, ExpireKeeps DEF Tracked
    <3>2. ~ Duplicate(ev) /\ ~ ApplyStart(ev)
      BY <1>2, <2>1 DEF ApplyStart, ApplyEnd, ApplyTransition
    <3>3. ReceivedRow(ev).seenEventIDFIFO # Live[k].seenEventIDFIFO
      BY <1>2, <2>1, <3>2, ReceivedMemory
    <3>4. sessions'[k].seenEventIDFIFO = ReceivedRow(ev).seenEventIDFIFO
      BY <1>2, <3>2, MovedMemory
    <3> QED
      BY <3>1, <3>3, <3>4 DEF Unheard
  <2>2. CASE ~ Tracked(ev)
    <3>1. removalDue(sessions[k], now)
      BY <1>1, <1>2, <2>2 DEF Tracked, Live, reconcile
    <3>2. sessions[k].lastEventAt < now
      BY <1>1, <3>1 DEF removalDue, PendingInv, SessionRecord
    <3>3. sessions'[k].lastEventAt = now
      <4>1. create("idle", now) \in Row
        BY <1>1, CreateType DEF AgentState
      <4>2. StartedRow(ev).lastEventAt = now
        BY <4>1, ReceivedKeeps DEF StartedRow
      <4>3. ~ ApplyEnd(ev)
        BY <2>2 DEF ApplyEnd
      <4>4. ReceivedRow(ev) \in SessionRecord /\ ReceivedRow(ev).lastEventAt = now
        BY ReceivedType, ReceivedRowKeeps
      <4>5. NextState(ReceivedRow(ev).state, ev.event) \in AgentState
        BY AcceptedStates
      <4> DEFINE moved == setState(ReceivedRow(ev),
                                   NextState(ReceivedRow(ev).state, ev.event), now)
      <4>6. moved \in SessionRecord
        BY <1>1, <4>4, <4>5, SetStateType
      <4>7. moved.lastEventAt = now
        BY <4>4 DEF setState, SessionRecord
      <4> HIDE DEF moved
      <4>8. Revived(ev, moved).lastEventAt = now
        BY <4>6, <4>7 DEF Revived, SessionRecord
      <4> QED
        BY <1>2, <4>2, <4>3, <4>8 DEF MovedRow, moved
    <3> QED
      BY <1>1, <3>2, <3>3 DEF Unheard, SessionRecord
  <2> QED
    BY <2>1, <2>2
<1> QED
  BY <1>1, <1>2, RowOrigin

LEMMA DecayStep ==
  ASSUME TypeOK, DoneWindow, MemoryInv, PendingInv, MaxSeenEventIDs > 0,
         [Next]_vars, NEW k \in Kept, Unheard(k)
  PROVE  \/ /\ sessions'[k].state = sessions[k].state
            /\ sessions'[k].since = sessions[k].since
         \/ /\ sessions[k].state = "done" /\ sessions'[k].state = "idle"
            /\ sessions'[k].since = sessions[k].since + DoneDuration
         \/ sessions[k].state = "executing" /\ sessions'[k].state = "unknown"
<1>1. /\ k \in DOMAIN sessions /\ k \in DOMAIN sessions'
      /\ sessions[k] \in SessionRecord /\ DoneRow(sessions[k]) /\ now \in Nat
  BY DEF Kept, TypeOK, DoneWindow, DoneRow
<1>2. CASE k \in DOMAIN Live /\ sessions'[k] = Live[k]
  <2>1. Live[k] = expire(sessions[k], now)
    BY <1>2, LiveRow
  <2>2. doneExpired(sessions[k], now) =>
          /\ sessions[k].state = "done"
          /\ sessions[k].doneExpiresAt = sessions[k].since + DoneDuration
    BY <1>1 DEF doneExpired, DoneRow
  <2> QED
    BY <1>1, <1>2, <2>1, <2>2, ExpireKeeps
<1> QED
  BY <1>1, <1>2, UnheardRow

(* For every tuning with a positive doneDuration and some dedup memory: time alone
   turns DONE into IDLE on its deadline and a silent EXECUTING into UNKNOWN, and
   changes nothing else of a session that stays.                             *)
THEOREM TimeOnlyDecaysHolds ==
  ASSUME DoneDuration > 0, MaxSeenEventIDs > 0
  PROVE  Spec => TimeOnlyDecays
<1>1. Init => PendingInv
  BY DEF Init, PendingInv
<1>2. TypeOK /\ PendingInv /\ [Next]_vars => PendingInv'
  BY PendingStep
<1>3. TypeOK /\ DoneWindow /\ MemoryInv /\ PendingInv /\ [Next]_vars => [Decay]_vars
  BY DecayStep DEF Decay
<1> QED
  BY <1>1, <1>2, <1>3, TypeCorrect, DoneWindowHolds, MemoryInvHolds, PTL
  DEF Spec, TimeOnlyDecays

-----------------------------------------------------------------------------
(* The cadence, and the silence it is measured against. *)

(* Every non-empty set of naturals has a least element. *)
LEMMA LeastExists ==
  ASSUME NEW S \in SUBSET Nat, S # {}
  PROVE  \E m \in S : \A n \in S : m <= n
<1> DEFINE R == OpToRel(<, Nat)
<1>1. PICK m \in S : \A n \in S : <<n, m>> \notin R
  <2>1. IsWellFoundedOn(R, Nat)
    BY NatLessThanWellFounded, Zenon
  <2> HIDE DEF R
  <2> QED
    BY <2>1, WFMin, Zenon
<1>2. \A n \in S : <<n, m>> \in Nat \X Nat
  OBVIOUS
<1>3. \A n \in S : ~ (n < m)
  BY <1>1, <1>2, Zenon DEF OpToRel
<1> QED
  BY <1>3

(* The cadence.  sorted is a CHOOSE: what it returns rests on the element that
   it describes being there.                                                 *)

UpTo(d, v) == {j \in DOMAIN d : d[j] <= v}
Below(d, v) == {j \in DOMAIN d : d[j] < v}

LEMMA CountOfGaps ==
  ASSUME NEW d \in Seq(Nat), NEW v
  PROVE  /\ IsFiniteSet(DOMAIN d) /\ Cardinality(DOMAIN d) = Len(d) /\ Len(d) \in Nat
         /\ IsFiniteSet(UpTo(d, v)) /\ Cardinality(UpTo(d, v)) \in Nat
         /\ IsFiniteSet(Below(d, v)) /\ Cardinality(Below(d, v)) \in Nat
<1>1. DOMAIN d = 1 .. Len(d) /\ Len(d) \in Nat
  OBVIOUS
<1>2. IsFiniteSet(DOMAIN d) /\ Cardinality(DOMAIN d) = Len(d)
  <2>1. \A n \in Nat : IsFiniteSet(1 .. n) /\ Cardinality(1 .. n) = n
    BY FS_Interval
  <2> QED
    BY <1>1, <2>1
<1>3. UpTo(d, v) \in SUBSET DOMAIN d /\ Below(d, v) \in SUBSET DOMAIN d
  BY DEF UpTo, Below
<1>4. IsFiniteSet(UpTo(d, v)) /\ IsFiniteSet(Below(d, v))
  BY <1>2, <1>3, FS_Subset
<1> QED
  BY <1>1, <1>2, <1>4, FS_CardinalityType

LEMMA LargestExists ==
  ASSUME NEW d \in Seq(Nat), d # << >>
  PROVE  \E v \in Range(d) : UpTo(d, v) = DOMAIN d
<1> DEFINE above(x) == {j \in DOMAIN d : d[j] > d[x]}
           counts == {Cardinality(above(x)) : x \in DOMAIN d}
<1>1. DOMAIN d = 1 .. Len(d) /\ Len(d) \in Nat /\ 1 \in DOMAIN d
      /\ \A x \in DOMAIN d : d[x] \in Nat
  OBVIOUS
<1>2. \A x \in DOMAIN d : IsFiniteSet(above(x)) /\ Cardinality(above(x)) \in Nat
  <2> TAKE x \in DOMAIN d
  <2>1. above(x) \in SUBSET DOMAIN d
    OBVIOUS
  <2>2. IsFiniteSet(above(x))
    BY <2>1, CountOfGaps, FS_Subset
  <2> QED
    BY <2>2, FS_CardinalityType
<1>3. PICK x \in DOMAIN d : \A y \in DOMAIN d : Cardinality(above(x)) <= Cardinality(above(y))
  <2>1. counts \in SUBSET Nat /\ counts # {}
    BY <1>1, <1>2
  <2> HIDE DEF counts
  <2>2. PICK m \in counts : \A n \in counts : m <= n
    BY <2>1, LeastExists
  <2> QED
    BY <2>2 DEF counts
<1>4. ASSUME NEW y \in DOMAIN d, d[y] > d[x]
      PROVE  FALSE
  <2>1. above(y) \in SUBSET above(x)
    BY <1>1, <1>4
  <2>2. y \in above(x) /\ y \notin above(y)
    BY <1>1, <1>4
  <2>3. IsFiniteSet(above(x)) /\ Cardinality(above(x)) <= Cardinality(above(y))
        /\ Cardinality(above(x)) \in Nat /\ Cardinality(above(y)) \in Nat
    BY <1>2, <1>3
  <2> HIDE DEF above
  <2>4. Cardinality(above(y)) <= Cardinality(above(x))
    BY <2>1, <2>3, FS_Subset
  <2>5. Cardinality(above(x)) = Cardinality(above(y))
    BY <2>3, <2>4
  <2>6. above(x) = above(y)
    BY <2>1, <2>3, <2>5, FS_Subset
  <2> QED
    BY <2>2, <2>6
<1>5. d[x] \in Range(d) /\ \A y \in DOMAIN d : d[y] <= d[x]
  BY <1>1, <1>4 DEF Range
<1> QED
  BY <1>5 DEF UpTo

(* The element at an index of the sorted window is one of the window, no more than
   index of them are less, and more than index are not greater.              *)
LEMMA SortedIs ==
  ASSUME NEW d \in Seq(Nat), NEW i \in Nat, i < Len(d)
  PROVE  /\ sorted(d, i) \in Range(d) /\ sorted(d, i) \in Nat
         /\ Cardinality(Below(d, sorted(d, i))) <= i
         /\ Cardinality(UpTo(d, sorted(d, i))) > i
<1> DEFINE enough == {v \in Nat : Cardinality(UpTo(d, v)) > i}
           P(v) == Cardinality(Below(d, v)) <= i /\ Cardinality(UpTo(d, v)) > i
<1>1. Range(d) \subseteq Nat /\ d # << >>
  <2>1. \A j \in DOMAIN d : d[j] \in Nat
    OBVIOUS
  <2>2. d # << >>
    BY EmptySeq
  <2> QED
    BY <2>1, <2>2 DEF Range
<1>2. PICK v \in enough : \A w \in enough : v <= w
  <2>1. PICK w \in Range(d) : UpTo(d, w) = DOMAIN d
    BY <1>1, LargestExists
  <2>2. w \in enough
    BY <1>1, <2>1, CountOfGaps
  <2> QED
    BY <2>2, LeastExists
<1>3. Cardinality(Below(d, v)) <= i
  <2>1. CASE v = 0
    <3>1. Below(d, v) = {}
      <4>1. \A j \in DOMAIN d : d[j] \in Nat
        OBVIOUS
      <4> QED
        BY <2>1, <4>1 DEF Below
    <3> QED
      BY <3>1, FS_EmptySet
  <2>2. CASE v # 0
    <3>1. v - 1 \in Nat /\ v - 1 \notin enough
      BY <1>2, <2>2
    <3>2. Below(d, v) = UpTo(d, v - 1)
      <4>1. \A j \in DOMAIN d : d[j] \in Nat
        OBVIOUS
      <4> QED
        BY <1>2, <4>1 DEF Below, UpTo
    <3>3. Cardinality(UpTo(d, v - 1)) \in Nat
      BY CountOfGaps
    <3> QED
      BY <3>1, <3>2, <3>3
  <2> QED
    BY <2>1, <2>2
<1>4. v \in Range(d)
  <2>1. ASSUME v \notin Range(d)
        PROVE  FALSE
    <3>1. \A j \in DOMAIN d : d[j] \in Nat /\ d[j] # v
      BY <2>1 DEF Range
    <3>2. Below(d, v) = UpTo(d, v)
      BY <1>2, <3>1 DEF Below, UpTo
    <3>3. Cardinality(UpTo(d, v)) \in Nat
      BY CountOfGaps
    <3> QED
      BY <1>2, <1>3, <3>2, <3>3
  <2> QED
    BY <2>1
<1>5. P(v)
  BY <1>2, <1>3
<1>6. sorted(d, i) = CHOOSE x \in Range(d) : P(x)
  BY DEF sorted, Below, UpTo
<1> HIDE DEF P
<1>7. sorted(d, i) \in Range(d) /\ P(sorted(d, i))
  BY <1>4, <1>5, <1>6
<1> QED
  BY <1>1, <1>7 DEF P

LEMMA HalfIs ==
  ASSUME NEW n \in Nat
  PROVE  /\ n \div 2 \in Nat
         /\ n % 2 = 1 => n = 2 * (n \div 2) + 1
         /\ n % 2 # 1 => n = 2 * (n \div 2)
OBVIOUS

(* The median is a length of time, and at least half of the gaps are no longer. *)
LEMMA MedianIs ==
  ASSUME NEW d \in Seq(Nat), d # << >>
  PROVE  /\ median(d) \in Nat
         /\ 2 * Cardinality(UpTo(d, median(d))) >= Len(d)
<1> DEFINE half == Len(d) \div 2
<1>1. /\ Len(d) \in Nat /\ Len(d) > 0 /\ half \in Nat
      /\ Len(d) % 2 = 1 => Len(d) = 2 * half + 1
      /\ Len(d) % 2 # 1 => Len(d) = 2 * half
  BY HalfIs, EmptySeq
<1> HIDE DEF half
<1>2. \A v : Cardinality(UpTo(d, v)) \in Nat /\ Cardinality(Below(d, v)) \in Nat
  BY CountOfGaps
<1>3. /\ sorted(d, half) \in Nat
      /\ Cardinality(UpTo(d, sorted(d, half))) > half
  BY <1>1, SortedIs
<1>4. CASE Len(d) % 2 = 1
  <2>1. median(d) = sorted(d, half)
    BY <1>4 DEF median, half
  <2> QED
    BY <1>1, <1>2, <1>3, <1>4, <2>1
<1>5. CASE Len(d) % 2 # 1
  <2> DEFINE a == sorted(d, half - 1)
             b == sorted(d, half)
  <2>1. half - 1 \in Nat /\ half - 1 < Len(d)
    BY <1>1, <1>5
  <2>2. /\ a \in Nat /\ Cardinality(UpTo(d, a)) > half - 1
        /\ Cardinality(Below(d, a)) <= half - 1
    BY <2>1, SortedIs
  <2>3. b \in Nat /\ Cardinality(UpTo(d, b)) > half
    BY <1>3
  <2>4. median(d) = (a + b) \div 2
    BY <1>5 DEF median, half
  <2> HIDE DEF a, b
  <2>5. a <= b
    <3>1. ASSUME b < a
          PROVE  FALSE
      <4>1. UpTo(d, b) \in SUBSET Below(d, a)
        <5>1. \A j \in DOMAIN d : d[j] \in Nat
          OBVIOUS
        <5> QED
          BY <2>2, <2>3, <3>1, <5>1 DEF UpTo, Below
      <4>2. Cardinality(UpTo(d, b)) <= Cardinality(Below(d, a))
        BY <4>1, CountOfGaps, FS_Subset
      <4> QED
        BY <1>1, <1>2, <2>2, <2>3, <4>2
    <3> QED
      BY <2>2, <2>3, <3>1
  <2>6. median(d) \in Nat /\ a <= median(d)
    BY <2>2, <2>3, <2>4, <2>5
  <2>7. UpTo(d, a) \in SUBSET UpTo(d, median(d))
    <3>1. \A j \in DOMAIN d : d[j] \in Nat
      OBVIOUS
    <3> QED
      BY <2>2, <2>6, <3>1 DEF UpTo
  <2>8. Cardinality(UpTo(d, a)) <= Cardinality(UpTo(d, median(d)))
    BY <2>7, CountOfGaps, FS_Subset
  <2>9. Len(d) = 2 * half
    BY <1>1, <1>5
  <2>10. Cardinality(UpTo(d, median(d))) \in Nat /\ Cardinality(UpTo(d, a)) \in Nat
    BY <1>2
  <2>11. 2 * Cardinality(UpTo(d, median(d))) >= 2 * half
    BY <1>1, <2>2, <2>8, <2>10
  <2> QED
    BY <2>6, <2>9, <2>11
<1> QED
  BY <1>4, <1>5

(* What silence is measured against. *)
LEMMA ThresholdIs ==
  ASSUME NEW rec \in SessionRecord, rec.recentIntervals # << >>
  PROVE  /\ threshold(rec) \in Nat
         /\ threshold(rec) >= StaleFloor
         /\ threshold(rec) >= median(rec.recentIntervals) * StaleFactor
<1>1. median(rec.recentIntervals) \in Nat
  BY MedianIs DEF SessionRecord
<1>2. median(rec.recentIntervals) * StaleFactor \in Nat
  BY <1>1, CadenceAssumption
<1> QED
  BY <1>2, DurationAssumption DEF threshold

LEMMA TimesGrows ==
  ASSUME NEW a \in Nat, NEW b \in Nat, NEW c \in Nat, a <= b
  PROVE  a * c <= b * c
<1>1. PICK e \in Nat : b = a + e
  <2>1. b - a \in Nat /\ b = a + (b - a)
    OBVIOUS
  <2> QED
    BY <2>1
<1>2. b * c = a * c + e * c /\ e * c \in Nat /\ a * c \in Nat
  BY <1>1
<1> QED
  BY <1>2

(* A session that goes stale has been silent for longer than the floor, and for
   longer than StaleFactor times at least half of its own recent gaps.       *)
LEMMA StaleIs ==
  ASSUME NEW rec \in SessionRecord, NEW t \in Nat, isStale(rec, t)
  PROVE  LET gaps    == rec.recentIntervals
             silence == t - rec.lastEventAt
             short   == {i \in DOMAIN gaps : gaps[i] * StaleFactor < silence}
         IN /\ silence > StaleFloor
            /\ Len(gaps) >= StaleMinSamples
            /\ 2 * Cardinality(short) >= Len(gaps)
<1> DEFINE gaps    == rec.recentIntervals
           silence == t - rec.lastEventAt
           short   == {i \in DOMAIN gaps : gaps[i] * StaleFactor < silence}
<1>1. gaps \in Seq(Nat) /\ rec.lastEventAt \in Nat /\ silence \in Int
  BY DEF SessionRecord
<1>2. Len(gaps) >= StaleMinSamples /\ silence > threshold(rec)
  BY DEF isStale
<1>3. gaps # << >> /\ Len(gaps) \in Nat
  BY <1>1, <1>2, CadenceAssumption, EmptySeq
<1>4. /\ threshold(rec) \in Nat /\ threshold(rec) >= StaleFloor
      /\ threshold(rec) >= median(gaps) * StaleFactor
  BY <1>3, ThresholdIs
<1>5. median(gaps) \in Nat /\ 2 * Cardinality(UpTo(gaps, median(gaps))) >= Len(gaps)
  BY <1>1, <1>3, MedianIs
<1> HIDE DEF gaps, silence
<1>6. ASSUME NEW i \in DOMAIN gaps, gaps[i] <= median(gaps)
      PROVE  gaps[i] * StaleFactor < silence
  <2>1. gaps[i] \in Nat /\ StaleFactor \in Nat
    BY <1>1, CadenceAssumption
  <2>2. gaps[i] * StaleFactor <= median(gaps) * StaleFactor
    BY <1>5, <1>6, <2>1, TimesGrows
  <2>3. gaps[i] * StaleFactor \in Nat /\ median(gaps) * StaleFactor \in Nat
    BY <1>5, <2>1
  <2> HIDE DEF gaps
  <2> QED
    BY <1>1, <1>2, <1>4, <2>2, <2>3
<1>7. UpTo(gaps, median(gaps)) \in SUBSET short /\ short \in SUBSET DOMAIN gaps
  BY <1>6 DEF UpTo
<1> HIDE DEF short
<1>8. IsFiniteSet(short)
  BY <1>1, <1>7, CountOfGaps, FS_Subset
<1>9. /\ Cardinality(UpTo(gaps, median(gaps))) <= Cardinality(short)
      /\ Cardinality(short) \in Nat /\ Cardinality(UpTo(gaps, median(gaps))) \in Nat
  BY <1>1, <1>7, <1>8, FS_Subset, FS_CardinalityType, CountOfGaps
<1>10. 2 * Cardinality(short) >= Len(gaps)
  BY <1>3, <1>5, <1>9
<1>11. silence > StaleFloor
  BY <1>1, <1>2, <1>4, DurationAssumption
<1> QED
  BY <1>2, <1>10, <1>11 DEF gaps, silence, short

(* For every tuning: silence makes an EXECUTING session UNKNOWN only beyond the
   floor and beyond StaleFactor times half of its own gaps.                  *)
THEOREM StaleOnlyWhenSilentHolds ==
  ASSUME DoneDuration > 0, MaxSeenEventIDs > 0
  PROVE  Spec => StaleOnlyWhenSilent
<1>1. ASSUME TypeOK, MemoryInv, PendingInv, Next, NEW k \in Kept, Unheard(k),
             sessions[k].state = "executing", sessions'[k].state = "unknown"
      PROVE  sessions[k] \in SessionRecord /\ now \in Nat /\ isStale(sessions[k], now)
  <2>1. k \in DOMAIN sessions /\ sessions[k] \in SessionRecord /\ now \in Nat
    BY <1>1 DEF Kept, TypeOK
  <2>2. k \in DOMAIN Live /\ sessions'[k] = Live[k]
    BY <1>1, UnheardRow
  <2>3. sessions'[k] = expire(sessions[k], now)
    BY <2>2, LiveRow
  <2> QED
    BY <1>1, <2>1, <2>3 DEF expire, doneExpired, goneStale
<1>2. TypeOK /\ MemoryInv /\ PendingInv /\ [Next]_vars => [StaleWhenSilent]_vars
  BY <1>1, StaleIs DEF StaleWhenSilent
<1>3. Init => PendingInv
  BY DEF Init, PendingInv
<1>4. TypeOK /\ PendingInv /\ [Next]_vars => PendingInv'
  BY PendingStep
<1> QED
  BY <1>2, <1>3, <1>4, TypeCorrect, MemoryInvHolds, PTL DEF Spec, StaleOnlyWhenSilent

-----------------------------------------------------------------------------
(* The refinement of SessionLifecycle. *)

(* What a client would find by asking now: the table the lifecycle speaks of. *)
Found == [k \in DOMAIN Live |-> Shown(Live[k])]

(* Nothing is due on a row. *)
Settled(rec, t) == ~ removalDue(rec, t) /\ ~ doneExpired(rec, t) /\ ~ goneStale(rec, t)

(* A call leaves every row settled, so that reconciling again changes nothing. *)
LEMMA ExpireSettles ==
  ASSUME NEW rec \in SessionRecord, NEW t \in Nat, ~ removalDue(rec, t)
  PROVE  Settled(expire(rec, t), t)
<1>1. ~ removalDue(expire(rec, t), t)
  BY ExpireKeeps DEF removalDue
<1>2. CASE doneExpired(rec, t)
  <2>1. expire(rec, t).state = "idle"
    BY <1>2, ExpireKeeps DEF doneExpired
  <2> QED
    BY <1>1, <2>1 DEF Settled, doneExpired, goneStale
<1>3. CASE ~ doneExpired(rec, t) /\ goneStale(rec, t)
  <2>1. expire(rec, t) = [setState(rec, "unknown", t) EXCEPT !.recentIntervals = << >>]
    BY <1>3 DEF expire
  <2>2. setState(rec, "unknown", t) \in SessionRecord
    BY SetStateType DEF AgentState
  <2>3. setState(rec, "unknown", t).state = "unknown"
    BY DEF setState, SessionRecord
  <2>4. expire(rec, t).state = "unknown"
    BY <2>1, <2>2, <2>3 DEF SessionRecord
  <2> QED
    BY <1>1, <2>4 DEF Settled, doneExpired, goneStale
<1>4. CASE ~ doneExpired(rec, t) /\ ~ goneStale(rec, t)
  <2>1. expire(rec, t) = rec
    BY <1>4 DEF expire
  <2> QED
    BY <1>1, <1>4, <2>1 DEF Settled
<1> QED
  BY <1>2, <1>3, <1>4

LEMMA LiveSettled ==
  ASSUME TypeOK, NEW k \in DOMAIN Live
  PROVE  Live[k] \in SessionRecord /\ Settled(Live[k], now)
<1>1. sessions[k] \in SessionRecord /\ now \in Nat
  BY LiveRow DEF TypeOK
<1> QED
  BY <1>1, LiveRow, LiveType, ExpireSettles DEF IsTable

LEMMA SettledTable ==
  ASSUME NEW S, NEW t, S = [k \in DOMAIN S |-> S[k]],
         \A k \in DOMAIN S : Settled(S[k], t)
  PROVE  reconcile(S, t) = S
<1>1. {k \in DOMAIN S : ~ removalDue(S[k], t)} = DOMAIN S
  BY DEF Settled
<1>2. \A k \in DOMAIN S : expire(S[k], t) = S[k]
  BY DEF Settled, expire
<1>3. reconcile(S, t) = [k \in DOMAIN S |-> expire(S[k], t)]
  BY <1>1 DEF reconcile
<1>4. [k \in DOMAIN S |-> expire(S[k], t)] = [k \in DOMAIN S |-> S[k]]
  BY <1>2
<1> QED
  BY <1>3, <1>4

(* An accepted event leaves a row on which nothing is due. *)
LEMMA AcceptedSettled ==
  ASSUME TypeOK, DoneDuration > 0, NEW rec \in SessionRecord, rec.lastEventAt = now,
         rec.removeAt # NoTime => now < rec.removeAt,
         rec.doneExpiresAt # NoTime => now < rec.doneExpiresAt
  PROVE  Settled(rec, now)
<1>1. now \in Nat
  BY DEF TypeOK
<1>2. ~ removalDue(rec, now)
  BY <1>1 DEF removalDue, SessionRecord
<1>3. ~ doneExpired(rec, now)
  BY <1>1 DEF doneExpired, SessionRecord
<1>4. ~ goneStale(rec, now)
  <2>1. ASSUME isStale(rec, now)
        PROVE  FALSE
    <3>1. now - rec.lastEventAt > StaleFloor
      BY <1>1, <2>1, StaleIs
    <3> QED
      BY <1>1, <3>1, DurationAssumption
  <2> QED
    BY <2>1 DEF goneStale
<1> QED
  BY <1>2, <1>3, <1>4 DEF Settled

(* The row of an event, as it acts: settled, and shown as the lifecycle says. *)
LEMMA ReceivedAhead ==
  ASSUME TypeOK, NEW ev \in Event
  PROVE  /\ ReceivedRow(ev) \in SessionRecord /\ ReceivedRow(ev).lastEventAt = now
         /\ ReceivedRow(ev).removeAt # NoTime => now < ReceivedRow(ev).removeAt
         /\ IF Tracked(ev)
            THEN LET old == Live[ev.key]
                 IN /\ ReceivedRow(ev).state = old.state
                    /\ ReceivedRow(ev).since = old.since
                    /\ ReceivedRow(ev).removeAt = old.removeAt
            ELSE /\ ReceivedRow(ev).state = "unknown"
                 /\ ReceivedRow(ev).removeAt = NoTime
<1>1. ReceivedRow(ev) \in SessionRecord /\ ReceivedRow(ev).lastEventAt = now
  BY ReceivedType, ReceivedRowKeeps
<1>2. CASE Tracked(ev)
  <2>1. Live[ev.key] \in SessionRecord /\ ~ removalDue(Live[ev.key], now)
    BY <1>2, LiveSettled DEF Tracked, Settled
  <2>2. Live[ev.key].removeAt # NoTime => now < Live[ev.key].removeAt
    BY <2>1 DEF removalDue, SessionRecord, TypeOK
  <2> QED
    BY <1>1, <1>2, <2>2, ReceivedRowKeeps
<1>3. CASE ~ Tracked(ev)
  BY <1>1, <1>3, ReceivedRowKeeps DEF create
<1> QED
  BY <1>2, <1>3

LEMMA StartedRowIs ==
  ASSUME TypeOK, DoneDuration > 0, NEW ev \in Event
  PROVE  /\ StartedRow(ev) \in SessionRecord /\ Settled(StartedRow(ev), now)
         /\ Shown(StartedRow(ev)) =
              [state |-> "idle", since |-> now, heard |-> now, endsAt |-> NoTime]
<1>1. now \in Nat /\ "idle" \in AgentState
  BY DEF TypeOK, AgentState
<1>2. create("idle", now) \in Row
  BY <1>1, CreateType
<1>3. StartedRow(ev) \in SessionRecord
  BY <1>1, ReceivedType DEF StartedRow
<1>4. /\ StartedRow(ev).state = "idle" /\ StartedRow(ev).since = now
      /\ StartedRow(ev).removeAt = NoTime /\ StartedRow(ev).doneExpiresAt = NoTime
      /\ StartedRow(ev).lastEventAt = now
  BY <1>2, ReceivedKeeps DEF StartedRow, create
<1> QED
  BY <1>3, <1>4, AcceptedSettled DEF Shown

(* A shown row is its four fields. *)
LEMMA RowIs ==
  ASSUME NEW a, NEW b, NEW c, NEW d,
         NEW r \in [state : {a}, since : {b}, heard : {c}, endsAt : {d}]
  PROVE  r = [state |-> a, since |-> b, heard |-> c, endsAt |-> d]
OBVIOUS

LEMMA EndedRowIs ==
  ASSUME TypeOK, DoneDuration > 0, NEW ev \in Event, Tracked(ev)
  PROVE  /\ EndedRow(ev) \in SessionRecord /\ Settled(EndedRow(ev), now)
         /\ Shown(EndedRow(ev)) =
              [Shown(Live[ev.key]) EXCEPT !.heard = now, !.endsAt = now + DoneDuration]
<1> DEFINE rec == ReceivedRow(ev)
           old == Live[ev.key]
<1>1. rec \in SessionRecord /\ rec.lastEventAt = now /\ now \in Nat
      /\ rec.state = old.state /\ rec.since = old.since
  BY ReceivedAhead DEF TypeOK
<1> HIDE DEF rec, old
<1>2. /\ scheduleRemoval(rec, now) \in SessionRecord
      /\ scheduleRemoval(rec, now).state = rec.state
      /\ scheduleRemoval(rec, now).since = rec.since
      /\ scheduleRemoval(rec, now).lastEventAt = now
      /\ scheduleRemoval(rec, now).removeAt = now + DoneDuration
      /\ scheduleRemoval(rec, now).doneExpiresAt = NoTime
  <2>1. now + DoneDuration \in Nat
    BY <1>1, DurationAssumption
  <2> QED
    BY <1>1, <2>1 DEF scheduleRemoval, SessionRecord
<1>3. EndedRow(ev) = scheduleRemoval(rec, now)
  BY DEF EndedRow, rec
<1>4. now < now + DoneDuration
  BY <1>1, DurationAssumption
<1>5. Settled(EndedRow(ev), now)
  BY <1>2, <1>3, <1>4, AcceptedSettled
<1>6. Shown(EndedRow(ev)) =
        [Shown(old) EXCEPT !.heard = now, !.endsAt = now + DoneDuration]
  <2> DEFINE since == IF old.state = "unknown" THEN NoTime ELSE old.since
  <2>1. Shown(old) = [state |-> old.state, since |-> since,
                      heard |-> old.lastEventAt, endsAt |-> old.removeAt]
    BY DEF Shown
  <2>2. Shown(EndedRow(ev)) = [state |-> old.state, since |-> since,
                               heard |-> now, endsAt |-> now + DoneDuration]
    BY <1>1, <1>2, <1>3 DEF Shown
  <2> HIDE DEF since
  <2> DEFINE shown == Shown(old)
             ended == [shown EXCEPT !.heard = now, !.endsAt = now + DoneDuration]
  <2>3. ended \in [state : {old.state}, since : {since}, heard : {now},
                   endsAt : {now + DoneDuration}]
    <3>1. shown = [state |-> old.state, since |-> since,
                   heard |-> old.lastEventAt, endsAt |-> old.removeAt]
      BY <2>1
    <3> HIDE DEF shown
    <3> QED
      BY <3>1
  <2> HIDE DEF ended
  <2>4. ended = [state |-> old.state, since |-> since,
                 heard |-> now, endsAt |-> now + DoneDuration]
    BY <2>3, RowIs
  <2> QED
    BY <2>2, <2>4 DEF ended, shown
<1> QED
  BY <1>2, <1>3, <1>5, <1>6 DEF old

LEMMA MovedRowKeeps ==
  ASSUME TypeOK, NEW ev \in Event
  PROVE  LET old  == ReceivedRow(ev)
             next == NextState(old.state, ev.event)
         IN /\ MovedRow(ev) \in SessionRecord
            /\ MovedRow(ev).state = next
            /\ MovedRow(ev).since = IF next = old.state THEN old.since ELSE now
            /\ MovedRow(ev).lastEventAt = now
            /\ MovedRow(ev).doneExpiresAt \in {NoTime, now + DoneDuration}
            /\ MovedRow(ev).removeAt =
                 IF ev.event = "session_started" THEN NoTime ELSE old.removeAt
<1> DEFINE rec == ReceivedRow(ev)
           next == NextState(rec.state, ev.event)
           moved == setState(rec, next, now)
<1>1. rec \in SessionRecord /\ rec.lastEventAt = now /\ now \in Nat
  BY ReceivedAhead DEF TypeOK
<1>2. next \in AgentState
  BY <1>1, NextStateType DEF SessionRecord, Event
<1> HIDE DEF rec, next
<1>3. moved \in SessionRecord
  BY <1>1, <1>2, SetStateType
<1>4. /\ moved.state = next /\ moved.since = IF next = rec.state THEN rec.since ELSE now
      /\ moved.lastEventAt = now /\ moved.removeAt = rec.removeAt
      /\ moved.doneExpiresAt \in {NoTime, now + DoneDuration}
  BY <1>1 DEF setState, SessionRecord
<1> HIDE DEF moved
<1>5. /\ Revived(ev, moved) \in SessionRecord
      /\ Revived(ev, moved).state = moved.state /\ Revived(ev, moved).since = moved.since
      /\ Revived(ev, moved).lastEventAt = moved.lastEventAt
      /\ Revived(ev, moved).doneExpiresAt = moved.doneExpiresAt
      /\ Revived(ev, moved).removeAt =
           IF ev.event = "session_started" THEN NoTime ELSE moved.removeAt
  BY <1>3 DEF Revived, SessionRecord
<1> QED
  BY <1>4, <1>5 DEF MovedRow, moved, next, rec

LEMMA MovedRowIs ==
  ASSUME TypeOK, DoneDuration > 0, NEW ev \in Event
  PROVE  MovedRow(ev) \in SessionRecord /\ Settled(MovedRow(ev), now)
<1>1. /\ MovedRow(ev) \in SessionRecord /\ MovedRow(ev).lastEventAt = now
      /\ MovedRow(ev).doneExpiresAt \in {NoTime, now + DoneDuration}
      /\ MovedRow(ev).removeAt \in {NoTime, ReceivedRow(ev).removeAt}
  BY MovedRowKeeps
<1>2. ReceivedRow(ev).removeAt # NoTime => now < ReceivedRow(ev).removeAt
  BY ReceivedAhead
<1>3. now < now + DoneDuration
  BY DurationAssumption DEF TypeOK
<1> QED
  BY <1>1, <1>2, <1>3, AcceptedSettled

(* Time only: what the next tick makes of a row is what the lifecycle lets it. *)
LEMMA RowAges ==
  ASSUME NEW rec \in SessionRecord, DoneRow(rec), NEW t \in Nat, ~ removalDue(rec, t + 1)
  PROVE  LET row  == Shown(expire(rec, t))
             next == Shown(expire(rec, t + 1))
         IN next \in IF row.state = "done" /\ row.since + DoneDuration <= t + 1
                     THEN {[row EXCEPT !.state = "idle", !.since = @ + DoneDuration]}
                     ELSE {row} \cup
                          {lost \in {[row EXCEPT !.state = "unknown", !.since = NoTime]} :
                             row.state = "executing" /\ t + 1 - row.heard > StaleFloor}
<1> DEFINE row  == Shown(expire(rec, t))
           next == Shown(expire(rec, t + 1))
<1>1. t + 1 \in Nat /\ DoneDuration \in Nat /\ rec.lastEventAt \in Nat /\ rec.since \in Nat
  BY DurationAssumption DEF SessionRecord
<1>2. \A u \in {t, t + 1} :
        /\ Shown(expire(rec, u)).heard = rec.lastEventAt
        /\ Shown(expire(rec, u)).endsAt = rec.removeAt
        /\ Shown(expire(rec, u)) =
             [state  |-> expire(rec, u).state,
              since  |-> IF expire(rec, u).state = "unknown" THEN NoTime
                         ELSE expire(rec, u).since,
              heard  |-> rec.lastEventAt,
              endsAt |-> rec.removeAt]
  BY <1>1, ExpireKeeps DEF Shown
<1>3. rec.state = "done" =>
        /\ rec.doneExpiresAt = rec.since + DoneDuration /\ rec.doneExpiresAt # NoTime
        /\ \A u \in {t, t + 1} : doneExpired(rec, u) <=> rec.since + DoneDuration <= u
  BY <1>1 DEF DoneRow, doneExpired, NoTime
<1>4. CASE rec.state = "done" /\ rec.since + DoneDuration <= t
  <2>1. doneExpired(rec, t) /\ doneExpired(rec, t + 1)
    BY <1>1, <1>3, <1>4
  <2>2. expire(rec, t) = expire(rec, t + 1)
    <3>1. \A u \in {t, t + 1} : expire(rec, u) = setState(rec, "idle", rec.doneExpiresAt)
      BY <2>1 DEF expire
    <3> QED
      BY <3>1
  <2>3. row.state = "idle"
    BY <1>1, <1>4, <2>1, ExpireKeeps DEF Shown
  <2> QED
    BY <2>2, <2>3
<1>5. CASE rec.state = "done" /\ rec.since + DoneDuration = t + 1
  <2>1. ~ doneExpired(rec, t) /\ ~ goneStale(rec, t) /\ doneExpired(rec, t + 1)
    BY <1>1, <1>3, <1>5 DEF goneStale
  <2>2. expire(rec, t) = rec
    BY <2>1 DEF expire
  <2>3. expire(rec, t + 1).state = "idle" /\ expire(rec, t + 1).since = t + 1
    BY <1>1, <1>3, <1>5, <2>1, ExpireKeeps
  <2>4. row = [state |-> "done", since |-> rec.since, heard |-> rec.lastEventAt,
               endsAt |-> rec.removeAt]
    BY <1>2, <1>5, <2>2
  <2>5. next = [state |-> "idle", since |-> rec.since + DoneDuration,
                heard |-> rec.lastEventAt, endsAt |-> rec.removeAt]
    BY <1>2, <1>5, <2>3
  <2> HIDE DEF row, next
  <2>7. next = [row EXCEPT !.state = "idle", !.since = @ + DoneDuration]
    <3> DEFINE turned == [row EXCEPT !.state = "idle", !.since = @ + DoneDuration]
    <3>1. turned \in [state : {"idle"}, since : {rec.since + DoneDuration},
                      heard : {rec.lastEventAt}, endsAt : {rec.removeAt}]
      BY <2>4
    <3> HIDE DEF turned
    <3>2. turned = [state |-> "idle", since |-> rec.since + DoneDuration,
                    heard |-> rec.lastEventAt, endsAt |-> rec.removeAt]
      BY <3>1, RowIs
    <3> QED
      BY <2>5, <3>2 DEF turned
  <2>8. row.state = "done" /\ row.since + DoneDuration <= t + 1
    BY <1>1, <1>5, <2>4
  <2> QED
    BY <2>7, <2>8 DEF row, next
<1>6. CASE rec.state = "done" /\ ~ (rec.since + DoneDuration <= t + 1)
  <2>1. \A u \in {t, t + 1} : ~ doneExpired(rec, u) /\ ~ goneStale(rec, u)
    BY <1>1, <1>3, <1>6 DEF goneStale
  <2>2. expire(rec, t) = rec /\ expire(rec, t + 1) = rec
    BY <2>1 DEF expire
  <2>3. row = next /\ row.since = rec.since
    BY <1>6, <2>2 DEF Shown
  <2> QED
    BY <1>6, <2>3
<1>7. CASE rec.state # "done"
  <2>1. \A u \in {t, t + 1} : ~ doneExpired(rec, u)
    BY <1>7 DEF doneExpired
  <2>2. CASE ~ goneStale(rec, t) /\ ~ goneStale(rec, t + 1)
    <3>1. expire(rec, t) = rec /\ expire(rec, t + 1) = rec
      BY <2>1, <2>2 DEF expire
    <3>2. row = next /\ row.state # "done"
      BY <1>7, <3>1 DEF Shown
    <3> QED
      BY <3>2
  <2>3. \A u \in {t, t + 1} : goneStale(rec, u) =>
          /\ rec.state = "executing" /\ u - rec.lastEventAt > StaleFloor
          /\ expire(rec, u).state = "unknown"
    <3> SUFFICES ASSUME NEW u \in {t, t + 1}, goneStale(rec, u)
                 PROVE  /\ rec.state = "executing" /\ u - rec.lastEventAt > StaleFloor
                        /\ expire(rec, u).state = "unknown"
      OBVIOUS
    <3>1. rec.state = "executing" /\ isStale(rec, u) /\ u \in Nat
      BY <1>1 DEF goneStale
    <3>2. u - rec.lastEventAt > StaleFloor
      BY <3>1, StaleIs
    <3>3. setState(rec, "unknown", u) \in SessionRecord
      BY <3>1, SetStateType DEF AgentState
    <3>4. setState(rec, "unknown", u).state = "unknown"
      BY DEF setState, SessionRecord
    <3>5. expire(rec, u) = [setState(rec, "unknown", u) EXCEPT !.recentIntervals = << >>]
      BY <2>1 DEF expire
    <3> QED
      BY <3>1, <3>2, <3>3, <3>4, <3>5 DEF SessionRecord
  <2>4. CASE goneStale(rec, t)
    <3>1. goneStale(rec, t + 1)
      <4>1. rec.recentIntervals # << >>
        <5>1. Len(rec.recentIntervals) >= StaleMinSamples
          BY <2>4 DEF goneStale, isStale
        <5> QED
          BY <5>1, CadenceAssumption, EmptySeq DEF SessionRecord
      <4>2. threshold(rec) \in Nat
        BY <4>1, ThresholdIs
      <4> QED
        BY <1>1, <2>4, <4>2 DEF goneStale, isStale
    <3>2. row = next /\ row.state = "unknown"
      BY <1>2, <2>3, <2>4, <3>1
    <3> QED
      BY <3>2
  <2>5. CASE ~ goneStale(rec, t) /\ goneStale(rec, t + 1)
    <3>1. expire(rec, t) = rec
      BY <2>1, <2>5 DEF expire
    <3>2. row = [state |-> "executing", since |-> rec.since, heard |-> rec.lastEventAt,
                 endsAt |-> rec.removeAt]
      BY <1>2, <2>3, <2>5, <3>1
    <3>3. next = [state |-> "unknown", since |-> NoTime, heard |-> rec.lastEventAt,
                  endsAt |-> rec.removeAt]
      BY <1>2, <2>3, <2>5
    <3> HIDE DEF row, next
    <3>4. [row EXCEPT !.state = "unknown", !.since = NoTime] = next
      <4> DEFINE lost == [row EXCEPT !.state = "unknown", !.since = NoTime]
      <4>1. lost \in [state : {"unknown"}, since : {NoTime}, heard : {rec.lastEventAt},
                      endsAt : {rec.removeAt}]
        BY <3>2
      <4> HIDE DEF lost
      <4>2. lost = [state |-> "unknown", since |-> NoTime, heard |-> rec.lastEventAt,
                    endsAt |-> rec.removeAt]
        BY <4>1, RowIs
      <4> QED
        BY <3>3, <4>2 DEF lost
    <3>5. row.state = "executing" /\ row.heard = rec.lastEventAt
      BY <3>2
    <3>6. t + 1 - rec.lastEventAt > StaleFloor
      BY <1>1, <2>3, <2>5
    <3>7. row.state = "executing" /\ t + 1 - row.heard > StaleFloor
      BY <3>5, <3>6
    <3> QED
      BY <3>4, <3>7 DEF row, next
  <2> QED
    BY <2>2, <2>4, <2>5
<1> QED
  BY <1>1, <1>4, <1>5, <1>6, <1>7

(* What a call leaves is what a client finds until the clock moves. *)
LEMMA CallFound ==
  ASSUME now' = now, IsTable(sessions)', \A k \in DOMAIN sessions' : Settled(sessions'[k], now)
  PROVE  Live' = sessions' /\ Found' = [k \in DOMAIN sessions' |-> Shown(sessions'[k])]
<1>1. sessions' = [k \in DOMAIN sessions' |-> sessions'[k]]
  BY DEF IsTable
<1>2. reconcile(sessions', now) = sessions'
  BY <1>1, SettledTable
<1>3. Live' = sessions'
  BY <1>2 DEF Live
<1> QED
  BY <1>3 DEF Found

(* A call that only reconciles shows a client what it would have found anyway. *)
LEMMA ReconcileFound ==
  ASSUME TypeOK, TypeOK', sessions' = Live, now' = now
  PROVE  Found' = Found
<1>1. \A k \in DOMAIN sessions' : Settled(sessions'[k], now)
  BY LiveSettled
<1>2. IsTable(sessions)'
  BY DEF TypeOK, IsTable
<1> QED
  BY <1>1, <1>2, CallFound DEF Found

(* An accepted event changes one row of what a client would find. *)
LEMMA PutFound ==
  ASSUME TypeOK, TypeOK', NEW k \in Key, NEW rec \in SessionRecord, Settled(rec, now),
         sessions' = put(Live, k, rec), now' = now
  PROVE  Found' = [j \in DOMAIN Found \cup {k} |-> IF j = k THEN Shown(rec) ELSE Found[j]]
<1>1. IsTable(sessions)' /\ DOMAIN sessions' = DOMAIN Live \cup {k}
  BY DEF TypeOK, IsTable, put
<1>2. ASSUME NEW j \in DOMAIN sessions'
      PROVE  Settled(sessions'[j], now)
  BY <1>2, LiveSettled, PutRow
<1>3. Found' = [j \in DOMAIN sessions' |-> Shown(sessions'[j])]
  BY <1>1, <1>2, CallFound
<1>4. DOMAIN Found = DOMAIN Live
  BY DEF Found
<1>5. ASSUME NEW j \in DOMAIN sessions'
      PROVE  Shown(sessions'[j]) = IF j = k THEN Shown(rec) ELSE Found[j]
  BY <1>1, <1>5 DEF put, Found
<1> QED
  BY <1>1, <1>3, <1>4, <1>5

LEMMA DeleteFound ==
  ASSUME TypeOK, TypeOK', NEW k \in Key, sessions' = delete(Live, k), now' = now
  PROVE  Found' = [j \in DOMAIN Found \ {k} |-> Found[j]]
<1>1. IsTable(sessions)' /\ DOMAIN sessions' = DOMAIN Live \ {k}
      /\ \A j \in DOMAIN sessions' : sessions'[j] = Live[j]
  BY DEF TypeOK, IsTable, delete, Restrict
<1>2. \A j \in DOMAIN sessions' : Settled(sessions'[j], now)
  BY <1>1, LiveSettled
<1>3. Found' = [j \in DOMAIN sessions' |-> Shown(sessions'[j])]
  BY <1>1, <1>2, CallFound
<1>4. DOMAIN Found = DOMAIN Live /\ \A j \in DOMAIN Live : Found[j] = Shown(Live[j])
  BY DEF Found
<1> QED
  BY <1>1, <1>3, <1>4

-----------------------------------------------------------------------------

(* Rows are only made of what an accepted event for a known session says. *)
HeardOf(k, ev, row) ==
  LET old  == IF k \in DOMAIN Found THEN Found[k]
              ELSE [state |-> "unknown", since |-> NoTime, heard |-> now, endsAt |-> NoTime]
      next == NextState(old.state, ev)
  IN row = [state  |-> next,
            since  |-> IF next = "unknown" THEN NoTime
                       ELSE IF next = old.state THEN old.since ELSE now,
            heard  |-> now,
            endsAt |-> IF ev = "session_started" THEN NoTime ELSE old.endsAt]

LEMMA LifecycleMatrix ==
  /\ Lifecycle!NormalizedEventType = NormalizedEventType
  /\ \A cur, ev : Lifecycle!NextState(cur, ev) = NextState(cur, ev)
<1>1. Lifecycle!NormalizedEventType = NormalizedEventType
  BY DEF Lifecycle!NormalizedEventType, NormalizedEventType
<1>2. /\ Lifecycle!IntoExecuting = IntoExecuting /\ Lifecycle!IntoWaiting = IntoWaiting
      /\ Lifecycle!IntoDone = IntoDone /\ Lifecycle!IntoError = IntoError
      /\ Lifecycle!fromEvent = fromEvent
  BY DEF Lifecycle!IntoExecuting, IntoExecuting, Lifecycle!IntoWaiting, IntoWaiting,
         Lifecycle!IntoDone, IntoDone, Lifecycle!IntoError, IntoError,
         Lifecycle!fromEvent, fromEvent
<1>3. Lifecycle!matrix = matrix
  <2> DEFINE cells == IntoExecuting \cup IntoWaiting \cup IntoDone \cup IntoError
             cell(row) == CASE row \in IntoExecuting -> "executing"
                            [] row \in IntoWaiting   -> "waiting"
                            [] row \in IntoDone      -> "done"
                            [] row \in IntoError     -> "error"
  <2>1. matrix = [row \in cells |-> cell(row)]
    BY DEF matrix
  <2>2. Lifecycle!matrix = [row \in cells |-> cell(row)]
    BY <1>2, SMT DEF Lifecycle!matrix
  <2> QED
    BY <2>1, <2>2
<1> QED
  BY <1>1, <1>2, <1>3, Zenon DEF Lifecycle!NextState, NextState,
     Lifecycle!Unexpected, Unexpected

LEMMA HeardIsReceived ==
  ASSUME NEW k \in Key, NEW ev \in NormalizedEventType, ev # "session_ended",
         NEW row, HeardOf(k, ev, row), now' = now,
         Found' = [j \in DOMAIN Found \cup {k} |-> IF j = k THEN row ELSE Found[j]]
  PROVE  Lifecycle!Next
<1>1. Lifecycle!Receive(k, ev)
  BY LifecycleMatrix DEF HeardOf, Found, NoTime, Lifecycle!Receive, Lifecycle!Stranger,
     Lifecycle!Dated, Lifecycle!Never
<1> QED
  BY <1>1, LifecycleMatrix DEF Lifecycle!Next

LEMMA AlwaysStarts == \A cur : NextState(cur, "session_started") = "idle"
BY DEF NextState, Unexpected

LEMMA StartIsHeard ==
  ASSUME TypeOK, DoneDuration > 0, NEW ev \in Event, ApplyStart(ev)
  PROVE  HeardOf(ev.key, ev.event, Shown(StartedRow(ev)))
<1>1. ev.key \notin DOMAIN Found /\ ev.event = "session_started"
  BY DEF ApplyStart, Tracked, Found
<1>2. \A cur : NextState(cur, "session_started") = "idle"
  BY AlwaysStarts
<1> QED
  BY <1>1, <1>2, StartedRowIs DEF HeardOf

LEMMA MoveIsHeard ==
  ASSUME TypeOK, DoneDuration > 0, NEW ev \in Event, ApplyTransition(ev)
  PROVE  HeardOf(ev.key, ev.event, Shown(MovedRow(ev)))
<1> DEFINE rec  == ReceivedRow(ev)
           next == NextState(rec.state, ev.event)
<1>1. Shown(MovedRow(ev)) =
        [state  |-> next,
         since  |-> IF next = "unknown" THEN NoTime
                    ELSE IF next = rec.state THEN rec.since ELSE now,
         heard  |-> now,
         endsAt |-> IF ev.event = "session_started" THEN NoTime ELSE rec.removeAt]
  <2>1. /\ MovedRow(ev).state = next
        /\ MovedRow(ev).since = IF next = rec.state THEN rec.since ELSE now
        /\ MovedRow(ev).lastEventAt = now
        /\ MovedRow(ev).removeAt = IF ev.event = "session_started" THEN NoTime ELSE rec.removeAt
    BY MovedRowKeeps
  <2> HIDE DEF next, rec
  <2> QED
    BY <2>1 DEF Shown
<1> HIDE DEF rec
<1>2. CASE Tracked(ev)
  <2>1. ev.key \in DOMAIN Found /\ Found[ev.key] = Shown(Live[ev.key])
    BY <1>2 DEF Tracked, Found
  <2>2. rec.state = Live[ev.key].state /\ rec.since = Live[ev.key].since
        /\ rec.removeAt = Live[ev.key].removeAt
    BY <1>2, ReceivedAhead DEF rec
  <2>3. /\ Found[ev.key].state = rec.state
        /\ rec.state # "unknown" => Found[ev.key].since = rec.since
        /\ Found[ev.key].endsAt = rec.removeAt
    BY <2>1, <2>2 DEF Shown
  <2> QED
    BY <1>1, <2>1, <2>3 DEF HeardOf
<1>3. CASE ~ Tracked(ev)
  <2>1. ev.key \notin DOMAIN Found /\ ev.event # "session_started"
    BY <1>3 DEF Tracked, Found, ApplyTransition
  <2>2. rec.state = "unknown" /\ rec.removeAt = NoTime
    BY <1>3, ReceivedAhead DEF rec
  <2> QED
    BY <1>1, <2>1, <2>2 DEF HeardOf
<1> QED
  BY <1>2, <1>3

LEMMA EndIsEnded ==
  ASSUME TypeOK, TypeOK', DoneDuration > 0, NEW ev \in Event, ApplyEnd(ev)
  PROVE  Lifecycle!Next
<1> DEFINE k == ev.key
<1>1. /\ Tracked(ev) /\ k \in DOMAIN Found /\ Found[k] = Shown(Live[k])
      /\ DOMAIN Found = DOMAIN Live /\ k \in Key /\ now' = now
  BY DEF ApplyEnd, Tracked, Found, Event
<1>2. Found[k].state = ReceivedRow(ev).state /\ Found[k].state \in AgentState
  <2>1. ReceivedRow(ev) \in SessionRecord /\ ReceivedRow(ev).state = Live[k].state
    BY <1>1, ReceivedAhead
  <2> QED
    BY <1>1, <2>1 DEF Shown, SessionRecord
<1>3. CASE ReceivedRow(ev).state \in Urgent
  <2>1. sessions' = put(Live, k, EndedRow(ev))
    BY <1>3 DEF ApplyEnd, EndedRow
  <2>2. EndedRow(ev) \in SessionRecord /\ Settled(EndedRow(ev), now)
        /\ Shown(EndedRow(ev)) = [Found[k] EXCEPT !.heard = now, !.endsAt = now + DoneDuration]
    BY <1>1, EndedRowIs
  <2>3. Found' = [j \in DOMAIN Found \cup {k} |-> IF j = k THEN Shown(EndedRow(ev)) ELSE Found[j]]
    BY <1>1, <2>1, <2>2, PutFound
  <2>4. Found' = [Found EXCEPT ![k].heard = now, ![k].endsAt = now + DoneDuration]
    BY <1>1, <2>2, <2>3
  <2>5. Lifecycle!EndUrgent(k)
    BY <1>1, <1>2, <1>3, <2>4 DEF Lifecycle!EndUrgent, Urgent, Found
  <2> QED
    BY <1>1, <2>5 DEF Lifecycle!Next, Found
<1>4. CASE ReceivedRow(ev).state \notin Urgent
  <2>1. sessions' = delete(Live, k)
    BY <1>4 DEF ApplyEnd
  <2>2. Found' = [j \in DOMAIN Found \ {k} |-> Found[j]]
    BY <1>1, <2>1, DeleteFound
  <2>3. Found[k].state \in {"idle", "done", "executing"}
    BY <1>2, <1>4 DEF AgentState, Urgent
  <2>4. Lifecycle!EndQuietly(k)
    BY <1>1, <2>2, <2>3 DEF Lifecycle!EndQuietly, Found
  <2> QED
    BY <1>1, <2>4 DEF Lifecycle!Next, Found
<1> QED
  BY <1>3, <1>4

(* Time passing between calls is the tick of the timers. *)
LEMMA TickIsTick ==
  ASSUME TypeOK, DoneWindow, Tick
  PROVE  Lifecycle!Next
<1> DEFINE later   == now + 1
           staying == {k \in DOMAIN Found : Found[k].endsAt = NoTime \/ Found[k].endsAt > later}
<1>1. /\ now \in Nat /\ now < MaxTime /\ now' = later /\ sessions' = sessions
      /\ \A k \in DOMAIN sessions : sessions[k] \in SessionRecord /\ DoneRow(sessions[k])
  BY DEF Tick, TypeOK, DoneWindow, DoneRow
<1>2. DOMAIN Found = {k \in DOMAIN sessions : ~ removalDue(sessions[k], now)}
      /\ \A k \in DOMAIN Found : Found[k] = Shown(expire(sessions[k], now))
  BY DEF Found, Live, reconcile
<1>3. /\ DOMAIN Found' = {k \in DOMAIN sessions : ~ removalDue(sessions[k], later)}
      /\ \A k \in DOMAIN Found' : Found'[k] = Shown(expire(sessions[k], later))
      /\ Found' = [k \in DOMAIN Found' |-> Found'[k]]
  BY <1>1 DEF Found, Live, reconcile
<1>4. DOMAIN Found' = staying
  <2>1. \A k \in DOMAIN Found : Found[k].endsAt = sessions[k].removeAt
    BY <1>1, <1>2, ExpireKeeps DEF Shown
  <2>2. ASSUME NEW k \in DOMAIN sessions
        PROVE  ~ removalDue(sessions[k], later) <=>
                 ~ removalDue(sessions[k], now)
                 /\ (sessions[k].removeAt = NoTime \/ sessions[k].removeAt > later)
    <3>1. sessions[k].removeAt \in Nat \cup {NoTime}
      BY <1>1 DEF SessionRecord
    <3> QED
      BY <1>1, <3>1 DEF removalDue, NoTime
  <2> QED
    BY <1>2, <1>3, <2>1, <2>2
<1>5. ASSUME NEW k \in staying
      PROVE  Found'[k] \in Lifecycle!Aged(Found[k])
  <2>1. k \in DOMAIN sessions /\ ~ removalDue(sessions[k], later)
        /\ Found[k] = Shown(expire(sessions[k], now))
        /\ Found'[k] = Shown(expire(sessions[k], later))
    BY <1>2, <1>3, <1>4, <1>5
  <2>2. sessions[k] \in SessionRecord /\ DoneRow(sessions[k])
    BY <1>1, <2>1
  <2> QED
    BY <1>1, <2>1, <2>2, RowAges DEF Lifecycle!Aged, Lifecycle!Never, NoTime
<1>6. Lifecycle!Tick
  BY <1>1, <1>3, <1>4, <1>5 DEF Lifecycle!Tick, Lifecycle!Never, NoTime, Found
<1> QED
  BY <1>6 DEF Lifecycle!Next

LEMMA LifecycleStep ==
  ASSUME TypeOK, TypeOK', DoneWindow, DoneDuration > 0, [Next]_vars
  PROVE  Lifecycle!Next \/ (now' = now /\ Found' = Found)
<1>1. ASSUME NEW ev \in Event, ApplyDuplicate(ev) \/ ApplyIgnored(ev)
      PROVE  now' = now /\ Found' = Found
  BY <1>1, ReconcileFound DEF ApplyDuplicate, ApplyIgnored
<1>2. CASE Snapshot
  BY <1>2, ReconcileFound DEF Snapshot
<1>3. ASSUME NEW ev \in Event, ApplyStart(ev)
      PROVE  Lifecycle!Next
  <2>1. /\ sessions' = put(Live, ev.key, StartedRow(ev)) /\ now' = now
        /\ ev.event = "session_started" /\ ev.key \in Key /\ ev.event \in NormalizedEventType
    BY <1>3 DEF ApplyStart, StartedRow, Event
  <2>2. StartedRow(ev) \in SessionRecord /\ Settled(StartedRow(ev), now)
    BY StartedRowIs
  <2>3. HeardOf(ev.key, ev.event, Shown(StartedRow(ev)))
    BY <1>3, StartIsHeard
  <2> QED
    BY <2>1, <2>2, <2>3, PutFound, HeardIsReceived
<1>4. ASSUME NEW ev \in Event, ApplyTransition(ev)
      PROVE  Lifecycle!Next
  <2>1. /\ sessions' = put(Live, ev.key, MovedRow(ev)) /\ now' = now
        /\ ev.event # "session_ended" /\ ev.key \in Key /\ ev.event \in NormalizedEventType
    BY <1>4 DEF ApplyTransition, MovedRow, Event
  <2>2. MovedRow(ev) \in SessionRecord /\ Settled(MovedRow(ev), now)
    BY MovedRowIs
  <2>3. HeardOf(ev.key, ev.event, Shown(MovedRow(ev)))
    BY <1>4, MoveIsHeard
  <2> QED
    BY <2>1, <2>2, <2>3, PutFound, HeardIsReceived
<1>5. ASSUME NEW ev \in Event, ApplyEnd(ev)
      PROVE  Lifecycle!Next
  BY <1>5, EndIsEnded
<1>6. CASE Tick
  BY <1>6, TickIsTick
<1>7. CASE Restart
  <2>1. Live' = << >> /\ now' = now
    BY <1>7, EmptySeq DEF Restart, Live, reconcile
  <2>2. Found' = << >>
    BY <2>1, EmptySeq DEF Found
  <2>3. Lifecycle!Restart
    BY <2>1, <2>2 DEF Lifecycle!Restart, Found
  <2> QED
    BY <2>3 DEF Lifecycle!Next
<1>8. CASE UNCHANGED vars
  BY <1>8 DEF vars, Found, Live
<1> QED
  BY <1>1, <1>2, <1>3, <1>4, <1>5, <1>6, <1>7, <1>8 DEF Next, Apply

(* For every tuning with a positive doneDuration the manager, whose timers fire only
   when a call reads the clock, goes through the steps of a session lifecycle with
   timers that fire on their tick.                                           *)
THEOREM ImplementsLifecycleHolds ==
  ASSUME DoneDuration > 0
  PROVE  Spec => ImplementsLifecycle
<1>1. Init => Lifecycle!Init
  BY EmptySeq DEF Init, Lifecycle!Init, Live, reconcile
<1>2. TypeOK /\ TypeOK' /\ DoneWindow /\ [Next]_vars => [Lifecycle!Next]_(Lifecycle!vars)
  BY LifecycleStep DEF Lifecycle!vars, Found
<1> QED
  BY <1>1, <1>2, TypeCorrect, DoneWindowHolds, PTL DEF Spec, ImplementsLifecycle, Lifecycle!Spec

-----------------------------------------------------------------------------
(* What polling does to the table. *)

(* A second client that asks at the same moment is told the same, whatever call came
   before it, and updatedAt with it: no call leaves work to the next.        *)
AskingAgainTellsTheSame ==
  [][now' = now => Live' = sessions' /\ ReconciledAt' = updatedAt']_vars

LEMMA CallLeavesSettled ==
  ASSUME TypeOK, DoneDuration > 0, Next, ~ UNCHANGED vars, now' = now,
         NEW k \in DOMAIN sessions'
  PROVE  Settled(sessions'[k], now)
<1>1. now \in Nat
  BY DEF TypeOK
<1>2. ASSUME NEW ev \in Event, ev.key = k, ApplyEnd(ev), ReceivedRow(ev).state \in Urgent
      PROVE  Settled(EndedRow(ev), now)
  BY <1>2, EndedRowIs DEF ApplyEnd
<1> QED
  BY <1>1, <1>2, RowOrigin, LiveSettled, StartedRowIs, MovedRowIs

(* With a positive doneDuration calls are complete: none has to be made twice. *)
THEOREM AskingAgainHolds ==
  ASSUME DoneDuration > 0
  PROVE  Spec => AskingAgainTellsTheSame
<1> DEFINE Complete == now' = now => Live' = sessions' /\ ReconciledAt' = updatedAt'
<1>1. ASSUME TypeOK, TypeOK', Next, ~ UNCHANGED vars, now' = now
      PROVE  Live' = sessions' /\ ReconciledAt' = updatedAt'
  <2>1. IsTable(sessions)'
    BY <1>1 DEF TypeOK, IsTable
  <2>2. Live' = sessions'
    BY <1>1, <2>1, CallLeavesSettled, CallFound
  <2> QED
    BY <2>2 DEF ReconciledAt
<1>2. TypeOK /\ TypeOK' /\ [Next]_vars => [Complete]_vars
  BY <1>1
<1>3. [][Complete]_vars => AskingAgainTellsTheSame
  BY DEF AskingAgainTellsTheSame
<1> HIDE DEF Complete
<1> QED
  BY <1>2, <1>3, TypeCorrect, PTL DEF Spec

(* All of a row but the date of an UNKNOWN, which is that of the call that found it. *)
Undated(rec) == IF rec.state = "unknown" THEN [rec EXCEPT !.since = NoTime] ELSE rec

FoundAt(table, t) == [k \in DOMAIN reconcile(table, t) |-> Undated(reconcile(table, t)[k])]

(* A read changes nothing that a call at that time or later would find but the date
   of an UNKNOWN, so that how often clients poll cannot be told from the table:
   not by what is shown and not by what later events make of it.             *)
ReadsLeaveNoTrace ==
  [][Snapshot => \A t \in Nat : t >= now => FoundAt(sessions', t) = FoundAt(sessions, t)]_vars

(* Looking at a row at one time and then at another is looking at the other. *)
LEMMA ExpireTwice ==
  ASSUME NEW rec \in SessionRecord, NEW s \in Nat, NEW t \in Nat, s <= t
  PROVE  Undated(expire(expire(rec, s), t)) = Undated(expire(rec, t))
<1>1. CASE doneExpired(rec, s)
  <2>1. doneExpired(rec, t)
    BY <1>1 DEF doneExpired, SessionRecord
  <2>2. expire(rec, s) = expire(rec, t)
    BY <1>1, <2>1 DEF expire
  <2>3. expire(rec, s).state = "idle"
    BY <1>1, ExpireKeeps DEF doneExpired
  <2>4. expire(expire(rec, s), t) = expire(rec, s)
    BY <2>3 DEF expire, doneExpired, goneStale
  <2> QED
    BY <2>2, <2>4
<1>2. CASE ~ doneExpired(rec, s) /\ goneStale(rec, s)
  <2>1. isStale(rec, t)
    <3>1. rec.recentIntervals \in Seq(Nat) /\ rec.lastEventAt \in Nat
      BY DEF SessionRecord
    <3>2. rec.recentIntervals # << >>
      BY <1>2, <3>1, EmptySeq, CadenceAssumption DEF goneStale, isStale
    <3>3. threshold(rec) \in Nat
      BY <3>2, ThresholdIs
    <3> QED
      BY <1>2, <3>1, <3>3 DEF goneStale, isStale
  <2>2. goneStale(rec, t) /\ ~ doneExpired(rec, t)
    BY <1>2, <2>1 DEF goneStale, doneExpired
  <2> DEFINE at(u) == [setState(rec, "unknown", u) EXCEPT !.recentIntervals = << >>]
  <2>3. expire(rec, s) = at(s) /\ expire(rec, t) = at(t)
    BY <1>2, <2>2 DEF expire
  <2>4. ASSUME NEW u \in Nat
        PROVE  /\ at(u).state = "unknown"
               /\ Undated(at(u)) = [rec EXCEPT !.state = "unknown", !.since = NoTime,
                                     !.doneExpiresAt = NoTime, !.recentIntervals = << >>]
    <3>1. at(u) = [rec EXCEPT !.state = "unknown", !.since = u, !.doneExpiresAt = NoTime,
                              !.recentIntervals = << >>]
      BY <1>2 DEF setState, SessionRecord, goneStale
    <3> QED
      BY <3>1 DEF Undated, SessionRecord
  <2>5. expire(at(s), t) = at(s)
    BY <2>4 DEF expire, doneExpired, goneStale
  <2> HIDE DEF at
  <2> QED
    BY <2>3, <2>4, <2>5
<1>3. CASE ~ doneExpired(rec, s) /\ ~ goneStale(rec, s)
  BY <1>3 DEF expire
<1> QED
  BY <1>1, <1>2, <1>3

LEMMA ReconcileTwice ==
  ASSUME NEW S, IsTable(S), NEW s \in Nat, NEW t \in Nat, s <= t
  PROVE  FoundAt(reconcile(S, s), t) = FoundAt(S, t)
<1> DEFINE early == reconcile(S, s)
<1>1. \A k \in DOMAIN S : S[k] \in SessionRecord
  BY DEF IsTable
<1>2. /\ DOMAIN early = {k \in DOMAIN S : ~ removalDue(S[k], s)}
      /\ \A k \in DOMAIN early : early[k] = expire(S[k], s)
  BY DEF reconcile
<1> HIDE DEF early
<1>3. \A k \in DOMAIN early : removalDue(early[k], t) <=> removalDue(S[k], t)
  BY <1>1, <1>2, ExpireKeeps DEF removalDue
<1>4. \A k \in DOMAIN S : removalDue(S[k], s) => removalDue(S[k], t)
  BY <1>1 DEF removalDue, SessionRecord
<1>5. DOMAIN reconcile(early, t) = DOMAIN reconcile(S, t)
  BY <1>2, <1>3, <1>4 DEF reconcile
<1>6. ASSUME NEW k \in DOMAIN reconcile(S, t)
      PROVE  Undated(reconcile(early, t)[k]) = Undated(reconcile(S, t)[k])
  <2>1. k \in DOMAIN S /\ reconcile(S, t)[k] = expire(S[k], t)
    BY DEF reconcile
  <2>2. k \in DOMAIN early /\ reconcile(early, t)[k] = expire(early[k], t)
    BY <1>5 DEF reconcile
  <2> QED
    BY <1>1, <1>2, <2>1, <2>2, ExpireTwice
<1> QED
  BY <1>5, <1>6 DEF FoundAt, early

(* For any tuning, also of zero. *)
THEOREM ReadsLeaveNoTraceHolds == Spec => ReadsLeaveNoTrace
<1> DEFINE Traceless ==
      Snapshot => \A t \in Nat : t >= now => FoundAt(sessions', t) = FoundAt(sessions, t)
<1>1. ASSUME TypeOK, Snapshot, NEW t \in Nat, t >= now
      PROVE  FoundAt(sessions', t) = FoundAt(sessions, t)
  <2>1. IsTable(sessions) /\ now \in Nat
    BY <1>1 DEF TypeOK, IsTable
  <2>2. sessions' = reconcile(sessions, now)
    BY <1>1 DEF Snapshot, Live
  <2> QED
    BY <1>1, <2>1, <2>2, ReconcileTwice
<1>2. TypeOK /\ [Next]_vars => [Traceless]_vars
  BY <1>1
<1>3. [][Traceless]_vars => ReadsLeaveNoTrace
  BY DEF ReadsLeaveNoTrace
<1> HIDE DEF Traceless
<1> QED
  BY <1>2, <1>3, TypeCorrect, PTL DEF Spec
=============================================================================
