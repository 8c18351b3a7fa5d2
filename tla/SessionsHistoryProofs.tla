------------------------ MODULE SessionsHistoryProofs ------------------------
(* Theorems of SessionsHistory, for every value of its constants: what a row
   remembers, told by what it has accepted.                                  *)
EXTENDS SessionsHistory, SessionsProofs

-----------------------------------------------------------------------------
(* The strengthening: the queue of a row is the end of the log of its key, as far
   back as the row and the bound go.                                         *)

EndOf(fifo, accepted, born) ==
  /\ Len(fifo) = IF Len(accepted) - born > MaxSeenEventIDs THEN MaxSeenEventIDs
                 ELSE Len(accepted) - born
  /\ \A i \in 1..Len(fifo) : fifo[i] = accepted[Len(accepted) - Len(fifo) + i]

HistoryTypes ==
  /\ log \in [Key -> Seq(EventId)]
  /\ birth \in [Key -> Nat]
  /\ \A k \in Key : birth[k] <= Len(log[k])

QueueIsLog ==
  \A k \in DOMAIN sessions : EndOf(sessions[k].seenEventIDFIFO, log[k], birth[k])

HistoryInv == HistoryTypes /\ QueueIsLog

-----------------------------------------------------------------------------
(* Remembering. *)

(* The end of the log stays the end of the log, one id on. *)
LEMMA EndGrows ==
  ASSUME NEW rec \in Row, NEW id \in EventId, NEW accepted \in Seq(EventId),
         NEW born \in Nat, born <= Len(accepted),
         EndOf(rec.seenEventIDFIFO, accepted, born)
  PROVE  EndOf(markSeen(rec, id).seenEventIDFIFO, Append(accepted, id), born)
<1> DEFINE fifo == rec.seenEventIDFIFO
           new  == Append(fifo, id)
           next == Append(accepted, id)
<1>1. fifo \in Seq(EventId) /\ Len(fifo) \in Nat /\ Len(accepted) \in Nat
  BY DEF Row
<1>2. /\ new \in Seq(EventId) /\ new # << >> /\ Len(new) = Len(fifo) + 1
      /\ new[Len(fifo) + 1] = id
      /\ \A i \in 1..Len(fifo) : new[i] = fifo[i]
  BY <1>1, AppendProperties
<1>3. /\ Len(next) = Len(accepted) + 1 /\ next[Len(accepted) + 1] = id
      /\ \A i \in 1..Len(accepted) : next[i] = accepted[i]
  BY AppendProperties
<1>4. markSeen(rec, id).seenEventIDFIFO =
        IF Len(new) > MaxSeenEventIDs THEN Tail(new) ELSE new
  BY DEF markSeen, Row
<1>5. /\ Len(fifo) = IF Len(accepted) - born > MaxSeenEventIDs THEN MaxSeenEventIDs
                     ELSE Len(accepted) - born
      /\ \A i \in 1..Len(fifo) : fifo[i] = accepted[Len(accepted) - Len(fifo) + i]
  BY DEF EndOf
<1>6. Tail(new) \in Seq(EventId) /\ Len(Tail(new)) = Len(fifo)
      /\ \A i \in 1..Len(fifo) : Tail(new)[i] = new[i + 1]
  BY <1>1, <1>2, HeadTailProperties
<1> HIDE DEF fifo, new, next
<1>7. ASSUME NEW i \in 1..Len(fifo) + 1
      PROVE  new[i] = next[Len(next) - (Len(fifo) + 1) + i]
  <2>1. CASE i = Len(fifo) + 1
    BY <1>1, <1>2, <1>3, <2>1
  <2>2. CASE i \in 1..Len(fifo)
    <3>1. Len(accepted) - Len(fifo) + i \in 1..Len(accepted)
      BY <1>1, <1>5, <2>2, DedupAssumption
    <3>2. Len(next) - (Len(fifo) + 1) + i = Len(accepted) - Len(fifo) + i
      BY <1>1, <1>3
    <3> QED
      BY <1>2, <1>3, <1>5, <2>2, <3>1, <3>2
  <2> QED
    BY <1>1, <2>1, <2>2
<1>8. CASE Len(new) > MaxSeenEventIDs
  <2>1. Len(fifo) = MaxSeenEventIDs /\ Len(next) - born > MaxSeenEventIDs
    BY <1>1, <1>2, <1>3, <1>5, <1>8, DedupAssumption
  <2>2. ASSUME NEW i \in 1..Len(fifo)
        PROVE  Tail(new)[i] = next[Len(next) - Len(fifo) + i]
    <3>1. i + 1 \in 1..Len(fifo) + 1
          /\ Len(next) - (Len(fifo) + 1) + (i + 1) = Len(next) - Len(fifo) + i
      BY <1>1, <1>3
    <3> QED
      BY <1>6, <1>7, <3>1
  <2>3. EndOf(Tail(new), next, born)
    BY <1>6, <2>1, <2>2 DEF EndOf
  <2> QED
    BY <1>4, <1>8, <2>3 DEF next
<1>9. CASE ~ (Len(new) > MaxSeenEventIDs)
  <2>1. Len(new) = Len(next) - born /\ ~ (Len(next) - born > MaxSeenEventIDs)
    BY <1>1, <1>2, <1>3, <1>5, <1>9, DedupAssumption
  <2>2. EndOf(new, next, born)
    BY <1>2, <1>7, <2>1 DEF EndOf
  <2> QED
    BY <1>4, <1>9, <2>2 DEF next
<1> QED
  BY <1>8, <1>9

LEMMA NothingYet ==
  ASSUME NEW accepted \in Seq(EventId)
  PROVE  EndOf(<< >>, accepted, Len(accepted))
<1>1. Len(<< >>) = 0 /\ Len(accepted) \in Nat
  BY EmptySeq
<1> QED
  BY <1>1, DedupAssumption DEF EndOf

(* What an accepted event leaves on its row goes with what it leaves in the log. *)
LEMMA ReceivedEnd ==
  ASSUME TypeOK, HistoryInv, NEW ev \in Event
  PROVE  LET new == Append(log[ev.key], ev.eventID)
         IN /\ EndOf(ReceivedRow(ev).seenEventIDFIFO, new,
                     IF Tracked(ev) THEN birth[ev.key] ELSE Len(log[ev.key]))
            /\ EndOf(StartedRow(ev).seenEventIDFIFO, new, Len(log[ev.key]))
<1> DEFINE accepted == log[ev.key]
           born     == birth[ev.key]
<1>1. /\ ev.key \in Key /\ ev.eventID \in EventId /\ now \in Nat
      /\ accepted \in Seq(EventId) /\ born \in Nat /\ born <= Len(accepted)
      /\ Len(accepted) \in Nat
  BY DEF Event, TypeOK, HistoryInv, HistoryTypes
<1> HIDE DEF accepted, born
<1>2. ASSUME NEW rec \in Row, NEW b \in Nat, b <= Len(accepted),
             EndOf(rec.seenEventIDFIFO, accepted, b)
      PROVE  EndOf(Received(ev, rec).seenEventIDFIFO, Append(accepted, ev.eventID), b)
  <2>1. markSeen(rec, ev.eventID) \in Row
    BY <1>1, MarkSeenType
  <2>2. Received(ev, rec).seenEventIDFIFO = markSeen(rec, ev.eventID).seenEventIDFIFO
    BY <1>1, <2>1, MemoryKept DEF Received
  <2>3. EndOf(markSeen(rec, ev.eventID).seenEventIDFIFO, Append(accepted, ev.eventID), b)
    BY <1>1, <1>2, EndGrows
  <2> QED
    BY <2>2, <2>3
<1>3. ASSUME NEW state \in AgentState
      PROVE  EndOf(Received(ev, create(state, now)).seenEventIDFIFO,
                   Append(accepted, ev.eventID), Len(accepted))
  <2>1. create(state, now) \in Row /\ create(state, now).seenEventIDFIFO = << >>
    BY <1>1, CreateType DEF create
  <2>2. EndOf(create(state, now).seenEventIDFIFO, accepted, Len(accepted))
    BY <1>1, <2>1, NothingYet
  <2> QED
    BY <1>1, <1>2, <2>1, <2>2
<1>4. CASE Tracked(ev)
  <2>1. Live[ev.key] \in Row
    BY <1>4, LiveType, RecordIsRow DEF Tracked, IsTable
  <2>2. EndOf(Live[ev.key].seenEventIDFIFO, accepted, born)
    BY <1>1, <1>4, LiveRow, ExpireKeeps
    DEF Tracked, HistoryInv, QueueIsLog, TypeOK, accepted, born
  <2>3. ReceivedRow(ev) = Received(ev, Live[ev.key])
    BY <1>4 DEF ReceivedRow
  <2> QED
    BY <1>1, <1>2, <1>3, <1>4, <2>1, <2>2, <2>3 DEF StartedRow, AgentState, accepted, born
<1>5. CASE ~ Tracked(ev)
  <2>1. ReceivedRow(ev) = Received(ev, create("unknown", now))
    BY <1>5 DEF ReceivedRow
  <2> QED
    BY <1>3, <1>5, <2>1 DEF StartedRow, AgentState, accepted
<1> QED
  BY <1>4, <1>5

-----------------------------------------------------------------------------
(* The invariant is inductive. *)

LEMMA HistoryTypesStep ==
  ASSUME HistoryTypes, [HNext]_hvars
  PROVE  HistoryTypes'
<1>1. ASSUME NEW ev \in Event, HApply(ev)
      PROVE  HistoryTypes'
  <2> DEFINE k == ev.key
  <2>1. k \in Key /\ ev.eventID \in EventId /\ log[k] \in Seq(EventId) /\ Len(log[k]) \in Nat
    BY DEF Event, HistoryTypes
  <2>2. Append(log[k], ev.eventID) \in Seq(EventId)
        /\ Len(Append(log[k], ev.eventID)) = Len(log[k]) + 1
    BY <2>1, AppendProperties
  <2>3. log' \in [Key -> Seq(EventId)] /\ \A j \in Key : Len(log[j]) <= Len(log'[j])
    BY <1>1, <2>1, <2>2 DEF HApply, HistoryTypes
  <2>4. birth' \in [Key -> Nat] /\ \A j \in Key : birth'[j] <= Len(log[j])
    BY <1>1, <2>1 DEF HApply, HistoryTypes
  <2>5. \A j \in Key : Len(log[j]) \in Nat /\ Len(log'[j]) \in Nat /\ birth'[j] \in Nat
    BY <2>3, <2>4 DEF HistoryTypes
  <2> QED
    BY <2>3, <2>4, <2>5 DEF HistoryTypes
<1>2. CASE HRestart
  BY <1>2, EmptySeq DEF HRestart, HistoryTypes
<1>3. CASE UNCHANGED <<log, birth>>
  BY <1>3 DEF HistoryTypes
<1> QED
  BY <1>1, <1>2, <1>3 DEF HNext, hvars

LEMMA QueueStep ==
  ASSUME TypeOK, HistoryInv, [HNext]_hvars
  PROVE  QueueIsLog'
<1>1. ASSUME NEW k \in DOMAIN Live
      PROVE  k \in Key /\ EndOf(Live[k].seenEventIDFIFO, log[k], birth[k])
  BY <1>1, LiveRow, ExpireKeeps DEF HistoryInv, QueueIsLog, TypeOK
<1>2. ASSUME NEW ev \in Event, HApply(ev), ~ Accepted(ev)
      PROVE  QueueIsLog'
  <2>1. sessions' = Live /\ log' = log
    BY <1>2 DEF HApply, Accepted, Apply, ApplyDuplicate, ApplyIgnored, ApplyStart,
               ApplyEnd, ApplyTransition, Duplicate
  <2>2. ASSUME NEW k \in DOMAIN Live
        PROVE  birth'[k] = birth[k]
    BY <1>1, <1>2, <2>2 DEF HApply, Tracked, HistoryInv, HistoryTypes
  <2> QED
    BY <1>1, <2>1, <2>2 DEF QueueIsLog
<1>3. ASSUME NEW ev \in Event, HApply(ev), Accepted(ev)
      PROVE  QueueIsLog'
  <2> DEFINE k == ev.key
  <2>1. /\ log' = [log EXCEPT ![k] = Append(@, ev.eventID)]
        /\ birth' = IF Tracked(ev) THEN birth ELSE [birth EXCEPT ![k] = Len(log[k])]
    BY <1>3 DEF HApply
  <2>2. /\ k \in Key /\ log \in [Key -> Seq(EventId)] /\ birth \in [Key -> Nat]
        /\ Len(log[k]) \in Nat
    BY DEF Event, HistoryInv, HistoryTypes
  <2>3. /\ log'[k] = Append(log[k], ev.eventID)
        /\ birth'[k] = IF Tracked(ev) THEN birth[k] ELSE Len(log[k])
    BY <2>1, <2>2
  <2>4. ASSUME NEW j \in DOMAIN Live, j # k
        PROVE  log'[j] = log[j] /\ birth'[j] = birth[j]
    BY <1>1, <2>1, <2>2, <2>4
  <2>5. \/ ApplyStart(ev) /\ sessions' = put(Live, k, StartedRow(ev))
        \/ Tracked(ev) /\ sessions' = put(Live, k, EndedRow(ev))
        \/ sessions' = delete(Live, k)
        \/ ~ ApplyStart(ev) /\ sessions' = put(Live, k, MovedRow(ev))
    BY <1>3 DEF HApply, Accepted, Apply, ApplyDuplicate, ApplyIgnored, ApplyStart,
                ApplyEnd, ApplyTransition, StartedRow, EndedRow, MovedRow
  <2>6. ApplyStart(ev) => ~ Tracked(ev)
    BY DEF ApplyStart
  <2>7. /\ ApplyStart(ev) => EndOf(StartedRow(ev).seenEventIDFIFO, log'[k], birth'[k])
        /\ EndOf(EndedRow(ev).seenEventIDFIFO, log'[k], birth'[k])
        /\ EndOf(MovedRow(ev).seenEventIDFIFO, log'[k], birth'[k])
    BY <2>3, <2>6, ReceivedEnd, MovedMemory
  <2>8. ASSUME NEW rec, sessions' = put(Live, k, rec),
               EndOf(rec.seenEventIDFIFO, log'[k], birth'[k]),
               NEW j \in DOMAIN sessions'
        PROVE  EndOf(sessions'[j].seenEventIDFIFO, log'[j], birth'[j])
    BY <1>1, <2>4, <2>8, PutRow
  <2>9. ASSUME sessions' = delete(Live, k), NEW j \in DOMAIN sessions'
        PROVE  EndOf(sessions'[j].seenEventIDFIFO, log'[j], birth'[j])
    BY <1>1, <2>4, <2>9 DEF delete, Restrict
  <2>10. ASSUME NEW j \in DOMAIN sessions'
         PROVE  EndOf(sessions'[j].seenEventIDFIFO, log'[j], birth'[j])
    BY <2>5, <2>7, <2>8, <2>9
  <2> QED
    BY <2>10 DEF QueueIsLog
<1>4. CASE Snapshot /\ UNCHANGED <<log, birth>>
  BY <1>1, <1>4 DEF Snapshot, QueueIsLog
<1>5. CASE sessions' = sessions /\ UNCHANGED <<log, birth>>
  BY <1>5 DEF QueueIsLog, HistoryInv
<1>6. CASE HRestart
  BY <1>6, EmptySeq DEF HRestart, Restart, QueueIsLog
<1> QED
  BY <1>2, <1>3, <1>4, <1>5, <1>6 DEF HNext, hvars, Tick

-----------------------------------------------------------------------------

(* The record only watches: without it every step is one of the manager. *)
LEMMA HistoryOfSessions == HSpec => Spec
<1>1. HInit => Init
  BY DEF HInit
<1>2. [HNext]_hvars => [Next]_vars
  BY DEF HNext, HApply, HRestart, Next, hvars, vars
<1> QED
  BY <1>1, <1>2, PTL DEF HSpec, Spec

(* In every reachable state the queue of a row is the end of what it accepted. *)
THEOREM HistoryInvHolds == HSpec => []HistoryInv
<1>1. HInit => HistoryInv
  BY EmptySeq DEF HInit, Init, HistoryInv, HistoryTypes, QueueIsLog
<1>2. TypeOK /\ HistoryInv /\ [HNext]_hvars => HistoryInv'
  BY HistoryTypesStep, QueueStep DEF HistoryInv
<1> QED
  BY <1>1, <1>2, HistoryOfSessions, TypeCorrect, PTL DEF HSpec

(* What a row remembers is the recent part of its log, so that a call that brings a
   recent id finds a duplicate.                                              *)
LEMMA RecentIsDuplicate ==
  ASSUME TypeOK, MemoryInv, HistoryInv, NEW ev \in Event, Tracked(ev),
         ev.eventID \in Recent(ev.key)
  PROVE  Duplicate(ev)
<1> DEFINE k    == ev.key
           fifo == sessions[k].seenEventIDFIFO
           n    == Len(log[k])
<1>1. k \in DOMAIN sessions /\ sessions[k] \in SessionRecord /\ k \in Key
      /\ now \in Nat /\ Live[k] = expire(sessions[k], now)
  BY LiveRow DEF Tracked, TypeOK
<1>2. Live[k].seenEventIDs = Range(fifo)
  BY <1>1, ExpireKeeps DEF MemoryInv, MemoryRow
<1>3. /\ fifo \in Seq(EventId) /\ n \in Nat /\ birth[k] \in Nat /\ birth[k] <= n
      /\ Len(fifo) \in Nat
  BY <1>1 DEF HistoryInv, HistoryTypes, SessionRecord
<1>4. /\ Len(fifo) = IF n - birth[k] > MaxSeenEventIDs THEN MaxSeenEventIDs
                     ELSE n - birth[k]
      /\ \A i \in 1..Len(fifo) : fifo[i] = log[k][n - Len(fifo) + i]
  BY <1>1 DEF HistoryInv, QueueIsLog, EndOf
<1>5. PICK i \in birth[k] + 1 .. n : i > n - MaxSeenEventIDs /\ ev.eventID = log[k][i]
  BY DEF Recent
<1> DEFINE at == i - (n - Len(fifo))
<1> HIDE DEF fifo, n
<1>6. at \in 1..Len(fifo) /\ n - Len(fifo) + at = i
  <2>1. i \in Int /\ i <= n /\ i > birth[k] /\ i > n - MaxSeenEventIDs
    BY <1>3, <1>5
  <2>2. i > n - Len(fifo)
    BY <1>3, <1>4, <2>1, DedupAssumption
  <2> QED
    BY <1>3, <2>1, <2>2
<1>7. fifo[at] = ev.eventID
  BY <1>4, <1>5, <1>6 DEF n
<1>8. ev.eventID \in Range(fifo)
  BY <1>3, <1>6, <1>7 DEF Range
<1> QED
  BY <1>2, <1>8 DEF Duplicate, fifo

(* A repeat of one of the last MaxSeenEventIDs ids that the row in the table has
   accepted changes nothing, whatever the bound and whatever came in between. *)
THEOREM RecentRepeatHolds == HSpec => []RecentRepeatIsNoOp
<1>1. HInit => RecentRepeatIsNoOp
  BY DEF HInit, RecentRepeatIsNoOp, NoCall
<1>2. ASSUME TypeOK, MemoryInv, HistoryInv, RecentRepeatIsNoOp, [HNext]_hvars
      PROVE  RecentRepeatIsNoOp'
  <2>1. ASSUME NEW ev \in Event, HApply(ev)
        PROVE  RecentRepeatIsNoOp'
    <3>1. /\ step'.recent => Tracked(ev) /\ ev.eventID \in Recent(ev.key)
          /\ sessions' = Live => step'.untouched
      BY <2>1 DEF HApply
    <3>2. Duplicate(ev) => sessions' = Live
      BY <2>1 DEF HApply, Apply, ApplyDuplicate, ApplyIgnored, ApplyStart, ApplyEnd,
                  ApplyTransition, Duplicate
    <3> QED
      BY <1>2, <3>1, <3>2, RecentIsDuplicate DEF RecentRepeatIsNoOp
  <2>2. CASE step' = NoCall
    BY <2>2 DEF RecentRepeatIsNoOp, NoCall
  <2>3. CASE UNCHANGED hvars
    BY <1>2, <2>3 DEF RecentRepeatIsNoOp, hvars
  <2> QED
    BY <1>2, <2>1, <2>2, <2>3 DEF HNext, HRestart
<1> QED
  BY <1>1, <1>2, HistoryInvHolds, HistoryOfSessions, TypeCorrect, MemoryInvHolds, PTL
  DEF HSpec
=============================================================================
