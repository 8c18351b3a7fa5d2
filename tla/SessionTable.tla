---------------------------- MODULE SessionTable ----------------------------
(* One row of the session table (types.SessionRecord) and what the manager in
   src/server/internal/sessions does to a row, as operators on records: the
   bounded dedup memory, the cadence window, the staleness judgement, and what
   the passing of time alone does (reconcile).  Times are whole ticks.        *)
EXTENDS Integers, Sequences, FiniteSets, Functions, StateMachine

CONSTANTS EventId,         \* identifiers the hooks put on events
          DoneDuration,    \* how long DONE, and an ended urgent state, shows
          StaleFactor,     \* silence allowed, in medians of the own cadence
          StaleFloor,      \* silence always allowed
          StaleMinSamples, \* gaps needed before silence is judged at all
          MaxIntervals,    \* length of the cadence window
          MaxSeenEventIDs  \* length of the dedup memory

ASSUME DurationAssumption == DoneDuration \in Nat /\ StaleFloor \in Nat
ASSUME CadenceAssumption ==
  /\ StaleFactor \in Nat
  /\ MaxIntervals \in Nat
  /\ StaleMinSamples \in Nat \ {0}   \* median indexes an empty slice otherwise
ASSUME DedupAssumption == MaxSeenEventIDs \in Nat   \* 0: no memory

NoTime == -1   \* time.Time{} or a nil *time.Time

SessionRecord ==
  [state           : AgentState,
   since           : Nat,
   lastEventAt     : Nat,
   seenEventIDs    : SUBSET EventId,
   seenEventIDFIFO : Seq(EventId),
   recentIntervals : Seq(Nat),
   removeAt        : Nat \cup {NoTime},
   doneExpiresAt   : Nat \cup {NoTime}]

-----------------------------------------------------------------------------
(* What an accepted event leaves on its row. *)

create(state, t) ==
  [state           |-> state,
   since           |-> t,
   lastEventAt     |-> NoTime,
   seenEventIDs    |-> {},
   seenEventIDFIFO |-> << >>,
   recentIntervals |-> << >>,
   removeAt        |-> NoTime,
   doneExpiresAt   |-> NoTime]

(* Broken setState: a state other than DONE keeps the old deadline. *)
setState_keepsDeadline(rec, next, t) ==
  [rec EXCEPT !.state = next,
              !.since = IF rec.state # next THEN t ELSE @,
              !.doneExpiresAt = IF next = "done" THEN t + DoneDuration ELSE @]

setState(rec, next, t) ==
  [rec EXCEPT !.state = next,
              !.since = IF rec.state # next THEN t ELSE @,
              !.doneExpiresAt = IF next = "done" THEN t + DoneDuration ELSE NoTime]

(* Broken markSeen: the queue is cut but the set keeps the id. *)
markSeen_onlyCutsQueue(rec, id) ==
  LET fifo == Append(rec.seenEventIDFIFO, id)
  IN [rec EXCEPT !.seenEventIDs    = @ \cup {id},
                 !.seenEventIDFIFO = IF Len(fifo) > MaxSeenEventIDs THEN Tail(fifo)
                                                                    ELSE fifo]

(* Broken markSeen: the bound is off by one. *)
markSeen_forgetsEarly(rec, id) ==
  LET fifo == Append(rec.seenEventIDFIFO, id)
      full == Len(fifo) >= MaxSeenEventIDs
      ids  == rec.seenEventIDs \cup {id}
  IN [rec EXCEPT !.seenEventIDs    = IF full THEN ids \ {Head(fifo)} ELSE ids,
                 !.seenEventIDFIFO = IF full THEN Tail(fifo) ELSE fifo]

(* Remember an event id, forgetting the oldest one beyond the bound. *)
markSeen(rec, id) ==
  LET fifo == Append(rec.seenEventIDFIFO, id)
      full == Len(fifo) > MaxSeenEventIDs
      ids  == rec.seenEventIDs \cup {id}
  IN [rec EXCEPT !.seenEventIDs    = IF full THEN ids \ {Head(fifo)} ELSE ids,
                 !.seenEventIDFIFO = IF full THEN Tail(fifo) ELSE fifo]

lastN(s, n) == IF Len(s) > n THEN SubSeq(s, Len(s) - n + 1, Len(s)) ELSE s

(* Broken observe: the first arrival is not recorded. *)
observe_missesFirst(rec, t) ==
  IF rec.lastEventAt = NoTime THEN rec ELSE [rec EXCEPT !.lastEventAt = t]

(* Record an arrival: the gap since the previous one joins the window. *)
observe(rec, t) ==
  LET gap == t - rec.lastEventAt
  IN [rec EXCEPT !.lastEventAt = t,
                 !.recentIntervals =
                    IF rec.lastEventAt # NoTime /\ gap > 0
                    THEN lastN(Append(@, gap), MaxIntervals)
                    ELSE @]

-----------------------------------------------------------------------------
(* What silence and deadlines do to a row. *)

(* Broken sorted: the samples are taken in order of arrival. *)
sorted_asReceived(d, i) == d[i + 1]

(* The element that sorting d would put at index i, counted from 0. *)
sorted(d, i) ==
  CHOOSE v \in Range(d) :
    /\ Cardinality({j \in DOMAIN d : d[j] < v}) <= i
    /\ Cardinality({j \in DOMAIN d : d[j] <= v}) > i

median(d) ==
  LET half == Len(d) \div 2
  IN IF Len(d) % 2 = 1 THEN sorted(d, half)
                       ELSE (sorted(d, half - 1) + sorted(d, half)) \div 2

threshold(rec) ==
  LET cadence == median(rec.recentIntervals) * StaleFactor
  IN IF cadence < StaleFloor THEN StaleFloor ELSE cadence

isStale(rec, t) ==
  /\ Len(rec.recentIntervals) >= StaleMinSamples
  /\ rec.lastEventAt # NoTime
  /\ t - rec.lastEventAt > threshold(rec)

(* Broken deadlines: one tick late, or missed unless read on the very tick. *)
removalDue_late(rec, t) == rec.removeAt # NoTime /\ rec.removeAt < t
removalDue_exact(rec, t) == rec.removeAt # NoTime /\ rec.removeAt = t

doneExpired_exact(rec, t) ==
  rec.state = "done" /\ rec.doneExpiresAt # NoTime /\ rec.doneExpiresAt = t

(* The three outcomes of reconcile's loop body, in the order it tries them. *)
removalDue(rec, t) == rec.removeAt # NoTime /\ rec.removeAt <= t

doneExpired(rec, t) ==
  rec.state = "done" /\ rec.doneExpiresAt # NoTime /\ rec.doneExpiresAt <= t

goneStale(rec, t) == rec.state = "executing" /\ isStale(rec, t)

(* Broken expire: IDLE dated from the call that found it, or a silent agent taken
   for a failed one.                                                         *)
expire_datedByCall(rec, t) ==
  IF doneExpired(rec, t) THEN setState(rec, "idle", t) ELSE rec

expire_infersError(rec, t) ==
  IF doneExpired(rec, t) THEN setState(rec, "idle", rec.doneExpiresAt)
  ELSE IF goneStale(rec, t) THEN setState(rec, "error", t)
  ELSE rec

expire(rec, t) ==
  IF doneExpired(rec, t) THEN setState(rec, "idle", rec.doneExpiresAt)
  ELSE IF goneStale(rec, t)
       THEN [setState(rec, "unknown", t) EXCEPT !.recentIntervals = << >>]
  ELSE rec

(* A table is a function from the keys of the live sessions to their rows. *)
reconcile(table, t) ==
  [k \in {k \in DOMAIN table : ~ removalDue(table[k], t)} |-> expire(table[k], t)]

-----------------------------------------------------------------------------

(* Broken Urgent: UNKNOWN is removed like IDLE. *)
Urgent_sure == {"waiting", "error"}

(* States that outlive their session by DoneDuration. *)
Urgent == {"waiting", "error", "unknown"}

put(table, k, rec) ==
  [j \in DOMAIN table \cup {k} |-> IF j = k THEN rec ELSE table[j]]

delete(table, k) == Restrict(table, DOMAIN table \ {k})

scheduleRemoval(rec, t) ==
  [rec EXCEPT !.removeAt = t + DoneDuration, !.doneExpiresAt = NoTime]
=============================================================================
