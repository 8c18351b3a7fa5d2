-------------------------- MODULE StateServerProofs --------------------------
(* Theorems of StateServer, for every value of its constants: what an answer of
   GET /state tells, whatever happens to the table while it is built; and of
   Screens: what is made of an answer.                                       *)
EXTENDS Screens, SessionsProofs

-----------------------------------------------------------------------------
(* The operators of Aggregation. *)

(* The date of an answer is the moment it stands for, cut by less than a second. *)
LEMMA FormatTimeCuts ==
  ASSUME NEW t \in Nat
  PROVE  /\ formatTime(t) \in Nat
         /\ formatTime(t) <= t
         /\ t < formatTime(t) + Second
BY SecondAssumption DEF formatTime

LEMMA FormatTimeMonotone ==
  ASSUME NEW s \in Nat, NEW t \in Nat, s <= t
  PROVE  formatTime(s) <= formatTime(t)
BY SecondAssumption DEF formatTime

(* The most urgent of some states is one of them, and IDLE of none. *)
LEMMA MostUrgentIsMax ==
  ASSUME NEW states \in SUBSET AgentState
  PROVE  LET s == mostUrgent(states)
         IN /\ s \in states \cup {"idle"}
            /\ s \in AgentState
            /\ states # {} => s \in states
            /\ \A other \in states : priority[other] <= priority[s]
<1> DEFINE Top(s) == \A other \in states : priority[other] <= priority[s]
<1>1. \E s \in states \cup {"idle"} : Top(s)
  <2>1. CASE "waiting" \in states
    BY <2>1 DEF AgentState, priority
  <2>2. CASE "waiting" \notin states /\ "error" \in states
    BY <2>2 DEF AgentState, priority
  <2>3. CASE states \cap {"waiting", "error"} = {} /\ "unknown" \in states
    BY <2>3 DEF AgentState, priority
  <2>4. CASE states \cap {"waiting", "error", "unknown"} = {} /\ "executing" \in states
    BY <2>4 DEF AgentState, priority
  <2>5. CASE states \cap {"waiting", "error", "unknown", "executing"} = {}
             /\ "done" \in states
    BY <2>5 DEF AgentState, priority
  <2>6. CASE states \subseteq {"idle"}
    BY <2>6 DEF priority
  <2> QED
    BY <2>1, <2>2, <2>3, <2>4, <2>5, <2>6 DEF AgentState
<1> DEFINE s == mostUrgent(states)
<1>2. s \in states \cup {"idle"} /\ Top(s)
  BY <1>1 DEF mostUrgent
<1>3. ASSUME states # {}
      PROVE  s \in states
  <2>1. PICK x \in states : priority[x] <= priority[s]
    BY <1>2, <1>3
  <2> HIDE DEF s
  <2>2. x = "idle" \/ priority[x] > priority["idle"]
    BY DEF AgentState, priority
  <2>3. priority[x] \in Nat /\ priority["idle"] \in Nat
    BY DEF AgentState, priority
  <2> QED
    BY <1>2, <2>1, <2>2, <2>3
<1> QED
  BY <1>2, <1>3 DEF AgentState

(* priority is the order of docs/protocol.md: the most urgent state heads the rest. *)
LEMMA MostUrgentHeads ==
  ASSUME NEW states \in SUBSET AgentState
  PROVE  Heads(mostUrgent(states), states)
<1> DEFINE s == mostUrgent(states)
<1>1. /\ s \in states \cup {"idle"} /\ s \in AgentState
      /\ \A other \in states : priority[other] <= priority[s]
  BY MostUrgentIsMax
<1> HIDE DEF s
<1>2. PICK i \in 1..6 : Order[i] = s
  BY <1>1 DEF AgentState, Order
<1>3. ASSUME NEW j \in 1 .. i - 1
      PROVE  Order[j] \notin states
  <2>1. priority[Order[j]] > priority[Order[i]]
    BY DEF priority, Order
  <2>2. priority[Order[j]] \in Nat /\ priority[Order[i]] \in Nat
    BY DEF priority, Order
  <2> QED
    BY <1>1, <1>2, <2>1, <2>2
<1> QED
  BY <1>1, <1>2, <1>3 DEF Heads, s

(* What a snapshot holds of a row. *)
Copy == [tool : Tool, sessionID : SessionID, state : AgentState, since : Nat]

(* The flag and the date of a tool follow from its sessions in the same way. *)
LEMMA ToolStatusTells ==
  ASSUME NEW recs \in SUBSET Copy, recs # {}, IsFiniteSet(recs),
         NEW changed \in Nat, \A r \in recs : r.since <= changed,
         NEW t \in Nat
  PROVE  LET status == toolStatus(recs, t, WaitingTooLong)
             age    == t - status.since
         IN /\ status.state \in AgentState
            /\ status.since \in Nat
            /\ status.since <= formatTime(changed)
            /\ status.activeSessions \in Nat
            /\ status.activeSessions > 0
            /\ status.waitingTooLong \in BOOLEAN
            /\ status.waitingTooLong
                 => status.state = "waiting" /\ age >= WaitingTooLong
            /\ (status.state = "waiting" /\ age >= WaitingTooLong + Second)
                 => status.waitingTooLong
<1> DEFINE state   == mostUrgent({r.state : r \in recs})
           holders == {r \in recs : r.state = state}
           dates   == {r.since : r \in holders}
           first   == CHOOSE d \in dates : \A r \in holders : d <= r.since
           tooLong == state = "waiting" /\ \E r \in holders : t - r.since >= WaitingTooLong
<1>1. state \in AgentState /\ holders # {}
  <2>1. {r.state : r \in recs} \in SUBSET AgentState /\ {r.state : r \in recs} # {}
    BY DEF Copy
  <2>2. state \in {r.state : r \in recs} /\ state \in AgentState
    BY <2>1, MostUrgentIsMax
  <2> HIDE DEF state
  <2> QED
    BY <2>2
<1> HIDE DEF state
<1>2. dates \in SUBSET Nat /\ dates # {}
  BY <1>1 DEF Copy
<1>3. first \in dates /\ \A r \in holders : first <= r.since
  <2>1. \A r \in holders : r.since \in dates
    OBVIOUS
  <2> HIDE DEF dates, holders
  <2>2. PICK d \in dates : \A n \in dates : d <= n
    BY <1>2, LeastExists
  <2> QED
    BY <2>1, <2>2
<1>4. Cardinality(recs) \in Nat /\ Cardinality(recs) > 0
  BY FS_CardinalityType, FS_EmptySet
<1>5. PICK oldest \in holders : first = oldest.since
  BY <1>3
<1>6. first \in Nat /\ first <= changed
  BY <1>2, <1>3, <1>5
<1> HIDE DEF first, dates
<1>7. /\ formatTime(first) \in Nat
      /\ formatTime(first) <= first
      /\ first < formatTime(first) + Second
      /\ formatTime(first) <= formatTime(changed)
  BY <1>6, FormatTimeCuts, FormatTimeMonotone
<1>8. ASSUME tooLong
      PROVE  t - formatTime(first) >= WaitingTooLong
  <2>1. PICK r \in holders : t - r.since >= WaitingTooLong
    BY <1>8
  <2>2. first <= r.since /\ r.since \in Nat
    BY <1>3 DEF Copy
  <2> QED
    BY <1>6, <1>7, <2>1, <2>2, UrgencyAssumption
<1>9. ASSUME state = "waiting", t - formatTime(first) >= WaitingTooLong + Second
      PROVE  tooLong
  <2>1. t - first >= WaitingTooLong
    BY <1>6, <1>7, <1>9, UrgencyAssumption, SecondAssumption
  <2> QED
    BY <1>5, <1>9, <2>1
<1>10. toolStatus(recs, t, WaitingTooLong)
         = [state          |-> state,
            since          |-> formatTime(first),
            activeSessions |-> Cardinality(recs),
            waitingTooLong |-> tooLong]
  BY DEF toolStatus, first, dates, state
<1>11. tooLong \in BOOLEAN
  OBVIOUS
<1> DEFINE status == toolStatus(recs, t, WaitingTooLong)
<1> HIDE DEF tooLong, holders
<1>12. /\ status.state = state
       /\ status.since = formatTime(first)
       /\ status.activeSessions = Cardinality(recs)
       /\ status.waitingTooLong = tooLong
  BY <1>10
<1>13. tooLong => state = "waiting"
  BY DEF tooLong
<1> HIDE DEF status
<1> QED
  BY <1>1, <1>4, <1>7, <1>8, <1>9, <1>11, <1>12, <1>13 DEF status

(* What a handler has in hand between its snapshot and its answer. *)
IsSnapshot(recs, changed) ==
  /\ recs \in SUBSET Copy
  /\ IsFiniteSet(recs)
  /\ changed \in Nat
  /\ \A r \in recs : r.since <= changed

(* Each tool of an answer is one that a session of the snapshot is of. *)
LEMMA AnswerTools ==
  ASSUME NEW recs, NEW changed, IsSnapshot(recs, changed), NEW t \in Nat,
         NEW n \in DOMAIN Build(recs, changed, t, WaitingTooLong).tools
  PROVE  LET status == Build(recs, changed, t, WaitingTooLong).tools[n]
             age    == t - status.since
         IN /\ n \in Tool
            /\ status.state \in AgentState
            /\ status.since \in Nat
            /\ status.since <= formatTime(changed)
            /\ status.activeSessions > 0
            /\ status.waitingTooLong
                 => status.state = "waiting" /\ age >= WaitingTooLong
            /\ (status.state = "waiting" /\ age >= WaitingTooLong + Second)
                 => status.waitingTooLong
<1> DEFINE own == {r \in recs : r.tool = n}
<1>1. n \in {r.tool : r \in recs}
  BY DEF Build
<1>2. Build(recs, changed, t, WaitingTooLong).tools[n]
        = toolStatus(own, t, WaitingTooLong)
  BY <1>1 DEF Build
<1>3. own \in SUBSET Copy /\ own # {} /\ \A r \in own : r.since <= changed
  BY <1>1 DEF IsSnapshot
<1>4. IsFiniteSet(own)
  BY FS_Subset DEF IsSnapshot
<1>5. n \in Tool
  BY <1>1 DEF IsSnapshot, Copy
<1> HIDE DEF own
<1> QED
  BY <1>2, <1>3, <1>4, <1>5, ToolStatusTells DEF IsSnapshot

(* The headline is the most urgent of the tools, and the first of those. *)
HeadlineOf(answer) ==
  LET head  == answer.overall
      rows  == answer.tools
  IN /\ Heads(head.state, {rows[n].state : n \in DOMAIN rows})
     /\ IF head.state = "idle" THEN head.tool = NoTool
        ELSE /\ head.tool \in DOMAIN rows
             /\ rows[head.tool].state = head.state
             /\ \A n \in DOMAIN rows :
                  rows[n].state = head.state => head.tool <= n

LEMMA AnswerHeadline ==
  ASSUME NEW recs, NEW changed, IsSnapshot(recs, changed), NEW t \in Nat
  PROVE  LET answer == Build(recs, changed, t, WaitingTooLong)
         IN HeadlineOf(answer) /\ answer.overall.tool \in Tool \cup {NoTool}
<1> DEFINE answer  == Build(recs, changed, t, WaitingTooLong)
           rows    == answer.tools
           states  == {rows[n].state : n \in DOMAIN rows}
           state   == mostUrgent(states)
           holders == {n \in DOMAIN rows : rows[n].state = state}
           first   == CHOOSE n \in holders : \A m \in holders : n <= m
<1>1. answer.overall = [state |-> state, tool |-> IF state = "idle" THEN NoTool ELSE first]
  BY DEF Build, overall
<1>2. /\ DOMAIN rows \subseteq Tool
      /\ \A n \in DOMAIN rows : rows[n].state \in AgentState
  BY AnswerTools
<1> HIDE DEF answer
<1>3. states \in SUBSET AgentState
  BY <1>2
<1>4. Heads(state, states) /\ state \in states \cup {"idle"}
  <2> HIDE DEF states
  <2> QED
    BY <1>3, MostUrgentIsMax, MostUrgentHeads
<1> HIDE DEF state
<1>5. ASSUME state # "idle"
      PROVE  first \in holders /\ \A m \in holders : first <= m
  <2>1. holders # {}
    BY <1>4, <1>5
  <2>2. holders \in SUBSET Nat
    BY <1>2, ToolAssumption
  <2> HIDE DEF holders
  <2>3. \E n \in holders : \A m \in holders : n <= m
    BY <2>1, <2>2, LeastExists
  <2> QED
    BY <2>3
<1> HIDE DEF first
<1>6. answer.overall.state = state
      /\ answer.overall.tool = IF state = "idle" THEN NoTool ELSE first
  BY <1>1
<1> QED
  BY <1>2, <1>4, <1>5, <1>6 DEF answer, HeadlineOf

-----------------------------------------------------------------------------
(* The invariant: whatever a client holds comes from one snapshot, and stays what
   that snapshot was, however long the handler takes.                        *)

CallInv(one) ==
  /\ one.stage \in {"none", "snapshot", "answered"}
  /\ one.stage = "snapshot" => /\ IsSnapshot(one.recs, one.updatedAt)
                               /\ one.updatedAt <= updatedAt
  /\ one.stage = "answered" =>
       /\ one.servedAt \in Nat
       /\ \E recs, changed :
            /\ IsSnapshot(recs, changed)
            /\ changed <= updatedAt /\ changed <= one.servedAt
            /\ one.response = Build(recs, changed, one.servedAt, WaitingTooLong)

ServerInv ==
  /\ TypeOK
  /\ DatesOrdered
  /\ IsFiniteSet(DOMAIN sessions)
  /\ DOMAIN call = Conn
  /\ \A c \in Conn : CallInv(call[c])

(* Only a well-formed event for a known key gets to the manager. *)
LEMMA NormalizedType ==
  ASSUME NEW body \in Input, Parse(body)
  PROVE  Normalized(body.ev) \in Event
<1>1. body.ev \in Envelope /\ Validate(body.ev)
  BY InputAssumption DEF Parse
<1>2. /\ body.ev.eventID \in EventId /\ body.ev.source \in Tool
      /\ body.ev.sessionID \in SessionID
  BY <1>1 DEF Envelope, Validate, checkIdentifier
<1>3. body.ev.event \in NormalizedEventType
  BY <1>1 DEF Validate, known, NormalizedEventType
<1> QED
  BY <1>2, <1>3 DEF Normalized, Event, Key

(* All that is done to the calls, whoever posts the events. *)
CallStep ==
  \/ UNCHANGED call
  \/ \E c \in Conn : handleState_Snapshot(c) \/ handleState_Build(c)
  \/ ServerRestart

(* The HTTP layer does nothing to the table but what the manager does. *)
LEMMA ServerStep ==
  ASSUME [SNext]_svars
  PROVE  [Next]_vars /\ CallStep
<1>1. ASSUME handleEvents
      PROVE  [Next]_vars /\ CallStep
  BY <1>1, NormalizedType DEF handleEvents, Next, CallStep
<1>2. ASSUME NEW c \in Conn, handleState_Snapshot(c) \/ handleState_Build(c)
      PROVE  [Next]_vars /\ CallStep
  BY <1>2 DEF handleState_Snapshot, handleState_Build, Next, CallStep
<1>3. ASSUME ServerRestart \/ (Tick /\ UNCHANGED call)
      PROVE  [Next]_vars /\ CallStep
  BY <1>3 DEF ServerRestart, Next, CallStep
<1>4. ASSUME UNCHANGED svars
      PROVE  [Next]_vars /\ CallStep
  BY <1>4 DEF svars, vars, CallStep
<1> QED
  BY <1>1, <1>2, <1>3, <1>4 DEF SNext

(* A table stays finite: a step adds one row at most. *)
LEMMA FiniteStep ==
  ASSUME IsFiniteSet(DOMAIN sessions), [Next]_vars
  PROVE  IsFiniteSet(DOMAIN sessions')
<1>1. IsFiniteSet(DOMAIN Live)
  <2>1. DOMAIN Live \subseteq DOMAIN sessions
    BY DEF Live, reconcile
  <2> QED
    BY <2>1, FS_Subset
<1>2. ASSUME NEW k, NEW rec
      PROVE  IsFiniteSet(DOMAIN put(Live, k, rec)) /\ IsFiniteSet(DOMAIN delete(Live, k))
  <2>1. DOMAIN put(Live, k, rec) = DOMAIN Live \cup {k}
    BY DEF put
  <2>2. DOMAIN delete(Live, k) \subseteq DOMAIN Live
    BY DEF delete, Restrict
  <2> QED
    BY <1>1, <2>1, <2>2, FS_AddElement, FS_Subset
<1>3. ASSUME NEW ev \in Event, Apply(ev)
      PROVE  IsFiniteSet(DOMAIN sessions')
  <2>1. \/ sessions' = Live
        \/ \E rec : sessions' = put(Live, ev.key, rec)
        \/ sessions' = delete(Live, ev.key)
    BY <1>3 DEF Apply, ApplyDuplicate, ApplyIgnored, ApplyStart, ApplyEnd, ApplyTransition
  <2> QED
    BY <1>1, <1>2, <2>1
<1>4. ASSUME Restart
      PROVE  IsFiniteSet(DOMAIN sessions')
  BY <1>4, FS_EmptySet DEF Restart
<1> QED
  BY <1>1, <1>3, <1>4 DEF Next, Snapshot, Tick, vars

(* The copies are those of the rows as they are reconciled, and so is updatedAt. *)
LEMMA CopiesAreSnapshot ==
  ASSUME ServerInv
  PROVE  IsSnapshot(Copies, ReconciledAt)
<1>1. IsTable(Live) /\ ReconciledAt \in Nat
  BY LiveType DEF ServerInv
<1>2. \A k \in DOMAIN Live : Live[k].since <= ReconciledAt
  BY LiveDates DEF ServerInv, DatedRow
<1>3. Copies \in SUBSET Copy
  <2>1. ASSUME NEW k \in DOMAIN Live
        PROVE  [tool |-> k[1], sessionID |-> k[2],
                state |-> Live[k].state, since |-> Live[k].since] \in Copy
    <3>1. k[1] \in Tool /\ k[2] \in SessionID
      BY <1>1, <2>1 DEF IsTable, Key
    <3>2. Live[k].state \in AgentState /\ Live[k].since \in Nat
      BY <1>1, <2>1 DEF IsTable, SessionRecord
    <3> QED
      BY <3>1, <3>2 DEF Copy
  <2> QED
    BY <2>1 DEF Copies
<1>4. IsFiniteSet(Copies)
  <2>1. IsFiniteSet(DOMAIN Live)
    <3>1. DOMAIN Live \subseteq DOMAIN sessions
      BY DEF Live, reconcile
    <3> QED
      BY <3>1, FS_Subset DEF ServerInv
  <2> DEFINE copy == [k \in DOMAIN Live |->
                       [tool |-> k[1], sessionID |-> k[2],
                        state |-> Live[k].state, since |-> Live[k].since]]
  <2>2. copy \in Surjection(DOMAIN Live, Copies)
    BY DEF Surjection, Copies
  <2> QED
    BY <2>1, <2>2, FS_Surjection
<1>5. \A r \in Copies : r.since <= ReconciledAt
  BY <1>2 DEF Copies
<1> QED
  BY <1>1, <1>3, <1>4, <1>5 DEF IsSnapshot

(* updatedAt never goes back, so what a client holds stays in the past. *)
LEMMA UpdatedAtGrows ==
  ASSUME TypeOK, DatesOrdered, [Next]_vars
  PROVE  updatedAt' >= updatedAt
BY DEF TypeOK, DatesOrdered, ReconciledAt, Next, vars, Apply, ApplyDuplicate,
       ApplyIgnored, ApplyStart, ApplyEnd, ApplyTransition, Snapshot, Tick, Restart

LEMMA CallInvKept ==
  ASSUME ServerInv, [Next]_vars, NEW c \in Conn, call'[c] = call[c]
  PROVE  CallInv(call[c])'
<1>1. updatedAt' >= updatedAt /\ updatedAt \in Nat /\ updatedAt' \in Nat
  BY UpdatedAtGrows, TypeStep DEF ServerInv, TypeOK
<1>2. \A changed \in Nat : changed <= updatedAt => changed <= updatedAt'
  BY <1>1
<1>3. CallInv(call[c])
  BY DEF ServerInv
<1> QED
  BY <1>2, <1>3 DEF CallInv, IsSnapshot

LEMMA ServerInvStep ==
  ASSUME ServerInv, [Next]_vars, CallStep
  PROVE  ServerInv'
<1>1. TypeOK' /\ DatesOrdered' /\ IsFiniteSet(DOMAIN sessions')
  BY TypeStep, DatesStep, FiniteStep DEF ServerInv
<1>2. ASSUME UNCHANGED call
      PROVE  ServerInv'
  BY <1>1, <1>2, CallInvKept DEF ServerInv
<1>3. ASSUME NEW c \in Conn, handleState_Snapshot(c)
      PROVE  ServerInv'
  <2>1. /\ call'[c] = [stage |-> "snapshot", recs |-> Copies, updatedAt |-> ReconciledAt]
        /\ DOMAIN call' = Conn
        /\ \A d \in Conn \ {c} : call'[d] = call[d]
    BY <1>3 DEF handleState_Snapshot, ServerInv
  <2>2. updatedAt' = ReconciledAt /\ ReconciledAt \in Nat
    BY <1>3, LiveType DEF handleState_Snapshot, Snapshot, ServerInv
  <2>3. CallInv(call[c])'
    BY <2>1, <2>2, CopiesAreSnapshot DEF CallInv
  <2> QED
    BY <1>1, <1>3, <2>1, <2>3, CallInvKept DEF ServerInv
<1>4. ASSUME NEW c \in Conn, handleState_Build(c)
      PROVE  ServerInv'
  <2> DEFINE recs    == call[c].recs
             changed == call[c].updatedAt
  <2>1. /\ call'[c] = [stage    |-> "answered",
                       response |-> Build(recs, changed, now, WaitingTooLong),
                       servedAt |-> now]
        /\ DOMAIN call' = Conn
        /\ \A d \in Conn \ {c} : call'[d] = call[d]
    BY <1>4 DEF handleState_Build, ServerInv
  <2>2. /\ updatedAt' = updatedAt /\ now \in Nat
        /\ updatedAt \in Nat /\ updatedAt <= now
    BY <1>4 DEF handleState_Build, vars, ServerInv, TypeOK, DatesOrdered
  <2>3. IsSnapshot(recs, changed) /\ changed <= updatedAt
    BY <1>4 DEF handleState_Build, ServerInv, CallInv, Stage
  <2>4. changed <= now
    BY <2>2, <2>3 DEF IsSnapshot
  <2>5. CallInv(call[c])'
    BY <2>1, <2>2, <2>3, <2>4 DEF CallInv
  <2> QED
    BY <1>1, <1>4, <2>1, <2>5, CallInvKept DEF ServerInv
<1>5. ASSUME ServerRestart
      PROVE  ServerInv'
  <2>1. /\ DOMAIN call' = Conn
        /\ \A c \in Conn : call'[c] \in {call[c], NoCall}
    BY <1>5 DEF ServerRestart
  <2>2. ASSUME NEW c \in Conn, call'[c] = NoCall
        PROVE  CallInv(call[c])'
    BY <2>2 DEF CallInv, NoCall
  <2> QED
    BY <1>1, <1>5, <2>1, <2>2, CallInvKept DEF ServerInv
<1> QED
  BY <1>2, <1>3, <1>4, <1>5 DEF CallStep

LEMMA ServerInvStart == SInit => ServerInv
<1>1. Init => TypeOK /\ DatesOrdered
  BY DEF Init, TypeOK, DatesOrdered
<1>2. Init => IsFiniteSet(DOMAIN sessions)
  BY FS_EmptySet DEF Init
<1> QED
  BY <1>1, <1>2 DEF SInit, ServerInv, CallInv, NoCall

THEOREM ServerInvHolds == SSpec => []ServerInv
<1>1. ServerInv /\ [SNext]_svars => ServerInv'
  BY ServerStep, ServerInvStep
<1> QED
  BY <1>1, ServerInvStart, PTL DEF SSpec

(* What the server does to its table is what the manager may do: every theorem of
   Sessions holds behind the API, whatever is posted and however calls overlap. *)
THEOREM ServerImplementsSessions == SSpec => Spec
<1>1. SInit => Init
  BY DEF SInit
<1>2. [SNext]_svars => [Next]_vars
  BY ServerStep
<1> QED
  BY <1>1, <1>2, PTL DEF SSpec, Spec

-----------------------------------------------------------------------------
(* What follows for every client. *)

(* An answer is what Build makes of some snapshot, and holds no date after it. *)
LEMMA AnsweredFrom ==
  ASSUME ServerInv, NEW c \in Conn, Answered(c)
  PROVE  /\ call[c].servedAt \in Nat
         /\ \E recs, changed :
              /\ IsSnapshot(recs, changed) /\ changed <= call[c].servedAt
              /\ call[c].response = Build(recs, changed, call[c].servedAt, WaitingTooLong)
BY DEF ServerInv, CallInv, Answered, Stage

(* The types hold of the table and of every call, whatever is posted. *)
THEOREM STypeCorrect == SSpec => []STypeOK
<1>1. ServerInv => STypeOK
  <2> SUFFICES ASSUME ServerInv, NEW c \in Conn
               PROVE  /\ Stage(c) \in {"none", "snapshot", "answered"}
                      /\ Stage(c) = "snapshot" =>
                           \A r \in call[c].recs : <<r.tool, r.sessionID>> \in Key
                      /\ Answered(c) =>
                           /\ Headline(c).tool \in Tool \cup {NoTool}
                           /\ \A n \in DOMAIN Tools(c) :
                                n \in Tool /\ Tools(c)[n].activeSessions > 0
    BY DEF STypeOK, ServerInv
  <2>1. CallInv(call[c])
    BY DEF ServerInv
  <2>2. Stage(c) = "snapshot" => \A r \in call[c].recs : <<r.tool, r.sessionID>> \in Key
    BY <2>1 DEF CallInv, Stage, IsSnapshot, Copy, Key
  <2>3. Answered(c) => Headline(c).tool \in Tool \cup {NoTool}
    <3> SUFFICES ASSUME Answered(c)
                 PROVE  Headline(c).tool \in Tool \cup {NoTool}
      OBVIOUS
    <3>1. PICK recs, changed :
               /\ IsSnapshot(recs, changed)
               /\ call[c].response = Build(recs, changed, call[c].servedAt, WaitingTooLong)
      BY AnsweredFrom
    <3> QED
      BY <3>1, AnsweredFrom, AnswerHeadline DEF Headline
  <2>4. Answered(c) => \A n \in DOMAIN Tools(c) :
                         n \in Tool /\ Tools(c)[n].activeSessions > 0
    BY AnsweredFrom, AnswerTools DEF Tools
  <2> QED
    BY <2>1, <2>2, <2>3, <2>4 DEF CallInv, Stage
<1> QED
  BY <1>1, ServerInvHolds, PTL

LEMMA HeadlineThen == ServerInv => HeadlineIsMostUrgent
<1>1. ASSUME ServerInv, NEW c \in Conn, Answered(c)
      PROVE  HeadlineOf(call[c].response)
  BY <1>1, AnsweredFrom, AnswerHeadline
<1> QED
  BY <1>1 DEF HeadlineIsMostUrgent, HeadlineOf, Headline, Tools

(* The headline is the most urgent tool of the same answer, and the first such. *)
THEOREM HeadlineHolds == SSpec => []HeadlineIsMostUrgent
BY HeadlineThen, ServerInvHolds, PTL

LEMMA WaitingTooLongThen == ServerInv => WaitingTooLongFollowsSince
BY AnsweredFrom, AnswerTools DEF WaitingTooLongFollowsSince, Tools

(* waitingTooLong and since agree, to the second that dates are cut to, at the
   moment of the answer: though the table has moved on since the snapshot.   *)
THEOREM WaitingTooLongHolds == SSpec => []WaitingTooLongFollowsSince
BY WaitingTooLongThen, ServerInvHolds, PTL

LEMMA AnswerIsOneMomentThen == ServerInv => AnswerIsOneMoment
<1> SUFFICES ASSUME ServerInv, NEW c \in Conn, Answered(c)
             PROVE  /\ call[c].response.updatedAt <= call[c].servedAt
                    /\ \A n \in DOMAIN Tools(c) :
                         Tools(c)[n].since <= call[c].response.updatedAt
  BY DEF AnswerIsOneMoment
<1>1. PICK recs, changed :
           /\ IsSnapshot(recs, changed) /\ changed <= call[c].servedAt
           /\ call[c].response = Build(recs, changed, call[c].servedAt, WaitingTooLong)
  BY AnsweredFrom
<1>2. call[c].response.updatedAt = formatTime(changed)
  BY <1>1 DEF Build
<1>3. formatTime(changed) <= call[c].servedAt
  BY <1>1, AnsweredFrom, FormatTimeCuts DEF IsSnapshot
<1>4. \A n \in DOMAIN Tools(c) : Tools(c)[n].since <= formatTime(changed)
  BY <1>1, AnsweredFrom, AnswerTools DEF Tools
<1> QED
  BY <1>2, <1>3, <1>4

(* The dates of an answer are in order: since, updatedAt, the answer itself. *)
THEOREM AnswerIsOneMomentHolds == SSpec => []AnswerIsOneMoment
BY AnswerIsOneMomentThen, ServerInvHolds, PTL

(* No snapshot is older than what anybody was told before. *)
LEMMA ToldBefore ==
  ASSUME ServerInv, NEW c \in Conn
  PROVE  /\ ChangedAt(call[c]) \in Nat
         /\ ChangedAt(call[c]) <= formatTime(ReconciledAt)
<1>1. /\ updatedAt \in Nat /\ ReconciledAt \in Nat /\ updatedAt <= ReconciledAt
      /\ CallInv(call[c])
  BY LiveType DEF ServerInv, TypeOK, DatesOrdered, ReconciledAt
<1>2. ASSUME NEW changed \in Nat, changed <= updatedAt
      PROVE  formatTime(changed) \in Nat /\ formatTime(changed) <= formatTime(ReconciledAt)
  BY <1>1, <1>2, FormatTimeCuts, FormatTimeMonotone
<1>3. CASE Stage(c) = "none"
  BY <1>1, <1>3, FormatTimeCuts DEF ChangedAt, Stage
<1>4. CASE Stage(c) = "snapshot"
  BY <1>1, <1>2, <1>4 DEF ChangedAt, Stage, CallInv, IsSnapshot
<1>5. CASE Stage(c) = "answered"
  <2>1. PICK recs, changed :
             /\ IsSnapshot(recs, changed) /\ changed <= updatedAt
             /\ call[c].response = Build(recs, changed, call[c].servedAt, WaitingTooLong)
    BY <1>1, <1>5 DEF CallInv, Stage
  <2>2. call[c].response.updatedAt = formatTime(changed)
    BY <2>1 DEF Build
  <2> QED
    BY <1>2, <1>5, <2>1, <2>2 DEF ChangedAt, Stage, IsSnapshot
<1> QED
  BY <1>1, <1>3, <1>4, <1>5 DEF CallInv, Stage

NeverBack(c) ==
  /\ Taken(c) => \A d \in Conn : ChangedAt(call'[c]) >= ChangedAt(call[d])
  /\ Built(c) => ChangedAt(call'[c]) = ChangedAt(call[c])

LEMMA NeverBackStep ==
  ASSUME ServerInv, CallStep, NEW c \in Conn
  PROVE  NeverBack(c)
<1>1. CASE call'[c] \in {call[c], NoCall}
  BY <1>1 DEF Stage, NoCall, NeverBack, Taken, Built
<1>2. CASE handleState_Snapshot(c)
  <2>1. call'[c] = [stage |-> "snapshot", recs |-> Copies, updatedAt |-> ReconciledAt]
    BY <1>2 DEF handleState_Snapshot, ServerInv
  <2>2. ChangedAt(call'[c]) = formatTime(ReconciledAt) /\ Stage(c)' = "snapshot"
    BY <2>1 DEF ChangedAt, Stage
  <2>3. formatTime(ReconciledAt) \in Nat
    BY LiveType, FormatTimeCuts DEF ServerInv
  <2>4. \A d \in Conn : ChangedAt(call[d]) <= formatTime(ReconciledAt)
                       /\ ChangedAt(call[d]) \in Nat
    BY ToldBefore
  <2> QED
    BY <2>2, <2>3, <2>4 DEF NeverBack, Built
<1>3. CASE handleState_Build(c)
  <2>1. call'[c] = [stage    |-> "answered",
                    response |-> Build(call[c].recs, call[c].updatedAt, now, WaitingTooLong),
                    servedAt |-> now]
    BY <1>3 DEF handleState_Build, ServerInv
  <2>2. ChangedAt(call'[c]) = formatTime(call[c].updatedAt)
    BY <2>1 DEF ChangedAt, Build
  <2>3. ChangedAt(call[c]) = formatTime(call[c].updatedAt) /\ Stage(c)' = "answered"
    BY <1>3, <2>1 DEF ChangedAt, handleState_Build, Stage
  <2> QED
    BY <2>2, <2>3 DEF NeverBack, Taken
<1>4. \/ call'[c] \in {call[c], NoCall}
      \/ handleState_Snapshot(c) \/ handleState_Build(c)
  BY DEF CallStep, ServerRestart, handleState_Snapshot,
              handleState_Build, ServerInv
<1> QED
  BY <1>1, <1>2, <1>3, <1>4

(* No snapshot is of an older table than any before it, on any connection and over
   restarts too, and an answer has the updatedAt of its own snapshot.        *)
THEOREM SnapshotsNeverGoBackHolds == SSpec => SnapshotsNeverGoBack
<1> DEFINE Never == \A c \in Conn : NeverBack(c)
<1>1. ServerInv /\ [SNext]_svars => [Never]_svars
  BY ServerStep, NeverBackStep
<1>2. [][Never]_svars => SnapshotsNeverGoBack
  BY DEF SnapshotsNeverGoBack, NeverBack
<1> QED
  BY <1>1, <1>2, ServerInvHolds, PTL DEF SSpec

-----------------------------------------------------------------------------
(* Finite sets in an order, as the menu lists them. *)

IsOrder(S, R) ==
  /\ \A x, y \in S : x # y => <<x, y>> \in R \/ <<y, x>> \in R
  /\ \A x, y, z \in S : <<x, y>> \in R /\ <<y, z>> \in R => <<x, z>> \in R

LEMMA FirstExists ==
  ASSUME NEW S, IsFiniteSet(S), NEW R, IsOrder(S, R), NEW T \in SUBSET S, T # {}
  PROVE  \E m \in T : \A x \in T \ {m} : <<m, x>> \in R
<1> DEFINE First(U) == \E m \in U : \A x \in U \ {m} : <<m, x>> \in R
           Wrong == {n \in Nat : \E U \in SUBSET S : U # {} /\ Cardinality(U) = n /\ ~ First(U)}
<1>1. ASSUME Wrong # {}
      PROVE  FALSE
  <2>1. PICK n \in Wrong : \A m \in Wrong : n <= m
    <3>1. Wrong \in SUBSET Nat
      OBVIOUS
    <3> HIDE DEF Wrong
    <3> QED
      BY <1>1, <3>1, LeastExists
  <2>2. PICK U \in SUBSET S : U # {} /\ Cardinality(U) = n /\ ~ First(U)
    BY <2>1
  <2>3. PICK x \in U : TRUE
    BY <2>2
  <2> DEFINE V == U \ {x}
  <2>4. IsFiniteSet(U)
    BY FS_Subset
  <2>5. IsFiniteSet(V) /\ Cardinality(V) = Cardinality(U) - 1 /\ Cardinality(V) \in Nat
    BY <2>4, <2>3, FS_RemoveElement, FS_CardinalityType
  <2>6. n - 1 \notin Wrong
    BY <2>1
  <2>7. V = {} \/ First(V)
    BY <2>2, <2>5, <2>6
  <2>8. CASE V = {}
    BY <2>2, <2>3, <2>8
  <2>9. CASE First(V)
    <3>1. PICK m \in V : \A y \in V \ {m} : <<m, y>> \in R
      BY <2>9
    <3>2. CASE <<m, x>> \in R
      BY <2>2, <2>3, <3>1, <3>2
    <3>3. CASE <<x, m>> \in R
      <4>1. \A y \in U \ {x} : <<x, y>> \in R
        BY <2>3, <3>1, <3>3 DEF IsOrder
      <4> QED
        BY <2>2, <2>3, <4>1
    <3> QED
      BY <2>3, <3>1, <3>2, <3>3 DEF IsOrder
  <2> QED
    BY <2>7, <2>8, <2>9
<1>2. Cardinality(T) \in Nat
  BY FS_Subset, FS_CardinalityType
<1> QED
  BY <1>1, <1>2

(* A finite set can be listed in any order there is on it. *)
LEMMA ListExists ==
  ASSUME NEW S, IsFiniteSet(S), NEW R, IsOrder(S, R)
  PROVE  \E list \in [1 .. Cardinality(S) -> S] :
           /\ \A x \in S : \E i \in 1 .. Cardinality(S) : list[i] = x
           /\ \A i, j \in 1 .. Cardinality(S) : i < j => <<list[i], list[j]>> \in R
<1> DEFINE Lists(list, U, n) ==
             /\ list \in [1..n -> U]
             /\ \A x \in U : \E i \in 1..n : list[i] = x
             /\ \A i, j \in 1..n : i < j => <<list[i], list[j]>> \in R
           Wrong == {n \in Nat : \E U \in SUBSET S : Cardinality(U) = n
                                                     /\ ~ \E list : Lists(list, U, n)}
<1>1. ASSUME Wrong # {}
      PROVE  FALSE
  <2>1. PICK n \in Wrong : \A m \in Wrong : n <= m
    <3>1. Wrong \in SUBSET Nat
      OBVIOUS
    <3> HIDE DEF Wrong
    <3> QED
      BY <1>1, <3>1, LeastExists
  <2>2. PICK U \in SUBSET S : Cardinality(U) = n /\ ~ \E list : Lists(list, U, n)
    BY <2>1
  <2>3. IsFiniteSet(U) /\ n \in Nat
    BY <2>1, FS_Subset
  <2>4. CASE U = {}
    <3>1. n = 0
      BY <2>2, <2>4, FS_EmptySet
    <3>2. Lists([i \in 1..n |-> i], U, n)
      BY <2>4, <3>1
    <3> QED
      BY <2>2, <3>2
  <2>5. CASE U # {}
    <3>1. PICK m \in U : \A x \in U \ {m} : <<m, x>> \in R
      BY <2>5, FirstExists
    <3> DEFINE V == U \ {m}
    <3>2. IsFiniteSet(V) /\ Cardinality(V) = n - 1 /\ n - 1 \in Nat
      <4>1. IsFiniteSet(V) /\ Cardinality(V) = Cardinality(U) - 1
        BY <2>3, FS_RemoveElement
      <4>2. Cardinality(V) \in Nat
        BY <4>1, FS_CardinalityType
      <4> QED
        BY <2>2, <4>1, <4>2
    <3>3. n - 1 \notin Wrong
      BY <2>1
    <3>4. V \in SUBSET S
      OBVIOUS
    <3> HIDE DEF V, Lists
    <3>5. PICK rest : Lists(rest, V, n - 1)
      BY <3>2, <3>3, <3>4
    <3> DEFINE list == [i \in 1..n |-> IF i = 1 THEN m ELSE rest[i - 1]]
    <3>6. \A i \in 1..n : i # 1 => i - 1 \in 1..n - 1
      BY <2>3
    <3>7. \A i \in 1..n - 1 : i + 1 \in 1..n /\ i + 1 # 1 /\ i + 1 - 1 = i
      BY <2>3
    <3>8. 1 \in 1..n
      BY <2>3, <3>2
    <3>9. list \in [1..n -> U]
      BY <3>5, <3>6 DEF Lists, V
    <3>10. list[1] = m /\ \A i \in 1..n : i # 1 => list[i] = rest[i - 1]
      BY <3>8
    <3> HIDE DEF list
    <3>11. ASSUME NEW x \in U
           PROVE  \E i \in 1..n : list[i] = x
      <4>1. CASE x = m
        BY <3>8, <3>10, <4>1
      <4>2. CASE x # m
        <5>1. PICK i \in 1..n - 1 : rest[i] = x
          BY <3>5, <4>2 DEF Lists, V
        <5> QED
          BY <3>7, <3>10, <5>1
      <4> QED
        BY <4>1, <4>2
    <3>12. ASSUME NEW i \in 1..n, NEW j \in 1..n, i < j
           PROVE  <<list[i], list[j]>> \in R
      <4>1. j # 1 /\ j - 1 \in 1..n - 1 /\ list[j] = rest[j - 1]
        BY <3>6, <3>10, <3>12
      <4>2. CASE i = 1
        <5>1. rest[j - 1] \in U \ {m}
          BY <3>5, <4>1 DEF Lists, V
        <5> QED
          BY <3>1, <3>10, <4>1, <4>2, <5>1
      <4>3. CASE i # 1
        <5>1. i - 1 \in 1..n - 1 /\ list[i] = rest[i - 1] /\ i - 1 < j - 1
          BY <3>6, <3>10, <3>12, <4>3
        <5> QED
          BY <3>5, <4>1, <5>1 DEF Lists
      <4> QED
        BY <4>2, <4>3
    <3>13. Lists(list, U, n)
      BY <3>9, <3>11, <3>12 DEF Lists
    <3> QED
      BY <2>2, <3>13
  <2> QED
    BY <2>4, <2>5
<1>2. Cardinality(S) \in Nat
  BY FS_CardinalityType
<1>3. \E list : Lists(list, S, Cardinality(S))
  BY <1>1, <1>2
<1> QED
  BY <1>3

-----------------------------------------------------------------------------
(* What an answer holds, for who renders it. *)
IsAnswer(answer) ==
  /\ HeadlineOf(answer)
  /\ IsFiniteSet(DOMAIN answer.tools)
  /\ DOMAIN answer.tools \subseteq Tool
  /\ \A n \in DOMAIN answer.tools :
       /\ answer.tools[n].state \in AgentState
       /\ answer.tools[n].waitingTooLong => answer.tools[n].state = "waiting"

LEMMA BuildIsAnswer ==
  ASSUME NEW recs, NEW changed, IsSnapshot(recs, changed), NEW t \in Nat
  PROVE  IsAnswer(Build(recs, changed, t, WaitingTooLong))
<1> DEFINE answer == Build(recs, changed, t, WaitingTooLong)
           named == [r \in recs |-> r.tool]
<1>1. DOMAIN answer.tools = {r.tool : r \in recs}
  BY DEF Build
<1>2. named \in Surjection(recs, {r.tool : r \in recs})
  BY DEF Surjection
<1>3. IsFiniteSet(DOMAIN answer.tools)
  BY <1>1, <1>2, FS_Surjection DEF IsSnapshot
<1> QED
  BY <1>3, AnswerTools, AnswerHeadline DEF IsAnswer

LEMMA UrgencyIs ==
  /\ values = Order
  /\ \A s \in AgentState : /\ urgency(s) \in 1..6 /\ Order[urgency(s)] = s
                           /\ fromWire(s) = s
<1>1. values = Order
  BY DEF values, Order
<1>2. ASSUME NEW s \in AgentState
      PROVE  \E i \in 1..6 : values[i] = s
  BY DEF values, AgentState
<1>3. DOMAIN values = 1..6
  BY DEF values
<1>4. \A s \in AgentState : urgency(s) \in 1..6 /\ values[urgency(s)] = s
  BY <1>2, <1>3 DEF urgency
<1>5. \A s \in AgentState : s \in Range(values)
  BY <1>2, <1>3 DEF Range
<1> QED
  BY <1>1, <1>4, <1>5 DEF fromWire

LEMMA GlyphIs ==
  ASSUME NEW state \in AgentState, NEW tooLong
  PROVE  Glyph(state, tooLong) = IF state = "waiting" /\ tooLong THEN "stale" ELSE state
BY UrgencyIs DEF Glyph

(* The menu lists each tool once, and none above a more urgent one. *)
LEMMA ToolsIs ==
  ASSUME NEW answer, IsAnswer(answer)
  PROVE  LET names == DOMAIN answer.tools
             rank(n) == urgency(answer.tools[n].state)
         IN /\ Cardinality(names) \in Nat
            /\ tools(answer) \in [1 .. Cardinality(names) -> names]
            /\ \A n \in names : \E i \in 1 .. Cardinality(names) : tools(answer)[i] = n
            /\ \A i, j \in 1 .. Cardinality(names) : i < j =>
                 \/ rank(tools(answer)[i]) < rank(tools(answer)[j])
                 \/ /\ rank(tools(answer)[i]) = rank(tools(answer)[j])
                    /\ utf16[tools(answer)[i]] < utf16[tools(answer)[j]]
<1> DEFINE names == DOMAIN answer.tools
           size == Cardinality(names)
           rank(n) == urgency(fromWire(answer.tools[n].state))
           first(a, b) == \/ rank(a) < rank(b)
                          \/ rank(a) = rank(b) /\ utf16[a] < utf16[b]
           R == {p \in names \X names : first(p[1], p[2])}
<1>1. /\ IsFiniteSet(names)
      /\ \A n \in names : rank(n) \in Nat /\ utf16[n] \in Nat
      /\ \A m, n \in names : utf16[m] = utf16[n] => m = n
  <2>1. /\ \A n \in names : answer.tools[n].state \in AgentState /\ utf16[n] \in Nat
        /\ \A m, n \in names : utf16[m] = utf16[n] => m = n
    BY Utf16Assumption DEF IsAnswer
  <2>2. ASSUME NEW n \in names
        PROVE  rank(n) \in 1..6
    <3>1. fromWire(answer.tools[n].state) = answer.tools[n].state
      BY <2>1, UrgencyIs
    <3> QED
      BY <2>1, <3>1, UrgencyIs
  <2> HIDE DEF rank, names
  <2>3. \A n \in names : rank(n) \in Nat
    BY <2>2
  <2> QED
    BY <2>1, <2>3 DEF IsAnswer, names
<1>2. \A n \in names : rank(n) = urgency(answer.tools[n].state)
  BY UrgencyIs DEF IsAnswer
<1> DEFINE Listed(list) ==
             /\ list \in [1..size -> names]
             /\ \A x \in names : \E i \in 1..size : list[i] = x
             /\ \A i, j \in 1..size : i < j => first(list[i], list[j])
<1>3. tools(answer) = CHOOSE list \in [1..size -> names] :
                        /\ \A x \in names : \E i \in DOMAIN list : list[i] = x
                        /\ \A i, j \in DOMAIN list : i < j => first(list[i], list[j])
  BY DEF tools, InOrder
<1> HIDE DEF rank, names
<1>4. IsOrder(names, R)
  BY <1>1 DEF IsOrder
<1>5. \E list : Listed(list)
  <2>1. PICK list \in [1..size -> names] :
               /\ \A x \in names : \E i \in 1..size : list[i] = x
               /\ \A i, j \in 1..size : i < j => <<list[i], list[j]>> \in R
    <3> HIDE DEF R
    <3> QED
      BY <1>1, <1>4, ListExists
  <2>2. Listed(list)
    BY <2>1
  <2> QED
    BY <2>2
<1> HIDE DEF first, size
<1>6. Listed(tools(answer))
  BY <1>3, <1>5
<1>7. size \in Nat
  BY <1>1, FS_CardinalityType DEF size
<1> QED
  BY <1>2, <1>6, <1>7 DEF first, size, names

(* Where the headline's tool is in the menu: below none in another state, and on top
   if Go and Dart order the tools in its state alike.                        *)
LEMMA HeadlineInMenu ==
  ASSUME NEW answer, IsAnswer(answer), DOMAIN answer.tools # {}
  PROVE  LET names == DOMAIN answer.tools
             size == Cardinality(names)
             head == answer.overall
             state(n) == answer.tools[n].state
             tied == {n \in names : state(n) = head.state}
         IN /\ head.state = "idle" =>
                 /\ head.tool = NoTool /\ 1 \in 1..size
                 /\ \A n \in names : state(n) = "idle"
            /\ head.state # "idle" =>
                 \E i \in 1..size : /\ tools(answer)[i] = head.tool
                                    /\ \A j \in 1..i : tools(answer)[j] \in tied
                                    /\ SameOrder(tied) => i = 1
<1> DEFINE names == DOMAIN answer.tools
           size == Cardinality(names)
           head == answer.overall
           list == tools(answer)
           state(n) == answer.tools[n].state
           states == {answer.tools[n].state : n \in names}
           tied == {n \in names : state(n) = head.state}
<1>1. /\ size \in Nat /\ list \in [1..size -> names]
      /\ \A n \in names : \E i \in 1..size : list[i] = n
      /\ \A i, j \in 1..size : i < j =>
           \/ urgency(state(list[i])) < urgency(state(list[j]))
           \/ /\ urgency(state(list[i])) = urgency(state(list[j]))
              /\ utf16[list[i]] < utf16[list[j]]
  BY ToolsIs
<1>2. /\ Heads(head.state, states)
      /\ IF head.state = "idle" THEN head.tool = NoTool
         ELSE /\ head.tool \in names /\ state(head.tool) = head.state
              /\ \A n \in names : state(n) = head.state => head.tool <= n
      /\ \A n \in names : state(n) \in AgentState /\ state(n) \in states
      /\ \A n \in names : n \in Nat /\ utf16[n] \in Nat
      /\ \A n \in tied : n \in names /\ state(n) = head.state
      /\ \A n \in names : state(n) = head.state => n \in tied
  BY ToolAssumption, Utf16Assumption DEF IsAnswer, HeadlineOf
<1>3. \E n \in names : TRUE
  OBVIOUS
<1> HIDE DEF names, size, head, list, state, states, tied
<1>4. PICK p \in 1..6 : /\ Order[p] = head.state
                        /\ \A j \in 1 .. p - 1 : Order[j] \notin states
  BY <1>2 DEF Heads
<1>5. \A n \in names : urgency(state(n)) \in 1..6 /\ Order[urgency(state(n))] = state(n)
                       /\ urgency(state(n)) >= p
  <2>1. ASSUME NEW n \in names
        PROVE  /\ urgency(state(n)) \in 1..6 /\ Order[urgency(state(n))] = state(n)
               /\ state(n) \in states
    BY <1>2, UrgencyIs
  <2> QED
    BY <1>4, <2>1
<1>6. \A i, j \in 1..6 : Order[i] = Order[j] => i = j
  BY DEF Order
<1>7. \A n \in names : urgency(state(n)) = p <=> state(n) = head.state
  BY <1>4, <1>5, <1>6
<1>8. CASE head.state = "idle"
  <2>1. p = 6
    BY <1>4, <1>8 DEF Order
  <2>2. \A n \in names : state(n) = "idle"
    BY <1>5, <1>7, <1>8, <2>1
  <2>3. 1 \in 1..size
    BY <1>1, <1>3
  <2> QED
    BY <1>2, <1>8, <2>2, <2>3 DEF head, names, state, size
<1>9. CASE head.state # "idle"
  <2>1. head.tool \in names /\ state(head.tool) = head.state
    BY <1>2, <1>9
  <2>2. PICK i \in 1..size : list[i] = head.tool
    BY <1>1, <2>1
  <2>3. ASSUME NEW j \in 1..i
        PROVE  j \in 1..size /\ list[j] \in tied
    <3>1. j \in 1..size /\ list[j] \in names
      BY <1>1
    <3>2. CASE j = i
      BY <1>2, <2>1, <2>2, <3>1, <3>2
    <3>3. CASE j # i
      <4>1. urgency(state(list[j])) <= urgency(state(list[i]))
        <5>1. j < i
          BY <3>1, <3>3, <1>1
        <5>2. urgency(state(list[j])) \in 1..6 /\ urgency(state(list[i])) \in 1..6
          BY <1>5, <2>1, <2>2, <3>1
        <5> QED
          BY <1>1, <3>1, <5>1, <5>2
      <4>2. urgency(state(list[j])) = p
        BY <1>5, <1>7, <2>1, <2>2, <3>1, <4>1
      <4> QED
        BY <1>2, <1>7, <3>1, <4>2
    <3> QED
      BY <3>1, <3>2, <3>3
  <2>4. ASSUME SameOrder(tied), i # 1
        PROVE  FALSE
    <3>1. 1 \in 1..i /\ 1 \in 1..size /\ 1 < i
      BY <1>1, <2>4
    <3>2. list[1] \in tied /\ list[1] \in names /\ head.tool \in tied
      BY <1>2, <2>1, <2>3, <3>1
    <3>3. head.tool <= list[1]
      BY <1>2, <1>9, <3>2
    <3>4. utf16[list[1]] < utf16[head.tool]
      <4>1. state(list[1]) = state(head.tool)
        BY <1>2, <2>1, <3>2
      <4>2. urgency(state(list[1])) = urgency(state(list[i])) /\ urgency(state(list[1])) \in 1..6
        BY <1>5, <2>1, <2>2, <3>2, <4>1
      <4> QED
        BY <1>1, <2>2, <3>1, <4>2
    <3>5. list[1] < head.tool
      BY <2>4, <3>2, <3>4 DEF SameOrder
    <3> QED
      BY <1>2, <2>1, <3>2, <3>3, <3>5
  <2> QED
    BY <1>9, <2>2, <2>3, <2>4 DEF head, names, state, size, tied, list
<1> QED
  BY <1>8, <1>9

LEMMA ScreensAgreeThen == ServerInv => ScreensAgree
<1>1. ASSUME ServerInv, NEW c \in Conn, Answered(c)
      PROVE  LET answer == call[c].response
                 lines  == render(answer).lines
                 rows   == Menu(answer).rows
                 head   == answer.overall
                 sign   == Title(answer)[1]
                 stale  == head.tool \in DOMAIN lines /\ lines[head.tool].stale
                 tied   == {n \in DOMAIN lines : lines[n].label = head.state}
             IN /\ sign = IF stale THEN "stale" ELSE head.state
                /\ IF head.tool = NoTool
                   THEN /\ sign = "idle" /\ tied = DOMAIN lines
                        /\ DOMAIN lines # {} => rows[1].glyph = sign
                   ELSE \E i \in DOMAIN rows :
                          /\ rows[i].tool = head.tool /\ rows[i].glyph = sign
                          /\ \A j \in 1..i : rows[j].tool \in tied
                          /\ SameOrder(tied) => i = 1
  <2> DEFINE answer == call[c].response
             lines  == render(answer).lines
             names  == DOMAIN answer.tools
             head   == answer.overall
             tooLong == overallWaitingTooLong(answer)
             rows   == Menu(answer).rows
             size   == Cardinality(names)
             stale  == head.tool \in DOMAIN lines /\ lines[head.tool].stale
             tied   == {n \in DOMAIN lines : lines[n].label = head.state}
             glyph  == Glyph(head.state, tooLong)
  <2>1. IsAnswer(answer)
    BY <1>1, AnsweredFrom, BuildIsAnswer
  <2> HIDE DEF answer
  <2>2. DOMAIN lines = names /\ \A n \in names :
          /\ lines[n].label = answer.tools[n].state
          /\ lines[n].stale = (answer.tools[n].state = "waiting" /\ answer.tools[n].waitingTooLong)
    BY DEF render
  <2>3. head.state \in AgentState /\ NoTool \notin names
    BY <2>1, ToolAssumption DEF IsAnswer, HeadlineOf, Heads, AgentState
  <2>4. glyph = IF head.state = "waiting" /\ tooLong THEN "stale" ELSE head.state
    BY <2>3, GlyphIs
  <2>5. tooLong <=> head.tool \in names /\ answer.tools[head.tool].waitingTooLong
    BY DEF overallWaitingTooLong
  <2>6. Title(answer) = IF head.tool = NoTool THEN <<glyph>> ELSE <<glyph, head.tool>>
    BY DEF Title
  <2>7. tied = {n \in names : answer.tools[n].state = head.state}
    BY <2>2
  <2> HIDE DEF glyph, tooLong, lines, tied
  <2>8. Title(answer)[1] = glyph
    BY <2>6
  <2>9. head.tool \in names => answer.tools[head.tool].state = head.state
    BY <2>1, <2>3 DEF IsAnswer, HeadlineOf
  <2>10. stale <=> head.state = "waiting" /\ tooLong
    BY <2>2, <2>5, <2>9
  <2>11. glyph = IF stale THEN "stale" ELSE head.state
    BY <2>4, <2>10
  <2>12. /\ head.tool = NoTool <=> head.state = "idle"
         /\ head.state # "idle" => head.tool \in names
    BY <2>1, <2>3 DEF IsAnswer, HeadlineOf
  <2>13. ASSUME names # {}
         PROVE  /\ size \in Nat /\ DOMAIN rows = 1..size
                /\ \A i \in 1..size :
                     /\ tools(answer)[i] \in names
                     /\ rows[i].tool = tools(answer)[i]
                     /\ rows[i].glyph = IF lines[tools(answer)[i]].stale THEN "stale"
                                        ELSE answer.tools[tools(answer)[i]].state
    <3>1. size \in Nat /\ tools(answer) \in [1..size -> names]
      BY <2>1, ToolsIs
    <3>2. rows = [i \in 1..size |-> rowFor(tools(answer)[i], answer.tools[tools(answer)[i]])]
      BY <2>13, <3>1 DEF Menu
    <3>3. ASSUME NEW i \in 1..size
          PROVE  /\ rows[i].tool = tools(answer)[i]
                 /\ rows[i].glyph = IF lines[tools(answer)[i]].stale THEN "stale"
                                    ELSE answer.tools[tools(answer)[i]].state
      <4> DEFINE n == tools(answer)[i]
      <4>1. n \in names /\ answer.tools[n].state \in AgentState
        BY <2>1, <3>1 DEF IsAnswer
      <4>2. rows[i] = rowFor(n, answer.tools[n])
        BY <3>2
      <4> HIDE DEF rows, n
      <4>3. /\ rows[i].tool = n
            /\ rows[i].glyph = Glyph(answer.tools[n].state, answer.tools[n].waitingTooLong)
        BY <4>2 DEF rowFor
      <4> QED
        BY <2>2, <4>1, <4>3, GlyphIs DEF n
    <3> QED
      BY <3>1, <3>2, <3>3
  <2>14. CASE head.state = "idle"
    <3>1. \A n \in names : answer.tools[n].state = "idle"
      BY <2>1, <2>14, HeadlineInMenu
    <3>2. glyph = "idle" /\ tied = names
      BY <2>4, <2>7, <2>14, <3>1
    <3>3. ASSUME names # {}
          PROVE  rows[1].glyph = "idle"
      <4>1. 1 \in 1..size
        BY <2>1, <2>14, <3>3, HeadlineInMenu
      <4>2. /\ tools(answer)[1] \in names
            /\ rows[1].glyph = IF lines[tools(answer)[1]].stale THEN "stale"
                               ELSE answer.tools[tools(answer)[1]].state
        BY <2>13, <3>3, <4>1
      <4> QED
        BY <2>2, <3>1, <4>2
    <3> QED
      BY <2>2, <2>8, <2>11, <2>12, <2>14, <3>2, <3>3 DEF answer, lines, tied
  <2>15. CASE head.state # "idle"
    <3>1. head.tool \in names /\ names # {}
      BY <2>12, <2>15
    <3>2. PICK i \in 1..size : /\ tools(answer)[i] = head.tool
                               /\ \A j \in 1..i : tools(answer)[j] \in tied
                               /\ SameOrder(tied) => i = 1
      BY <2>1, <2>7, <2>15, <3>1, HeadlineInMenu
    <3>3. /\ size \in Nat /\ DOMAIN rows = 1..size
          /\ \A j \in 1..size : rows[j].tool = tools(answer)[j]
          /\ rows[i].glyph = IF lines[head.tool].stale THEN "stale"
                             ELSE answer.tools[head.tool].state
      BY <2>13, <3>1, <3>2
    <3>4. rows[i].glyph = glyph
      BY <2>2, <2>9, <2>11, <3>1, <3>3
    <3>5. \A j \in 1..i : j \in 1..size
      BY <3>3
    <3> HIDE DEF rows, size
    <3>6. \E n \in DOMAIN rows : /\ rows[n].tool = head.tool /\ rows[n].glyph = glyph
                                 /\ \A j \in 1..n : rows[j].tool \in tied
                                 /\ SameOrder(tied) => n = 1
      BY <3>2, <3>3, <3>4, <3>5
    <3> QED
      BY <2>2, <2>8, <2>11, <2>12, <2>15, <3>6 DEF answer, lines, tied, rows
  <2> QED
    BY <2>14, <2>15
<1> QED
  BY <1>1 DEF ScreensAgree

(* Menu bar and terminal tell the same story of any answer of the server, whatever
   the two orders of names are.                                              *)
THEOREM ScreensAgreeHolds == SSpec => []ScreensAgree
BY ScreensAgreeThen, ServerInvHolds, PTL
=============================================================================
