------------------------- MODULE HookPipelineProofs -------------------------
(* Theorems of HookPipeline, for every value of its constants: what becomes of the
   events that Claude Code's hooks carry to the server; and of EndToEnd, where
   the server is started anew in between and answers its clients.            *)
EXTENDS EndToEnd, StateServerProofs

-----------------------------------------------------------------------------
(* What a session does, by the event that goes with it. *)

(* When an event is fired, and what the session may be doing until the next one. *)
From == [session_started      |-> Agent,
         task_started         |-> Running,
         permission_requested |-> {"working", "asking", "failed"},
         permission_granted   |-> {"working", "answered", "failed"},
         task_failed          |-> {"working", "answered", "failed"},
         task_completed       |-> {"working", "asking", "answered", "failed"},
         session_ended        |-> Running]

After == [session_started      |-> {"ready"},
          task_started         |-> {"working"},
          permission_requested |-> {"asking", "answered"},
          permission_granted   |-> {"working"},
          task_failed          |-> {"failed"},
          task_completed       |-> {"finished"},
          session_ended        |-> {"away"}]

Fired == DOMAIN From

HookRecord == [event : NormalizedEventType, eventID : EventId,
               stage : HookStage, overtaken : BOOLEAN]

NewHook(ev) == [event |-> ev, eventID |-> newEventID(ev),
                stage |-> "running", overtaken |-> FALSE]

Fires(s, ev) ==
  /\ agent[s] \in From[ev]
  /\ \E to \in After[ev] : agent' = [agent EXCEPT ![s] = to]
  /\ EventId \ KnownIDs # {}
  /\ hooks' = [hooks EXCEPT ![s] = Append(@, NewHook(ev))]
  /\ UNCHANGED <<vars, async, synced>>

(* A prompt is answered, or an idle session is reminded of: nothing is posted. *)
Silent(s) ==
  /\ \/ agent' = agent
     \/ agent[s] = "asking" /\ agent' = [agent EXCEPT ![s] = "answered"]
  /\ UNCHANGED <<vars, async, hooks, synced>>

LEMMA Tables ==
  /\ From["session_started"] = Agent /\ After["session_started"] = {"ready"}
  /\ From["task_started"] = Running /\ After["task_started"] = {"working"}
  /\ From["permission_requested"] = {"working", "asking", "failed"}
  /\ After["permission_requested"] = {"asking", "answered"}
  /\ From["permission_granted"] = {"working", "answered", "failed"}
  /\ After["permission_granted"] = {"working"}
  /\ From["task_failed"] = {"working", "answered", "failed"}
  /\ After["task_failed"] = {"failed"}
  /\ From["task_completed"] = {"working", "asking", "answered", "failed"}
  /\ After["task_completed"] = {"finished"}
  /\ From["session_ended"] = Running /\ After["session_ended"] = {"away"}
  /\ Fired = {"session_started", "task_started", "permission_requested",
              "permission_granted", "task_failed", "task_completed", "session_ended"}
  /\ DOMAIN After = Fired
  /\ Fired \subseteq NormalizedEventType
BY DEF From, After, Fired, NormalizedEventType

LEMMA OnlyChoice == \A x : (CHOOSE e \in {x} : TRUE) = x
OBVIOUS

LEMMA DoesFires ==
  ASSUME NEW s \in SessionID, NEW from, NEW to, NEW name, NEW kind, NEW ev,
         Normalize(Payload(name, kind, s)) = {ev}, Does(s, from, to, name, kind),
         from \subseteq From[ev], to \in After[ev]
  PROVE  Fires(s, ev)
<1>1. (CHOOSE e \in Normalize(Payload(name, kind, s)) : TRUE) = ev
  BY OnlyChoice
<1>2. Normalize(Payload(name, kind, s)) # {}
  OBVIOUS
<1> QED
  BY <1>1, <1>2 DEF Does, Fire, Fires, NewHook

(* What the adapter makes of the payloads of a session. *)
LEMMA Adapted ==
  ASSUME NEW s \in SessionID
  PROVE  /\ Normalize(Payload("SessionStart", "", s)) = {"session_started"}
         /\ Normalize(Payload("UserPromptSubmit", "", s)) = {"task_started"}
         /\ Normalize(Payload("Notification", "permission_prompt", s))
              = {"permission_requested"}
         /\ Normalize(Payload("Notification", "idle_prompt", s)) = {}
         /\ Normalize(Payload("PostToolUse", "", s)) = {"permission_granted"}
         /\ Normalize(Payload("PostToolUseFailure", "", s)) = {"task_failed"}
         /\ Normalize(Payload("Stop", "", s)) = {"task_completed"}
         /\ Normalize(Payload("SessionEnd", "", s)) = {"session_ended"}
<1>1. \A name, kind : Normalize(Payload(name, kind, s)) = resolve(Payload(name, kind, s))
  BY HookAssumption DEF Normalize, Payload
<1>2. \A name, kind : /\ Payload(name, kind, s).hook_event_name = name
                      /\ Payload(name, kind, s).notification_type = kind
  BY DEF Payload
<1>3. \A name, kind : name # "Notification" =>
        Normalize(Payload(name, kind, s)) = {mapping[n] : n \in DOMAIN mapping \cap {name}}
  BY <1>1, <1>2 DEF resolve
<1>4. \A kind : Normalize(Payload("Notification", kind, s)) =
        {"permission_requested" : n \in {kind} \cap {"permission_prompt"}}
  BY <1>1, <1>2 DEF resolve, notificationNeedsAttention
<1>5. ASSUME NEW name \in DOMAIN mapping
      PROVE  Normalize(Payload(name, "", s)) = {mapping[name]}
  <2>1. name # "Notification"
    BY <1>5 DEF mapping
  <2> HIDE DEF mapping
  <2> QED
    BY <1>3, <1>5, <2>1
<1>6. /\ DOMAIN mapping = {"SessionStart", "UserPromptSubmit", "PostToolUse",
                           "PostToolUseFailure", "Stop", "SessionEnd"}
      /\ mapping["SessionStart"] = "session_started"
      /\ mapping["UserPromptSubmit"] = "task_started"
      /\ mapping["PostToolUse"] = "permission_granted"
      /\ mapping["PostToolUseFailure"] = "task_failed"
      /\ mapping["Stop"] = "task_completed"
      /\ mapping["SessionEnd"] = "session_ended"
  BY DEF mapping
<1>7. Normalize(Payload("Notification", "permission_prompt", s)) = {"permission_requested"}
  <2>1. {"permission_requested" : n \in {"permission_prompt"} \cap {"permission_prompt"}}
          = {"permission_requested"}
    OBVIOUS
  <2> QED
    BY <1>4, <2>1, Zenon
<1>8. Normalize(Payload("Notification", "idle_prompt", s)) = {}
  <2>1. {"idle_prompt"} \cap {"permission_prompt"} = {}
    OBVIOUS
  <2> QED
    BY <1>4, <2>1
<1> QED
  BY <1>5, <1>6, <1>7, <1>8

LEMMA ClaudeFires ==
  ASSUME PTypeOK, NEW s \in SessionID, Claude(s)
  PROVE  (\E ev \in Fired : Fires(s, ev)) \/ Silent(s)
<1>1. CASE SessionStart(s)
  <2>1. Does(s, Agent, "ready", "SessionStart", "")
    BY <1>1 DEF SessionStart
  <2>2. Normalize(Payload("SessionStart", "", s)) = {"session_started"}
    BY Adapted
  <2>3. /\ Agent \subseteq From["session_started"]
        /\ "ready" \in After["session_started"] /\ "session_started" \in Fired
    BY Tables
  <2>4. Fires(s, "session_started")
    BY <2>1, <2>2, <2>3, DoesFires
  <2> QED
    BY <2>3, <2>4
<1>2. CASE UserPromptSubmit(s)
  <2>1. Does(s, Running, "working", "UserPromptSubmit", "")
    BY <1>2 DEF UserPromptSubmit
  <2>2. Normalize(Payload("UserPromptSubmit", "", s)) = {"task_started"}
    BY Adapted
  <2>3. /\ Running \subseteq From["task_started"]
        /\ "working" \in After["task_started"] /\ "task_started" \in Fired
    BY Tables
  <2>4. Fires(s, "task_started")
    BY <2>1, <2>2, <2>3, DoesFires
  <2> QED
    BY <2>3, <2>4
<1>3. CASE PermissionPrompt(s)
  <2> DEFINE from == {"working", "asking", "failed"}
  <2>1. Does(s, from, "asking", "Notification", "permission_prompt")
    BY <1>3 DEF PermissionPrompt
  <2>2. Normalize(Payload("Notification", "permission_prompt", s)) = {"permission_requested"}
    BY Adapted
  <2>3. /\ from \subseteq From["permission_requested"]
        /\ "asking" \in After["permission_requested"] /\ "permission_requested" \in Fired
    BY Tables
  <2> HIDE DEF from
  <2>4. Fires(s, "permission_requested")
    BY <2>1, <2>2, <2>3, DoesFires
  <2> QED
    BY <2>3, <2>4
<1>4. CASE IdlePrompt(s)
  <2>1. agent \in [SessionID -> Agent] /\ hooks \in [SessionID -> Seq(HookRecord)]
    BY DEF PTypeOK, HookRecord
  <2>2. agent[s] = "finished" /\ agent' = [agent EXCEPT ![s] = "finished"]
        /\ hooks' = [hooks EXCEPT ![s] = @]
    BY <1>4, Adapted DEF IdlePrompt, Does, Fire
  <2>3. agent' = agent /\ hooks' = hooks
    BY <2>1, <2>2
  <2> QED
    BY <1>4, <2>3 DEF IdlePrompt, Does, Silent
<1>5. CASE PostToolUse(s)
  <2> DEFINE from == {"working", "answered", "failed"}
  <2>1. Does(s, from, "working", "PostToolUse", "")
    BY <1>5 DEF PostToolUse
  <2>2. Normalize(Payload("PostToolUse", "", s)) = {"permission_granted"}
    BY Adapted
  <2>3. /\ from \subseteq From["permission_granted"]
        /\ "working" \in After["permission_granted"] /\ "permission_granted" \in Fired
    BY Tables
  <2> HIDE DEF from
  <2>4. Fires(s, "permission_granted")
    BY <2>1, <2>2, <2>3, DoesFires
  <2> QED
    BY <2>3, <2>4
<1>6. CASE PostToolUseFailure(s)
  <2> DEFINE from == {"working", "answered", "failed"}
  <2>1. Does(s, from, "failed", "PostToolUseFailure", "")
    BY <1>6 DEF PostToolUseFailure
  <2>2. Normalize(Payload("PostToolUseFailure", "", s)) = {"task_failed"}
    BY Adapted
  <2>3. /\ from \subseteq From["task_failed"]
        /\ "failed" \in After["task_failed"] /\ "task_failed" \in Fired
    BY Tables
  <2> HIDE DEF from
  <2>4. Fires(s, "task_failed")
    BY <2>1, <2>2, <2>3, DoesFires
  <2> QED
    BY <2>3, <2>4
<1>7. CASE Stop(s)
  <2> DEFINE from == {"working", "asking", "answered", "failed"}
  <2>1. Does(s, from, "finished", "Stop", "")
    BY <1>7 DEF Stop
  <2>2. Normalize(Payload("Stop", "", s)) = {"task_completed"}
    BY Adapted
  <2>3. /\ from \subseteq From["task_completed"]
        /\ "finished" \in After["task_completed"] /\ "task_completed" \in Fired
    BY Tables
  <2> HIDE DEF from
  <2>4. Fires(s, "task_completed")
    BY <2>1, <2>2, <2>3, DoesFires
  <2> QED
    BY <2>3, <2>4
<1>8. CASE SessionEnd(s)
  <2>1. Does(s, Running, "away", "SessionEnd", "")
    BY <1>8 DEF SessionEnd
  <2>2. Normalize(Payload("SessionEnd", "", s)) = {"session_ended"}
    BY Adapted
  <2>3. /\ Running \subseteq From["session_ended"]
        /\ "away" \in After["session_ended"] /\ "session_ended" \in Fired
    BY Tables
  <2>4. Fires(s, "session_ended")
    BY <2>1, <2>2, <2>3, DoesFires
  <2> QED
    BY <2>3, <2>4
<1>9. CASE Answer(s)
  BY <1>9 DEF Answer, Silent
<1> QED
  BY <1>1, <1>2, <1>3, <1>4, <1>5, <1>6, <1>7, <1>8, <1>9 DEF Claude

-----------------------------------------------------------------------------
(* The queues of hooks, and their types. *)

(* An identity that is left is found: EventId is a set of numbers. *)
LEMMA NewEventIDIs ==
  ASSUME EventId \ KnownIDs # {}, NEW ev
  PROVE  newEventID(ev) \in EventId \ KnownIDs
<1>1. EventId \ KnownIDs \in SUBSET Nat
  BY HookAssumption
<1>2. \E id \in EventId \ KnownIDs : \A o \in EventId \ KnownIDs : id <= o
  BY <1>1, LeastExists
<1> QED
  BY <1>2 DEF newEventID

LEMMA TakeOutIs ==
  ASSUME NEW queue \in Seq(HookRecord), NEW i \in DOMAIN queue
  PROVE  LET left == TakeOut(queue, i)
         IN /\ left \in Seq(HookRecord) /\ Len(left) = Len(queue) - 1
            /\ \A j \in 1..Len(left) :
                 IF j < i
                 THEN /\ left[j].overtaken
                      /\ left[j].event = queue[j].event
                      /\ left[j].eventID = queue[j].eventID
                 ELSE left[j] = queue[j + 1]
<1> DEFINE n == Len(queue) - 1
           at(j) == IF j < i THEN [queue[j] EXCEPT !.overtaken = TRUE] ELSE queue[j + 1]
<1>1. n \in Nat /\ i \in 1..n + 1 /\ DOMAIN queue = 1..n + 1
      /\ \A j \in 1..n + 1 : queue[j] \in HookRecord
  BY EmptySeq
<1>2. TakeOut(queue, i) = [j \in 1..n |-> at(j)]
  BY DEF TakeOut
<1>3. ASSUME NEW j \in 1..n
      PROVE  /\ at(j) \in HookRecord
             /\ j < i => /\ at(j).overtaken
                         /\ at(j).event = queue[j].event
                         /\ at(j).eventID = queue[j].eventID
             /\ ~ (j < i) => at(j) = queue[j + 1]
  <2>1. j \in 1..n + 1 /\ j + 1 \in 1..n + 1
    BY <1>1
  <2>2. queue[j] \in HookRecord /\ queue[j + 1] \in HookRecord
    BY <1>1, <2>1
  <2> QED
    BY <2>2 DEF HookRecord
<1> HIDE DEF n, at
<1>4. [j \in 1..n |-> at(j)] \in Seq(HookRecord) /\ Len([j \in 1..n |-> at(j)]) = n
  BY <1>1, <1>3
<1> QED
  BY <1>2, <1>3, <1>4 DEF n

LEMMA StagedIs ==
  ASSUME NEW queue \in Seq(HookRecord), NEW i \in DOMAIN queue, NEW stage \in HookStage
  PROVE  LET left == [queue EXCEPT ![i].stage = stage]
         IN /\ left \in Seq(HookRecord) /\ Len(left) = Len(queue)
            /\ \A j \in 1..Len(left) : /\ left[j].overtaken = queue[j].overtaken
                                       /\ left[j].event = queue[j].event
                                       /\ left[j].eventID = queue[j].eventID
<1> DEFINE at(j) == IF j = i THEN [queue[j] EXCEPT !.stage = stage] ELSE queue[j]
           n == Len(queue)
<1>1. n \in Nat /\ DOMAIN queue = 1..n /\ \A j \in 1..n : queue[j] \in HookRecord
  OBVIOUS
<1>2. [queue EXCEPT ![i].stage = stage] = [j \in 1..n |-> at(j)]
  BY <1>1
<1>3. ASSUME NEW j \in 1..n
      PROVE  /\ at(j) \in HookRecord /\ at(j).overtaken = queue[j].overtaken
             /\ at(j).event = queue[j].event /\ at(j).eventID = queue[j].eventID
  <2>1. queue[j] \in HookRecord
    BY <1>1
  <2> QED
    BY <2>1 DEF HookRecord
<1> HIDE DEF at, n
<1>4. [j \in 1..n |-> at(j)] \in Seq(HookRecord) /\ Len([j \in 1..n |-> at(j)]) = n
  BY <1>1, <1>3
<1> QED
  BY <1>2, <1>3, <1>4 DEF n

LEMMA EventOfIs ==
  ASSUME NEW s \in SessionID, NEW hook \in HookRecord
  PROVE  /\ EventOf(s, hook) \in Event
         /\ EventOf(s, hook).key = <<Source, s>>
         /\ EventOf(s, hook).eventID = hook.eventID
         /\ EventOf(s, hook).event = hook.event
BY HookAssumption DEF EventOf, Posted, Normalized, Event, Key, HookRecord

LEMMA HookTypes ==
  ASSUME PTypeOK
  PROVE  /\ async \in BOOLEAN /\ agent \in [SessionID -> Agent]
         /\ synced \in [SessionID -> BOOLEAN] /\ hooks \in [SessionID -> Seq(HookRecord)]
         /\ \A s \in SessionID : \A i \in DOMAIN hooks[s] : hooks[s][i] \in HookRecord
<1>1. /\ async \in BOOLEAN /\ agent \in [SessionID -> Agent]
      /\ synced \in [SessionID -> BOOLEAN] /\ hooks \in [SessionID -> Seq(HookRecord)]
  BY DEF PTypeOK, HookRecord
<1>2. ASSUME NEW s \in SessionID, NEW i \in DOMAIN hooks[s]
      PROVE  hooks[s][i] \in HookRecord
  <2>1. hooks[s] \in Seq(HookRecord)
    BY <1>1
  <2> QED
    BY <2>1
<1> QED
  BY <1>1, <1>2

(* The ways in which a step is made. *)
LEMMA Ways ==
  ASSUME PTypeOK, [PNext]_pvars
  PROVE  \/ \E s \in SessionID : \/ \E ev \in Fired : Fires(s, ev)
                                \/ Silent(s)
         \/ \E s \in SessionID : \E i \in DOMAIN hooks[s] :
              \/ \E from, to \in HookStage : Staged(s, i, from, to)
              \/ Deliver(s, i)
              \/ Lose(s, i)
         \/ /\ Snapshot \/ Tick \/ UNCHANGED vars
            /\ UNCHANGED <<async, agent, hooks, synced>>
<1>1. ASSUME NEW s \in SessionID, Hook(s)
      PROVE  \E i \in DOMAIN hooks[s] : \E from, to \in HookStage : Staged(s, i, from, to)
  BY <1>1 DEF Hook, Post, GiveUp, HookStage
<1>2. CASE UNCHANGED pvars
  BY <1>2 DEF pvars, vars
<1> QED
  BY <1>1, <1>2, ClaudeFires DEF PNext

(* What a step does to the manager's variables is a step of the manager. *)
LEMMA StepOfManager ==
  ASSUME PTypeOK, [PNext]_pvars
  PROVE  [Next]_vars
<1>1. ASSUME NEW s \in SessionID, NEW i \in DOMAIN hooks[s], Deliver(s, i)
      PROVE  Next
  <2>1. EventOf(s, hooks[s][i]) \in Event /\ Apply(EventOf(s, hooks[s][i]))
    BY <1>1, HookTypes, EventOfIs DEF Deliver
  <2> QED
    BY <2>1 DEF Next
<1>2. CASE Snapshot \/ Tick
  BY <1>2 DEF Next
<1> QED
  BY <1>1, <1>2, Ways DEF Fires, Silent, Staged, Lose

LEMMA PTypeStep ==
  ASSUME PTypeOK, [PNext]_pvars
  PROVE  PTypeOK'
<1> DEFINE Typed == /\ async' \in BOOLEAN
                    /\ agent' \in [SessionID -> Agent]
                    /\ synced' \in [SessionID -> BOOLEAN]
                    /\ hooks' \in [SessionID -> Seq(HookRecord)]
<1>1. /\ async \in BOOLEAN /\ agent \in [SessionID -> Agent]
      /\ synced \in [SessionID -> BOOLEAN] /\ hooks \in [SessionID -> Seq(HookRecord)]
  BY HookTypes
<1>2. TypeOK'
  BY StepOfManager, TypeStep DEF PTypeOK
<1>3. ASSUME NEW s \in SessionID, NEW ev \in Fired, Fires(s, ev)
      PROVE  Typed
  <2>1. NewHook(ev) \in HookRecord
    <3>1. newEventID(ev) \in EventId /\ ev \in NormalizedEventType
      BY <1>3, NewEventIDIs, Tables DEF Fires
    <3> QED
      BY <3>1 DEF NewHook, HookRecord, HookStage
  <2>2. Append(hooks[s], NewHook(ev)) \in Seq(HookRecord)
    BY <1>1, <2>1
  <2>3. After[ev] \subseteq Agent
    BY Tables DEF Agent
  <2> QED
    BY <1>1, <1>3, <2>2, <2>3 DEF Fires
<1>4. ASSUME NEW s \in SessionID, Silent(s)
      PROVE  Typed
  BY <1>1, <1>4 DEF Silent, Agent
<1>5. ASSUME NEW s \in SessionID, NEW i \in DOMAIN hooks[s], NEW from, NEW to \in HookStage,
             Staged(s, i, from, to)
      PROVE  Typed
  <2>1. [hooks[s] EXCEPT ![i].stage = to] \in Seq(HookRecord)
    BY <1>1, StagedIs
  <2> QED
    BY <1>1, <1>5, <2>1 DEF Staged
<1>6. ASSUME NEW s \in SessionID, NEW i \in DOMAIN hooks[s], Deliver(s, i) \/ Lose(s, i)
      PROVE  Typed
  <2>1. TakeOut(hooks[s], i) \in Seq(HookRecord)
    BY <1>1, TakeOutIs
  <2>2. async' = async /\ agent' = agent /\ hooks' = [hooks EXCEPT ![s] = TakeOut(@, i)]
    BY <1>6 DEF Deliver, Lose
  <2>3. \E told \in BOOLEAN : synced' = [synced EXCEPT ![s] = told]
    <3>1. CASE Lose(s, i)
      BY <3>1 DEF Lose
    <3>2. CASE Deliver(s, i)
      <4> DEFINE told == /\ i = 1 /\ ~ hooks[s][i].overtaken
                         /\ synced[s] \/ TellsAll(EventOf(s, hooks[s][i]))
      <4>1. synced' = [synced EXCEPT ![s] = told]
        BY <3>2 DEF Deliver
      <4>2. told \in BOOLEAN
        OBVIOUS
      <4> HIDE DEF told
      <4> QED
        BY <4>1, <4>2
    <3> QED
      BY <1>6, <3>1, <3>2
  <2> QED
    BY <1>1, <2>1, <2>2, <2>3
<1>7. ASSUME UNCHANGED <<async, agent, hooks, synced>>
      PROVE  Typed
  BY <1>1, <1>7
<1>8. Typed
  <2> HIDE DEF Typed
  <2> QED
    BY <1>3, <1>4, <1>5, <1>6, <1>7, Ways
<1> QED
  BY <1>2, <1>8 DEF PTypeOK, HookRecord

LEMMA PTypeStart == PInit => PTypeOK
<1> SUFFICES ASSUME PInit
             PROVE  PTypeOK
  OBVIOUS
<1>1. TypeOK
  BY DEF PInit, Init, TypeOK
<1>2. /\ async \in BOOLEAN /\ agent \in [SessionID -> Agent]
      /\ synced \in [SessionID -> BOOLEAN] /\ hooks \in [SessionID -> Seq(HookRecord)]
  BY EmptySeq DEF PInit, Agent
<1> QED
  BY <1>1, <1>2 DEF PTypeOK, HookRecord

(* Types of what the sessions and the hooks are doing, in every reachable state. *)
THEOREM PTypeCorrect == PSpec => []PTypeOK
<1>1. PInit => PTypeOK
  BY PTypeStart
<1>2. PTypeOK /\ [PNext]_pvars => PTypeOK'
  BY PTypeStep
<1> QED
  BY <1>1, <1>2, PTL DEF PSpec

LEMMA HooksOfManager == PSpec => Spec
<1>1. PInit => Init
  BY DEF PInit
<1>2. PTypeOK /\ [PNext]_pvars => [Next]_vars
  BY StepOfManager
<1> QED
  BY <1>1, <1>2, PTypeCorrect, PTL DEF PSpec, Spec

(* UNKNOWN and WAITING have a row for each event but the two that start and end a
   session, and the first of these has none to need.                         *)
LEMMA EventsHaveRows ==
  ASSUME NEW event \in NormalizedEventType, event # "session_ended"
  PROVE  /\ ~ Unexpected("unknown", event)
         /\ \E cur \in AgentState \ {"unknown"} : ~ Unexpected(cur, event)
<1>1. ~ Unexpected("unknown", event)
  BY DEF Unexpected, fromEvent, NormalizedEventType
<1>2. ~ Unexpected("waiting", event)
  <2>1. CASE event = "session_started"
    BY <2>1 DEF Unexpected
  <2>2. CASE event # "session_started"
    <3>1. event \in {"task_started", "permission_requested", "permission_granted",
                     "input_received", "task_completed", "task_failed"}
      BY <2>2 DEF NormalizedEventType
    <3>2. <<"waiting", event>> \in IntoExecuting \cup IntoWaiting \cup IntoDone \cup IntoError
      BY <3>1 DEF IntoExecuting, IntoWaiting, IntoDone, IntoError
    <3>3. <<"waiting", event>> \in DOMAIN matrix
      BY <3>2 DEF matrix
    <3> QED
      BY <3>3 DEF Unexpected
  <2> QED
    BY <2>1, <2>2
<1>3. "waiting" \in AgentState \ {"unknown"}
  BY DEF AgentState
<1> QED
  BY <1>1, <1>2, <1>3

(* Whatever a hook posts passes validation, and the state machine has rows for it. *)
THEOREM EveryHookIsAcceptedHolds == PSpec => []EveryHookIsAccepted
<1>1. ASSUME PTypeOK, NEW s \in SessionID, NEW i \in DOMAIN hooks[s]
      PROVE  /\ Parse(Posted(s, hooks[s][i]))
             /\ hooks[s][i].event \in NormalizedEventType
  <2>1. hooks[s][i] \in HookRecord
    BY <1>1, HookTypes
  <2>2. hooks[s][i].event \in known
    BY <2>1 DEF HookRecord, NormalizedEventType, known
  <2>3. {hooks[s][i].eventID, Source, s} \cap Unfit = {}
    BY <2>1, HookAssumption DEF HookRecord
  <2> QED
    BY <2>1, <2>2, <2>3 DEF Parse, Posted, Validate, checkIdentifier, HookRecord
<1>2. PTypeOK => EveryHookIsAccepted
  BY <1>1, EventsHaveRows DEF EveryHookIsAccepted
<1> QED
  BY <1>2, PTypeCorrect, PTL

-----------------------------------------------------------------------------
(* Identities. *)

(* EveryHookCounts is not inductive: it takes that no two hooks have one identity. *)
Unseen ==
  \A s \in SessionID : \A i \in DOMAIN hooks[s] : \A k \in DOMAIN sessions :
    hooks[s][i].eventID \notin sessions[k].seenEventIDs

Distinct ==
  \A s, t \in SessionID : \A i \in DOMAIN hooks[s], j \in DOMAIN hooks[t] :
    hooks[s][i].eventID = hooks[t][j].eventID => s = t /\ i = j

(* What handling an event makes of a row of the table. *)
LEMMA CallRow ==
  ASSUME TypeOK, NEW ev \in Event, Apply(ev)
  PROVE  \A k \in DOMAIN sessions' :
           \/ k \in DOMAIN Live /\ sessions'[k] = Live[k]
           \/ /\ k = ev.key /\ ~ Duplicate(ev)
              /\ sessions'[k] \in {StartedRow(ev), EndedRow(ev), MovedRow(ev)}
<1>1. \/ sessions' = Live
      \/ sessions' = delete(Live, ev.key)
      \/ /\ ~ Duplicate(ev)
         /\ \E rec \in {StartedRow(ev), EndedRow(ev), MovedRow(ev)} :
              sessions' = put(Live, ev.key, rec)
  BY DEF Apply, ApplyDuplicate, ApplyIgnored, ApplyStart, ApplyEnd, ApplyTransition,
         StartedRow, EndedRow, MovedRow, Duplicate
<1>2. CASE sessions' = delete(Live, ev.key)
  BY <1>2 DEF delete, Restrict
<1> QED
  BY <1>1, <1>2, PutRow

LEMMA CallIDs ==
  ASSUME TypeOK, NEW ev \in Event, Apply(ev), NEW k \in DOMAIN sessions', NEW id,
         id \in sessions'[k].seenEventIDs, id # ev.eventID
  PROVE  k \in DOMAIN sessions /\ id \in sessions[k].seenEventIDs
<1>1. ASSUME k \in DOMAIN Live, id \in Live[k].seenEventIDs
      PROVE  k \in DOMAIN sessions /\ id \in sessions[k].seenEventIDs
  BY <1>1, LiveRow, ExpireKeeps DEF TypeOK
<1>2. ASSUME NEW rec \in Row
      PROVE  Received(ev, rec).seenEventIDs \subseteq rec.seenEventIDs \cup {ev.eventID}
  <2>1. markSeen(rec, ev.eventID) \in Row /\ now \in Nat
    BY MarkSeenType DEF Event, TypeOK
  <2>2. Received(ev, rec).seenEventIDs = markSeen(rec, ev.eventID).seenEventIDs
    BY <2>1, MemoryKept DEF Received
  <2>3. markSeen(rec, ev.eventID).seenEventIDs \subseteq rec.seenEventIDs \cup {ev.eventID}
    BY DEF markSeen, Row
  <2> QED
    BY <2>2, <2>3
<1>3. \A state \in AgentState : create(state, now) \in Row
                                /\ create(state, now).seenEventIDs = {}
  BY CreateType DEF TypeOK, create
<1>4. ASSUME k = ev.key, id \in ReceivedRow(ev).seenEventIDs
      PROVE  k \in DOMAIN Live /\ id \in Live[k].seenEventIDs
  <2>1. CASE Tracked(ev)
    <3>1. Live[k] \in Row /\ ReceivedRow(ev) = Received(ev, Live[k]) /\ k \in DOMAIN Live
      BY <1>4, <2>1, LiveType, RecordIsRow DEF Tracked, IsTable, ReceivedRow
    <3> QED
      BY <1>2, <1>4, <3>1
  <2>2. CASE ~ Tracked(ev)
    <3>1. ReceivedRow(ev) = Received(ev, create("unknown", now))
      BY <2>2 DEF ReceivedRow
    <3>2. ReceivedRow(ev).seenEventIDs \subseteq {ev.eventID}
      BY <1>2, <1>3, <3>1 DEF AgentState
    <3> QED
      BY <1>4, <3>2
  <2> QED
    BY <2>1, <2>2
<1>5. StartedRow(ev).seenEventIDs \subseteq {ev.eventID}
  BY <1>2, <1>3 DEF StartedRow, AgentState
<1> QED
  BY <1>1, <1>4, <1>5, CallRow, MovedMemory

LEMMA FreshIsUnknown ==
  ASSUME NEW ev, EventId \ KnownIDs # {}
  PROVE  /\ \A k \in DOMAIN sessions : newEventID(ev) \notin sessions[k].seenEventIDs
         /\ \A s \in SessionID : \A i \in DOMAIN hooks[s] :
              newEventID(ev) # hooks[s][i].eventID
<1>1. newEventID(ev) \notin KnownIDs
  BY NewEventIDIs
<1> QED
  BY <1>1 DEF KnownIDs

LEMMA IdentitiesStep ==
  ASSUME PTypeOK, Unseen, Distinct, [PNext]_pvars
  PROVE  Unseen' /\ Distinct'
<1>1. hooks \in [SessionID -> Seq(HookRecord)] /\ TypeOK
      /\ \A t \in SessionID : DOMAIN hooks[t] = 1..Len(hooks[t]) /\ Len(hooks[t]) \in Nat
  <2>1. hooks \in [SessionID -> Seq(HookRecord)]
    BY HookTypes
  <2>2. TypeOK
    BY DEF PTypeOK
  <2>3. ASSUME NEW t \in SessionID
        PROVE  DOMAIN hooks[t] = 1..Len(hooks[t]) /\ Len(hooks[t]) \in Nat
    <3>1. hooks[t] \in Seq(HookRecord)
      BY <2>1
    <3> QED
      BY <3>1
  <2> QED
    BY <2>1, <2>2, <2>3
<1>2. ASSUME NEW s \in SessionID, NEW ev \in Fired, Fires(s, ev)
      PROVE  Unseen' /\ Distinct'
  <2> DEFINE n == Len(hooks[s])
             new == newEventID(ev)
  <2>1. sessions' = sessions /\ hooks' = [hooks EXCEPT ![s] = Append(@, NewHook(ev))]
        /\ EventId \ KnownIDs # {}
    BY <1>2 DEF Fires, vars
  <2>2. ASSUME NEW t \in SessionID, NEW j \in DOMAIN hooks'[t]
        PROVE  IF t = s /\ j = n + 1 THEN hooks'[t][j].eventID = new
               ELSE j \in DOMAIN hooks[t] /\ hooks'[t][j] = hooks[t][j]
    <3>1. CASE t # s
      BY <1>1, <2>1, <2>2, <3>1
    <3>2. CASE t = s
      <4>1. hooks'[s] = Append(hooks[s], NewHook(ev))
        BY <1>1, <2>1
      <4>2. /\ DOMAIN hooks'[s] = 1..n + 1 /\ hooks'[s][n + 1] = NewHook(ev)
            /\ \A i \in 1..n : hooks'[s][i] = hooks[s][i]
        BY <1>1, <4>1
      <4>3. NewHook(ev).eventID = new
        BY DEF NewHook
      <4> QED
        BY <1>1, <2>2, <3>2, <4>2, <4>3
    <3> QED
      BY <3>1, <3>2
  <2>3. /\ \A k \in DOMAIN sessions : new \notin sessions[k].seenEventIDs
        /\ \A t \in SessionID : \A j \in DOMAIN hooks[t] : new # hooks[t][j].eventID
    BY <2>1, FreshIsUnknown
  <2> HIDE DEF new, n
  <2>4. Unseen'
    BY <2>1, <2>2, <2>3 DEF Unseen
  <2>5. Distinct'
    BY <2>2, <2>3 DEF Distinct
  <2> QED
    BY <2>4, <2>5
<1>3. ASSUME NEW s \in SessionID, NEW i \in DOMAIN hooks[s], NEW from, NEW to \in HookStage,
             Staged(s, i, from, to)
      PROVE  Unseen' /\ Distinct'
  <2>1. sessions' = sessions /\ hooks' = [hooks EXCEPT ![s] = [@ EXCEPT ![i].stage = to]]
    BY <1>3 DEF Staged, vars
  <2>2. ASSUME NEW t \in SessionID
        PROVE  /\ DOMAIN hooks'[t] = DOMAIN hooks[t]
               /\ \A j \in DOMAIN hooks[t] : hooks'[t][j].eventID = hooks[t][j].eventID
    <3>1. CASE t = s
      <4>1. hooks'[s] = [hooks[s] EXCEPT ![i].stage = to]
        BY <1>1, <2>1
      <4> QED
        BY <1>1, <3>1, <4>1, StagedIs
    <3>2. CASE t # s
      BY <1>1, <2>1, <3>2
    <3> QED
      BY <3>1, <3>2
  <2> QED
    BY <2>1, <2>2 DEF Unseen, Distinct
<1>4. ASSUME NEW s \in SessionID, NEW i \in DOMAIN hooks[s], Deliver(s, i) \/ Lose(s, i)
      PROVE  Unseen' /\ Distinct'
  <2> DEFINE back(t, j) == IF t = s /\ j >= i THEN j + 1 ELSE j
             gone == hooks[s][i].eventID
  <2>1. hooks' = [hooks EXCEPT ![s] = TakeOut(@, i)]
    BY <1>4 DEF Deliver, Lose
  <2>2. ASSUME NEW t \in SessionID, NEW j \in DOMAIN hooks'[t]
        PROVE  /\ back(t, j) \in DOMAIN hooks[t] /\ j \in Nat
               /\ t = s => back(t, j) # i
               /\ hooks'[t][j].eventID = hooks[t][back(t, j)].eventID
    <3>1. CASE t # s
      BY <1>1, <2>1, <2>2, <3>1
    <3>2. CASE t = s
      <4>1. hooks'[s] = TakeOut(hooks[s], i) /\ hooks[s] \in Seq(HookRecord)
        BY <1>1, <2>1
      <4>2. /\ DOMAIN hooks'[s] = 1..Len(hooks[s]) - 1
            /\ \A m \in 1..Len(hooks[s]) - 1 :
                 hooks'[s][m].eventID = IF m < i THEN hooks[s][m].eventID
                                        ELSE hooks[s][m + 1].eventID
        <5> DEFINE left == TakeOut(hooks[s], i)
        <5>1. /\ left \in Seq(HookRecord) /\ Len(left) = Len(hooks[s]) - 1
              /\ \A m \in 1..Len(left) : left[m].eventID = IF m < i THEN hooks[s][m].eventID
                                                         ELSE hooks[s][m + 1].eventID
          BY <4>1, TakeOutIs
        <5> HIDE DEF left
        <5> QED
          BY <4>1, <5>1 DEF left
      <4> QED
        BY <1>1, <2>2, <3>2, <4>2
    <3> QED
      BY <3>1, <3>2
  <2>3. i \in Nat
    BY <1>1
  <2>4. Distinct'
    <3> SUFFICES ASSUME NEW t \in SessionID, NEW u \in SessionID,
                        NEW j \in DOMAIN hooks'[t], NEW m \in DOMAIN hooks'[u],
                        hooks'[t][j].eventID = hooks'[u][m].eventID
                 PROVE  t = u /\ j = m
      BY DEF Distinct
    <3>1. t = u /\ back(t, j) = back(u, m)
      BY <2>2 DEF Distinct
    <3> QED
      BY <2>2, <2>3, <3>1
  <2>5. ASSUME NEW t \in SessionID, NEW j \in DOMAIN hooks'[t]
        PROVE  hooks'[t][j].eventID # gone
    BY <2>2, <2>5 DEF Distinct
  <2>6. ASSUME NEW k \in DOMAIN sessions', NEW id \in sessions'[k].seenEventIDs, id # gone
        PROVE  k \in DOMAIN sessions /\ id \in sessions[k].seenEventIDs
    <3>1. CASE Lose(s, i)
      BY <2>6, <3>1 DEF Lose, vars
    <3>2. CASE Deliver(s, i)
      <4> DEFINE ev == EventOf(s, hooks[s][i])
      <4>1. ev \in Event /\ ev.eventID = gone
        BY HookTypes, EventOfIs
      <4>2. Apply(ev)
        BY <3>2 DEF Deliver
      <4> QED
        BY <1>1, <2>6, <4>1, <4>2, CallIDs
    <3> QED
      BY <1>4, <3>1, <3>2
  <2>7. Unseen'
    <3> SUFFICES ASSUME NEW t \in SessionID, NEW j \in DOMAIN hooks'[t],
                        NEW k \in DOMAIN sessions',
                        hooks'[t][j].eventID \in sessions'[k].seenEventIDs
                 PROVE  FALSE
      BY DEF Unseen
    <3>1. k \in DOMAIN sessions /\ hooks'[t][j].eventID \in sessions[k].seenEventIDs
      BY <2>5, <2>6
    <3> QED
      BY <2>2, <3>1 DEF Unseen
  <2> QED
    BY <2>4, <2>7
<1>5. ASSUME hooks' = hooks, Snapshot \/ sessions' = sessions
      PROVE  Unseen' /\ Distinct'
  <2>1. ASSUME NEW k \in DOMAIN sessions'
        PROVE  k \in DOMAIN sessions /\ sessions'[k].seenEventIDs = sessions[k].seenEventIDs
    BY <1>1, <1>5, <2>1, LiveRow, ExpireKeeps DEF Snapshot, TypeOK
  <2> QED
    BY <1>5, <2>1 DEF Unseen, Distinct
<1> QED
  BY <1>2, <1>3, <1>4, <1>5, Ways DEF Silent, Tick, vars

(* An event on its way is never taken for a repeat, whatever hooks there are. *)
THEOREM EveryHookCountsHolds == PSpec => []EveryHookCounts
<1>1. PInit => Unseen /\ Distinct
  BY EmptySeq DEF PInit, Init, Unseen, Distinct
<1>2. PTypeOK /\ Unseen /\ Distinct /\ [PNext]_pvars => (Unseen /\ Distinct)'
  BY IdentitiesStep
<1>3. PTypeOK /\ Unseen => EveryHookCounts
  <2> SUFFICES ASSUME PTypeOK, Unseen, NEW s \in SessionID, NEW i \in DOMAIN hooks[s],
                      Duplicate(EventOf(s, hooks[s][i]))
               PROVE  FALSE
    BY DEF EveryHookCounts
  <2> DEFINE k == EventOf(s, hooks[s][i]).key
  <2>1. k \in DOMAIN Live /\ hooks[s][i].eventID \in Live[k].seenEventIDs
    BY HookTypes, EventOfIs DEF Duplicate, Tracked
  <2>2. k \in DOMAIN sessions /\ Live[k].seenEventIDs = sessions[k].seenEventIDs
    BY <2>1, LiveRow, ExpireKeeps DEF PTypeOK, TypeOK
  <2> QED
    BY <2>1, <2>2 DEF Unseen
<1> QED
  BY <1>1, <1>2, <1>3, PTypeCorrect, PTL DEF PSpec

-----------------------------------------------------------------------------
(* Rows that fit. *)

RowFits(rec, does) ==
  /\ rec.removeAt = NoTime
  /\ \/ rec.state \in Fitting[does]
     \/ does = "working" /\ rec.state = "unknown" /\ rec.since > rec.lastEventAt

(* The row of k in a table fits what its session does: a stronger fact than that
   its light is honest, for it lasts while time passes.                      *)
Fits(S, k, does) ==
  IF does = "away" THEN k \in DOMAIN S => S[k].removeAt # NoTime
                   ELSE k \in DOMAIN S /\ RowFits(S[k], does)

LEMMA FittingIs ==
  /\ Fitting["ready"] = {"idle"} /\ Fitting["working"] = {"executing"}
  /\ Fitting["asking"] = {"waiting"} /\ Fitting["answered"] = {"waiting"}
  /\ Fitting["failed"] = {"error", "unknown"}
  /\ Fitting["finished"] = {"done", "idle", "unknown"}
BY DEF Fitting

(* Time may make a silent EXECUTING row UNKNOWN and a DONE one IDLE. *)
LEMMA ExpireFits ==
  ASSUME NEW rec \in SessionRecord, NEW t \in Nat, NEW does \in Running, RowFits(rec, does)
  PROVE  RowFits(expire(rec, t), does)
<1>1. expire(rec, t).removeAt = NoTime /\ expire(rec, t).lastEventAt = rec.lastEventAt
  BY ExpireKeeps DEF RowFits
<1>2. CASE doneExpired(rec, t)
  <2>1. rec.state = "done" /\ expire(rec, t).state = "idle"
    BY <1>2, ExpireKeeps DEF doneExpired
  <2>2. does = "finished"
    BY <2>1, FittingIs DEF RowFits, Running, Agent
  <2> QED
    BY <1>1, <2>1, <2>2, FittingIs DEF RowFits
<1>3. CASE ~ doneExpired(rec, t) /\ goneStale(rec, t)
  <2>1. rec.state = "executing" /\ isStale(rec, t)
    BY <1>3 DEF goneStale
  <2>2. t - rec.lastEventAt > StaleFloor
    BY <2>1, StaleIs
  <2>3. t > rec.lastEventAt
    BY <2>2, DurationAssumption DEF SessionRecord
  <2>4. does = "working"
    BY <2>1, FittingIs DEF RowFits, Running, Agent
  <2>5. /\ setState(rec, "unknown", t) \in SessionRecord
        /\ setState(rec, "unknown", t).state = "unknown"
        /\ setState(rec, "unknown", t).since = t
    <3>1. setState(rec, "unknown", t) \in SessionRecord
      BY SetStateType DEF AgentState
    <3>2. setState(rec, "unknown", t).state = "unknown" /\ setState(rec, "unknown", t).since = t
      BY <2>1 DEF setState, SessionRecord
    <3> QED
      BY <3>1, <3>2
  <2>6. expire(rec, t) = [setState(rec, "unknown", t) EXCEPT !.recentIntervals = << >>]
    BY <1>3 DEF expire
  <2>7. expire(rec, t).state = "unknown" /\ expire(rec, t).since = t
    BY <2>5, <2>6 DEF SessionRecord
  <2> QED
    BY <1>1, <2>3, <2>4, <2>7 DEF RowFits
<1>4. CASE ~ doneExpired(rec, t) /\ ~ goneStale(rec, t)
  BY <1>4 DEF expire
<1> QED
  BY <1>2, <1>3, <1>4

LEMMA LiveFits ==
  ASSUME TypeOK, NEW k, NEW does \in Agent, Fits(sessions, k, does)
  PROVE  Fits(Live, k, does)
<1>1. CASE does = "away"
  BY <1>1, LiveRow, ExpireKeeps DEF Fits, TypeOK
<1>2. CASE does # "away"
  <2>1. /\ k \in DOMAIN sessions /\ sessions[k] \in SessionRecord /\ now \in Nat
        /\ RowFits(sessions[k], does)
    BY <1>2 DEF Fits, TypeOK
  <2>2. k \in DOMAIN Live /\ Live[k] = expire(sessions[k], now)
    BY <2>1 DEF Live, reconcile, removalDue, RowFits
  <2> QED
    BY <1>2, <2>1, <2>2, ExpireFits DEF Fits, Running
<1> QED
  BY <1>1, <1>2

LEMMA StartAndEnd ==
  ASSUME TypeOK, NEW ev \in Event
  PROVE  /\ StartedRow(ev).state = "idle" /\ StartedRow(ev).removeAt = NoTime
         /\ EndedRow(ev).removeAt # NoTime
<1>1. now \in Nat /\ create("idle", now) \in Row
  BY CreateType DEF TypeOK, AgentState
<1>2. StartedRow(ev).state = "idle" /\ StartedRow(ev).removeAt = NoTime
  BY <1>1, ReceivedKeeps DEF StartedRow, create
<1>3. EndedRow(ev).removeAt = now + DoneDuration
  <2>1. ReceivedRow(ev) \in SessionRecord
    BY ReceivedType
  <2> QED
    BY <2>1 DEF EndedRow, scheduleRemoval, SessionRecord
<1> QED
  BY <1>1, <1>2, <1>3, DurationAssumption DEF NoTime

(* The matrix takes a state that fits what a session did to one that fits what it
   does, for each event that the session may fire then.                      *)
LEMMA MatrixFits ==
  ASSUME NEW ev \in Fired \ {"session_started", "session_ended"}, NEW does \in From[ev],
         does # "away", NEW to \in After[ev], NEW state,
         state \in Fitting[does] \/ (does = "working" /\ state = "unknown")
  PROVE  to # "away" /\ NextState(state, ev) \in Fitting[to]
<1>1. state \in AgentState
  BY FittingIs, Tables DEF AgentState, Running, Agent
<1>2. NextState(state, "task_started") = "executing"
  BY <1>1 DEF NextState, Unexpected, matrix, fromEvent, IntoExecuting, IntoWaiting,
     IntoDone, IntoError, AgentState
<1>3. state \in {"executing", "waiting", "error", "unknown"}
        => NextState(state, "permission_requested") = "waiting"
  BY DEF NextState, Unexpected, matrix, fromEvent, IntoExecuting, IntoWaiting,
     IntoDone, IntoError
<1>4. state \in {"executing", "waiting", "error", "unknown"}
        => NextState(state, "permission_granted") = "executing"
  BY DEF NextState, Unexpected, matrix, fromEvent, IntoExecuting, IntoWaiting,
     IntoDone, IntoError
<1>5. state \in {"executing", "waiting", "error", "unknown"}
        => NextState(state, "task_failed") \in {"error", "unknown"}
  BY DEF NextState, Unexpected, matrix, fromEvent, IntoExecuting, IntoWaiting,
     IntoDone, IntoError
<1>6. state \in {"executing", "waiting", "error", "unknown"}
        => NextState(state, "task_completed") \in {"done", "unknown"}
  BY DEF NextState, Unexpected, matrix, fromEvent, IntoExecuting, IntoWaiting,
     IntoDone, IntoError
<1>7. does \in {"working", "asking", "answered", "failed"}
        => state \in {"executing", "waiting", "error", "unknown"}
  BY FittingIs
<1>8. CASE ev = "task_started"
  BY <1>2, <1>8, FittingIs, Tables
<1>9. CASE ev = "permission_requested"
  BY <1>3, <1>7, <1>9, FittingIs, Tables
<1>10. CASE ev = "permission_granted"
  BY <1>4, <1>7, <1>10, FittingIs, Tables
<1>11. CASE ev = "task_failed"
  BY <1>5, <1>7, <1>11, FittingIs, Tables
<1>12. CASE ev = "task_completed"
  BY <1>6, <1>7, <1>12, FittingIs, Tables
<1> QED
  BY <1>8, <1>9, <1>10, <1>11, <1>12, Tables

(* A prompt makes any state EXECUTING, and a fresh start any state IDLE. *)
LEMMA TellsAllStates ==
  /\ \A state \in AgentState : NextState(state, "task_started") = "executing"
  /\ \A state : NextState(state, "session_started") = "idle"
<1>1. \A state \in AgentState : NextState(state, "task_started") = "executing"
  BY DEF NextState, Unexpected, matrix, fromEvent, IntoExecuting, IntoWaiting,
     IntoDone, IntoError, AgentState
<1> QED
  BY <1>1, AlwaysStarts

(* An event that is handled when its row fits what the session did, or that tells
   all, leaves a row that fits what the session does.                        *)
LEMMA DeliveryFits ==
  ASSUME TypeOK, NEW ev \in Event, ~ Duplicate(ev), Apply(ev), ev.event \in Fired,
         \/ TellsAll(ev)
         \/ \E does \in From[ev.event] : Fits(sessions, ev.key, does),
         NEW to \in After[ev.event]
  PROVE  Fits(sessions', ev.key, to)
<1> DEFINE k == ev.key
           old == ReceivedRow(ev)
<1>1. /\ MovedRow(ev).state = NextState(old.state, ev.event)
      /\ MovedRow(ev).removeAt = IF ev.event = "session_started" THEN NoTime ELSE old.removeAt
      /\ old \in SessionRecord
      /\ IF Tracked(ev) THEN old.state = Live[k].state /\ old.removeAt = Live[k].removeAt
                        ELSE old.state = "unknown" /\ old.removeAt = NoTime
  BY MovedRowKeeps, ReceivedAhead
<1> HIDE DEF old
<1>2. ASSUME NEW rec, sessions' = put(Live, k, rec)
      PROVE  k \in DOMAIN sessions' /\ sessions'[k] = rec
  BY <1>2 DEF put
<1>3. CASE ev.event = "session_started"
  <2>1. to = "ready"
    BY <1>3, Tables
  <2>2. k \in DOMAIN sessions' /\ sessions'[k] \in {StartedRow(ev), MovedRow(ev)}
    BY <1>2, <1>3 DEF Apply, ApplyDuplicate, ApplyIgnored, ApplyStart, ApplyEnd,
       ApplyTransition, StartedRow, MovedRow
  <2>3. MovedRow(ev).state = "idle" /\ MovedRow(ev).removeAt = NoTime
    BY <1>1, <1>3, TellsAllStates
  <2>4. sessions'[k].state = "idle" /\ sessions'[k].removeAt = NoTime
    BY <2>2, <2>3, StartAndEnd
  <2> QED
    BY <2>1, <2>2, <2>4, FittingIs DEF Fits, RowFits
<1>4. CASE ev.event = "session_ended"
  <2>1. to = "away"
    BY <1>4, Tables
  <2>2. \/ sessions' = Live /\ ~ Tracked(ev)
        \/ sessions' = put(Live, k, EndedRow(ev))
        \/ sessions' = delete(Live, k)
    BY <1>4 DEF Apply, ApplyDuplicate, ApplyIgnored, ApplyStart, ApplyEnd, ApplyTransition,
                EndedRow
  <2>3. k \in DOMAIN sessions' => sessions'[k] = EndedRow(ev)
    BY <1>2, <2>2 DEF Tracked, delete, Restrict
  <2> QED
    BY <2>1, <2>3, StartAndEnd DEF Fits
<1>5. CASE ev.event \notin {"session_started", "session_ended"}
  <2>1. k \in DOMAIN sessions' /\ sessions'[k] = MovedRow(ev)
    BY <1>2, <1>5 DEF Apply, ApplyDuplicate, ApplyIgnored, ApplyStart, ApplyEnd,
       ApplyTransition, MovedRow
  <2>2. CASE TellsAll(ev)
    <3>1. ev.event = "task_started" /\ old.removeAt = NoTime /\ to = "working"
      BY <1>1, <1>5, <2>2, Tables DEF TellsAll
    <3>2. old.state \in AgentState
      BY <1>1 DEF SessionRecord
    <3>3. sessions'[k].state = "executing" /\ sessions'[k].removeAt = NoTime
      BY <1>1, <2>1, <3>1, <3>2, TellsAllStates
    <3> QED
      BY <2>1, <3>1, <3>3, FittingIs DEF Fits, RowFits
  <2>3. ASSUME NEW does \in From[ev.event], Fits(sessions, k, does)
        PROVE  Fits(sessions', k, to)
    <3>1. does \in Agent /\ does # "away"
      BY <1>5, <2>3, Tables DEF Running, Agent
    <3>2. k \in DOMAIN Live /\ RowFits(Live[k], does)
      BY <2>3, <3>1, LiveFits DEF Fits
    <3>3. old.state = Live[k].state /\ old.removeAt = NoTime
      BY <1>1, <3>2 DEF Tracked, RowFits
    <3>4. old.state \in Fitting[does] \/ (does = "working" /\ old.state = "unknown")
      BY <3>2, <3>3 DEF RowFits
    <3>5. to # "away" /\ NextState(old.state, ev.event) \in Fitting[to]
      BY <1>5, <3>1, <3>4, MatrixFits
    <3> QED
      BY <1>1, <1>5, <2>1, <3>3, <3>5 DEF Fits, RowFits
  <2> QED
    BY <2>2, <2>3
<1> QED
  BY <1>3, <1>4, <1>5

-----------------------------------------------------------------------------
(* The queues, and what the server has been told.

   LightIsHonest speaks of sessions of which nothing is on its way, and of them
   alone no step is known to keep it: a delivery must find a row that fits what
   the session did when it fired the event, several events ago.  What carries it
   is that each event that was not overtaken was fired in a state that the event
   after it (or, for the last, what the session does now) follows from.      *)

Ordered(queue) ==
  \A i, j \in DOMAIN queue : i < j /\ queue[j].overtaken => queue[i].overtaken

Linked(queue, does) ==
  \A i \in DOMAIN queue : ~ queue[i].overtaken =>
    IF i = Len(queue) THEN does \in After[queue[i].event]
    ELSE After[queue[i].event] \cap From[queue[i + 1].event] # {}

InLine(queue, does) ==
  /\ \A i \in DOMAIN queue : queue[i].event \in Fired
  /\ Ordered(queue)
  /\ Linked(queue, does)

(* A table is up to date with the session of k: its row fits what the session
   did when it fired the oldest of the events on their way.                  *)
UpToDate(table, k, queue, does) ==
  /\ \A i \in DOMAIN queue : ~ queue[i].overtaken
  /\ IF queue = << >> THEN Fits(table, k, does)
     ELSE \E did \in From[queue[1].event] : Fits(table, k, did)

QueueInv ==
  \A s \in SessionID :
    /\ InLine(hooks[s], agent[s])
    /\ synced[s] => UpToDate(sessions, <<Source, s>>, hooks[s], agent[s])

LEMMA AppendInLine ==
  ASSUME NEW queue \in Seq(HookRecord), NEW hook \in HookRecord,
         NEW does, NEW to \in After[hook.event],
         InLine(queue, does), hook.event \in Fired, ~ hook.overtaken,
         does \in From[hook.event]
  PROVE  InLine(Append(queue, hook), to)
<1> DEFINE more == Append(queue, hook)
           n == Len(queue)
<1>1. /\ n \in Nat /\ DOMAIN queue = 1..n /\ DOMAIN more = 1..n + 1 /\ Len(more) = n + 1
      /\ more[n + 1] = hook /\ \A i \in 1..n : more[i] = queue[i]
  OBVIOUS
<1> HIDE DEF more, n
<1>2. \A i \in DOMAIN more : more[i].event \in Fired
  BY <1>1 DEF InLine
<1>3. Ordered(more)
  BY <1>1 DEF InLine, Ordered
<1>4. Linked(more, to)
  <2> SUFFICES ASSUME NEW i \in 1..n + 1, ~ more[i].overtaken
               PROVE  IF i = n + 1 THEN to \in After[more[i].event]
                      ELSE After[more[i].event] \cap From[more[i + 1].event] # {}
    BY <1>1 DEF Linked
  <2>1. CASE i = n + 1
    BY <1>1, <2>1
  <2>2. CASE i = n
    <3>1. does \in After[queue[n].event] /\ more[i] = queue[n] /\ more[i + 1] = hook
      BY <1>1, <2>2 DEF InLine, Linked, n
    <3> QED
      BY <1>1, <2>2, <3>1
  <2>3. CASE i \in 1..n /\ i # n
    <3>1. i + 1 \in 1..n /\ i # n + 1
      BY <1>1, <2>3
    <3>2. After[queue[i].event] \cap From[queue[i + 1].event] # {}
      BY <1>1, <2>3 DEF InLine, Linked, n
    <3> QED
      BY <1>1, <2>3, <3>1, <3>2
  <2> QED
    BY <1>1, <2>1, <2>2, <2>3
<1> QED
  BY <1>2, <1>3, <1>4 DEF InLine, more

LEMMA TakeOutInLine ==
  ASSUME NEW queue \in Seq(HookRecord), NEW i \in DOMAIN queue, NEW does,
         InLine(queue, does)
  PROVE  InLine(TakeOut(queue, i), does)
<1> DEFINE left == TakeOut(queue, i)
           n == Len(queue) - 1
<1>1. /\ n \in Nat /\ i \in 1..n + 1 /\ DOMAIN queue = 1..n + 1 /\ Len(queue) = n + 1
  BY EmptySeq
<1>2. left \in Seq(HookRecord) /\ Len(left) = n
      /\ \A j \in 1..n :
           IF j < i THEN left[j].overtaken /\ left[j].event = queue[j].event
           ELSE left[j] = queue[j + 1]
  BY TakeOutIs
<1>3. DOMAIN left = 1..n
  BY <1>2
<1> HIDE DEF left, n
<1>4. \A j \in 1..n : j + 1 \in 1..n + 1 /\ j \in 1..n + 1 /\ j \in Nat
  BY <1>1
<1>5. \A j \in DOMAIN left : left[j].event \in Fired
  BY <1>1, <1>2, <1>3, <1>4 DEF InLine
<1>6. Ordered(left)
  <2> SUFFICES ASSUME NEW j \in 1..n, NEW m \in 1..n, j < m, left[m].overtaken
               PROVE  left[j].overtaken
    BY <1>3 DEF Ordered
  <2>1. CASE j < i
    BY <1>2, <2>1
  <2>2. CASE ~ (j < i)
    <3>1. left[j] = queue[j + 1] /\ left[m] = queue[m + 1] /\ j + 1 < m + 1
      BY <1>1, <1>2, <2>2
    <3> QED
      BY <1>1, <1>4, <3>1 DEF InLine, Ordered
  <2> QED
    BY <2>1, <2>2
<1>7. Linked(left, does)
  <2> SUFFICES ASSUME NEW j \in 1..n, ~ left[j].overtaken
               PROVE  IF j = n THEN does \in After[left[j].event]
                      ELSE After[left[j].event] \cap From[left[j + 1].event] # {}
    BY <1>2, <1>3 DEF Linked
  <2>1. ~ (j < i) /\ left[j] = queue[j + 1] /\ j + 1 \in 1..n + 1
    BY <1>2, <1>4
  <2>2. IF j + 1 = n + 1 THEN does \in After[queue[j + 1].event]
        ELSE After[queue[j + 1].event] \cap From[queue[j + 1 + 1].event] # {}
    BY <1>1, <2>1 DEF InLine, Linked
  <2>3. j # n => j + 1 \in 1..n /\ ~ (j + 1 < i)
    BY <1>1, <2>1
  <2>4. j # n => left[j + 1] = queue[j + 1 + 1]
    BY <1>2, <2>3
  <2> QED
    BY <1>1, <2>1, <2>2, <2>4
<1> QED
  BY <1>5, <1>6, <1>7 DEF InLine, left

(* Two queues that differ in the stages of their hooks only. *)
LEMMA StagedInLine ==
  ASSUME NEW queue \in Seq(HookRecord), NEW i \in DOMAIN queue, NEW stage \in HookStage
  PROVE  LET left == [queue EXCEPT ![i].stage = stage]
         IN /\ \A does : InLine(queue, does) => InLine(left, does)
            /\ \A table, k, does : UpToDate(table, k, queue, does)
                                     => UpToDate(table, k, left, does)
<1> DEFINE left == [queue EXCEPT ![i].stage = stage]
           n == Len(queue)
<1>1. n \in Nat /\ DOMAIN queue = 1..n /\ i \in 1..n
  OBVIOUS
<1>2. left \in Seq(HookRecord) /\ Len(left) = n
      /\ \A j \in 1..n : left[j].overtaken = queue[j].overtaken
                         /\ left[j].event = queue[j].event
  BY StagedIs
<1>3. DOMAIN left = 1..n /\ left # << >> /\ queue # << >>
  BY <1>1, <1>2, EmptySeq
<1> HIDE DEF left
<1>4. ASSUME NEW does, InLine(queue, does)
      PROVE  InLine(left, does)
  <2>1. Ordered(left)
    BY <1>1, <1>2, <1>3, <1>4 DEF InLine, Ordered
  <2>2. Linked(left, does)
    <3> HIDE DEF n
    <3> SUFFICES ASSUME NEW j \in 1..n, ~ left[j].overtaken
                 PROVE  IF j = n THEN does \in After[left[j].event]
                        ELSE After[left[j].event] \cap From[left[j + 1].event] # {}
      BY <1>2, <1>3 DEF Linked
    <3>1. IF j = n THEN does \in After[queue[j].event]
          ELSE After[queue[j].event] \cap From[queue[j + 1].event] # {}
      BY <1>1, <1>2, <1>4 DEF InLine, Linked, n
    <3>2. j # n => j + 1 \in 1..n
      BY <1>1
    <3> QED
      BY <1>2, <3>1, <3>2
  <2> QED
    BY <1>1, <1>2, <1>3, <1>4, <2>1, <2>2 DEF InLine
<1>5. ASSUME NEW table, NEW k, NEW does, UpToDate(table, k, queue, does)
      PROVE  UpToDate(table, k, left, does)
  <2>1. 1 \in 1..n
    BY <1>1
  <2> QED
    BY <1>1, <1>2, <1>3, <1>5, <2>1 DEF UpToDate
<1> QED
  BY <1>4, <1>5 DEF left

-----------------------------------------------------------------------------
(* What each kind of step does to the queues and to the rows. *)

(* An event of one session does nothing to the row of another but what time does. *)
LEMMA OthersKeepFitting ==
  ASSUME TypeOK, NEW ev \in Event, Apply(ev), NEW k, k # ev.key,
         NEW does \in Agent, Fits(sessions, k, does)
  PROVE  Fits(sessions', k, does)
<1>1. Fits(Live, k, does)
  BY LiveFits
<1>2. (k \in DOMAIN sessions' <=> k \in DOMAIN Live)
      /\ (k \in DOMAIN Live => sessions'[k] = Live[k])
  <2>1. \/ sessions' = Live
        \/ sessions' = delete(Live, ev.key)
        \/ \E rec : sessions' = put(Live, ev.key, rec)
    BY DEF Apply, ApplyDuplicate, ApplyIgnored, ApplyStart, ApplyEnd, ApplyTransition
  <2>2. CASE sessions' = delete(Live, ev.key)
    BY <2>2 DEF delete, Restrict
  <2>3. ASSUME NEW rec, sessions' = put(Live, ev.key, rec)
        PROVE  /\ DOMAIN sessions' = DOMAIN Live \cup {ev.key}
               /\ \A j \in DOMAIN Live : j # ev.key => sessions'[j] = Live[j]
    BY <2>3 DEF put
  <2> QED
    BY <2>1, <2>2, <2>3
<1> QED
  BY <1>1, <1>2 DEF Fits

LEMMA FromIsAgent ==
  \A ev \in Fired : From[ev] \subseteq Agent /\ After[ev] \subseteq Agent
BY Tables DEF Running, Agent

(* What keeps every fitting row fitting keeps the table up to date. *)
LEMMA StaysUpToDate ==
  ASSUME NEW queue \in Seq(HookRecord), NEW does \in Agent, InLine(queue, does),
         NEW old, NEW new, NEW k,
         \A did \in Agent : Fits(old, k, did) => Fits(new, k, did),
         UpToDate(old, k, queue, does)
  PROVE  UpToDate(new, k, queue, does)
<1>1. CASE queue = << >>
  BY <1>1 DEF UpToDate
<1>2. CASE queue # << >>
  <2>1. 1 \in DOMAIN queue
    BY <1>2, EmptySeq
  <2>2. From[queue[1].event] \subseteq Agent
    BY <2>1, FromIsAgent DEF InLine
  <2> QED
    BY <1>2, <2>2 DEF UpToDate
<1> QED
  BY <1>1, <1>2

(* A prompt that is answered is a prompt still: no table can tell. *)
LEMMA AnswerInLine ==
  ASSUME NEW queue \in Seq(HookRecord), InLine(queue, "asking")
  PROVE  /\ InLine(queue, "answered")
         /\ \A table, k : UpToDate(table, k, queue, "asking")
                            => UpToDate(table, k, queue, "answered")
<1>1. \A ev \in Fired : "asking" \in After[ev] => "answered" \in After[ev]
  BY Tables
<1>2. \A table, k : Fits(table, k, "asking") => Fits(table, k, "answered")
  BY FittingIs DEF Fits, RowFits
<1>3. Linked(queue, "answered")
  BY <1>1 DEF InLine, Linked
<1> QED
  BY <1>2, <1>3 DEF InLine, UpToDate

(* A hook that is fired leaves the table as far behind as it was. *)
LEMMA AppendUpToDate ==
  ASSUME NEW queue \in Seq(HookRecord), NEW hook \in HookRecord, ~ hook.overtaken,
         NEW does \in From[hook.event], NEW to, NEW table, NEW k,
         UpToDate(table, k, queue, does)
  PROVE  UpToDate(table, k, Append(queue, hook), to)
<1> DEFINE more == Append(queue, hook)
           n == Len(queue)
<1>1. /\ n \in Nat /\ DOMAIN queue = 1..n /\ DOMAIN more = 1..n + 1 /\ Len(more) = n + 1
      /\ more[n + 1] = hook /\ \A i \in 1..n : more[i] = queue[i]
      /\ more \in Seq(HookRecord)
  OBVIOUS
<1>2. more # << >>
  BY <1>1, EmptySeq
<1> HIDE DEF more
<1>3. \A i \in DOMAIN more : ~ more[i].overtaken
  <2> HIDE DEF n
  <2> QED
    BY <1>1 DEF UpToDate
<1>4. CASE queue = << >>
  <2>1. more[1] = hook
    BY <1>1, <1>4, EmptySeq
  <2> QED
    BY <1>2, <1>3, <1>4, <2>1 DEF UpToDate, more
<1>5. CASE queue # << >>
  <2>1. 1 \in 1..n
    BY <1>1, <1>5, EmptySeq
  <2>2. more[1] = queue[1]
    BY <1>1, <2>1
  <2> QED
    BY <1>2, <1>3, <1>5, <2>2 DEF UpToDate, more
<1> QED
  BY <1>4, <1>5

(* The oldest event is taken out when the row fits what it was fired for. *)
LEMMA TakenUpToDate ==
  ASSUME NEW queue \in Seq(HookRecord), 1 \in DOMAIN queue, NEW does, NEW table, NEW k,
         InLine(queue, does), ~ queue[1].overtaken,
         \A did \in After[queue[1].event] : Fits(table, k, did)
  PROVE  UpToDate(table, k, TakeOut(queue, 1), does)
<1> DEFINE left == TakeOut(queue, 1)
           n == Len(queue) - 1
<1>1. /\ n \in Nat /\ DOMAIN queue = 1..n + 1 /\ Len(queue) = n + 1
  BY EmptySeq
<1>2. left \in Seq(HookRecord) /\ Len(left) = n /\ \A j \in 1..n : left[j] = queue[j + 1]
  <2>1. left \in Seq(HookRecord) /\ Len(left) = n
        /\ \A j \in 1..n : ~ (j < 1) => left[j] = queue[j + 1]
    BY TakeOutIs
  <2> HIDE DEF left, n
  <2>2. \A j \in 1..n : ~ (j < 1)
    BY <1>1
  <2> QED
    BY <2>1, <2>2
<1>3. DOMAIN left = 1..n /\ (left = << >> <=> n = 0)
  BY <1>2, EmptySeq
<1> HIDE DEF left, n
<1>4. \A j \in DOMAIN left : ~ left[j].overtaken
  <2> SUFFICES ASSUME NEW j \in 1..n
               PROVE  ~ queue[j + 1].overtaken
    BY <1>2, <1>3
  <2>1. j + 1 \in 1..n + 1 /\ 1 \in 1..n + 1 /\ 1 < j + 1
    BY <1>1
  <2> QED
    BY <1>1, <2>1 DEF InLine, Ordered
<1>5. CASE n = 0
  <2>1. does \in After[queue[1].event]
    BY <1>1, <1>5 DEF InLine, Linked
  <2> QED
    BY <1>3, <1>4, <1>5, <2>1 DEF UpToDate, left
<1>6. CASE n # 0
  <2>1. 1 \in 1..n /\ 1 # n + 1
    BY <1>1, <1>6
  <2>2. After[queue[1].event] \cap From[queue[1 + 1].event] # {}
    BY <1>1, <2>1 DEF InLine, Linked
  <2>3. left[1] = queue[1 + 1]
    BY <1>2, <2>1
  <2>4. \E did \in From[left[1].event] : Fits(table, k, did)
    BY <2>2, <2>3
  <2> QED
    BY <1>3, <1>4, <1>6, <2>4 DEF UpToDate, left
<1> QED
  BY <1>5, <1>6

(* A session's queue in which nothing happens, while the table goes on. *)
LEMMA QueueStays ==
  ASSUME PTypeOK, QueueInv, NEW s \in SessionID,
         hooks'[s] = hooks[s], agent'[s] = agent[s], synced'[s] = synced[s],
         \/ sessions' = sessions
         \/ sessions' = Live
         \/ \E ev \in Event : ev.key # <<Source, s>> /\ Apply(ev)
  PROVE  /\ InLine(hooks'[s], agent'[s])
         /\ synced'[s] => UpToDate(sessions', <<Source, s>>, hooks'[s], agent'[s])
<1> DEFINE k == <<Source, s>>
<1>1. hooks[s] \in Seq(HookRecord) /\ agent[s] \in Agent /\ TypeOK
  BY HookTypes DEF PTypeOK
<1>2. InLine(hooks[s], agent[s]) /\ (synced[s] => UpToDate(sessions, k, hooks[s], agent[s]))
  BY DEF QueueInv
<1>3. ASSUME NEW did \in Agent, Fits(sessions, k, did)
      PROVE  Fits(sessions', k, did)
  <2>1. Fits(Live, k, did)
    BY <1>1, <1>3, LiveFits
  <2> QED
    BY <1>1, <1>3, <2>1, OthersKeepFitting
<1> HIDE DEF k
<1>4. synced[s] => UpToDate(sessions', k, hooks[s], agent[s])
  BY <1>1, <1>2, <1>3, StaysUpToDate
<1> QED
  BY <1>2, <1>4 DEF k

LEMMA QueueStep ==
  ASSUME PTypeOK, Unseen, QueueInv, [PNext]_pvars
  PROVE  QueueInv'
<1> DEFINE Fine(s) ==
      /\ InLine(hooks'[s], agent'[s])
      /\ synced'[s] => UpToDate(sessions', <<Source, s>>, hooks'[s], agent'[s])
<1>1. /\ hooks \in [SessionID -> Seq(HookRecord)] /\ agent \in [SessionID -> Agent]
      /\ synced \in [SessionID -> BOOLEAN] /\ TypeOK
  BY HookTypes DEF PTypeOK
<1>2. \A s \in SessionID :
        /\ InLine(hooks[s], agent[s]) /\ hooks[s] \in Seq(HookRecord) /\ agent[s] \in Agent
        /\ synced[s] => UpToDate(sessions, <<Source, s>>, hooks[s], agent[s])
  BY <1>1 DEF QueueInv
<1>3. ASSUME NEW s \in SessionID, NEW t \in SessionID, t # s, NEW queue, NEW does, NEW told,
             hooks' = [hooks EXCEPT ![s] = queue], agent' = [agent EXCEPT ![s] = does],
             synced' = [synced EXCEPT ![s] = told],
             \/ sessions' = sessions
             \/ \E ev \in Event : ev.key = <<Source, s>> /\ Apply(ev)
      PROVE  Fine(t)
  <2>1. hooks'[t] = hooks[t] /\ agent'[t] = agent[t] /\ synced'[t] = synced[t]
    BY <1>1, <1>3
  <2>2. \A ev \in Event : ev.key = <<Source, s>> => ev.key # <<Source, t>>
    BY <1>3
  <2> QED
    BY <1>3, <2>1, <2>2, QueueStays
<1>4. ASSUME NEW s \in SessionID, NEW ev \in Fired, Fires(s, ev)
      PROVE  QueueInv'
  <2> DEFINE hook == NewHook(ev)
             queue == Append(hooks[s], hook)
  <2>1. PICK to \in After[ev] : agent' = [agent EXCEPT ![s] = to]
    BY <1>4 DEF Fires
  <2>2. /\ agent[s] \in From[ev] /\ hooks' = [hooks EXCEPT ![s] = queue]
        /\ synced' = synced /\ sessions' = sessions
    BY <1>4 DEF Fires, vars
  <2>3. hook \in HookRecord /\ hook.event = ev /\ ~ hook.overtaken
    <3>1. newEventID(ev) \in EventId /\ ev \in NormalizedEventType
      BY <1>4, NewEventIDIs, Tables DEF Fires
    <3> QED
      BY <3>1 DEF NewHook, HookRecord, HookStage
  <2>4. hooks'[s] = queue /\ agent'[s] = to /\ synced' = [synced EXCEPT ![s] = synced[s]]
    BY <1>1, <2>1, <2>2
  <2> HIDE DEF hook
  <2>5. InLine(queue, to)
    BY <1>2, <2>2, <2>3, AppendInLine
  <2>6. synced[s] => UpToDate(sessions, <<Source, s>>, queue, to)
    BY <1>2, <2>2, <2>3, AppendUpToDate
  <2> HIDE DEF queue
  <2>7. Fine(s)
    BY <2>2, <2>4, <2>5, <2>6
  <2>8. \A t \in SessionID : t # s => Fine(t)
    BY <1>3, <2>1, <2>2, <2>4
  <2> QED
    BY <2>7, <2>8 DEF QueueInv
<1>5. ASSUME NEW s \in SessionID, Silent(s)
      PROVE  QueueInv'
  <2>1. hooks' = hooks /\ synced' = synced /\ sessions' = sessions
    BY <1>5 DEF Silent, vars
  <2>2. CASE agent' = agent
    BY <1>2, <2>1, <2>2 DEF QueueInv
  <2>3. CASE agent[s] = "asking" /\ agent' = [agent EXCEPT ![s] = "answered"]
    <3>1. agent'[s] = "answered"
      BY <1>1, <2>3
    <3>2. Fine(s)
      BY <1>2, <2>1, <2>3, <3>1, AnswerInLine
    <3>3. \A t \in SessionID : t # s => agent'[t] = agent[t]
      BY <1>1, <2>3
    <3>4. \A t \in SessionID : t # s => Fine(t)
      BY <1>2, <2>1, <3>3
    <3> QED
      BY <3>2, <3>4 DEF QueueInv
  <2> QED
    BY <1>5, <2>2, <2>3 DEF Silent
<1>6. ASSUME NEW s \in SessionID, NEW i \in DOMAIN hooks[s], NEW from, NEW to \in HookStage,
             Staged(s, i, from, to)
      PROVE  QueueInv'
  <2> DEFINE queue == [hooks[s] EXCEPT ![i].stage = to]
  <2>1. agent' = agent /\ synced' = synced /\ sessions' = sessions
        /\ hooks' = [hooks EXCEPT ![s] = queue]
    BY <1>1, <1>6 DEF Staged, vars
  <2>2. InLine(queue, agent[s])
        /\ (synced[s] => UpToDate(sessions, <<Source, s>>, queue, agent[s]))
    BY <1>2, StagedInLine
  <2> HIDE DEF queue
  <2>3. hooks'[s] = queue /\ \A t \in SessionID : t # s => hooks'[t] = hooks[t]
    BY <1>1, <2>1
  <2> QED
    BY <1>2, <2>1, <2>2, <2>3 DEF QueueInv
<1>7. ASSUME NEW s \in SessionID, NEW i \in DOMAIN hooks[s], Lose(s, i)
      PROVE  QueueInv'
  <2> DEFINE queue == TakeOut(hooks[s], i)
  <2>1. /\ agent' = agent /\ sessions' = sessions /\ hooks' = [hooks EXCEPT ![s] = queue]
        /\ synced' = [synced EXCEPT ![s] = FALSE]
    BY <1>7 DEF Lose, vars
  <2>2. InLine(queue, agent[s])
    BY <1>2, TakeOutInLine
  <2> HIDE DEF queue
  <2>3. /\ hooks'[s] = queue /\ ~ synced'[s]
        /\ \A t \in SessionID : t # s => hooks'[t] = hooks[t] /\ synced'[t] = synced[t]
    BY <1>1, <2>1
  <2> QED
    BY <1>2, <2>1, <2>2, <2>3 DEF QueueInv
<1>8. ASSUME NEW s \in SessionID, NEW i \in DOMAIN hooks[s], Deliver(s, i)
      PROVE  QueueInv'
  <2> DEFINE hook == hooks[s][i]
             ev == EventOf(s, hook)
             queue == TakeOut(hooks[s], i)
             told == /\ i = 1 /\ ~ hook.overtaken
                     /\ synced[s] \/ TellsAll(ev)
  <2>1. /\ Apply(ev) /\ agent' = agent /\ hooks' = [hooks EXCEPT ![s] = queue]
        /\ synced' = [synced EXCEPT ![s] = told]
    BY <1>8 DEF Deliver
  <2>2. hook \in HookRecord /\ ev \in Event /\ ev.key = <<Source, s>>
        /\ ev.eventID = hook.eventID /\ ev.event = hook.event
    BY HookTypes, EventOfIs
  <2>3. ~ Duplicate(ev)
    <3>1. \A k \in DOMAIN Live : k \in DOMAIN sessions
                                 /\ Live[k].seenEventIDs = sessions[k].seenEventIDs
      BY <1>1, LiveRow, ExpireKeeps DEF TypeOK
    <3> HIDE DEF ev
    <3> QED
      BY <2>2, <3>1 DEF Duplicate, Tracked, Unseen
  <2>4. InLine(queue, agent[s])
    BY <1>2, TakeOutInLine
  <2>5. ASSUME told
        PROVE  UpToDate(sessions', <<Source, s>>, queue, agent[s])
    <3> HIDE DEF hook, ev
    <3>1. i = 1 /\ ~ hook.overtaken /\ hook = hooks[s][1] /\ 1 \in DOMAIN hooks[s]
      BY <2>5 DEF hook
    <3>2. ev.event \in Fired
      BY <1>2, <2>2 DEF InLine, hook
    <3>3. \/ TellsAll(ev)
          \/ \E does \in From[ev.event] : Fits(sessions, ev.key, does)
      <4>1. hooks[s] # << >>
        BY <1>2, <3>1, EmptySeq
      <4> QED
        BY <1>2, <2>2, <2>5, <3>1, <4>1 DEF UpToDate
    <3>4. \A did \in After[ev.event] : Fits(sessions', ev.key, did)
      BY <1>1, <2>1, <2>2, <2>3, <3>2, <3>3, DeliveryFits
    <3> QED
      BY <1>2, <2>2, <3>1, <3>4, TakenUpToDate
  <2> HIDE DEF ev, hook, queue, told
  <2>6. hooks'[s] = queue /\ agent'[s] = agent[s] /\ synced'[s] = told
        /\ agent' = [agent EXCEPT ![s] = agent[s]]
    BY <1>1, <2>1
  <2>7. Fine(s)
    BY <2>4, <2>5, <2>6
  <2>8. \A t \in SessionID : t # s => Fine(t)
    BY <1>3, <2>1, <2>2, <2>6
  <2> QED
    BY <2>7, <2>8 DEF QueueInv
<1>9. ASSUME Snapshot \/ Tick \/ UNCHANGED vars, UNCHANGED <<async, agent, hooks, synced>>
      PROVE  QueueInv'
  <2>1. sessions' = sessions \/ sessions' = Live
    BY <1>9 DEF Snapshot, Tick, vars
  <2>2. \A s \in SessionID : Fine(s)
    BY <1>9, <2>1, QueueStays
  <2> QED
    BY <2>2 DEF QueueInv
<1> HIDE DEF Fine
<1> QED
  BY <1>4, <1>5, <1>6, <1>7, <1>8, <1>9, Ways

-----------------------------------------------------------------------------
(* A restart: the table is empty, and of each queue the hooks that have not posted
   yet are left.                                                             *)

LEMMA NumbersInOrder == \A S \in SUBSET Nat : IsOrder(S, {p \in S \X S : p[1] < p[2]})
BY DEF IsOrder

LEMMA LeftOverIs ==
  ASSUME PTypeOK, PRestart, NEW s \in SessionID
  PROVE  /\ hooks'[s] \in Seq(HookRecord)
         /\ \E list \in [DOMAIN hooks'[s] -> DOMAIN hooks[s]] :
              \A n \in DOMAIN hooks'[s] :
                /\ \A m \in DOMAIN hooks'[s] : list[m] = list[n] => m = n
                /\ hooks'[s][n].eventID = hooks[s][list[n]].eventID
                /\ hooks'[s][n].event = hooks[s][list[n]].event
                /\ hooks'[s][n].overtaken
<1> DEFINE running == {i \in DOMAIN hooks[s] : hooks[s][i].stage = "running"}
           size == Cardinality(running)
           left == InOrder(running, <)
           at(n) == [hooks[s][left[n]] EXCEPT !.overtaken = TRUE]
<1>1. hooks[s] \in Seq(HookRecord)
  BY HookTypes
<1>2. IsFiniteSet(running) /\ running \subseteq Nat
  <2>1. Len(hooks[s]) \in Nat /\ DOMAIN hooks[s] = 1..Len(hooks[s])
    BY <1>1
  <2>2. IsFiniteSet(1..Len(hooks[s]))
    BY <2>1, FS_Interval
  <2> QED
    BY <2>1, <2>2, FS_Subset
<1>3. hooks'[s] = [n \in DOMAIN left |-> at(n)]
  BY DEF PRestart
<1>4. left = CHOOSE list \in [1..size -> running] :
               /\ \A x \in running : \E i \in DOMAIN list : list[i] = x
               /\ \A i, j \in DOMAIN list : i < j => list[i] < list[j]
  BY DEF InOrder
<1>5. size \in Nat /\ running \subseteq DOMAIN hooks[s]
  BY <1>2, FS_CardinalityType
<1> HIDE DEF left, running, size
<1>6. /\ left \in [1..size -> running]
      /\ \A i, j \in 1..size : i < j => left[i] < left[j]
  <2> DEFINE R == {p \in running \X running : p[1] < p[2]}
  <2>1. IsOrder(running, R)
    BY <1>2, NumbersInOrder
  <2> HIDE DEF R
  <2>2. PICK list \in [1..size -> running] :
               /\ \A x \in running : \E i \in 1..size : list[i] = x
               /\ \A i, j \in 1..size : i < j => <<list[i], list[j]>> \in R
    BY <1>2, <2>1, ListExists DEF size
  <2>3. \A i, j \in 1..size : i < j => list[i] < list[j]
    BY <2>2 DEF R
  <2> QED
    BY <1>4, <2>2, <2>3
<1>7. ASSUME NEW n \in 1..size
      PROVE  /\ at(n) \in HookRecord /\ left[n] \in DOMAIN hooks[s] /\ left[n] \in Nat
             /\ at(n).eventID = hooks[s][left[n]].eventID
             /\ at(n).event = hooks[s][left[n]].event
             /\ at(n).overtaken
  <2>1. left[n] \in DOMAIN hooks[s] /\ left[n] \in Nat
    BY <1>2, <1>5, <1>6
  <2>2. hooks[s][left[n]] \in HookRecord
    BY <1>1, <2>1
  <2> QED
    BY <2>1, <2>2 DEF HookRecord
<1>8. \A n, m \in 1..size : left[m] = left[n] => m = n
  <2> SUFFICES ASSUME NEW n \in 1..size, NEW m \in 1..size, left[m] = left[n], m # n
               PROVE  FALSE
    OBVIOUS
  <2>1. n < m \/ m < n
    BY <1>5
  <2>2. left[n] < left[m] \/ left[m] < left[n]
    BY <1>6, <2>1
  <2>3. left[n] \in Nat /\ left[m] \in Nat
    BY <1>7
  <2> QED
    BY <2>2, <2>3
<1> HIDE DEF at
<1>9. hooks'[s] = [n \in 1..size |-> at(n)]
  BY <1>3, <1>6
<1>10. hooks'[s] \in Seq(HookRecord) /\ DOMAIN hooks'[s] = 1..size
       /\ \A n \in 1..size : hooks'[s][n] = at(n)
  BY <1>5, <1>7, <1>9
<1>11. left \in [DOMAIN hooks'[s] -> DOMAIN hooks[s]]
  BY <1>6, <1>7, <1>10
<1>12. ASSUME NEW n \in DOMAIN hooks'[s]
       PROVE  /\ \A m \in DOMAIN hooks'[s] : left[m] = left[n] => m = n
              /\ hooks'[s][n].eventID = hooks[s][left[n]].eventID
              /\ hooks'[s][n].event = hooks[s][left[n]].event
              /\ hooks'[s][n].overtaken
  <2>1. n \in 1..size
    BY <1>10
  <2> QED
    BY <1>7, <1>8, <1>10, <2>1
<1> QED
  BY <1>10, <1>11, <1>12, Zenon

(* What the theorems rest on: each part takes the ones before it. *)
HookInv == PTypeOK /\ Unseen /\ Distinct /\ QueueInv

LEMMA HookInvRestart ==
  ASSUME HookInv, PRestart
  PROVE  HookInv'
<1>1. PTypeOK /\ Unseen /\ Distinct /\ QueueInv
  BY DEF HookInv
<1>2. /\ async' = async /\ agent' = agent /\ DOMAIN sessions' = {}
      /\ DOMAIN hooks' = SessionID
      /\ synced' = [s \in SessionID |-> FALSE]
      /\ hooks' = [s \in SessionID |-> hooks'[s]]
  BY DEF PRestart, Restart
<1>3. \A s \in SessionID : hooks'[s] \in Seq(HookRecord)
  BY <1>1, LeftOverIs
<1>4. PTypeOK'
  <2>1. TypeOK'
    BY <1>1, TypeStep DEF PTypeOK, PRestart, Next
  <2>2. agent \in [SessionID -> Agent] /\ async \in BOOLEAN
    BY <1>1, HookTypes
  <2> QED
    BY <1>2, <1>3, <2>1, <2>2 DEF PTypeOK, HookRecord
<1>5. Unseen'
  BY <1>2 DEF Unseen
<1>6. Distinct'
  <2> SUFFICES ASSUME NEW s \in SessionID, NEW t \in SessionID,
                      NEW i \in DOMAIN hooks'[s], NEW j \in DOMAIN hooks'[t],
                      hooks'[s][i].eventID = hooks'[t][j].eventID
               PROVE  s = t /\ i = j
    BY DEF Distinct
  <2>1. PICK from \in [DOMAIN hooks'[s] -> DOMAIN hooks[s]] :
               \A n \in DOMAIN hooks'[s] :
                 /\ \A m \in DOMAIN hooks'[s] : from[m] = from[n] => m = n
                 /\ hooks'[s][n].eventID = hooks[s][from[n]].eventID
    BY <1>1, LeftOverIs
  <2>2. s = t
    <3>1. \E n \in DOMAIN hooks[t] : hooks'[t][j].eventID = hooks[t][n].eventID
      BY <1>1, LeftOverIs
    <3> QED
      BY <1>1, <2>1, <3>1 DEF Distinct
  <2>3. from[i] = from[j]
    BY <1>1, <2>1, <2>2 DEF Distinct
  <2> QED
    BY <2>1, <2>2, <2>3
<1>7. QueueInv'
  <2> SUFFICES ASSUME NEW s \in SessionID
               PROVE  InLine(hooks'[s], agent'[s])
    BY <1>2 DEF QueueInv
  <2>1. ASSUME NEW n \in DOMAIN hooks'[s]
        PROVE  hooks'[s][n].overtaken /\ hooks'[s][n].event \in Fired
    BY <1>1, LeftOverIs DEF QueueInv, InLine
  <2> QED
    BY <2>1 DEF InLine, Ordered, Linked
<1> QED
  BY <1>4, <1>5, <1>6, <1>7 DEF HookInv

LEMMA HookInvStep ==
  ASSUME HookInv, [PNext]_pvars \/ PRestart
  PROVE  HookInv'
<1>1. CASE [PNext]_pvars
  BY <1>1, PTypeStep, IdentitiesStep, QueueStep DEF HookInv
<1> QED
  BY <1>1, HookInvRestart

LEMMA HookInvStart == PInit => HookInv
<1>1. PInit => PTypeOK
  BY PTypeStart
<1>2. PInit => Unseen /\ Distinct
  BY EmptySeq DEF PInit, Init, Unseen, Distinct
<1>3. PInit => QueueInv
  <2> SUFFICES ASSUME PInit, NEW s \in SessionID
               PROVE  /\ InLine(hooks[s], agent[s])
                      /\ UpToDate(sessions, <<Source, s>>, hooks[s], agent[s])
    BY DEF QueueInv
  <2>1. hooks[s] = << >> /\ agent[s] = "away" /\ DOMAIN sessions = {}
    BY DEF PInit, Init
  <2>2. DOMAIN hooks[s] = {}
    BY <2>1, EmptySeq
  <2> QED
    BY <2>1, <2>2 DEF InLine, Ordered, Linked, UpToDate, Fits
<1> QED
  BY <1>1, <1>2, <1>3 DEF HookInv

LEMMA HonestThen == HookInv => LightIsHonest
<1> SUFFICES ASSUME HookInv, NEW s \in SessionID, synced[s], hooks[s] = << >>
             PROVE  LET k == <<Source, s>>
                    IN IF agent[s] = "away"
                       THEN k \in DOMAIN Live => Live[k].removeAt # NoTime
                       ELSE /\ k \in DOMAIN Live
                            /\ \/ Live[k].state \in Fitting[agent[s]]
                               \/ /\ agent[s] = "working" /\ Live[k].state = "unknown"
                                  /\ Live[k].since > Live[k].lastEventAt
  BY DEF LightIsHonest
<1>1. Fits(sessions, <<Source, s>>, agent[s])
  BY DEF HookInv, QueueInv, UpToDate
<1>2. agent[s] \in Agent /\ TypeOK
  BY HookTypes DEF HookInv, PTypeOK
<1>3. Fits(Live, <<Source, s>>, agent[s])
  BY <1>1, <1>2, LiveFits
<1> QED
  BY <1>3 DEF Fits, RowFits

THEOREM HookInvHolds == PSpec => []HookInv
<1>1. HookInv /\ [PNext]_pvars => HookInv'
  BY HookInvStep
<1> QED
  BY <1>1, HookInvStart, PTL DEF PSpec

(* When the server has heard, in order, all that a session fired, its light is
   right: the handlers, the state machine, the expiry of rows and the queues of
   hooks together, for any number of sessions and of hooks on their way.     *)
THEOREM LightIsHonestHolds == PSpec => []LightIsHonest
BY HookInvHolds, HonestThen, PTL

-----------------------------------------------------------------------------
(* EndToEnd: polls and restarts in between. *)

LEMMA EndToEndStep ==
  ASSUME [ENext]_evars
  PROVE  [PNext]_pvars \/ PRestart
<1>1. ASSUME NEW s \in SessionID, FromClaude(s)
      PROVE  PNext
  BY <1>1 DEF FromClaude, PNext
<1>2. ASSUME NEW c \in Conn, Poll(c)
      PROVE  [PNext]_pvars
  BY <1>2 DEF Poll, handleState_Snapshot, handleState_Build, PNext, claudeVars, pvars, vars
<1>3. CASE Time
  BY <1>3 DEF Time, PNext, claudeVars
<1>4. CASE UNCHANGED evars
  BY <1>4 DEF evars, claudeVars, pvars, vars
<1> QED
  BY <1>1, <1>2, <1>3, <1>4 DEF ENext

(* The light is right over restarts too, with clients that poll in between: a
   restart leaves no session that the server is said to have heard all of.   *)
THEOREM LightIsHonestOverRestarts == ESpec => []LightIsHonest
<1>1. EInit => HookInv
  BY HookInvStart DEF EInit
<1>2. HookInv /\ [ENext]_evars => HookInv'
  BY EndToEndStep, HookInvStep
<1> QED
  BY <1>1, <1>2, HonestThen, PTL DEF ESpec

LEMMA EndToEndCalls ==
  ASSUME PTypeOK, [ENext]_evars
  PROVE  [Next]_vars /\ CallStep
<1>1. CASE PRestart /\ ServerRestart
  BY <1>1 DEF PRestart, Next, CallStep
<1>2. ASSUME NEW s \in SessionID, FromClaude(s)
      PROVE  [Next]_vars /\ CallStep
  <2>1. PNext /\ UNCHANGED call
    BY <1>2 DEF FromClaude, PNext
  <2> QED
    BY <2>1, StepOfManager DEF CallStep
<1>3. ASSUME NEW c \in Conn, Poll(c)
      PROVE  [Next]_vars /\ CallStep
  BY <1>3 DEF Poll, handleState_Snapshot, handleState_Build, Next, CallStep
<1>4. CASE Time
  BY <1>4 DEF Time, Next, CallStep
<1>5. CASE UNCHANGED evars
  BY <1>5 DEF evars, vars, CallStep
<1> QED
  BY <1>1, <1>2, <1>3, <1>4, <1>5 DEF ENext

THEOREM EndToEndInvHolds == ESpec => [](HookInv /\ ServerInv)
<1>1. EInit => HookInv /\ ServerInv
  BY HookInvStart, ServerInvStart DEF EInit
<1>2. (HookInv /\ ServerInv) /\ [ENext]_evars => (HookInv /\ ServerInv)'
  <2> SUFFICES ASSUME HookInv, ServerInv, [ENext]_evars
               PROVE  HookInv' /\ ServerInv'
    OBVIOUS
  <2>1. HookInv'
    BY EndToEndStep, HookInvStep
  <2>2. [Next]_vars /\ CallStep
    BY EndToEndCalls DEF HookInv
  <2> QED
    BY <2>1, <2>2, ServerInvStep
<1> QED
  BY <1>1, <1>2, PTL DEF ESpec

(* From agent to screen the table is the manager's, so that every theorem of Sessions
   holds there as well.                                                      *)
THEOREM EndToEndImplementsSessions == ESpec => Spec
<1>1. EInit => Init
  BY DEF EInit, PInit
<1>2. HookInv /\ [ENext]_evars => [Next]_vars
  BY EndToEndCalls DEF HookInv
<1> QED
  BY <1>1, <1>2, EndToEndInvHolds, PTL DEF ESpec, Spec

(* What is said of an answer holds of every answer to a client while hooks run,
   overtake one another and are lost, and servers start anew.                *)
THEOREM AnswersHoldEndToEnd ==
  ESpec => [](/\ HeadlineIsMostUrgent /\ WaitingTooLongFollowsSince
              /\ AnswerIsOneMoment /\ ScreensAgree)
BY HeadlineThen, WaitingTooLongThen, AnswerIsOneMomentThen, ScreensAgreeThen,
   EndToEndInvHolds, PTL

(* And no snapshot is of an older table than any before it. *)
THEOREM NeverGoBackEndToEnd == ESpec => SnapshotsNeverGoBack
<1> DEFINE Never == \A c \in Conn : NeverBack(c)
<1>1. HookInv /\ ServerInv /\ [ENext]_evars => [Never]_svars
  BY EndToEndCalls, NeverBackStep DEF HookInv
<1>2. [][Never]_svars => SnapshotsNeverGoBack
  BY DEF SnapshotsNeverGoBack, NeverBack
<1> QED
  BY <1>1, <1>2, EndToEndInvHolds, PTL DEF ESpec

LEMMA WaitingShows ==
  ASSUME NEW recs, NEW changed, IsSnapshot(recs, changed), NEW t \in Nat,
         NEW r \in recs, r.state = "waiting"
  PROVE  Build(recs, changed, t, WaitingTooLong).overall.state = "waiting"
<1> DEFINE answer == Build(recs, changed, t, WaitingTooLong)
           rows   == answer.tools
           own    == {x \in recs : x.tool = r.tool}
<1>1. ASSUME NEW states \in SUBSET AgentState, "waiting" \in states
      PROVE  mostUrgent(states) = "waiting"
  <2>1. mostUrgent(states) \in AgentState
        /\ priority["waiting"] <= priority[mostUrgent(states)]
    BY <1>1, MostUrgentIsMax
  <2>2. \A s \in AgentState : priority["waiting"] <= priority[s] => s = "waiting"
    BY DEF AgentState, priority
  <2> QED
    BY <2>1, <2>2
<1>2. {x.state : x \in own} \in SUBSET AgentState /\ "waiting" \in {x.state : x \in own}
  BY DEF IsSnapshot, Copy
<1>3. r.tool \in DOMAIN rows /\ rows[r.tool].state = mostUrgent({x.state : x \in own})
  BY DEF Build, toolStatus
<1>4. rows[r.tool].state = "waiting"
  <2> HIDE DEF own, rows
  <2> QED
    BY <1>1, <1>2, <1>3
<1>5. answer.overall.state = mostUrgent({rows[n].state : n \in DOMAIN rows})
  BY DEF Build, overall
<1>6. \A n \in DOMAIN rows : rows[n].state \in AgentState
  BY AnswerTools
<1> HIDE DEF answer, rows
<1>7. {rows[n].state : n \in DOMAIN rows} \in SUBSET AgentState
      /\ "waiting" \in {rows[n].state : n \in DOMAIN rows}
  BY <1>3, <1>4, <1>6
<1> QED
  BY <1>1, <1>5, <1>7 DEF answer

LEMMA CalmShows ==
  ASSUME NEW recs, NEW changed, IsSnapshot(recs, changed), NEW t \in Nat,
         NEW n \in DOMAIN Build(recs, changed, t, WaitingTooLong).tools,
         \A r \in recs : r.tool = n => r.state # "waiting"
  PROVE  Build(recs, changed, t, WaitingTooLong).tools[n].state # "waiting"
<1> DEFINE states == {r.state : r \in {r \in recs : r.tool = n}}
<1>1. n \in {r.tool : r \in recs}
  BY DEF Build
<1>2. Build(recs, changed, t, WaitingTooLong).tools[n].state = mostUrgent(states)
  BY <1>1 DEF Build, toolStatus
<1>3. states \in SUBSET AgentState /\ states # {} /\ "waiting" \notin states
  BY <1>1 DEF IsSnapshot, Copy
<1> HIDE DEF states
<1> QED
  BY <1>2, <1>3, MostUrgentIsMax

(* The snapshots that the server takes tell of prompts and of nothing else: what is
   built of one, however late, has WAITING as its headline when a session asked
   at that moment and the server had heard all it fired; and does not show
   Claude Code as WAITING when all of its sessions were heard and none had a
   prompt up, nor had ended with one that is still to be seen.               *)
SnapshotsTell ==
  [][\A c \in Conn : handleState_Snapshot(c) => \A t \in Nat :
       LET answer == Build(call'[c].recs, call'[c].updatedAt, t, WaitingTooLong)
       IN /\ (\E s \in SessionID : agent[s] = "asking" /\ Heard(s))
               => answer.overall.state = "waiting"
          /\ (\A s \in SessionID :
                /\ Heard(s) /\ agent[s] \notin {"asking", "answered"}
                /\ agent[s] = "away" => <<Source, s>> \notin DOMAIN Live)
               => (Source \in DOMAIN answer.tools
                     => answer.tools[Source].state # "waiting")]_evars

(* The safety half of AskingReachesScreens and of CalmReachesScreens. *)
THEOREM SnapshotsTellHolds == ESpec => SnapshotsTell
<1> DEFINE Tells(c, t) ==
      LET answer == Build(call'[c].recs, call'[c].updatedAt, t, WaitingTooLong)
      IN /\ (\E s \in SessionID : agent[s] = "asking" /\ Heard(s))
              => answer.overall.state = "waiting"
         /\ (\A s \in SessionID :
               /\ Heard(s) /\ agent[s] \notin {"asking", "answered"}
               /\ agent[s] = "away" => <<Source, s>> \notin DOMAIN Live)
              => (Source \in DOMAIN answer.tools
                    => answer.tools[Source].state # "waiting")
<1>1. ASSUME HookInv, ServerInv, NEW c \in Conn, handleState_Snapshot(c), NEW t \in Nat
      PROVE  Tells(c, t)
  <2>1. call'[c].recs = Copies /\ call'[c].updatedAt = ReconciledAt
    BY <1>1 DEF handleState_Snapshot, ServerInv
  <2>2. IsSnapshot(Copies, ReconciledAt)
    BY <1>1, CopiesAreSnapshot
  <2>3. ASSUME NEW s \in SessionID, Heard(s)
        PROVE  LET k == <<Source, s>>
               IN IF agent[s] = "away"
                  THEN k \in DOMAIN Live => Live[k].removeAt # NoTime
                  ELSE /\ k \in DOMAIN Live
                       /\ \/ Live[k].state \in Fitting[agent[s]]
                          \/ agent[s] = "working" /\ Live[k].state = "unknown"
    BY <1>1, <2>3, HonestThen DEF LightIsHonest, Heard
  <2> DEFINE copy(k) == [tool |-> k[1], sessionID |-> k[2],
                         state |-> Live[k].state, since |-> Live[k].since]
  <2>4. Copies = {copy(k) : k \in DOMAIN Live}
    BY DEF Copies
  <2>5. ASSUME NEW s \in SessionID, agent[s] = "asking", Heard(s)
        PROVE  Build(Copies, ReconciledAt, t, WaitingTooLong).overall.state = "waiting"
    <3>1. <<Source, s>> \in DOMAIN Live /\ Live[<<Source, s>>].state = "waiting"
      BY <2>3, <2>5, FittingIs
    <3>2. copy(<<Source, s>>) \in Copies /\ copy(<<Source, s>>).state = "waiting"
      BY <2>4, <3>1
    <3> HIDE DEF copy
    <3> QED
      BY <2>2, <3>2, WaitingShows
  <2>6. ASSUME \A s \in SessionID :
                 /\ Heard(s) /\ agent[s] \notin {"asking", "answered"}
                 /\ agent[s] = "away" => <<Source, s>> \notin DOMAIN Live,
               Source \in DOMAIN Build(Copies, ReconciledAt, t, WaitingTooLong).tools
        PROVE  Build(Copies, ReconciledAt, t, WaitingTooLong).tools[Source].state # "waiting"
    <3>1. ASSUME NEW s \in SessionID, <<Source, s>> \in DOMAIN Live
          PROVE  Live[<<Source, s>>].state # "waiting"
      <4>1. agent[s] \in Agent
        BY <1>1, HookTypes DEF HookInv
      <4>2. agent[s] \in {"ready", "working", "failed", "finished"}
        BY <2>6, <3>1, <4>1 DEF Agent
      <4>3. \/ Live[<<Source, s>>].state \in Fitting[agent[s]]
            \/ Live[<<Source, s>>].state = "unknown"
        BY <2>3, <2>6, <4>2
      <4>4. "waiting" \notin Fitting[agent[s]]
        BY <4>2, FittingIs
      <4> QED
        BY <4>3, <4>4
    <3>2. DOMAIN Live \subseteq Key
      BY <1>1, LiveType DEF ServerInv, IsTable
    <3>3. ASSUME NEW k \in DOMAIN Live, copy(k).tool = Source
          PROVE  copy(k).state # "waiting"
      <4>1. PICK s \in SessionID : k = <<Source, s>>
        BY <3>2, <3>3 DEF Key
      <4> QED
        BY <3>1, <3>3, <4>1
    <3>4. \A r \in Copies : r.tool = Source => r.state # "waiting"
      BY <2>4, <3>3
    <3> QED
      BY <2>2, <2>6, <3>4, CalmShows
  <2> QED
    BY <2>1, <2>5, <2>6
<1> DEFINE Telling == \A c \in Conn : handleState_Snapshot(c) => \A t \in Nat : Tells(c, t)
<1>2. HookInv /\ ServerInv /\ [ENext]_evars => [Telling]_evars
  BY <1>1
<1>3. [][Telling]_evars => SnapshotsTell
  BY DEF SnapshotsTell
<1> HIDE DEF Telling
<1> QED
  BY <1>2, <1>3, EndToEndInvHolds, PTL DEF ESpec
=============================================================================
