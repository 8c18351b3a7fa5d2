---------------------------- MODULE HookPipeline ----------------------------
(* Claude Code sessions, the hook processes they start (server/cmd/
   traffic-light-hook) and the server that hears of them.  One process carries
   one event: it posts once, waits a bounded time and is gone, whatever became
   of the request; the server may still handle it afterwards.  Claude Code
   itself is external: it goes on at once where its settings say async, and
   otherwise when the hook has exited.                                       *)
EXTENDS Sessions, ClaudeAdapter, EventValidation, Orders

CONSTANT MaxHooks   \* bound: events of one session on their way at a time

ASSUME HookAssumption == /\ MaxHooks \in Nat
                         /\ EventId \subseteq Nat
                         /\ Source \in Tool
                         /\ Unfit \cap (EventId \cup {Source} \cup SessionID) = {}
                         /\ "" \notin SessionID

VARIABLES async,  \* whether the hook settings say async
          agent,  \* what each Claude Code session is doing
          hooks,  \* per session, in the order they were fired: events on their way
          synced  \* history: whether the server has heard, in order, all that the
                  \* session fired since the last event that tells all

pvars == <<now, sessions, updatedAt, restarts, async, agent, hooks, synced>>

Agent == {"away", "ready", "working", "asking", "answered", "failed", "finished"}
HookStage == {"running", "posted", "abandoned"}

PInit ==
  /\ Init
  /\ async \in BOOLEAN
  /\ agent = [s \in SessionID |-> "away"]
  /\ hooks = [s \in SessionID |-> << >>]
  /\ synced = [s \in SessionID |-> TRUE]

(* What a hook process posts: the envelope and nothing else. *)
Posted(s, hook) ==
  [content |-> "one envelope",
   ev      |-> [eventID |-> hook.eventID, source |-> Source, sessionID |-> s,
                event |-> hook.event, timestamp |-> "RFC 3339"]]

EventOf(s, hook) == Normalized(Posted(s, hook).ev)

-----------------------------------------------------------------------------
(* Claude Code. *)

Payload(name, kind, s) ==
  [hook_event_name |-> name, notification_type |-> kind, session_id |-> s]

(* Ids that some row or some process still holds. *)
KnownIDs ==
  (UNION {sessions[k].seenEventIDs : k \in DOMAIN sessions})
    \cup (UNION {{hooks[s][i].eventID : i \in DOMAIN hooks[s]} : s \in SessionID})

(* Broken newEventID: derived from the payload, and SessionStart has nothing in
   it to tell two of them apart.                                             *)
newEventID_ofPayload(event) ==
  IF event = "session_started" THEN CHOOSE id \in EventId : \A o \in EventId : id <= o
  ELSE CHOOSE id \in EventId \ KnownIDs : \A o \in EventId \ KnownIDs : id <= o

(* 128 random bits: an identity that nobody holds. *)
newEventID(event) ==
  CHOOSE id \in EventId \ KnownIDs : \A o \in EventId \ KnownIDs : id <= o

(* The session is waiting for a hook to exit. *)
Held(s) ==
  ~ async /\ \E i \in DOMAIN hooks[s] : hooks[s][i].stage # "abandoned"

(* The session starts a hook process, whose payload names at most one event. *)
Fire(s, name, kind) ==
  /\ ~ Held(s) /\ Len(hooks[s]) < MaxHooks
  /\ EventId \ KnownIDs # {}   \* bound: random identities do not run out
  /\ hooks' = [hooks EXCEPT ![s] =
                 IF Normalize(Payload(name, kind, s)) = {} THEN @
                 ELSE LET ev == CHOOSE e \in Normalize(Payload(name, kind, s)) : TRUE
                      IN Append(@, [event   |-> ev, eventID |-> newEventID(ev),
                                    stage   |-> "running", overtaken |-> FALSE])]

(* The session does something and fires the hook that goes with it. *)
Does(s, from, to, name, kind) ==
  /\ agent[s] \in from
  /\ agent' = [agent EXCEPT ![s] = to]
  /\ Fire(s, name, kind)
  /\ UNCHANGED <<vars, async, synced>>

Running == Agent \ {"away"}

SessionStart(s) == Does(s, Agent, "ready", "SessionStart", "")
UserPromptSubmit(s) == Does(s, Running, "working", "UserPromptSubmit", "")
PermissionPrompt(s) ==
  Does(s, {"working", "asking", "failed"}, "asking", "Notification", "permission_prompt")
IdlePrompt(s) == Does(s, {"finished"}, "finished", "Notification", "idle_prompt")
PostToolUse(s) == Does(s, {"working", "answered", "failed"}, "working", "PostToolUse", "")
PostToolUseFailure(s) ==
  Does(s, {"working", "answered", "failed"}, "failed", "PostToolUseFailure", "")
Stop(s) ==
  Does(s, {"working", "asking", "answered", "failed"}, "finished", "Stop", "")
SessionEnd(s) == Does(s, Running, "away", "SessionEnd", "")

(* Nothing fires when a prompt is approved or denied. *)
Answer(s) ==
  /\ agent[s] = "asking" /\ ~ Held(s)
  /\ agent' = [agent EXCEPT ![s] = "answered"]
  /\ UNCHANGED <<vars, async, hooks, synced>>

Claude(s) ==
  \/ SessionStart(s) \/ UserPromptSubmit(s) \/ PermissionPrompt(s) \/ IdlePrompt(s)
  \/ PostToolUse(s) \/ PostToolUseFailure(s) \/ Stop(s) \/ SessionEnd(s)
  \/ Answer(s)

-----------------------------------------------------------------------------
(* The hook process, and the network it shares with the server. *)

Staged(s, i, from, to) ==
  /\ hooks[s][i].stage = from
  /\ hooks' = [hooks EXCEPT ![s][i].stage = to]
  /\ UNCHANGED <<vars, async, agent, synced>>

Post(s, i) == Staged(s, i, "running", "posted")

(* Broken GiveUp: the request has no timeout. *)
GiveUp_never(s, i) == FALSE /\ Staged(s, i, "posted", "abandoned")

(* requestTimeout passes without an answer: the hook exits. *)
GiveUp(s, i) == Staged(s, i, "posted", "abandoned")

(* The i-th event is settled, ahead of those before it. *)
TakeOut(queue, i) ==
  [j \in 1 .. Len(queue) - 1 |->
     IF j < i THEN [queue[j] EXCEPT !.overtaken = TRUE] ELSE queue[j + 1]]

(* No token, no server, a refusal, or a connection that is cut: the event is
   gone, and the hook with it.  Nothing is tried again.                      *)
Lose(s, i) ==
  /\ hooks' = [hooks EXCEPT ![s] = TakeOut(@, i)]
  /\ synced' = [synced EXCEPT ![s] = FALSE]
  /\ UNCHANGED <<vars, async, agent>>

(* An event tells all when no state before it matters: a fresh start, and a
   prompt unless the end of an earlier run is still to be carried out.       *)
TellsAll(ev) ==
  \/ ev.event = "session_started"
  \/ ev.event = "task_started" /\ (Tracked(ev) => Live[ev.key].removeAt = NoTime)

(* The server handles a request, whether or not the hook still waits for it. *)
Deliver(s, i) ==
  LET hook == hooks[s][i]
      ev   == EventOf(s, hook)
  IN /\ hook.stage \in {"posted", "abandoned"}
     /\ Parse(Posted(s, hook))
     /\ Apply(ev)
     /\ hooks' = [hooks EXCEPT ![s] = TakeOut(@, i)]
     /\ synced' = [synced EXCEPT ![s] = /\ i = 1 /\ ~ hook.overtaken
                                        /\ @ \/ TellsAll(ev)]
     /\ UNCHANGED <<async, agent>>

(* A restart, for the composition with the server's other callers: EndToEnd.
   The requests that the old process had are cut with it; a hook that has not
   posted yet finds the new one, which none of the cut ones will reach.      *)
PRestart ==
  /\ Restart
  /\ hooks' = [s \in SessionID |->
                 LET running == {i \in DOMAIN hooks[s] : hooks[s][i].stage = "running"}
                     left    == InOrder(running, <)
                 IN [n \in DOMAIN left |->
                       [hooks[s][left[n]] EXCEPT !.overtaken = TRUE]]]
  /\ synced' = [s \in SessionID |-> FALSE]
  /\ UNCHANGED <<async, agent>>

Hook(s) ==
  \E i \in DOMAIN hooks[s] : Post(s, i) \/ GiveUp(s, i)

PNext ==
  \/ \E s \in SessionID :
       \/ Claude(s)
       \/ Hook(s)
       \/ \E i \in DOMAIN hooks[s] : Deliver(s, i) \/ Lose(s, i)
  \/ (Snapshot \/ Tick) /\ UNCHANGED <<async, agent, hooks, synced>>

PSpec == PInit /\ [][PNext]_pvars

-----------------------------------------------------------------------------

(* Types of the processes' and the sessions' state, on top of the table's. *)
PTypeOK ==
  /\ TypeOK
  /\ async \in BOOLEAN
  /\ agent \in [SessionID -> Agent]
  /\ synced \in [SessionID -> BOOLEAN]
  /\ hooks \in [SessionID -> Seq([event : NormalizedEventType, eventID : EventId,
                                  stage : HookStage, overtaken : BOOLEAN])]

(* The states that fit what a session is doing.  A failure after a failure, and
   the end of a turn that failed, are on no row of the matrix.               *)
Fitting == [ready    |-> {"idle"},
            working  |-> {"executing"},
            asking   |-> {"waiting"},
            answered |-> {"waiting"},
            failed   |-> {"error", "unknown"},
            finished |-> {"done", "idle", "unknown"}]

(* When the server has heard everything a session fired, in order, its light is
   right: a session that asks is WAITING and nothing else is (until the turn
   goes on, for a prompt that was just answered), none that works, fails or
   finishes passes for another, one that is gone is gone or going, and silence
   alone makes a session that works UNKNOWN.                                 *)
LightIsHonest ==
  \A s \in SessionID :
    LET k == <<Source, s>>
        quiet == Live[k].state = "unknown" /\ Live[k].since > Live[k].lastEventAt
    IN (synced[s] /\ hooks[s] = << >>) =>
         IF agent[s] = "away"
         THEN k \in DOMAIN Live => Live[k].removeAt # NoTime
         ELSE /\ k \in DOMAIN Live
              /\ \/ Live[k].state \in Fitting[agent[s]]
                 \/ agent[s] = "working" /\ quiet

(* No event on its way will be refused, nor be unexpected in whatever state it may
   meet: unless it ends its session, UNKNOWN knows what to make of it, and so does
   some other state.  The names that the adapter maps to, those that validation
   lets through and those with rows are lists in three packages.             *)
EveryHookIsAccepted ==
  \A s \in SessionID : \A i \in DOMAIN hooks[s] :
    LET event == hooks[s][i].event
    IN /\ Parse(Posted(s, hooks[s][i]))
       /\ event # "session_ended" =>
            /\ ~ Unexpected("unknown", event)
            /\ \E cur \in AgentState \ {"unknown"} : ~ Unexpected(cur, event)

(* No event on its way will be dropped as a repeat: an identity is random, so
   the dedup memory can only catch one request handled twice.                *)
EveryHookCounts ==
  \A s \in SessionID : \A i \in DOMAIN hooks[s] : ~ Duplicate(EventOf(s, hooks[s][i]))

(* A session whose settings make it wait for its hooks is let go each time,
   whatever the server does, since a hook's request has a timeout.           *)
AgentIsNeverHeldUp == \A s \in SessionID : []<> ~ Held(s)

(* docs/protocol.md's premise for WAITING + task_started: hooks arrive in order,
   so the server handles the oldest of a session's events that are on their way. *)
HooksArriveInOrder ==
  [][\A s \in SessionID : \A i \in DOMAIN hooks[s] : Deliver(s, i) => i = 1]_pvars
=============================================================================
