---------------------------- MODULE StateMachine ----------------------------
(* The transition matrix of src/server/internal/statemachine: one session's
   next state as a pure function of its state and one normalized event.
   Sessions feed it every event but session_ended.                         *)

AgentState == {"idle", "executing", "waiting", "done", "error", "unknown"}

NormalizedEventType ==
  {"session_started", "task_started", "permission_requested",
   "permission_granted", "input_received", "task_completed", "task_failed",
   "session_ended"}

-----------------------------------------------------------------------------
(* matrix, its rows grouped by the state they lead to. *)

IntoExecuting ==
  ({"idle", "executing", "waiting", "error", "done"} \X {"task_started"})
    \cup ({"executing", "waiting", "error"} \X {"permission_granted"})
    \cup {<<"waiting", "input_received">>}

IntoWaiting == {"executing", "waiting", "error"} \X {"permission_requested"}
IntoDone    == {"executing", "waiting"} \X {"task_completed"}
IntoError   == {"executing", "waiting"} \X {"task_failed"}

matrix == [row \in IntoExecuting \cup IntoWaiting \cup IntoDone \cup IntoError |->
             CASE row \in IntoExecuting -> "executing"
               [] row \in IntoWaiting   -> "waiting"
               [] row \in IntoDone      -> "done"
               [] row \in IntoError     -> "error"]

(* Broken fromEvent: an event that hooks post was forgotten. *)
fromEvent_noGrants == [session_started      |-> "idle",
                       task_started         |-> "executing",
                       permission_requested |-> "waiting",
                       input_received       |-> "executing",
                       task_completed       |-> "done",
                       task_failed          |-> "error"]

(* The UNKNOWN row: the next state from the event alone. *)
fromEvent == [session_started      |-> "idle",
              task_started         |-> "executing",
              permission_requested |-> "waiting",
              permission_granted   |-> "executing",
              input_received       |-> "executing",
              task_completed       |-> "done",
              task_failed          |-> "error"]

-----------------------------------------------------------------------------

(* Next(cur, ev).Unexpected: no row covers the pair. *)
Unexpected(cur, ev) ==
  /\ ev # "session_started"
  /\ \/ ev = "session_ended"
     \/ cur = "unknown" /\ ev \notin DOMAIN fromEvent
     \/ cur # "unknown" /\ <<cur, ev>> \notin DOMAIN matrix

(* Next(cur, ev).Next *)
NextState(cur, ev) ==
  CASE ev = "session_started"     -> "idle"
    [] Unexpected(cur, ev)        -> "unknown"
    [] OTHER -> IF cur = "unknown" THEN fromEvent[ev] ELSE matrix[<<cur, ev>>]
=============================================================================
