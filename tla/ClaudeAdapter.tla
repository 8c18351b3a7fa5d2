---------------------------- MODULE ClaudeAdapter ----------------------------
(* src/server/internal/adapters/claude: what one hook payload means to the
   server.  A payload is its three fields that are decoded.                  *)
EXTENDS StateMachine

CONSTANT Source   \* the name the tool goes by

notificationNeedsAttention == "permission_prompt"

(* Broken mapping: a tool that has run says nothing of the prompt before it. *)
mapping_noGrants == [SessionStart       |-> "session_started",
                     UserPromptSubmit   |-> "task_started",
                     PostToolUseFailure |-> "task_failed",
                     Stop               |-> "task_completed",
                     SessionEnd         |-> "session_ended"]

mapping == [SessionStart       |-> "session_started",
            UserPromptSubmit   |-> "task_started",
            PostToolUse        |-> "permission_granted",
            PostToolUseFailure |-> "task_failed",
            Stop               |-> "task_completed",
            SessionEnd         |-> "session_ended"]

(* Broken resolve: every Notification is taken for a permission prompt. *)
resolve_anyNotification(p) ==
  IF p.hook_event_name = "Notification" THEN {"permission_requested"}
  ELSE {mapping[name] : name \in DOMAIN mapping \cap {p.hook_event_name}}

(* Broken resolve: the notification of an idle session is the one that counts. *)
resolve_idlePrompt(p) ==
  IF p.hook_event_name = "Notification"
  THEN {"permission_requested" : kind \in {p.notification_type} \ {notificationNeedsAttention}}
  ELSE {mapping[name] : name \in DOMAIN mapping \cap {p.hook_event_name}}

(* The normalized event of a payload, if it has one. *)
resolve(p) ==
  IF p.hook_event_name = "Notification"
  THEN {"permission_requested" : kind \in {p.notification_type}
                                          \cap {notificationNeedsAttention}}
  ELSE {mapping[name] : name \in DOMAIN mapping \cap {p.hook_event_name}}

(* The events to post for a payload: one, or none for a hook that is ignored
   and for one that cannot be attributed to a session.                       *)
Normalize(p) == IF p.session_id = "" THEN {} ELSE resolve(p)
=============================================================================
