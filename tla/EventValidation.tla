--------------------------- MODULE EventValidation ---------------------------
(* What POST /events lets through (src/server/internal/events): a body is what is
   in it, and the envelope if it is one; of an identifier it only matters
   whether it is fit.                                                        *)

CONSTANT Unfit   \* identifiers that are empty, too long or hold control characters

known == {"session_started", "task_started", "permission_requested",
          "permission_granted", "input_received", "task_completed", "task_failed",
          "session_ended"}

checkIdentifier(value) == value \notin Unfit

(* Broken Validate: the source is taken as it is. *)
Validate_anySource(ev) ==
  /\ checkIdentifier(ev.eventID) /\ checkIdentifier(ev.sessionID)
  /\ ev.event \in known
  /\ ev.timestamp = "RFC 3339"

Validate(ev) ==
  /\ checkIdentifier(ev.eventID) /\ checkIdentifier(ev.source)
  /\ checkIdentifier(ev.sessionID)
  /\ ev.event \in known
  /\ ev.timestamp = "RFC 3339"

(* One object with these fields, within maxBodyBytes, and nothing after it; no
   other body ever becomes an event.                                         *)
Content == {"one envelope", "more than one", "other fields", "too large", "nothing"}

Parse(body) == body.content = "one envelope" /\ Validate(body.ev)

(* The event as the manager takes it: a session is its source and its own id, and
   the timestamp is for information only.                                    *)
Normalized(ev) ==
  [key |-> <<ev.source, ev.sessionID>>, eventID |-> ev.eventID, event |-> ev.event]
=============================================================================
