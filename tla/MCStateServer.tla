--------------------------- MODULE MCStateServer ---------------------------
(* Small instances of StateServer, with its clients, for TLC. *)
EXTENDS Screens, TLC

CONSTANTS s1, s2   \* sessions

(* No step treats a connection unlike another. *)
Symmetric == Permutations(Conn)

Posts(content, ids, sources, names, sessionIDs, timestamp) ==
  [content : {content},
   ev : [eventID : ids, source : sources, sessionID : sessionIDs, event : names,
         timestamp : {timestamp}]]

Well(sources, names, s) == Posts("one envelope", EventId, sources, names, {s}, "RFC 3339")

(* Events enough for every state but ERROR: task_completed while IDLE is unexpected. *)
Names == {"task_started", "permission_requested", "task_completed"}

(* Bodies that each differ in one thing from one that would be taken. *)
Refused ==
  LET start == {"task_started"}
  IN Posts("more than one", EventId, Tool, start, {s1}, "RFC 3339")
       \cup Posts("one envelope", Unfit, Tool, start, {s1}, "RFC 3339")
       \cup Posts("one envelope", EventId, Unfit, start, {s1}, "RFC 3339")
       \cup Posts("one envelope", EventId, Tool, start, {s1}, "yesterday")
       \cup Well(Tool, {"PreToolUse"}, s1)

(* One session takes every turn, beside one that only asks. *)
TwoSessions == Well({1}, Names, s1) \cup Well({1}, {"permission_requested"}, s2) \cup Refused

(* A tool that takes every turn, one that works and asks, and one that only asks.  Go
   and Dart order the second and the third differently, as they do the names
   U+FB00 and U+1F600.                                                       *)
ThreeTools ==
  Well({1}, Names, s1)
    \cup Well({2}, {"task_started", "permission_requested"}, s1)
    \cup Well({3}, {"permission_requested"}, s1)
TwoSwapped == <<1, 3, 2>>
OneTool == <<1>>
=============================================================================
