------------------------------ MODULE Rendering ------------------------------
(* What the two clients make of an answer of GET /state: the Dart model with the
   menu bar's title and menu (packages/traffic_light_core, apps/desktop), and the
   terminal's lines (apps/cli).  Both take the headline from the answer; the rows
   they order on their own.                                                  *)
EXTENDS Aggregation, SequencesExt, Orders

(* Go compares the bytes of names in UTF-8, by which the numbers of tools are given,
   and Dart their UTF-16 code units: the order is the same for the names in use
   (ASCII), and not for every name that checkIdentifier lets through.        *)
CONSTANT utf16   \* per tool: its name's place in the order of String.compareTo

-----------------------------------------------------------------------------
(* StateSnapshot and the tray. *)

(* Broken AgentState.values: EXECUTING is listed before WAITING. *)
values_executingFirst == <<"executing", "waiting", "error", "unknown", "done", "idle">>

values == <<"waiting", "error", "unknown", "executing", "done", "idle">>

(* Wire values that the enum does not know count as UNKNOWN. *)
fromWire(value) == IF value \in Range(values) THEN value ELSE "unknown"

urgency(state) == CHOOSE i \in DOMAIN values : values[i] = state

(* The rows' tools, most urgent first and then by name. *)
tools(answer) ==
  LET rank(n)     == urgency(fromWire(answer.tools[n].state))
      first(a, b) == \/ rank(a) < rank(b)
                     \/ rank(a) = rank(b) /\ utf16[a] < utf16[b]
  IN InOrder(DOMAIN answer.tools, first)

overallWaitingTooLong(answer) ==
  /\ answer.overall.tool \in DOMAIN answer.tools
  /\ answer.tools[answer.overall.tool].waitingTooLong

Glyph(state, tooLong) ==
  IF fromWire(state) = "waiting" /\ tooLong THEN "stale" ELSE fromWire(state)

(* NoTool becomes "", for which no name is shown. *)
Title(answer) ==
  LET glyph == Glyph(answer.overall.state, overallWaitingTooLong(answer))
  IN IF answer.overall.tool = NoTool THEN <<glyph>> ELSE <<glyph, answer.overall.tool>>

rowFor(n, status) ==
  [tool     |-> n,
   glyph    |-> Glyph(status.state, status.waitingTooLong),
   sessions |-> IF status.activeSessions > 1 THEN status.activeSessions ELSE 1]

Menu(answer) ==
  IF DOMAIN answer.tools = {} THEN [rows |-> << >>]
  ELSE [rows    |-> [i \in DOMAIN tools(answer) |->
                       rowFor(tools(answer)[i], answer.tools[tools(answer)[i]])],
        updated |-> answer.updatedAt]

-----------------------------------------------------------------------------
(* The terminal: a headline and a line for each tool, in the order of names.  No
   date is in it, so that a new render is a change.                          *)

render(answer) ==
  [headline |-> answer.overall,
   lines    |-> [n \in DOMAIN answer.tools |->
                   LET tool == answer.tools[n]
                   IN [label    |-> tool.state,
                       stale    |-> tool.state = "waiting" /\ tool.waitingTooLong,
                       sessions |-> tool.activeSessions]]]
=============================================================================
