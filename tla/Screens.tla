------------------------------- MODULE Screens -------------------------------
(* The state server with the two clients that render its answers. *)
EXTENDS StateServer, Rendering

ASSUME Utf16Assumption ==
  /\ utf16 \in [Tool -> Nat]
  /\ \A m, n \in Tool : utf16[m] = utf16[n] => m = n

SameOrder(names) == \A m, n \in names : m < n <=> utf16[m] < utf16[n]

(* The menu bar and the terminal tell the same story of one answer, and each one's
   details go with its headline, although the server ranks states and names in
   Go and the app ranks them in Dart.  A title that says the prompt may be
   answered already has a line in the terminal that says so of the same tool;
   the tool that the title names has a row with the title's sign, and no row
   above it is in another state.  It is the first row of all if Go and Dart have
   the tools in that state in one order: only a tie of names that they order
   differently lets another tool, which may show another sign, come first.   *)
ScreensAgree ==
  \A c \in Conn :
    Answered(c) =>
      LET answer == call[c].response
          lines  == render(answer).lines
          rows   == Menu(answer).rows
          head   == answer.overall
          sign   == Title(answer)[1]
          stale  == head.tool \in DOMAIN lines /\ lines[head.tool].stale
          tied   == {n \in DOMAIN lines : lines[n].label = head.state}
      IN /\ sign = IF stale THEN "stale" ELSE head.state
         /\ IF head.tool = NoTool
            THEN /\ sign = "idle" /\ tied = DOMAIN lines
                 /\ DOMAIN lines # {} => rows[1].glyph = sign
            ELSE \E i \in DOMAIN rows :
                   /\ rows[i].tool = head.tool /\ rows[i].glyph = sign
                   /\ \A j \in 1..i : rows[j].tool \in tied
                   /\ SameOrder(tied) => i = 1
=============================================================================
