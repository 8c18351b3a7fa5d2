--------------------------- MODULE MCTerminalClient ---------------------------
(* Instances of TerminalClient for TLC: answers as Aggregation makes them. *)
EXTENDS TerminalClient

Nothing == Build({}, 0, 0, 1)
Asking == Build({[tool |-> 1, sessionID |-> 1, state |-> "waiting", since |-> 0]}, 0, 0, 1)

TwoAnswers == {Nothing, Asking}

OneTool == <<1>>
=============================================================================
