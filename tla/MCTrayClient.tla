---------------------------- MODULE MCTrayClient ----------------------------
(* Instances of TrayClient for TLC: answers as Aggregation makes them. *)
EXTENDS TrayClient

Nothing == Build({}, 0, 0, 1)
Asking(n) == Build({[tool |-> 1, sessionID |-> i, state |-> "waiting", since |-> 0] : i \in 1..n},
                   0, 0, 1)

(* Two answers with one title and two menus, and one with another title. *)
ThreeAnswers == {Nothing, Asking(1), Asking(2)}

OneTool == <<1>>
=============================================================================
