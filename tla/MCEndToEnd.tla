----------------------------- MODULE MCEndToEnd -----------------------------
(* Instances of EndToEnd for TLC. *)
EXTENDS EndToEnd

OneTool == <<1>>
=============================================================================
