-------------------------- MODULE MCSessionsHistory --------------------------
(* Small instances of SessionsHistory for TLC. *)
EXTENDS SessionsHistory, TLC

Symmetric == Permutations(EventId)
=============================================================================
