------------------------------- MODULE Orders -------------------------------
(* Finite sets listed in an order: SetToSortSeq of the community modules, in a form
   that the provers can look into.                                           *)
EXTENDS Integers, FiniteSets

(* The members of S, each once, such that x is before every y that comes later. *)
InOrder(S, before(_, _)) ==
  CHOOSE list \in [1 .. Cardinality(S) -> S] :
    /\ \A x \in S : \E i \in DOMAIN list : list[i] = x
    /\ \A i, j \in DOMAIN list : i < j => before(list[i], list[j])
=============================================================================
