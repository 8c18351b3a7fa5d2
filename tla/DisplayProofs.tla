---------------------------- MODULE DisplayProofs ----------------------------
(* What the promise of Display comes to, whatever it displays. *)
EXTENDS Display, TLAPS

(* A display that puts up only what was right Fresh ticks ago or less, and lets no
   tick pass over what has been over for Bound, never shows anything longer.
   Both clients are displays (tray_presenter.dart:132-146, cli main.go:107-126). *)
THEOREM NeverLongWrongHolds ==
  ASSUME Fresh \in Nat, Bound \in Nat, Fresh <= Bound
  PROVE  DSpec => []NeverLongWrong
<1> DEFINE AgesOK == age \in [Sight -> 0 .. Bound + 1] /\ right \subseteq Sight
           IInv   == AgesOK /\ NeverLongWrong
<1>1. DInit => IInv
  BY DEF DInit, NeverLongWrong, NotLongOver, Horizon
<1>2. IInv /\ [DNext]_dvars => IInv'
  <2> SUFFICES ASSUME IInv, [DNext]_dvars PROVE IInv'
    OBVIOUS
  <2>1. CASE Turn
    BY <2>1 DEF Turn, NeverLongWrong, NotLongOver
  <2>2. CASE Show
    BY <2>2 DEF Show, NeverLongWrong, NotLongOver
  <2>3. CASE Tick
    BY <2>3 DEF Tick, Older, Horizon, NeverLongWrong, NotLongOver
  <2>4. CASE UNCHANGED dvars
    BY <2>4 DEF dvars, NeverLongWrong, NotLongOver
  <2>5. QED
    BY <2>1, <2>2, <2>3, <2>4 DEF DNext
<1>3. QED
  BY <1>1, <1>2, PTL DEF DSpec
=============================================================================
