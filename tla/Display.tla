------------------------------- MODULE Display -------------------------------
(* What every client of GET /state promises about what it shows, whichever way it
   polls: nothing is put up that has been over for longer than Fresh, nothing
   stays up that has been over for longer than Bound, and otherwise it shows
   something that says nothing of any session.                               *)
EXTENDS Integers

CONSTANTS Sight,  \* what an answer can look like
          Fresh,  \* in ticks
          Bound

VARIABLES right,  \* what is right now: one sight, or none while no server is up
          shown,
          age     \* ticks since each sight was right

dvars == <<right, shown, age>>

Horizon == Bound + 1   \* longest age that is told apart

Older(t) == IF age[t] < Horizon THEN age[t] + 1 ELSE Horizon
NotLongOver(ages) == shown \in Sight => ages[shown] <= Bound

DInit ==
  /\ right = {}
  /\ shown \notin Sight
  /\ age = [t \in Sight |-> Horizon]

(* Something else becomes right. *)
Turn ==
  /\ right' \in {{}} \cup {{t} : t \in Sight}
  /\ age' = [t \in Sight |-> IF t \in right' THEN 0 ELSE age[t]]
  /\ UNCHANGED shown

Show ==
  /\ shown' \in Sight => age[shown'] <= Fresh
  /\ UNCHANGED <<right, age>>

Tick ==
  /\ age' = [t \in Sight |-> IF t \in right THEN 0 ELSE Older(t)]
  /\ NotLongOver(age')
  /\ UNCHANGED <<right, shown>>

DNext == Turn \/ Show \/ Tick

DSpec == DInit /\ [][DNext]_dvars

(* What is shown is right, or has not been over for longer than Bound. *)
NeverLongWrong == NotLongOver(age)
=============================================================================
