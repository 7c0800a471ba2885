----------------------------- MODULE MCTrainings -----------------------------
(* A small instance of Trainings for TLC: two times today and one tomorrow.  *)
EXTENDS Trainings, TLC
Days == 0 :> 1 @@ 1 :> 1 @@ 2 :> 2
==============================================================================
