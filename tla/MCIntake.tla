------------------------------ MODULE MCIntake ------------------------------
(***************************************************************************)
(* Finite instances of Intake: a .cfg cannot write a negative number.      *)
(***************************************************************************)
EXTENDS Intake

OneLot  == {-1, 1}
TwoLots == {-2, -1, 1}
=============================================================================
