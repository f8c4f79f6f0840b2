------------------------------ MODULE MCIntake ------------------------------
(* Instances of Intake for TLC.                                              *)
EXTENDS Intake

\* Requests are compared for equality only.
Symmetry == Permutations(Requests)
=============================================================================
