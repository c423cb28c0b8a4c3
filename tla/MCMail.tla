------------------------------- MODULE MCMail -------------------------------
(***************************************************************************)
(* Instances of Mail for TLC.                                              *)
(***************************************************************************)
EXTENDS Mail, TLC

Symmetry == Permutations(Requests) \cup Permutations(Messages)
=============================================================================
