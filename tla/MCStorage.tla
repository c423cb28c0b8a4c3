------------------------------ MODULE MCStorage ------------------------------
(***************************************************************************)
(* Instances of Storage for TLC.                                           *)
(***************************************************************************)
EXTENDS Storage, TLC

CONSTANTS b1, o1, o2, o3

(* Everything in one bucket.                                               *)
OneBucket == [o \in Objects |-> b1]

(* o3 competes with o1 for a key.                                          *)
SharedKey == [o \in Objects |-> IF o = o3 THEN o1 ELSE o]

UnitSize == [o \in Objects |-> 1]

CallerSymmetry == Permutations(Callers)
=============================================================================
