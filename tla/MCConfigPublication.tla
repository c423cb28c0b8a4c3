------------------------- MODULE MCConfigPublication -------------------------
(***************************************************************************)
(* Instances of ConfigPublication for TLC.                                 *)
(***************************************************************************)
EXTENDS ConfigPublication, TLC

CONSTANTS e1, e2, d1, d2, s1

(* One entry goes through its whole life, the other is published beside it.*)
OneBusyEntry == (e1 :> 4) @@ (e2 :> 2)

(* The draft of the busy entry may be updated once it has been published,  *)
(* or while it is.                                                         *)
DraftAfterPublication == (e1 :> {2}) @@ (e2 :> {})

KeyOrder == (e1 :> 1) @@ (e2 :> 2)

(* Every definition has a rule for the segment.                            *)
Targeted == (d1 :> <<s1>>) @@ (d2 :> <<s1>>)

Symmetry == Permutations(Definitions) \cup Permutations(Visibility) \cup Permutations(Calls)
=============================================================================
