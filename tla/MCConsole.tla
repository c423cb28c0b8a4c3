----------------------------- MODULE MCConsole -----------------------------
(* One record in the first of two scopes, and two calls at a time.         *)
EXTENDS ConsolePages, TLC

CONSTANTS a, s1, s2, c1, c2

MCScopeOf == a :> s1
MCSymmetry == Permutations(Calls)
=============================================================================
