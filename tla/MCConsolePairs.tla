--------------------------- MODULE MCConsolePairs ---------------------------
(* A record in each of two scopes.                                         *)
EXTENDS ConsolePages, TLC

CONSTANTS a, b, s1, s2, c1, c2

MCScopeOf == a :> s1 @@ b :> s2
MCSymmetry == Permutations(Calls)
=============================================================================
