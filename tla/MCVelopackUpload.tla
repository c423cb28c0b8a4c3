-------------------------- MODULE MCVelopackUpload --------------------------
(* A full package, a delta that starts from it, and a full package of      *)
(* another application with the version of the delta.                      *)
EXTENDS VelopackUpload, TLC

CONSTANTS f1, d2, g2

MCKind == f1 :> "full" @@ d2 :> "delta" @@ g2 :> "full"
MCReleaseOf == f1 :> 1 @@ d2 :> 2 @@ g2 :> 2
MCFamily == f1 :> "app" @@ d2 :> "app" @@ g2 :> "other"
MCSelections == {<<d2, f1>>, <<d2, g2>>}
MCBundles == {{f1, d2}}
=============================================================================
