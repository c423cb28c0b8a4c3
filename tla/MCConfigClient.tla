--------------------------- MODULE MCConfigClient ---------------------------
(***************************************************************************)
(* Instances of ConfigClient for TLC.                                      *)
(***************************************************************************)
EXTENDS ConfigClient, TLC

CONSTANTS k1, c1, c2

(* Two callers ask for one context.                                        *)
TwoShareAKey == (c1 :> k1) @@ (c2 :> k1)
=============================================================================
