---------------------------- MODULE MCDiscovery -----------------------------
(* One keyword, and two sites of one feed worth having. *)
EXTENDS Discovery, TLC
CONSTANTS k1, a, b, fa
Finds == k1 :> {a, b}
FeedsOf == a :> fa @@ b :> fa
=============================================================================
