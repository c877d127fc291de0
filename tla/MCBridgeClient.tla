--------------------------- MODULE MCBridgeClient ---------------------------
(* BridgeClient on small sets; requests, calls and closers are model values. *)
EXTENDS BridgeClient, TLC

CONSTANTS r1, r2, c1, c2, k1

RequestCallSymmetry == Permutations({r1, r2}) \union Permutations({c1, c2})
=============================================================================
