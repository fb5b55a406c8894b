----------------------------- MODULE MCBackfill -----------------------------
(* Small instance of Backfill for TLC: two requests that share a day. *)
EXTENDS Backfill, TLC

CONSTANTS r1, r2

MCRangeOf == (r1 :> {1, 2}) @@ (r2 :> {2})
MCMaxGrants == (r1 :> 2) @@ (r2 :> 1)
MCMaxPushes == (r1 :> 1) @@ (r2 :> 0)
Symmetries == Permutations(Handlers)
=============================================================================
