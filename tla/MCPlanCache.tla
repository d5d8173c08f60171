----------------------------- MODULE MCPlanCache -----------------------------
(* Two clones, two threads and three kernels: one for swaps, a better one   *)
(* for swaps, and one for options.  One request needs swaps only, the other *)
(* both families.                                                           *)
EXTENDS PlanCache, TLC

CONSTANTS swaps, fast, options, book, mixed

MCKernels == {swaps, fast, options}
MCRank == fast :> 0 @@ swaps :> 1 @@ options :> 2
MCSupported == swaps :> {"swap"} @@ fast :> {"swap"} @@ options :> {"option"}
MCRequests == {book, mixed}
MCFamilies == book :> {"swap"} @@ mixed :> {"swap", "option"}

(* The violation needs one family only. *)
MCSwapKernels == {swaps, fast}
MCSwapRank == fast :> 0 @@ swaps :> 1
MCSwapSupported == swaps :> {"swap"} @@ fast :> {"swap"}
MCSwapRequests == {book}
MCSwapFamilies == book :> {"swap"}

ThreadSymmetry == Permutations(Threads)
=============================================================================
