----------------------------- MODULE MCExtents -----------------------------
(* The extent life cycle on a small backend, for TLC: what each thread of  *)
(* the runs calls, and the symmetry of what is interchangeable.            *)
EXTENDS CyanfsExtents, TLC
CONSTANTS t1, t2

\* One thread writes, and another unmaps what it writes to.
WriteVersusDiscard == t1 :> {"write"} @@ t2 :> {"discard"}
WriteVersusDelete == t1 :> {"write"} @@ t2 :> {"write", "delete"}
WriteVersusTruncate == t1 :> {"write"} @@ t2 :> {"write", "truncate", "sync"}

Symmetry == Permutations(Flusher)
=============================================================================
