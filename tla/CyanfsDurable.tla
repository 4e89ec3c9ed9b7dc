--------------------------- MODULE CyanfsDurable ---------------------------
(***************************************************************************)
(* What the metadata of a super promises across crashes: after a crash it  *)
(* is the metadata at some moment since the last flush that was reported   *)
(* done, never a mixture of moments and never an older one.                *)
(***************************************************************************)
EXTENDS Integers, Sequences

CONSTANT Metadata    \* the values that the metadata can have

VARIABLES
  state,    \* the metadata in memory
  hist      \* the metadata since the last flush, the present one last

vars == <<state, hist>>

Init == state \in Metadata /\ hist = <<state>>

\* An operation changes the metadata.
Change ==
  /\ state' \in Metadata
  /\ hist' = Append(hist, state')

\* A flush is done: older metadata will not come back.
Persist ==
  /\ \E n \in 1 .. Len(hist) : hist' = SubSeq(hist, n, Len(hist))
  /\ UNCHANGED state

\* A crash and a mount.
Crash ==
  /\ \E n \in 1 .. Len(hist) : state' = hist[n]
  /\ hist' = <<state'>>

Next == Change \/ Persist \/ Crash

Spec == Init /\ [][Next]_vars
=============================================================================
