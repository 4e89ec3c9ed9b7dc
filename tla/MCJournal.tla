----------------------------- MODULE MCJournal -----------------------------
(* Instances of CyanfsJournal.                                             *)
EXTENDS CyanfsJournal

Instance(blocks, size, reserved, ordered, max_compacts, max_boots) ==
  [blocks |-> blocks, size |-> size, reserved |-> reserved, ordered |-> ordered,
   compacts |-> max_compacts, boots |-> max_boots]

\* A cache that keeps the order: extents that every record fills, so that every
\* record links to a new one, and extents of three records.  A cache that does
\* not, until the first power failure.
Devices == {Instance(1, 1, 1, TRUE, 1, 1), Instance(3, 1, 1, TRUE, 2, 1),
            Instance(2, 1, 1, FALSE, 1, 0), Instance(1, 2, 1, FALSE, 1, 0)}

\* A cache that does not keep the order, for two power failures.
ReorderingTwice == {Instance(2, 2, 2, FALSE, 0, 1)}

\* Two compactions of an extent that holds three records.
CompactedTwice == {Instance(3, 1, 1, TRUE, 2, 0)}
=============================================================================
