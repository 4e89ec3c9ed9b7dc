------------------------------ MODULE MCBackend ------------------------------
(***************************************************************************)
(* Instances of CyanfsBackend for TLC.                                     *)
(***************************************************************************)
EXTENDS CyanfsBackend

CONSTANTS c1, v1

Instance(handles, inflight, periodic, n, calls, again, failures) ==
  [handles |-> handles, inflight |-> inflight, periodic |-> periodic, appends |-> n,
   flushes |-> calls, asks |-> again, fails |-> failures]

\* With the periodic flush: a descriptor and a failure; a disk, and two entries
\* or a flush.  Without it: a disk with a flush, one more round and a failure;
\* a descriptor and a disk together; the fsync of a descriptor and a sync that
\* overlap.
Setups == {Instance({c1}, 0, TRUE, 1, 0, 0, 1), Instance({v1}, 1, TRUE, 2, 0, 0, 0),
           Instance({v1}, 1, TRUE, 1, 1, 0, 0), Instance({v1}, 1, FALSE, 1, 1, 1, 1),
           Instance({c1, v1}, 1, FALSE, 1, 0, 0, 0),
           Instance({c1}, 1, FALSE, 1, 2, 0, 0)}
=============================================================================
