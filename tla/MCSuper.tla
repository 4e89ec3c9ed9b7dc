------------------------------ MODULE MCSuper ------------------------------
(* Instances of CyanfsSuper.  "x" is both a name that users give and the    *)
(* first marker that a compaction tries.                                   *)
EXTENDS CyanfsSuper

CONSTANTS e1, e2, e3

MCMarker == <<"x", "y", "z", "w">>

\* Compactions and crashes: on a device just made, and on one with a file of one
\* extent, written, and a fork of it.
Recovered(journal, extents, seq) ==
  [journal |-> journal, extents |-> extents, names |-> {"a", "x"}, files |-> 2,
   size |-> 1, seq |-> seq, readers |-> 0, compacts |-> 1, boots |-> 1]
New == Recovered(<<>>, {e1, e2}, 4)
Forked == Recovered(<<Entry("CREATE", 1, "a", NoFile), Entry("TRUNCATE", 1, 1, NoFile),
                      Entry("BIND", 1, 0, e1), Entry("FORK", 2, "x", 1)>>, {e1, e2, e3}, 7)

\* Readers, and files of two extents: a file and a fork of it, of the same size
\* and shrunk.
Shared(journal) ==
  [journal |-> journal, extents |-> {e1, e2, e3}, names |-> {"a", "b", "x"}, files |-> 3,
   size |-> 2, seq |-> 7, readers |-> 1, compacts |-> 0, boots |-> 0]
SameSize == Shared(<<Entry("CREATE", 1, "a", NoFile), Entry("TRUNCATE", 1, 2, NoFile),
                     Entry("BIND", 1, 0, e1), Entry("BIND", 1, 1, e2),
                     Entry("FORK", 2, "b", 1)>>)
Shrunk == Shared(<<Entry("CREATE", 1, "a", NoFile), Entry("TRUNCATE", 1, 2, NoFile),
                   Entry("BIND", 1, 1, e1), Entry("FORK", 2, "b", 1),
                   Entry("TRUNCATE", 2, 1, NoFile)>>)

Devices == {New, Forked, SameSize, Shrunk}
=============================================================================
