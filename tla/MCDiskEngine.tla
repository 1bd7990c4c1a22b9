---------------------------- MODULE MCDiskEngine ----------------------------
(* Three sectors in two chunks, the second one short, and a cache that holds *)
(* one chunk, so that every second chunk evicts.                             *)
EXTENDS DiskEngine

\* One range that covers a sector whole and the next one, of the other chunk, in
\* part.  Repeated after a save it leaves the disk unchanged.
MCWrites == {[lo |-> 1, hi |-> 2, first |-> 1, last |-> 1, byte |-> 1]}

\* A blank image, and one over which the changes of a blank disk show: they are
\* neither one write nor a return to what was saved.
MCImages ==
  {[s \in Sectors |-> [h \in Halves |-> 0]],
   [s \in Sectors |-> [h \in Halves |-> IF s = 0 \/ (s = 2 /\ h = 2) THEN 1 ELSE 0]]}

=============================================================================
