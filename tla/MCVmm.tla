-------------------------------- MODULE MCVmm --------------------------------
(***************************************************************************)
(* Two processes, an address space of eight pages with two entries in every *)
(* table, and six programs: one whose data are in another page table than  *)
(* its text, but below the same directory; a big one whose text needs two  *)
(* page tables and whose data are in the second; one whose second segment  *)
(* begins inside the first, one whose second segment runs into the first   *)
(* from below, one with a malformed header, and a file that is no program. *)
(***************************************************************************)
EXTENDS Vmm

CONSTANTS p1, p2, new, null, d, z, w

Seg_(start, end, file, write) ==
  [start |-> start, end |-> end, file |-> file, write |-> write, bad |-> FALSE]

Prog(segs) == [magic |-> TRUE, data |-> d, segs |-> segs]

Apart     == Prog(<<Seg_(0, 1, 1, FALSE), Seg_(2, 3, 2, TRUE)>>)
Big       == Prog(<<Seg_(0, 3, 3, FALSE), Seg_(3, 4, 3, TRUE)>>)
Inside    == Prog(<<Seg_(0, 2, 2, FALSE), Seg_(1, 3, 1, TRUE)>>)
FromBelow == Prog(<<Seg_(1, 2, 2, FALSE), Seg_(0, 2, 1, TRUE)>>)
BadHeader == Prog(<<Seg_(0, 1, 1, FALSE), [Seg_(1, 2, 1, TRUE) EXCEPT !.bad = TRUE]>>)
NoElf     == [Apart EXCEPT !.magic = FALSE]

Programs == {Apart, Big, Inside, FromBelow, BadHeader, NoElf}
=============================================================================
