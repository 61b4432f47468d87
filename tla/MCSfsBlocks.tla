----------------------------- MODULE MCSfsBlocks -----------------------------
(***************************************************************************)
(* Bounds for TLC: with these numbers one file can fill the disk before it *)
(* runs out of entries, as in the system, where the disk is far smaller    *)
(* than the 12 + 1024 blocks an inode can refer to.                        *)
(***************************************************************************)
EXTENDS SfsBlocks, TLC

\* The files are alike.
Symmetry == Permutations(File)
=============================================================================
