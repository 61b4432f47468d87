------------------------------- MODULE MCKernel -------------------------------
(***************************************************************************)
(* Small instances of Kernel for TLC.                                      *)
(***************************************************************************)
EXTENDS KernelInv

CONSTANTS init, k1, u1, u2, u3, idle

\* Every semaphore is a lock.
MCSemValue == [s \in Sem |-> 1]

\* User processes are interchangeable.
Users == Permutations(User)
=============================================================================
