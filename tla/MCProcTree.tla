------------------------------ MODULE MCProcTree ------------------------------
(***************************************************************************)
(* A small instance of ProcTree for TLC: neighbouring pids share a bucket. *)
(***************************************************************************)
EXTENDS ProcTree

MCHash == [p \in Pid |-> (p \div 2) % 2]
=============================================================================
