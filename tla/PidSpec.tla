------------------------------- MODULE PidSpec -------------------------------
(***************************************************************************)
(* What get_pid promises: every process gets an identifier that no process *)
(* of the process list has, until it is reaped.                            *)
(***************************************************************************)
EXTENDS Naturals

CONSTANT MAX_PID

VARIABLES
  used,   \* the identifiers of the processes there are
  number  \* how many processes there are, one without an identifier included

pidSpecVars == <<used, number>>

Init == used = {} /\ number = 1

Alloc(p) ==
  p \notin used /\ used' = used \cup {p} /\ number' = number + 1

Release(p) ==
  p \in used /\ used' = used \ {p} /\ number' = number - 1

Next == \E p \in 1 .. MAX_PID - 1 : Alloc(p) \/ Release(p)

Spec == Init /\ [][Next]_pidSpecVars
=============================================================================
