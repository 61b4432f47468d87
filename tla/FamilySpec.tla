----------------------------- MODULE FamilySpec -----------------------------
(***************************************************************************)
(* What the process tree of kern/process/proc.c is for: every process but  *)
(* initproc is waited for by exactly one living process, the one that made *)
(* it or, once that has exited, initproc. A process that exits leaves all  *)
(* its children to initproc at once, and only its parent reaps it.         *)
(***************************************************************************)
EXTENDS Naturals

CONSTANTS Pid, Initproc, Idleproc

VARIABLES
  parent,  \* the parent of each process there is
  zombie   \* the processes that exited and are not reaped

familyVars == <<parent, zombie>>

Proc == DOMAIN parent

Init == parent = [p \in {} |-> Idleproc] /\ zombie = {}

Fork(p, c) ==
  /\ p \in Proc \ zombie \/ (p = Idleproc /\ c = Initproc)
  /\ c \notin Proc
  /\ parent' = [q \in Proc \cup {c} |-> IF q = c THEN p ELSE parent[q]]
  /\ UNCHANGED zombie

Exit(p) ==
  /\ p \in Proc \ (zombie \cup {Initproc})
  /\ parent' = [q \in Proc |-> IF parent[q] = p THEN Initproc ELSE parent[q]]
  /\ zombie' = zombie \cup {p}

Reap(p, c) ==
  /\ c \in zombie /\ parent[c] = p /\ p \in Proc \ zombie
  /\ parent' = [q \in Proc \ {c} |-> parent[q]]
  /\ zombie' = zombie \ {c}

Next ==
  \E p \in Pid \cup {Idleproc} :
    Exit(p) \/ \E c \in Pid : Fork(p, c) \/ Reap(p, c)

Spec == Init /\ [][Next]_familyVars
=============================================================================
