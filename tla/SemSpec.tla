------------------------------- MODULE SemSpec -------------------------------
(***************************************************************************)
(* What a semaphore of kern/sync/sem.c promises the code that uses it as a *)
(* lock, whatever interrupts, kills and the scheduler do underneath: a     *)
(* unit is taken only while nobody waits, waiters are served in the order  *)
(* they came, and a unit that is given back belongs to the first waiter at *)
(* once, so that no later process can take it in between.                  *)
(***************************************************************************)
EXTENDS Naturals, Sequences

CONSTANTS Proc, Sem, SemValue

VARIABLES
  avail,  \* the units nobody owns
  queue,  \* the processes that wait, first to come first
  owner   \* the processes that own a unit

semVars == <<avail, queue, owner>>

Init ==
  /\ avail = SemValue
  /\ queue = [s \in Sem |-> <<>>]
  /\ owner = [s \in Sem |-> {}]

Take(p, s) ==
  /\ queue[s] = <<>> /\ avail[s] > 0 /\ p \notin owner[s]
  /\ avail' = [avail EXCEPT ![s] = @ - 1]
  /\ owner' = [owner EXCEPT ![s] = @ \cup {p}]
  /\ UNCHANGED queue

WaitFor(p, s) ==
  /\ avail[s] = 0 /\ p \notin owner[s]
  /\ \A i \in DOMAIN queue[s] : queue[s][i] # p
  /\ queue' = [queue EXCEPT ![s] = Append(@, p)]
  /\ UNCHANGED <<avail, owner>>

GiveBack(p, s) ==
  /\ queue[s] = <<>> /\ p \in owner[s]
  /\ avail' = [avail EXCEPT ![s] = @ + 1]
  /\ owner' = [owner EXCEPT ![s] = @ \ {p}]
  /\ UNCHANGED queue

HandOver(p, s) ==
  /\ queue[s] # <<>> /\ p \in owner[s]
  /\ queue' = [queue EXCEPT ![s] = Tail(@)]
  /\ owner' = [owner EXCEPT ![s] = (@ \ {p}) \cup {Head(queue[s])}]
  /\ UNCHANGED avail

Next == \E p \in Proc, s \in Sem :
          Take(p, s) \/ WaitFor(p, s) \/ GiveBack(p, s) \/ HandOver(p, s)

Spec == Init /\ [][Next]_semVars
=============================================================================
