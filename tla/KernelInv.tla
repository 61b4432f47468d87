------------------------------ MODULE KernelInv ------------------------------
(***************************************************************************)
(* The inductive invariant of Kernel: what must hold between any two steps *)
(* for the assertions of the scheduler, the run queue, the timers and the  *)
(* semaphores to stay right. TLC checks it on small instances, and         *)
(* KernelProofs proves it for every value of the constants.                *)
(***************************************************************************)
EXTENDS Kernel

\* What a process does in the kernel agrees with the state the scheduler
\* keeps of it.
PcState ==
  \A p \in Proc :
    /\ state[p] = "NONE" <=> pc[p] = "none"
    /\ state[p] = "ZOMBIE" <=> pc[p] \in {"exit_wake", "reparent", "dead"}
    /\ state[p] = "SLEEPING" <=> wait_state[p] # "0"

\* The process on the processor is RUNNABLE, unless it is on its way into
\* schedule() or through with its life. The timer interrupts a user process in
\* user mode only.
OnProcessor ==
  current \in Proc =>
    /\ state[current] # "NONE"
    /\ ~in_sched /\ pc[current] \notin {"add_timer", "exit_wake", "reparent", "dead"}
         => state[current] = "RUNNABLE"
    /\ trap = "timers" /\ current \in User => pc[current] = "user" /\ ~in_sched

\* add_timer runs with interrupts off: its cursor stays on the list it walks,
\* and only a timer that is due later than now can become the new head.
AddTimerAlone ==
  \A p \in Proc : pc[p] = "add_timer" =>
    /\ current = p /\ ~in_sched /\ trap = "none"
    /\ wait_state[p] = "WT_TIMER"
    /\ walk.pos <= Len(timer_list) + 1
    /\ walk.pos = 1 => walk.expires > 0

\* The owner of a timer is in do_sleep, and has one timer.
TimerOwners ==
  /\ \A i \in DOMAIN timer_list : pc[timer_list[i].proc] = "sleep"
  /\ \A i, j \in DOMAIN timer_list :
       timer_list[i].proc = timer_list[j].proc => i = j
  /\ \A p \in Proc : pc[p] = "sleep" => wait_state[p] \in {"0", "WT_TIMER"}

\* A timer that is due leaves the list before the interrupt ends.
HeadLater ==
  trap = "none" /\ timer_list # <<>> => timer_list[1].expires > 0

\* The processes in a semaphore's queue sleep in __down and wait for up().
Waiters ==
  \A s \in Sem :
    /\ IsInjective(wait_queue[s])
    /\ value[s] > 0 => wait_queue[s] = <<>>
    /\ \A p \in ToSet(wait_queue[s]) :
         /\ pc[p] = "down" /\ arg[p] = s
         /\ wait_state[p] = "WT_KSEM"
         /\ wakeup_flags[p] = "WT_INTERRUPTED"

\* A process leaves __down only with what up() handed to it.
InDown ==
  \A p \in Proc : pc[p] = "down" =>
    /\ arg[p] \in Sem /\ arg[p] \notin holds[p]
    /\ IF state[p] = "SLEEPING" THEN wait_state[p] = "WT_KSEM"
                                ELSE wakeup_flags[p] = "WT_KSEM"

\* Every process but initproc has a parent to wake, and initproc cannot die.
Parents ==
  /\ \A p \in Proc \ {Initproc} : pc[p] # "none" => parent[p] \in Proc
  /\ ~exiting[Initproc]
  /\ pc[Initproc] \in {"kernel", "loop", "wait"}

\* The inductive invariant: the state of the scheduler, of the timers, of the
\* semaphores and of the process tree fit together after every step.
IInv ==
  /\ TypeOK /\ AssertionsHold /\ RunQueueExact
  /\ PcState /\ OnProcessor
  /\ AddTimerAlone /\ TimerOwners /\ HeadLater
  /\ Waiters /\ InDown
  /\ Parents
=============================================================================
