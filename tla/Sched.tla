-------------------------------- MODULE Sched --------------------------------
(***************************************************************************)
(* The processor scheduler of the kernel: kern/schedule/sched.c, the       *)
(* round-robin class kern/schedule/default_sched_c.c and the timer list.   *)
(*                                                                         *)
(* There is one processor and the kernel is not preemptive: `current`      *)
(* changes only inside schedule(). Between the moment the current process  *)
(* calls schedule() and the moment schedule() disables interrupts, a timer *)
(* interrupt can still be taken by a kernel thread, so "schedule() has     *)
(* been called" is a state of its own (in_sched). run_timer_list() runs    *)
(* with interrupts off; its loop is modelled one iteration per step, and   *)
(* nothing but the loop can move while trap = "timers".                    *)
(*                                                                         *)
(* This module declares the scheduler's state and its operations; the      *)
(* modules Kernel and Stdin compose them with the processes that call them.*)
(***************************************************************************)
EXTENDS Integers, Sequences, SequencesExt

CONSTANTS
  Proc,          \* the process slots (struct proc_struct), idleproc excluded
  Idle,          \* idleproc
  MAX_TIME_SLICE \* the quantum of the round-robin class, in ticks

ASSUME SchedAssumption ==
  /\ Idle \notin Proc
  /\ MAX_TIME_SLICE \in Nat \ {0}

VARIABLES
  current,       \* the process on the processor
  state,         \* proc->state; "NONE" is a slot that holds no process
  wait_state,    \* proc->wait_state; "0" when it waits for nothing
  need_resched,  \* proc->need_resched
  time_slice,    \* proc->time_slice
  run_list,      \* rq->run_list, from head to tail
  timer_list,    \* the timers, each due `expires` ticks after the one before
  walk,          \* add_timer's cursor: the position le, what is left of expires
  in_sched,      \* current has called schedule(), which has not begun
  trap,          \* "timers" while the timer interrupt runs its list
  halt           \* why the kernel stopped: "assert" when an assertion failed,
                 \* "done" when init_main ended, "left" when it ended with
                 \* processes left

schedVars == <<current, state, wait_state, need_resched, time_slice, run_list,
               timer_list, walk, in_sched, trap, halt>>

ProcState == {"NONE", "RUNNABLE", "SLEEPING", "ZOMBIE"}
WaitState == {"0", "WT_CHILD", "WT_KSEM", "WT_TIMER", "WT_KBD"}

\* Mutant: a wait in down() could be interrupted too.
MutInterruptible(ws) == ws # "0"

\* The reasons to wait that carry the bit WT_INTERRUPTED (WT_KSEM does not).
Interruptible(ws) == ws \in {"WT_CHILD", "WT_TIMER", "WT_KBD"}

Timer == [proc : Proc, expires : Nat]

SchedTypeOK ==
  /\ current \in Proc \cup {Idle}
  /\ state \in [Proc \cup {Idle} -> ProcState]
  /\ wait_state \in [Proc -> WaitState]
  /\ need_resched \in [Proc \cup {Idle} -> BOOLEAN]
  /\ time_slice \in [Proc -> 0 .. MAX_TIME_SLICE]
  /\ run_list \in Seq(Proc)
  /\ timer_list \in Seq(Timer)
  /\ walk \in [pos : Nat \ {0}, expires : Nat]
  /\ in_sched \in BOOLEAN
  /\ trap \in {"none", "timers"}
  /\ halt \in {"no", "assert", "done", "left"}

\* proc_init and sched_init: idleproc runs and asks for a reschedule, and the
\* one process that exists, `first`, waits in the run queue.
SchedInit(first) ==
  /\ current = Idle
  /\ state = [p \in Proc \cup {Idle} |->
                IF p \in {first, Idle} THEN "RUNNABLE" ELSE "NONE"]
  /\ wait_state = [p \in Proc |-> "0"]
  /\ need_resched = [p \in Proc \cup {Idle} |-> p = Idle]
  /\ time_slice = [p \in Proc |-> IF p = first THEN MAX_TIME_SLICE ELSE 0]
  /\ run_list = <<first>>
  /\ timer_list = <<>>
  /\ walk = [pos |-> 1, expires |-> 0]
  /\ in_sched = FALSE
  /\ trap = "none"
  /\ halt = "no"
-----------------------------------------------------------------------------
(* What the operations below share.                                        *)

\* The kernel runs `p` outside the timer interrupt and outside schedule().
Running(p) == current = p /\ ~in_sched /\ trap = "none" /\ halt = "no"

\* assert(c) of the code: the kernel stops when c is false.
KAssert(c) == halt' = IF c THEN halt ELSE "assert"

\* RR_enqueue gives a fresh quantum to a process that used its own up.
Refill(p) == IF time_slice[p] = 0 \/ time_slice[p] > MAX_TIME_SLICE
             THEN MAX_TIME_SLICE ELSE time_slice[p]

\* Mutant: a process goes to the head of the run queue.
MutEnqueued(q, p) == <<p>> \o q

\* RR_enqueue: a process goes to the tail of the run queue.
Enqueued(q, p) == Append(q, p)

RR_enqueue(p) ==
  /\ run_list' = Enqueued(run_list, p)
  /\ time_slice' = [time_slice EXCEPT ![p] = Refill(p)]

\* list_empty(&proc->run_link), which RR_enqueue asserts.
Unqueued(p) == p \notin ToSet(run_list)

\* Mutant: the current process, too, is put in the run queue.
MutNeedsQueue(p) == TRUE

\* The process on the processor is not in the run queue, even when a timer
\* wakes it up before its schedule().
NeedsQueue(p) == p # current

\* What wakeup_proc, and RR_enqueue under it, assert about `p`.
WakeupAsserts(p) ==
  /\ state[p] # "ZOMBIE"
  /\ state[p] = "SLEEPING" /\ NeedsQueue(p) => Unqueued(p)

\* wakeup_proc: a process that already runs only draws a warning.
wakeup_proc(p) ==
  IF state[p] = "RUNNABLE"
  THEN UNCHANGED <<state, wait_state, run_list, time_slice>>
  ELSE /\ state' = [state EXCEPT ![p] = "RUNNABLE"]
       /\ wait_state' = [wait_state EXCEPT ![p] = "0"]
       /\ IF NeedsQueue(p) THEN RR_enqueue(p)
                           ELSE UNCHANGED <<run_list, time_slice>>

\* The current process p marks itself SLEEPING and calls schedule().
SleepOn(p, ws) ==
  /\ state' = [state EXCEPT ![p] = "SLEEPING"]
  /\ wait_state' = [wait_state EXCEPT ![p] = ws]
-----------------------------------------------------------------------------
(* schedule().                                                             *)

\* Whether schedule() puts the current process back in the run queue.
Requeues == current # Idle /\ state[current] = "RUNNABLE"

schedule ==
  /\ in_sched /\ trap = "none" /\ halt = "no"
  /\ in_sched' = FALSE
  /\ need_resched' = [need_resched EXCEPT ![current] = FALSE]
  /\ KAssert(Requeues => Unqueued(current))
  /\ time_slice' = IF Requeues
                   THEN [time_slice EXCEPT ![current] = Refill(current)]
                   ELSE time_slice
  /\ LET queue == IF Requeues THEN Enqueued(run_list, current) ELSE run_list
     IN IF queue = <<>>
        THEN current' = Idle /\ run_list' = queue
        ELSE current' = Head(queue) /\ run_list' = Tail(queue)
  /\ UNCHANGED <<state, wait_state, timer_list, walk, trap>>
-----------------------------------------------------------------------------
(* The timer list.                                                         *)

\* One turn of add_timer's loop: the cursor passes a timer that is due no
\* later, and the new timer becomes relative to it.
PassTimer ==
  /\ walk.pos <= Len(timer_list)
  /\ walk.expires >= timer_list[walk.pos].expires
  /\ walk' = [pos     |-> walk.pos + 1,
              expires |-> walk.expires - timer_list[walk.pos].expires]

\* The end of add_timer: the new timer of p goes before the cursor, and the
\* timer it precedes becomes relative to it.
PlaceTimer(p) ==
  LET behind == walk.pos <= Len(timer_list)
      list   == IF behind
                THEN [timer_list EXCEPT ![walk.pos].expires = @ - walk.expires]
                ELSE timer_list
  IN /\ behind => walk.expires < timer_list[walk.pos].expires
     /\ timer_list' = InsertAt(list, walk.pos,
                               [proc |-> p, expires |-> walk.expires])

\* Mutant: what is left of the i-th timer is forgotten.
MutPassedOn(i) == timer_list

\* What is left of the i-th timer goes to the timer behind it.
PassedOn(i) == IF i < Len(timer_list)
               THEN [timer_list EXCEPT ![i + 1].expires =
                       @ + timer_list[i].expires]
               ELSE timer_list

\* Mutant: the timer at the head, whoever owns it.
MutOwnTimer(i, p) == i = 1

OwnTimer(i, p) == timer_list[i].proc = p

\* del_timer, which does nothing for a timer that already left the list.
del_timer(p) ==
  \/ \E i \in DOMAIN timer_list :
       OwnTimer(i, p) /\ timer_list' = RemoveAt(PassedOn(i), i)
  \/ /\ \A i \in DOMAIN timer_list : ~OwnTimer(i, p)
     /\ UNCHANGED timer_list

\* run_timer_list begins: one tick of the timer at the head goes by.
TimerInterrupt ==
  /\ trap = "none" /\ halt = "no"
  /\ trap' = "timers"
  /\ KAssert(timer_list # <<>> => Head(timer_list).expires # 0)
  /\ timer_list' = IF timer_list # <<>> /\ Head(timer_list).expires # 0
                   THEN [timer_list EXCEPT ![1].expires = @ - 1]
                   ELSE timer_list
  /\ UNCHANGED <<current, state, wait_state, need_resched, time_slice,
                 run_list, walk, in_sched>>

HeadDue == timer_list # <<>> /\ Head(timer_list).expires = 0

\* One turn of run_timer_list's loop: the owner of a timer that is due wakes
\* up and the timer leaves the list.
ExpireTimer ==
  /\ trap = "timers" /\ halt = "no" /\ HeadDue
  /\ LET p == Head(timer_list).proc
     IN /\ KAssert(/\ wait_state[p] # "0" => Interruptible(wait_state[p])
                   /\ WakeupAsserts(p))
        /\ wakeup_proc(p)
  /\ timer_list' = Tail(timer_list)
  /\ UNCHANGED <<current, need_resched, walk, in_sched, trap>>

\* Mutant: the quantum is counted down past zero.
MutCountdown(n) == n - 1

\* RR_proc_tick.
Countdown(n) == IF n > 0 THEN n - 1 ELSE 0

\* run_timer_list ends with sched_class_proc_tick(current): idleproc always
\* asks for a reschedule, another process when its quantum is used up.
ProcTick ==
  /\ trap = "timers" /\ halt = "no" /\ ~HeadDue
  /\ trap' = "none"
  /\ IF current = Idle
     THEN /\ need_resched' = [need_resched EXCEPT ![Idle] = TRUE]
          /\ UNCHANGED time_slice
     ELSE LET left == Countdown(time_slice[current])
          IN /\ time_slice' = [time_slice EXCEPT ![current] = left]
             /\ need_resched' = [need_resched EXCEPT ![current] = @ \/ left = 0]
  /\ UNCHANGED <<current, state, wait_state, run_list, timer_list, walk,
                 in_sched, halt>>
=============================================================================
