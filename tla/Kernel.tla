-------------------------------- MODULE Kernel --------------------------------
(***************************************************************************)
(* The processes of the kernel and the ways they block: fork, exit, wait,  *)
(* kill, sleep and yield (kern/process/proc.c), semaphores and their wait  *)
(* queues (kern/sync/sem.c, kern/sync/wait.c), and the tail of trap()      *)
(* (kern/trap/trap.c) where a user process dies or gives up the processor. *)
(*                                                                         *)
(* User processes enter the kernel through a trap that turns interrupts    *)
(* off until they return; kernel threads (initproc among them) run with    *)
(* interrupts on except where the code saves and clears the flag. pc[p]    *)
(* is the place in the kernel where p is:                                  *)
(*   "none"      no process in this slot                                   *)
(*   "user"      in user mode                                              *)
(*   "kernel"    in a kernel thread's function, or in a system call that   *)
(*               takes locks                                               *)
(*   "loop"      initproc, in the loop of init_main that waits for children*)
(*   "tail"      at the end of trap(), about to go back to user mode       *)
(*   "add_timer" in do_sleep, in the loop of add_timer                     *)
(*   "sleep"     in do_sleep, from the call of schedule() on               *)
(*   "down"      in __down, from the call of schedule() on                 *)
(*   "wait"      in do_wait, from the call of schedule() on                *)
(*   "exit", "exit_wake", "reparent"  the stages of do_exit                *)
(*   "dead"      in do_exit, from the call of schedule() on                *)
(***************************************************************************)
EXTENDS Sched, FiniteSets

CONSTANTS
  KThread,      \* the slots of kernel threads; the others are user processes
  Initproc,     \* initproc, the process with pid 1
  Killable,     \* the processes kill may name: initproc, whose death is a
                \* panic of the kernel, is left out
  Sem,          \* the semaphores, numbered in the order they are locked
  SemValue,     \* the value each semaphore is initialised with
  MaxSleep,     \* the longest sleep, in ticks
  MAX_PROCESS,  \* the bound on nr_process
  NULL          \* no process, no argument

ASSUME KernelAssumption ==
  /\ KThread \subseteq Proc /\ Initproc \in KThread
  /\ Killable \subseteq Proc \ {Initproc}
  /\ Sem \subseteq Nat
  /\ SemValue \in [Sem -> Nat]
  /\ MaxSleep \in Nat \ {0}
  /\ MAX_PROCESS \in Nat
  /\ NULL \notin Proc \cup Sem \cup {Idle}

\* The process table has MAX_PROCESS entries.
ASSUME FiniteAssumption == IsFiniteSet(Proc)

VARIABLES
  pc,           \* where each process is
  arg,          \* what it blocks on: a semaphore, the child it waits for
                \* (NULL: any)
  exiting,      \* proc->flags & PF_EXITING
  parent,       \* proc->parent
  nr_process,   \* the number of processes, idleproc included
  value,        \* sem->value
  wait_queue,   \* sem->wait_queue
  wakeup_flags, \* the wakeup_flags of the wait_t on the stack of a process
  holds         \* the semaphores a process took and has yet to release

procVars == <<pc, arg, exiting, parent, nr_process>>
semVars  == <<value, wait_queue, wakeup_flags, holds>>
vars     == <<schedVars, procVars, semVars>>

User == Proc \ KThread

Label == {"none", "user", "kernel", "loop", "tail", "add_timer", "sleep",
          "down", "wait", "exit", "exit_wake", "reparent", "dead"}

TypeOK ==
  /\ SchedTypeOK
  /\ pc \in [Proc -> Label]
  /\ arg \in [Proc -> Proc \cup Sem \cup {NULL}]
  /\ exiting \in [Proc -> BOOLEAN]
  /\ parent \in [Proc -> Proc \cup {Idle, NULL}]
  /\ nr_process \in Int
  /\ value \in [Sem -> Nat]
  /\ wait_queue \in [Sem -> Seq(Proc)]
  /\ wakeup_flags \in [Proc -> {"WT_INTERRUPTED", "WT_KSEM"}]
  /\ holds \in [Proc -> SUBSET Sem]

Init ==
  /\ SchedInit(Initproc)
  /\ pc = [p \in Proc |-> IF p = Initproc THEN "kernel" ELSE "none"]
  /\ arg = [p \in Proc |-> NULL]
  /\ exiting = [p \in Proc |-> FALSE]
  /\ parent = [p \in Proc |-> IF p = Initproc THEN Idle ELSE NULL]
  /\ nr_process = 2
  /\ value = SemValue
  /\ wait_queue = [s \in Sem |-> <<>>]
  /\ wakeup_flags = [p \in Proc |-> "WT_INTERRUPTED"]
  /\ holds = [p \in Proc |-> {}]
-----------------------------------------------------------------------------
\* p runs at `label`.
At(p, label) == Running(p) /\ pc[p] = label

Goto(p, label) == pc' = [pc EXCEPT ![p] = label]

\* Where a process calls the operations below from, and where it is when they
\* return: a user process then still has the tail of trap() to run.
Caller(p) == IF p \in KThread THEN "kernel" ELSE "user"
Return(p) == IF p \in KThread THEN "kernel" ELSE "tail"

\* A slot the process table could hand out, and the children of p.
Free(c)     == state[c] = "NONE"
Children(p) == {c \in Proc : parent[c] = p}
-----------------------------------------------------------------------------
(* Traps, the idle loop, and the plain system calls.                       *)

\* cpu_idle.
IdleLoop ==
  /\ Running(Idle) /\ need_resched[Idle]
  /\ in_sched' = TRUE
  /\ UNCHANGED <<current, state, wait_state, need_resched, time_slice, run_list,
                 timer_list, walk, trap, halt, procVars, semVars>>

\* schedule() and the switch: the next process goes on where it was.
Schedule == schedule /\ UNCHANGED <<procVars, semVars>>

\* Interrupts are enabled in the idle loop, in user mode, and in kernel
\* threads but for the loops that add_timer and do_exit run with them off.
IntrEnabled ==
  \/ current = Idle
  \/ current \in KThread /\ pc[current] \notin {"add_timer", "reparent"}
  \/ current \in User /\ pc[current] = "user" /\ ~in_sched

Tick   == IntrEnabled /\ TimerInterrupt /\ UNCHANGED <<procVars, semVars>>
Expire == ExpireTimer /\ UNCHANGED <<procVars, semVars>>

\* The interrupt of a user process ends in the tail of trap(); that of a
\* kernel thread returns where it came from.
TickEnd ==
  /\ ProcTick
  /\ IF current \in User THEN Goto(current, "tail") ELSE UNCHANGED pc
  /\ UNCHANGED <<arg, exiting, parent, nr_process, semVars>>

\* The tail of trap(): a killed process exits, one whose quantum is used up
\* gives way and is back in user mode when schedule() returns to it.
TrapTail(p) ==
  /\ At(p, "tail")
  /\ IF exiting[p]
     THEN Goto(p, "exit") /\ UNCHANGED in_sched
     ELSE Goto(p, "user") /\ in_sched' = need_resched[p]
  /\ UNCHANGED <<current, state, wait_state, need_resched, time_slice, run_list,
                 timer_list, walk, trap, halt, arg, exiting, parent, nr_process,
                 semVars>>

\* do_yield.
Yield(p) ==
  /\ At(p, "user")
  /\ need_resched' = [need_resched EXCEPT ![p] = TRUE]
  /\ Goto(p, "tail")
  /\ UNCHANGED <<current, state, wait_state, time_slice, run_list, timer_list,
                 walk, in_sched, trap, halt, arg, exiting, parent, nr_process,
                 semVars>>
-----------------------------------------------------------------------------
(* Processes: do_fork, do_wait, do_exit, do_kill.                          *)

\* do_fork: the child is the youngest of p and goes to the run queue. Only
\* initproc starts kernel threads, before it begins to wait.
Fork(p, c) ==
  /\ At(p, Caller(p)) /\ holds[p] = {}
  /\ p \in KThread => p = Initproc
  /\ c \in KThread => p = Initproc
  /\ nr_process < MAX_PROCESS
  /\ Free(c)
  /\ parent' = [parent EXCEPT ![c] = p]
  /\ exiting' = [exiting EXCEPT ![c] = FALSE]
  /\ nr_process' = nr_process + 1
  /\ KAssert(wait_state[p] = "0" /\ Unqueued(c))
  /\ state' = [state EXCEPT ![c] = "RUNNABLE"]
  /\ wait_state' = [wait_state EXCEPT ![c] = "0"]
  /\ RR_enqueue(c)
  /\ pc' = [pc EXCEPT ![c] = Caller(c), ![p] = Return(p)]
  /\ UNCHANGED <<current, need_resched, timer_list, walk, in_sched, trap, arg,
                 semVars>>

\* do_fork fails, for want of a slot (-E_NO_FREE_PROC) or of memory
\* (-E_NO_MEM), and undoes what it did.
ForkFails(p) ==
  /\ At(p, "user")
  /\ Goto(p, "tail")
  /\ UNCHANGED <<schedVars, arg, exiting, parent, nr_process, semVars>>

\* do_wait finds the zombie z: unhash_proc, remove_links, kfree. initproc
\* calls schedule() before it waits again.
Reap(p, z) ==
  /\ state' = [state EXCEPT ![z] = "NONE"]
  /\ parent' = [parent EXCEPT ![z] = NULL]
  /\ nr_process' = nr_process - 1
  /\ exiting' = [exiting EXCEPT ![z] = FALSE]
  /\ need_resched' = [need_resched EXCEPT ![z] = FALSE]
  /\ time_slice' = [time_slice EXCEPT ![z] = 0]
  /\ arg' = [arg EXCEPT ![p] = NULL]
  /\ pc' = [pc EXCEPT ![z] = "none",
                      ![p] = IF p = Initproc THEN "loop" ELSE Return(p)]
  /\ in_sched' = (p = Initproc)
  /\ UNCHANGED <<current, wait_state, run_list, timer_list, walk, trap, halt>>

\* do_wait finds children but no zombie among them, and sleeps.
WaitSleep(p, t) ==
  /\ SleepOn(p, "WT_CHILD")
  /\ arg' = [arg EXCEPT ![p] = t]
  /\ Goto(p, "wait")
  /\ in_sched' = TRUE
  /\ UNCHANGED <<current, need_resched, time_slice, run_list, timer_list, walk,
                 trap, halt, exiting, parent, nr_process>>

\* do_wait finds no child. init_main then checks that initproc and idleproc
\* are the only processes left, and ends.
NoChild(p) ==
  /\ halt' = IF p # Initproc THEN halt
             ELSE IF /\ nr_process = 2
                     /\ \A q \in Proc \ {Initproc} : state[q] = "NONE"
             THEN "done" ELSE "left"
  /\ arg' = [arg EXCEPT ![p] = NULL]
  /\ Goto(p, Return(p))
  /\ UNCHANGED <<current, state, wait_state, need_resched, time_slice, run_list,
                 timer_list, walk, in_sched, trap, exiting, parent, nr_process>>

\* do_wait from the label `repeat`, for the child t or (NULL) for any child.
do_wait(p, t) ==
  LET kids    == Children(p) \cap (IF t = NULL THEN Proc ELSE {t})
      zombies == {c \in kids : state[c] = "ZOMBIE"}
  IN /\ \/ \E z \in zombies : Reap(p, z)
        \/ zombies = {} /\ kids # {} /\ WaitSleep(p, t)
        \/ kids = {} /\ NoChild(p)
     /\ UNCHANGED semVars

\* sys_wait.
Wait(p, t) ==
  /\ At(p, "user")
  /\ do_wait(p, t)

\* init_main waits for any child, once it has forked.
InitWait ==
  /\ \/ At(Initproc, "loop")
     \/ At(Initproc, "kernel") /\ Children(Initproc) # {}
  /\ do_wait(Initproc, NULL)

\* do_wait after its schedule(): a killed process exits, another looks again.
WaitAgain(p) ==
  /\ At(p, "wait")
  /\ IF exiting[p]
     THEN /\ Goto(p, "exit")
          /\ arg' = [arg EXCEPT ![p] = NULL]
          /\ UNCHANGED <<schedVars, exiting, parent, nr_process, semVars>>
     ELSE do_wait(p, arg[p])

\* sys_exit, or the return of a kernel thread's function.
Exit(p) ==
  /\ At(p, Caller(p)) /\ holds[p] = {} /\ p # Initproc
  /\ Goto(p, "exit")
  /\ UNCHANGED <<schedVars, arg, exiting, parent, nr_process, semVars>>

\* do_exit up to the moment the process is a zombie.
DoExit(p) ==
  /\ At(p, "exit")
  /\ state' = [state EXCEPT ![p] = "ZOMBIE"]
  /\ Goto(p, "exit_wake")
  /\ UNCHANGED <<current, wait_state, need_resched, time_slice, run_list,
                 timer_list, walk, in_sched, trap, halt, arg, exiting, parent,
                 nr_process, semVars>>

\* Mutant: a parent that waits is left asleep.
MutNoWake(q) == UNCHANGED <<halt, state, wait_state, run_list, time_slice>>

\* Mutant: a parent is woken whatever it sleeps for.
MutWakeAny(q) ==
  IF wait_state[q] # "0"
  THEN KAssert(WakeupAsserts(q)) /\ wakeup_proc(q)
  ELSE UNCHANGED <<halt, state, wait_state, run_list, time_slice>>

\* wakeup_proc(q) in the middle of another operation, if q waits for a child.
WakeIfWaiting(q) ==
  IF wait_state[q] = "WT_CHILD"
  THEN KAssert(WakeupAsserts(q)) /\ wakeup_proc(q)
  ELSE UNCHANGED <<halt, state, wait_state, run_list, time_slice>>

\* do_exit wakes a parent that waits.
ExitWake(p) ==
  /\ At(p, "exit_wake")
  /\ WakeIfWaiting(parent[p])
  /\ Goto(p, "reparent")
  /\ UNCHANGED <<current, need_resched, timer_list, walk, in_sched, trap, arg,
                 exiting, parent, nr_process, semVars>>

\* One turn of do_exit's loop: a child goes to initproc, which is woken if it
\* waits and the child is a zombie.
Reparent(p, c) ==
  /\ At(p, "reparent")
  /\ c \in Children(p)
  /\ parent' = [parent EXCEPT ![c] = Initproc]
  /\ IF state[c] = "ZOMBIE"
     THEN WakeIfWaiting(Initproc)
     ELSE UNCHANGED <<halt, state, wait_state, run_list, time_slice>>
  /\ UNCHANGED <<current, need_resched, timer_list, walk, in_sched, trap, pc, arg,
                 exiting, nr_process, semVars>>

\* Mutant: do_exit leaves its children where they are.
MutDie(p) ==
  /\ At(p, "reparent")
  /\ Goto(p, "dead")
  /\ in_sched' = TRUE
  /\ UNCHANGED <<current, state, wait_state, need_resched, time_slice, run_list,
                 timer_list, walk, trap, halt, arg, exiting, parent, nr_process,
                 semVars>>

\* do_exit calls schedule(), for the last time.
Die(p) ==
  /\ At(p, "reparent")
  /\ Children(p) = {}
  /\ Goto(p, "dead")
  /\ in_sched' = TRUE
  /\ UNCHANGED <<current, state, wait_state, need_resched, time_slice, run_list,
                 timer_list, walk, trap, halt, arg, exiting, parent, nr_process,
                 semVars>>

\* do_kill marks q, once, and ends a wait that may be interrupted.
Kill(p, q) ==
  /\ At(p, "user")
  /\ q \in Killable
  /\ Goto(p, "tail")
  /\ IF Free(q) \/ exiting[q]
     THEN UNCHANGED <<exiting, state, wait_state, run_list, time_slice, halt>>
     ELSE /\ exiting' = [exiting EXCEPT ![q] = TRUE]
          /\ IF Interruptible(wait_state[q])
             THEN KAssert(WakeupAsserts(q)) /\ wakeup_proc(q)
             ELSE UNCHANGED <<state, wait_state, run_list, time_slice, halt>>
  /\ UNCHANGED <<current, need_resched, timer_list, walk, in_sched, trap, arg,
                 parent, nr_process, semVars>>
-----------------------------------------------------------------------------
(* do_sleep.                                                               *)

\* do_sleep up to add_timer.
Sleep(p, time) ==
  /\ At(p, Caller(p)) /\ p # Initproc
  /\ SleepOn(p, "WT_TIMER")
  /\ walk' = [pos |-> 1, expires |-> time]
  /\ Goto(p, "add_timer")
  /\ UNCHANGED <<current, need_resched, time_slice, run_list, timer_list,
                 in_sched, trap, halt, arg, exiting, parent, nr_process, semVars>>

\* One turn of add_timer's loop.
AddTimerWalk(p) ==
  /\ At(p, "add_timer")
  /\ PassTimer
  /\ UNCHANGED <<current, state, wait_state, need_resched, time_slice, run_list,
                 timer_list, in_sched, trap, halt, procVars, semVars>>

\* add_timer puts the timer in its place, and do_sleep calls schedule().
AddTimerPlace(p) ==
  /\ At(p, "add_timer")
  /\ PlaceTimer(p)
  /\ walk' = [pos |-> 1, expires |-> 0]
  /\ Goto(p, "sleep")
  /\ in_sched' = TRUE
  /\ UNCHANGED <<current, state, wait_state, need_resched, time_slice, run_list,
                 trap, halt, arg, exiting, parent, nr_process, semVars>>

\* do_sleep after its schedule(): del_timer, for a sleep that was cut short.
SleepDone(p) ==
  /\ At(p, "sleep")
  /\ del_timer(p)
  /\ Goto(p, Return(p))
  /\ UNCHANGED <<current, state, wait_state, need_resched, time_slice, run_list,
                 walk, in_sched, trap, halt, arg, exiting, parent, nr_process,
                 semVars>>
-----------------------------------------------------------------------------
(* Semaphores, as the locks of the system calls and of kernel threads use  *)
(* them: taken in the order of their numbers, released by their holder.    *)

\* A user process locks from within a system call, the first time from user
\* mode; a kernel thread locks from its function.
MayLock(p, s) ==
  /\ p # Initproc
  /\ Running(p) /\ pc[p] \in {"kernel", "user"}
  /\ \A t \in holds[p] : t < s

\* __down takes a free semaphore (so does try_down).
DownFree(p, s) ==
  /\ MayLock(p, s)
  /\ value[s] > 0
  /\ value' = [value EXCEPT ![s] = @ - 1]
  /\ holds' = [holds EXCEPT ![p] = @ \cup {s}]
  /\ Goto(p, "kernel")
  /\ UNCHANGED <<schedVars, arg, exiting, parent, nr_process, wait_queue,
                 wakeup_flags>>

\* __down on a semaphore that is taken: wait_current_set, schedule().
DownBlock(p, s) ==
  /\ MayLock(p, s)
  /\ value[s] = 0
  /\ SleepOn(p, "WT_KSEM")
  /\ wakeup_flags' = [wakeup_flags EXCEPT ![p] = "WT_INTERRUPTED"]
  /\ wait_queue' = [wait_queue EXCEPT ![s] = Append(@, p)]
  /\ arg' = [arg EXCEPT ![p] = s]
  /\ Goto(p, "down")
  /\ in_sched' = TRUE
  /\ UNCHANGED <<current, need_resched, time_slice, run_list, timer_list, walk,
                 trap, halt, exiting, parent, nr_process, value, holds>>

\* __down after its schedule(): wait_current_del. down() asserts that nothing
\* but up() ended the wait.
DownDone(p) ==
  /\ At(p, "down")
  /\ LET s == arg[p]
     IN /\ wait_queue' = [wait_queue EXCEPT ![s] = RemoveFirst(@, p)]
        /\ holds' = [holds EXCEPT ![p] = @ \cup {s}]
  /\ KAssert(wakeup_flags[p] = "WT_KSEM")
  /\ arg' = [arg EXCEPT ![p] = NULL]
  /\ Goto(p, "kernel")
  /\ UNCHANGED <<current, state, wait_state, need_resched, time_slice, run_list,
                 timer_list, walk, in_sched, trap, exiting, parent, nr_process,
                 value, wakeup_flags>>

\* Mutant: __up counts up without a look at the wait queue.
MutUpFree(p, s) ==
  /\ At(p, "kernel") /\ s \in holds[p]
  /\ value' = [value EXCEPT ![s] = @ + 1]
  /\ holds' = [holds EXCEPT ![p] = @ \ {s}]
  /\ UNCHANGED <<schedVars, procVars, wait_queue, wakeup_flags>>

\* __up with no waiter.
UpFree(p, s) ==
  /\ At(p, "kernel") /\ s \in holds[p]
  /\ wait_queue[s] = <<>>
  /\ value' = [value EXCEPT ![s] = @ + 1]
  /\ holds' = [holds EXCEPT ![p] = @ \ {s}]
  /\ UNCHANGED <<schedVars, procVars, wait_queue, wakeup_flags>>

\* __up hands the semaphore to the first waiter; the value stays as it is.
UpHand(p, s) ==
  /\ At(p, "kernel") /\ s \in holds[p]
  /\ wait_queue[s] # <<>>
  /\ LET w == Head(wait_queue[s])
     IN /\ KAssert(wait_state[w] = "WT_KSEM" /\ WakeupAsserts(w))
        /\ wakeup_flags' = [wakeup_flags EXCEPT ![w] = "WT_KSEM"]
        /\ wakeup_proc(w)
  /\ wait_queue' = [wait_queue EXCEPT ![s] = Tail(@)]
  /\ holds' = [holds EXCEPT ![p] = @ \ {s}]
  /\ UNCHANGED <<current, need_resched, timer_list, walk, in_sched, trap,
                 procVars, value>>

\* The system call that took locks ends.
Leave(p) ==
  /\ p \in User
  /\ At(p, "kernel") /\ holds[p] = {}
  /\ Goto(p, "tail")
  /\ UNCHANGED <<schedVars, arg, exiting, parent, nr_process, semVars>>
-----------------------------------------------------------------------------
\* The kernel stopped, by an assertion or at the end of init_main.
Halted == halt # "no" /\ UNCHANGED vars

Interrupt == Tick \/ Expire \/ TickEnd

Process(p) ==
  \/ TrapTail(p) \/ Yield(p) \/ ForkFails(p) \/ WaitAgain(p)
  \/ \E c \in Proc : Fork(p, c) \/ Reparent(p, c)
  \/ \E t \in Proc \cup {NULL} : Wait(p, t)
  \/ Exit(p) \/ DoExit(p) \/ ExitWake(p) \/ Die(p)
  \/ \E q \in Killable : Kill(p, q)
  \/ \E time \in 1 .. MaxSleep : Sleep(p, time)
  \/ AddTimerWalk(p) \/ AddTimerPlace(p) \/ SleepDone(p)
  \/ \E s \in Sem : DownFree(p, s) \/ DownBlock(p, s) \/ UpFree(p, s) \/ UpHand(p, s)
  \/ DownDone(p) \/ Leave(p)

Next ==
  \/ IdleLoop \/ Schedule \/ Interrupt \/ InitWait
  \/ \E p \in Proc : Process(p)
  \/ Halted

Spec == Init /\ [][Next]_vars
-----------------------------------------------------------------------------
(* Safety.                                                                 *)

\* The assertions of the scheduler, the run queue, the timers, the wait queues
\* and down() never fail, whatever the order of interrupts, kills and exits.
AssertionsHold == halt # "assert"

\* init_main's own assertions: when do_wait tells initproc that it has no
\* children left, no process is left anywhere and nr_process says so.
InitprocLast == halt # "left"

\* The run queue holds every process that could run and is not on the
\* processor, once, and nothing else: no wakeup is lost or counted twice
\* between wakeup_proc, schedule and the timer interrupt.
RunQueueExact ==
  /\ IsInjective(run_list)
  /\ \A p \in Proc :
       p \in ToSet(run_list) <=> state[p] = "RUNNABLE" /\ p # current

HasTimer(p) == \E i \in DOMAIN timer_list : timer_list[i].proc = p

\* The child that would end the wait of p is there.
Awaited(p, c) == parent[c] = p /\ arg[p] \in {c, NULL}

\* Whoever sleeps has someone to wake it: a place in the queue of the
\* semaphore it waits for, a timer in the list, a child that is not a zombie
\* yet or has still to call wakeup_proc.
SleeperHasWaker ==
  \A p \in Proc : state[p] = "SLEEPING" =>
    CASE wait_state[p] = "WT_KSEM"  -> arg[p] \in Sem /\ p \in ToSet(wait_queue[arg[p]])
      [] wait_state[p] = "WT_TIMER" -> pc[p] = "add_timer" \/ HasTimer(p)
      [] wait_state[p] = "WT_CHILD" ->
           /\ \E c \in Proc : Awaited(p, c)
           /\ \A c \in Proc : Awaited(p, c) /\ state[c] = "ZOMBIE" => pc[c] = "exit_wake"
      [] OTHER -> FALSE

\* The processes up() has handed s to that have not run since.
Handed(s) == {p \in Proc : pc[p] = "down" /\ arg[p] = s /\ wakeup_flags[p] = "WT_KSEM"}
Holders(s) == {p \in Proc : s \in holds[p]}

\* No unit of a semaphore is lost or made up while it goes from a holder to a
\* waiter, and none is left idle while a process waits for it.
SemAccounting ==
  \A s \in Sem :
    /\ value[s] + Cardinality(Holders(s)) + Cardinality(Handed(s)) = SemValue[s]
    /\ value[s] > 0 => wait_queue[s] = <<>>

\* do_exit and do_wait keep every process under a parent that can still reap
\* it: the parent lives, or is in do_exit and gives its children away.
Lineage ==
  /\ \A p \in Proc \ {Initproc} :
       IF state[p] = "NONE" THEN parent[p] = NULL
       ELSE /\ parent[p] \in Proc
            /\ state[parent[p]] # "NONE"
            /\ state[parent[p]] = "ZOMBIE" => pc[parent[p]] \in {"exit_wake", "reparent"}
  /\ nr_process = 1 + Cardinality({p \in Proc : state[p] # "NONE"})

\* A sleep ends before its time only for a process that was killed.
SleepCutShort ==
  \A p \in Proc : pc[p] = "sleep" /\ state[p] = "RUNNABLE" /\ HasTimer(p) => exiting[p]
-----------------------------------------------------------------------------
(* What a step may never do.                                               *)

\* Due[i] is the number of ticks until the i-th timer goes off.
Due == LET due[i \in 0 .. Len(timer_list)] ==
             IF i = 0 THEN 0 ELSE due[i - 1] + timer_list[i].expires
       IN due

\* The ticks p has still to sleep.
Remaining(p) ==
  IF pc[p] = "add_timer" THEN Due[walk.pos - 1] + walk.expires
  ELSE Due[CHOOSE i \in DOMAIN timer_list : timer_list[i].proc = p]

Timed(p) == pc[p] = "add_timer" \/ HasTimer(p)

\* Whatever is added to the timer list or deleted from it, every other timer
\* keeps the time it is due at; a tick brings all of them one tick nearer.
TimersKeepTime ==
  [][\A p \in Proc : Timed(p) /\ Timed(p)' =>
       Remaining(p)' = Remaining(p) - (IF trap = "none" /\ trap' = "timers" THEN 1 ELSE 0)]_vars
-----------------------------------------------------------------------------
(* The semaphores implement SemSpec: the owners of a unit are the processes *)
(* that hold it and those it was handed to.                                 *)

Semaphore == INSTANCE SemSpec
               WITH avail <- value,
                    queue <- wait_queue,
                    owner <- [s \in Sem |-> Holders(s) \cup Handed(s)]

\* up() and down() keep SemSpec's promise: in order, with nothing lost and
\* nothing overtaken, under every interleaving of processes and interrupts.
SemaphoresFair == Semaphore!Spec
-----------------------------------------------------------------------------
(* Fairness and liveness.                                                  *)

\* The steps the kernel takes by itself, with no choice left to a program.
KernelStep ==
  \/ IdleLoop \/ Schedule \/ InitWait
  \/ \E p \in Proc :
       \/ TrapTail(p) \/ WaitAgain(p) \/ DoExit(p) \/ ExitWake(p) \/ Die(p)
       \/ \E c \in Proc : Reparent(p, c)
       \/ AddTimerWalk(p) \/ AddTimerPlace(p) \/ SleepDone(p) \/ DownDone(p)

Release(p, s) == UpFree(p, s) \/ UpHand(p, s)

\* The handler of an interrupt runs to its end. The timer goes off again and
\* again while interrupts are enabled now and then (a pending interrupt stays
\* pending), and leaves the kernel room to run between two ticks. A critical
\* section and a system call that takes locks end, and the function of a
\* kernel thread sleeps or returns now and then.
Fairness ==
  /\ WF_vars(Expire \/ TickEnd)
  /\ SF_vars(Tick)
  /\ SF_vars(KernelStep)
  /\ \A p \in Proc \ {Initproc}, s \in Sem : SF_vars(Release(p, s))
  /\ \A p \in User : SF_vars(Leave(p))
  /\ \A p \in KThread \ {Initproc} :
       SF_vars(Exit(p) \/ \E time \in 1 .. MaxSleep : Sleep(p, time))

FairSpec == Spec /\ Fairness

\* Round robin starves no process: one that is in the run queue gets the
\* processor, though nothing but ticks and the goodwill of kernel threads
\* takes it from the others.
RunnableRuns ==
  \A p \in Proc : p \in ToSet(run_list) ~> current = p

\* A process in down() gets its semaphore, killed or not.
LockGranted ==
  \A p \in Proc : pc[p] = "down" ~> pc[p] = "kernel"

\* initproc reaps every zombie it inherits, even one that became a zombie, or
\* an orphan, while initproc was between two waits.
OrphansReaped ==
  \A p \in Proc : state[p] = "ZOMBIE" /\ parent[p] = Initproc ~> state[p] = "NONE"

\* SYS_kill: "kill process" (proc.c:58). A killed user process is gone in the
\* end. The code does not see to it: do_wait and do_sleep look at PF_EXITING
\* only after they slept.
KilledProcessExits ==
  \A p \in User : exiting[p] ~> pc[p] = "dead" \/ ~exiting[p]
=============================================================================
