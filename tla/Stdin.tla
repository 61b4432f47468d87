-------------------------------- MODULE Stdin --------------------------------
(***************************************************************************)
(* The keyboard device (kern/fs/devs/dev_stdin.c): a ring of characters    *)
(* that the timer interrupt fills, one character a tick (kern/trap/trap.c),*)
(* and the processes that read it, sleep in its wait queue, are woken all  *)
(* at once by a character, and may be killed meanwhile. The scheduler is   *)
(* that of Sched. The readers are user processes: interrupts are off while *)
(* they run in the kernel.                                                 *)
(*                                                                         *)
(* pc[p] is where the reader p is:                                         *)
(*   "user"   in user mode                                                 *)
(*   "tail"   at the end of trap()                                         *)
(*   "read"   in dev_stdin_read, from the call of schedule() on            *)
(*   "dead"   in do_exit, which Kernel models in full                      *)
(***************************************************************************)
EXTENDS Sched, FiniteSets

CONSTANTS
  STDIN_BUFSIZE,  \* the slots of the ring
  MaxTyped,       \* bound: the characters typed in a behaviour
  MaxRead         \* bound: the characters one read asks for

ASSUME StdinAssumption ==
  /\ STDIN_BUFSIZE \in Nat \ {0} /\ MaxTyped \in Nat /\ MaxRead \in Nat \ {0}
  /\ IsFiniteSet(Proc)

VARIABLES
  pc,            \* where each reader is
  exiting,       \* proc->flags & PF_EXITING
  want,          \* what is left of len - ret in dev_stdin_read
  stdin_buffer, p_rpos, p_wpos,
  wait_queue,    \* the device's wait queue
  wakeup_flags,  \* the wakeup_flags of the wait_t on the stack of a reader
  input,         \* how far the interrupt is: "char" before dev_stdin_write,
                 \* "wake" in the loop of wakeup_queue, else "none"
  typed,         \* history: the characters typed so far, 1 .. typed
  taken,         \* history: the characters readers got, in order
  overwritten    \* history: the characters a full ring lost

ring    == <<stdin_buffer, p_rpos, p_wpos>>
queue   == <<wait_queue, wakeup_flags>>
history == <<typed, taken, overwritten>>
vars    == <<schedVars, pc, exiting, want, ring, queue, input, history>>

Slot == 0 .. STDIN_BUFSIZE - 1

\* The readers have been forked and wait for the processor in user mode, in one
\* order: they are alike.
Init ==
  /\ run_list = SetToSeq(Proc)
  /\ current = Idle
  /\ state = [p \in Proc \cup {Idle} |-> "RUNNABLE"]
  /\ wait_state = [p \in Proc |-> "0"]
  /\ need_resched = [p \in Proc \cup {Idle} |-> p = Idle]
  /\ time_slice = [p \in Proc |-> MAX_TIME_SLICE]
  /\ timer_list = <<>> /\ walk = [pos |-> 1, expires |-> 0]
  /\ in_sched = FALSE /\ trap = "none" /\ halt = "no"
  /\ pc = [p \in Proc |-> "user"] /\ exiting = [p \in Proc |-> FALSE]
  /\ want = [p \in Proc |-> 0]
  /\ stdin_buffer = [s \in Slot |-> 0] /\ p_rpos = 0 /\ p_wpos = 0
  /\ wait_queue = <<>> /\ wakeup_flags = [p \in Proc |-> "WT_INTERRUPTED"]
  /\ input = "none"
  /\ typed = 0 /\ taken = <<>> /\ overwritten = {}
-----------------------------------------------------------------------------
At(p, label) == Running(p) /\ input = "none" /\ pc[p] = label

Goto(p, label) == pc' = [pc EXCEPT ![p] = label]

\* cpu_idle.
IdleLoop ==
  /\ Running(Idle) /\ input = "none" /\ need_resched[Idle]
  /\ in_sched' = TRUE
  /\ UNCHANGED <<current, state, wait_state, need_resched, time_slice, run_list,
                 timer_list, walk, trap, halt, pc, exiting, want, ring, queue,
                 input, history>>

Schedule ==
  /\ input = "none"
  /\ schedule
  /\ UNCHANGED <<pc, exiting, want, ring, queue, input, history>>

\* The timer interrupt is taken in the idle loop and in user mode.
Tick ==
  /\ input = "none"
  /\ current # Idle => pc[current] = "user" /\ ~in_sched
  /\ TimerInterrupt
  /\ UNCHANGED <<pc, exiting, want, ring, queue, input, history>>

\* run_timer_list ends, and dev_stdin_write is next.
TickEnd ==
  /\ ProcTick
  /\ input' = "char"
  /\ IF current = Idle THEN UNCHANGED pc ELSE Goto(current, "tail")
  /\ UNCHANGED <<exiting, want, ring, queue, history>>

\* cons_getc has no character, and dev_stdin_write does nothing.
NoKey ==
  /\ input = "char"
  /\ input' = "none"
  /\ UNCHANGED <<schedVars, pc, exiting, want, ring, queue, history>>

Full == p_wpos - p_rpos = STDIN_BUFSIZE

\* Mutant: the position moves on in a full ring too.
MutAdvance == 1

\* p_wpos stays where it is in a full ring.
Advance == IF Full THEN 0 ELSE 1

\* Mutant: the character is put in the ring and nobody is told.
MutWake == "none"

\* Whether wakeup_queue has a reader to wake.
Wake == IF wait_queue = <<>> THEN "none" ELSE "wake"

\* dev_stdin_write up to wakeup_queue: the character goes to the slot p_wpos
\* is at, which in a full ring is that of the oldest character.
Key ==
  /\ input = "char" /\ typed < MaxTyped
  /\ typed' = typed + 1
  /\ stdin_buffer' = [stdin_buffer EXCEPT ![p_wpos % STDIN_BUFSIZE] = typed + 1]
  /\ p_wpos' = p_wpos + Advance
  /\ overwritten' = IF Full THEN overwritten \cup {stdin_buffer[p_wpos % STDIN_BUFSIZE]}
                    ELSE overwritten
  /\ input' = Wake
  /\ UNCHANGED <<schedVars, pc, exiting, want, p_rpos, queue, taken>>

\* One turn of wakeup_queue: the first reader leaves the queue and wakes up. It
\* may be awake already, if it was killed.
WakeReader ==
  /\ input = "wake"
  /\ LET p == Head(wait_queue)
     IN /\ wakeup_flags' = [wakeup_flags EXCEPT ![p] = "WT_KBD"]
        /\ KAssert(WakeupAsserts(p))
        /\ wakeup_proc(p)
  /\ wait_queue' = Tail(wait_queue)
  /\ input' = IF Len(wait_queue) = 1 THEN "none" ELSE "wake"
  /\ UNCHANGED <<current, need_resched, timer_list, walk, in_sched, trap, pc,
                 exiting, want, ring, history>>
-----------------------------------------------------------------------------
(* dev_stdin_read.                                                         *)

Unread == p_wpos - p_rpos

\* The next n characters are read.
Take(n) ==
  /\ taken' = taken \o [i \in 1 .. n |-> stdin_buffer[(p_rpos + i - 1) % STDIN_BUFSIZE]]
  /\ p_rpos' = p_rpos + n
  /\ UNCHANGED <<stdin_buffer, p_wpos, typed, overwritten>>

\* The loop from `try_again` on finds the n characters that are left to read.
ReadAll(p, n, rest) ==
  /\ Unread >= n
  /\ Take(n)
  /\ wait_queue' = rest
  /\ Goto(p, "tail")
  /\ UNCHANGED <<schedVars, exiting, want, wakeup_flags, input>>

\* ... or less: it takes what is there and sleeps.
ReadSome(p, n, rest) ==
  /\ Unread < n
  /\ Take(Unread)
  /\ want' = [want EXCEPT ![p] = n - Unread]
  /\ wait_queue' = Append(rest, p)
  /\ wakeup_flags' = [wakeup_flags EXCEPT ![p] = "WT_INTERRUPTED"]
  /\ SleepOn(p, "WT_KBD")
  /\ Goto(p, "read")
  /\ in_sched' = TRUE
  /\ UNCHANGED <<current, need_resched, time_slice, run_list, timer_list, walk,
                 trap, halt, exiting, input>>

ReadLoop(p, n, rest) == ReadAll(p, n, rest) \/ ReadSome(p, n, rest)

\* A read of n characters.
Read(p, n) ==
  /\ At(p, "user")
  /\ ReadLoop(p, n, wait_queue)

\* Mutant: whoever ended the wait, the reader goes on as after a character.
MutReadAgain(p) ==
  /\ At(p, "read")
  /\ ReadLoop(p, want[p], wait_queue)

\* dev_stdin_read after its schedule(): wait_current_del, and another try
\* unless the wait was interrupted.
ReadAgain(p) ==
  /\ At(p, "read")
  /\ LET rest == RemoveFirst(wait_queue, p)
     IN IF wakeup_flags[p] = "WT_KBD"
        THEN ReadLoop(p, want[p], rest)
        ELSE /\ wait_queue' = rest
             /\ Goto(p, "tail")
             /\ UNCHANGED <<schedVars, exiting, want, ring, wakeup_flags, input,
                            history>>
-----------------------------------------------------------------------------
\* The tail of trap(): a killed reader exits.
TrapTail(p) ==
  /\ At(p, "tail")
  /\ IF exiting[p]
     THEN /\ Goto(p, "dead") /\ in_sched' = TRUE
          /\ state' = [state EXCEPT ![p] = "ZOMBIE"]
     ELSE /\ Goto(p, "user") /\ in_sched' = need_resched[p]
          /\ UNCHANGED state
  /\ UNCHANGED <<current, wait_state, need_resched, time_slice, run_list,
                 timer_list, walk, trap, halt, exiting, want, ring, queue, input,
                 history>>

\* do_kill.
Kill(p, q) ==
  /\ At(p, "user")
  /\ Goto(p, "tail")
  /\ IF state[q] # "ZOMBIE" /\ ~exiting[q]
     THEN /\ exiting' = [exiting EXCEPT ![q] = TRUE]
          /\ IF Interruptible(wait_state[q])
             THEN KAssert(WakeupAsserts(q)) /\ wakeup_proc(q)
             ELSE UNCHANGED <<state, wait_state, run_list, time_slice, halt>>
     ELSE UNCHANGED <<exiting, state, wait_state, run_list, time_slice, halt>>
  /\ UNCHANGED <<current, need_resched, timer_list, walk, in_sched, trap, want,
                 ring, queue, input, history>>

KernelStep ==
  \/ IdleLoop \/ Schedule
  \/ \E p \in Proc : TrapTail(p) \/ ReadAgain(p)

Interrupt == TickEnd \/ NoKey \/ Key \/ WakeReader

Next ==
  \/ KernelStep \/ Tick \/ Interrupt
  \/ \E p \in Proc : \/ \E n \in 1 .. MaxRead : Read(p, n)
                     \/ \E q \in Proc : Kill(p, q)

Spec == Init /\ [][Next]_vars

\* As in Kernel: the handler of an interrupt runs to its end, and the timer goes
\* off again and again and leaves the kernel room to run between two ticks.
FairSpec == Spec /\ WF_vars(Interrupt) /\ SF_vars(Tick) /\ SF_vars(KernelStep)
-----------------------------------------------------------------------------
TypeOK ==
  /\ SchedTypeOK
  /\ pc \in [Proc -> {"user", "tail", "read", "dead"}]
  /\ exiting \in [Proc -> BOOLEAN]
  /\ want \in [Proc -> 0 .. MaxRead]
  /\ stdin_buffer \in [Slot -> 0 .. MaxTyped]
  /\ p_wpos \in 0 .. MaxTyped /\ p_rpos \in 0 .. p_wpos
  /\ wait_queue \in Seq(Proc)
  /\ wakeup_flags \in [Proc -> {"WT_INTERRUPTED", "WT_KBD"}]
  /\ input \in {"none", "char", "wake"}

\* A reader never sleeps past a character: outside the interrupt, readers
\* sleep only while the ring is empty, each with its wait_t in the queue, where
\* a reader is at most once.
ReaderAsleep ==
  /\ TypeOK
  /\ IsInjective(wait_queue)
  /\ \A p \in Proc : p \in ToSet(wait_queue) => pc[p] = "read"
  /\ \A p \in Proc : state[p] = "SLEEPING" => p \in ToSet(wait_queue)
  /\ input = "none" /\ wait_queue # <<>> => p_rpos = p_wpos

\* What the ring holds that was not read yet, the oldest first.
Line == [i \in 1 .. Unread |-> stdin_buffer[(p_rpos + i - 1) % STDIN_BUFSIZE]]

\* Every character typed is in the ring, was read once, by one reader, or was
\* overwritten in a full ring; only what was typed into a full ring comes out
\* before an older one.
CharsOnce ==
  /\ Unread <= STDIN_BUFSIZE
  /\ IsInjective(taken \o Line)
  /\ ToSet(taken \o Line) \cup overwritten = 1 .. typed
  /\ ToSet(taken \o Line) \cap overwritten = {}
  /\ overwritten = {} => \A i \in DOMAIN (taken \o Line) : (taken \o Line)[i] = i

\* A character that is typed while somebody waits for it is read.
InputReachesReader ==
  p_rpos # p_wpos /\ (\E p \in Proc : pc[p] = "read")
    ~> p_rpos = p_wpos \/ \A p \in Proc : pc[p] # "read"
=============================================================================
