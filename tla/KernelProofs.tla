---------------------------- MODULE KernelProofs ----------------------------
(***************************************************************************)
(* Proofs about Kernel, for any number of processes and semaphores. First  *)
(* the invariant IInv of KernelInv is inductive: the steps are grouped by  *)
(* the part of the kernel they belong to; each lemma takes one action. On  *)
(* top of it: the semaphores implement SemSpec and no unit is lost; every  *)
(* process stays under a parent that can reap it, so that initproc is the  *)
(* last one left (FamilyInv); whoever sleeps has somebody to wake it       *)
(* (SleepInv); and every sleeper keeps the time it is due at (Later).      *)
(***************************************************************************)
EXTENDS KernelInv, TLAPS, FiniteSetTheorems, WellFoundedInduction

-----------------------------------------------------------------------------
(* What the sequence operators of the model return.                        *)

\* An element of the set of a sequence has a place in it.
LEMMA InToSet ==
  ASSUME NEW S, NEW q \in Seq(S), NEW e
  PROVE  e \in ToSet(q) <=> \E i \in 1 .. Len(q) : q[i] = e
BY DEF ToSet

\* A queue without duplicates stays so when a newcomer joins at the tail.
LEMMA AppendNew ==
  ASSUME NEW S, NEW q \in Seq(S), NEW e \in S, IsInjective(q), e \notin ToSet(q)
  PROVE  /\ Append(q, e) \in Seq(S)
         /\ IsInjective(Append(q, e))
         /\ ToSet(Append(q, e)) = ToSet(q) \cup {e}
         /\ Append(q, e) # <<>>
<1>1. /\ Append(q, e) \in Seq(S) /\ Len(q) \in Nat /\ Len(Append(q, e)) = Len(q) + 1
      /\ Append(q, e)[Len(q) + 1] = e
      /\ \A i \in 1 .. Len(q) : Append(q, e)[i] = q[i]
  OBVIOUS
<1>2. \A i \in 1 .. Len(q) : q[i] # e
  BY InToSet
<1>3. IsInjective(Append(q, e))
  BY <1>1, <1>2 DEF IsInjective
<1>4. ToSet(Append(q, e)) = ToSet(q) \cup {e}
  BY <1>1 DEF ToSet
<1>5. Append(q, e) # <<>>
  BY <1>1
<1>. QED BY <1>1, <1>3, <1>4, <1>5

\* The head of a queue without duplicates leaves it for good.
LEMMA TailInjective ==
  ASSUME NEW S, NEW q \in Seq(S), q # <<>>, IsInjective(q)
  PROVE  /\ Head(q) \in S /\ Head(q) \in ToSet(q)
         /\ Tail(q) \in Seq(S)
         /\ IsInjective(Tail(q))
         /\ ToSet(Tail(q)) = ToSet(q) \ {Head(q)}
<1>1. Head(q) \in S /\ Head(q) = q[1] /\ Len(q) \in Nat \ {0} /\ Tail(q) \in Seq(S)
  OBVIOUS
<1>2. Len(Tail(q)) = Len(q) - 1 /\ \A i \in 1 .. Len(q) - 1 : Tail(q)[i] = q[i + 1]
  OBVIOUS
<1>3. IsInjective(Tail(q))
  BY <1>1, <1>2 DEF IsInjective
<1>4. ToSet(Tail(q)) \subseteq ToSet(q) \ {Head(q)}
  BY <1>1, <1>2 DEF IsInjective, ToSet
<1>5. ASSUME NEW x \in ToSet(q) \ {Head(q)} PROVE x \in ToSet(Tail(q))
  <2>1. PICK i \in 1 .. Len(q) : q[i] = x
    BY DEF ToSet
  <2>2. i # 1
    BY <2>1, <1>1
  <2>3. i - 1 \in 1 .. Len(Tail(q)) /\ Tail(q)[i - 1] = x
    BY <1>1, <1>2, <2>1, <2>2
  <2>. QED BY <1>1, <2>3, InToSet
<1>. QED BY <1>1, <1>3, <1>4, <1>5 DEF ToSet

\* The elements of a concatenation.
LEMMA ConcatElements ==
  ASSUME NEW S, NEW a \in Seq(S), NEW b \in Seq(S)
  PROVE  /\ a \o b \in Seq(S)
         /\ Len(a \o b) = Len(a) + Len(b)
         /\ \A j \in 1 .. Len(a) + Len(b) :
              (a \o b)[j] = IF j <= Len(a) THEN a[j] ELSE b[j - Len(a)]
OBVIOUS

\* r is q with e put at i, and the order of the others left.
InsertedAt(S, q, i, e, r) ==
  /\ r \in Seq(S) /\ Len(r) = Len(q) + 1
  /\ \A j \in 1 .. i - 1 : r[j] = q[j]
  /\ r[i] = e
  /\ \A j \in i + 1 .. Len(q) + 1 : r[j] = q[j - 1]

\* InsertAt makes room at i and leaves the order of the others.
LEMMA InsertAtElements ==
  ASSUME NEW S, NEW q \in Seq(S), NEW i \in 1 .. Len(q) + 1, NEW e \in S
  PROVE  InsertedAt(S, q, i, e, InsertAt(q, i, e))
<1>. DEFINE a == SubSeq(q, 1, i - 1)
            b == SubSeq(q, i, Len(q))
            ae == a \o <<e>>
<1>1. a \in Seq(S) /\ Len(a) = i - 1 /\ \A j \in 1 .. i - 1 : a[j] = q[j]
  OBVIOUS
<1>2. /\ b \in Seq(S) /\ Len(b) = Len(q) - i + 1
      /\ \A j \in 1 .. Len(q) - i + 1 : b[j] = q[j + i - 1]
  OBVIOUS
<1>. HIDE DEF a, b
<1>3. /\ ae \in Seq(S) /\ Len(ae) = i
      /\ \A j \in 1 .. i : ae[j] = IF j < i THEN q[j] ELSE e
  BY <1>1
<1>. HIDE DEF ae
<1>4. /\ ae \o b \in Seq(S) /\ Len(ae \o b) = Len(q) + 1
      /\ \A j \in 1 .. Len(q) + 1 : (ae \o b)[j] = IF j <= i THEN ae[j] ELSE b[j - i]
  BY <1>2, <1>3, ConcatElements
<1>5. InsertAt(q, i, e) = ae \o b
  BY DEF InsertAt, a, b, ae
<1>6. ASSUME NEW j \in 1 .. i - 1 PROVE (ae \o b)[j] = q[j]
  BY <1>3, <1>4
<1>7. (ae \o b)[i] = e
  BY <1>3, <1>4
<1>8. ASSUME NEW j \in i + 1 .. Len(q) + 1 PROVE (ae \o b)[j] = q[j - 1]
  <2>1. j \in 1 .. Len(q) + 1 /\ j > i /\ j - i \in 1 .. Len(q) - i + 1 /\ (j - i) + i - 1 = j - 1
    OBVIOUS
  <2>2. (ae \o b)[j] = b[j - i]
    BY <1>4, <2>1
  <2>3. b[j - i] = q[(j - i) + i - 1]
    BY <1>2, <2>1
  <2>. QED BY <2>1, <2>2, <2>3
<1>. QED BY <1>4, <1>5, <1>6, <1>7, <1>8 DEF InsertedAt

\* RemoveAt closes the gap at i and leaves the order of the others.
LEMMA RemoveAtElements ==
  ASSUME NEW S, NEW q \in Seq(S), NEW i \in 1 .. Len(q)
  PROVE  /\ RemoveAt(q, i) \in Seq(S)
         /\ Len(RemoveAt(q, i)) = Len(q) - 1
         /\ \A j \in 1 .. Len(q) - 1 :
              RemoveAt(q, i)[j] = IF j < i THEN q[j] ELSE q[j + 1]
<1>. DEFINE a == SubSeq(q, 1, i - 1)
            b == SubSeq(q, i + 1, Len(q))
<1>1. a \in Seq(S) /\ Len(a) = i - 1 /\ \A j \in 1 .. i - 1 : a[j] = q[j]
  OBVIOUS
<1>2. /\ b \in Seq(S) /\ Len(b) = Len(q) - i
      /\ \A j \in 1 .. Len(q) - i : b[j] = q[j + i]
  OBVIOUS
<1>. HIDE DEF a, b
<1>3. /\ a \o b \in Seq(S) /\ Len(a \o b) = Len(a) + Len(b)
      /\ \A j \in 1 .. Len(a) + Len(b) :
           (a \o b)[j] = IF j <= Len(a) THEN a[j] ELSE b[j - Len(a)]
  BY <1>1, <1>2, ConcatElements
<1>4. ASSUME NEW j \in 1 .. Len(q) - 1
      PROVE  (a \o b)[j] = IF j < i THEN q[j] ELSE q[j + 1]
  <2>1. CASE j < i
    BY <1>1, <1>2, <1>3, <2>1
  <2>2. CASE ~ (j < i)
    <3>1. j - Len(a) \in 1 .. Len(q) - i /\ (j - Len(a)) + i = j + 1
      BY <1>1, <2>2
    <3>2. (a \o b)[j] = b[j - Len(a)]
      BY <1>1, <1>2, <1>3, <2>2
    <3>3. b[j - Len(a)] = q[j + 1]
      BY <1>2, <3>1
    <3>. QED BY <2>2, <3>2, <3>3
  <2>. QED BY <2>1, <2>2
<1>5. RemoveAt(q, i) = a \o b
  BY DEF RemoveAt, a, b
<1>6. Len(a \o b) = Len(q) - 1
  BY <1>1, <1>2, <1>3
<1>. QED BY <1>3, <1>4, <1>5, <1>6

\* Nothing is removed of what is not there.
LEMMA RemoveFirstAbsent ==
  ASSUME NEW S, NEW q \in Seq(S), NEW e, e \notin ToSet(q)
  PROVE  RemoveFirst(q, e) = q
BY DEF RemoveFirst, ToSet

-----------------------------------------------------------------------------

\* Initially the parts of the invariant hold.
LEMMA InitIInv == Init => IInv
<1>. SUFFICES ASSUME Init PROVE IInv
  OBVIOUS
<1>. USE SchedAssumption, KernelAssumption
<1>1. run_list = <<Initproc>> /\ run_list \in Seq(Proc)
  BY DEF Init, SchedInit
<1>2. ToSet(run_list) = {Initproc} /\ IsInjective(run_list)
  BY <1>1 DEF ToSet, IsInjective
<1>3. TypeOK
  <2>1. SchedTypeOK
    <3>1. state \in [Proc \cup {Idle} -> ProcState] /\ wait_state \in [Proc -> WaitState]
      BY DEF Init, SchedInit, ProcState, WaitState
    <3>2. time_slice \in [Proc -> 0 .. MAX_TIME_SLICE] /\ timer_list \in Seq(Timer)
      BY DEF Init, SchedInit
    <3>3. need_resched \in [Proc \cup {Idle} -> BOOLEAN]
      BY DEF Init, SchedInit
    <3>4. walk \in [pos : Nat \ {0}, expires : Nat] /\ current \in Proc \cup {Idle}
      BY DEF Init, SchedInit
    <3>. QED BY <1>1, <3>1, <3>2, <3>3, <3>4 DEF Init, SchedInit, SchedTypeOK
  <2>2. pc \in [Proc -> Label] /\ parent \in [Proc -> Proc \cup {Idle, NULL}]
    BY DEF Init, Label
  <2>. QED BY <2>1, <2>2 DEF Init, TypeOK
<1>4. RunQueueExact /\ AssertionsHold
  BY <1>2 DEF Init, SchedInit, RunQueueExact, AssertionsHold
<1>5. PcState /\ OnProcessor /\ AddTimerAlone /\ Parents
  BY DEF Init, SchedInit, PcState, OnProcessor, AddTimerAlone, Parents
<1>6. TimerOwners /\ HeadLater
  BY DEF Init, SchedInit, TimerOwners, HeadLater
<1>7. Waiters /\ InDown
  BY DEF Init, SchedInit, Waiters, InDown, IsInjective, ToSet
<1>. QED BY <1>3, <1>4, <1>5, <1>6, <1>7 DEF IInv

\* The places of a process the parts of the invariant below say nothing of.
Quiet == {"user", "kernel", "loop", "wait", "tail", "exit"}

-----------------------------------------------------------------------------
(* A part of the invariant survives a step that leaves its variables alone, *)
(* and a step that moves a process between two quiet places.               *)

\* Nine frame lemmas, one per part of IInv: each part survives a step that leaves
\* the variables it reads alone. Here the run queue of the scheduler.
LEMMA RunQueueFrame ==
  ASSUME RunQueueExact, UNCHANGED <<run_list, state, current>> PROVE RunQueueExact'
BY DEF RunQueueExact

\* Frame of PcState: the states and wait reasons of the processes.
LEMMA PcStateFrame ==
  ASSUME PcState, UNCHANGED <<state, wait_state, pc>> PROVE PcState'
BY DEF PcState

\* Frame of OnProcessor: the process that runs, and the trap it may be in.
LEMMA OnProcessorFrame ==
  ASSUME OnProcessor, UNCHANGED <<current, state, pc, in_sched, trap>> PROVE OnProcessor'
BY DEF OnProcessor

\* Frame of AddTimerAlone: the loop of add_timer (sched.c:103-123).
LEMMA AddTimerFrame ==
  ASSUME AddTimerAlone,
         UNCHANGED <<current, in_sched, trap, wait_state, pc, walk, timer_list>>
  PROVE  AddTimerAlone'
BY DEF AddTimerAlone

\* Frame of TimerOwners: the timers of the processes in do_sleep.
LEMMA TimerOwnersFrame ==
  ASSUME TimerOwners, UNCHANGED <<timer_list, wait_state, pc>> PROVE TimerOwners'
BY DEF TimerOwners

\* Frame of HeadLater: the timer at the head of the list.
LEMMA HeadLaterFrame ==
  ASSUME HeadLater, UNCHANGED <<timer_list, trap>> PROVE HeadLater'
BY DEF HeadLater

\* Frame of Waiters: the wait queues of the semaphores.
LEMMA WaitersFrame ==
  ASSUME Waiters, UNCHANGED <<value, wait_queue, wakeup_flags, pc, arg, wait_state>>
  PROVE  Waiters'
BY DEF Waiters

\* Frame of InDown: the processes inside __down.
LEMMA InDownFrame ==
  ASSUME InDown, UNCHANGED <<holds, wakeup_flags, pc, arg, state, wait_state>>
  PROVE  InDown'
BY DEF InDown

\* Frame of Parents: the process that reaps, and initproc.
LEMMA ParentsFrame ==
  ASSUME Parents, UNCHANGED <<parent, exiting, pc>> PROVE Parents'
BY DEF Parents

\* A process that goes from one place where nothing of the other components
\* depends on it to another keeps every part of IInv that speaks of places.
LEMMA QuietMove ==
  ASSUME TypeOK, NEW p \in Proc, pc[p] \in Quiet,
         NEW l \in Quiet, pc' = [pc EXCEPT ![p] = l]
  PROVE  /\ pc' \in [Proc -> Label]
         /\ PcState /\ UNCHANGED <<state, wait_state>> => PcState'
         /\ TimerOwners /\ UNCHANGED <<timer_list, wait_state>> => TimerOwners'
         /\ AddTimerAlone /\ p = current => AddTimerAlone'
         /\ /\ Waiters
            /\ UNCHANGED <<value, wait_queue, wakeup_flags, arg, wait_state>>
            => Waiters'
         /\ /\ InDown
            /\ UNCHANGED <<holds, wakeup_flags, arg, state, wait_state>>
            => InDown'
         /\ Parents /\ p # Initproc /\ UNCHANGED <<parent, exiting>> => Parents'
<1>. USE DEF TypeOK, SchedTypeOK, Quiet
<1>1. pc' \in [Proc -> Label]
  BY DEF Label
<1>2. PcState /\ UNCHANGED <<state, wait_state>> => PcState'
  BY DEF PcState
<1>3. TimerOwners /\ UNCHANGED <<timer_list, wait_state>> => TimerOwners'
  BY DEF TimerOwners
<1>4. AddTimerAlone /\ p = current => AddTimerAlone'
  BY DEF AddTimerAlone
<1>5. /\ Waiters
      /\ UNCHANGED <<value, wait_queue, wakeup_flags, arg, wait_state>>
      => Waiters'
  BY DEF Waiters
<1>6. /\ InDown
      /\ UNCHANGED <<holds, wakeup_flags, arg, state, wait_state>>
      => InDown'
  BY DEF InDown
<1>7. Parents /\ p # Initproc /\ UNCHANGED <<parent, exiting>> => Parents'
  BY DEF Parents
<1>. QED BY <1>1, <1>2, <1>3, <1>4, <1>5, <1>6, <1>7

\* One tick off a timer that is not due.
LEMMA TimerTick ==
  ASSUME NEW t \in Timer, t.expires > 0
  PROVE  /\ [t EXCEPT !.expires = @ - 1] \in Timer
         /\ [t EXCEPT !.expires = @ - 1].proc = t.proc
BY DEF Timer

\* wakeup_proc of a sleeper passes its assertions, and puts the sleeper in the
\* run queue unless it is on the processor.
LEMMA WakeupSleeper ==
  ASSUME TypeOK, RunQueueExact, NEW q \in Proc, state[q] = "SLEEPING",
         wakeup_proc(q), UNCHANGED current
  PROVE  /\ WakeupAsserts(q)
         /\ state' = [state EXCEPT ![q] = "RUNNABLE"]
         /\ wait_state' = [wait_state EXCEPT ![q] = "0"]
         /\ run_list' \in Seq(Proc)
         /\ time_slice' \in [Proc -> 0 .. MAX_TIME_SLICE]
         /\ RunQueueExact'
<1>. USE SchedAssumption DEF TypeOK, SchedTypeOK
<1>1. q \notin ToSet(run_list)
  BY DEF RunQueueExact
<1>2. WakeupAsserts(q)
  BY <1>1 DEF WakeupAsserts, Unqueued
<1>3. /\ state' = [state EXCEPT ![q] = "RUNNABLE"]
      /\ wait_state' = [wait_state EXCEPT ![q] = "0"]
  BY DEF wakeup_proc
<1>4. CASE q = current
  <2>1. UNCHANGED <<run_list, time_slice>>
    BY <1>4 DEF wakeup_proc, NeedsQueue
  <2>. QED BY <1>2, <1>3, <1>4, <2>1 DEF RunQueueExact
<1>5. CASE q # current
  <2>1. run_list' = Append(run_list, q)
        /\ time_slice' = [time_slice EXCEPT ![q] = Refill(q)]
    BY <1>5 DEF wakeup_proc, NeedsQueue, RR_enqueue, Enqueued
  <2>2. Refill(q) \in 0 .. MAX_TIME_SLICE
    BY DEF Refill
  <2>3. /\ run_list' \in Seq(Proc) /\ IsInjective(run_list')
        /\ ToSet(run_list') = ToSet(run_list) \cup {q}
    BY <1>1, <2>1, AppendNew DEF RunQueueExact
  <2>4. RunQueueExact'
    BY <1>3, <1>5, <2>3 DEF RunQueueExact
  <2>. QED BY <1>2, <1>3, <2>1, <2>2, <2>3, <2>4
<1>. QED BY <1>2, <1>3, <1>4, <1>5
-----------------------------------------------------------------------------
(* The scheduler and the timer interrupt.                                  *)

\* cpu_idle keeps the invariant: it only asks for schedule() (proc.c:903-909).
LEMMA IdleLoopStep == IInv /\ IdleLoop => IInv'
<1>. SUFFICES ASSUME IInv, IdleLoop PROVE IInv'
  OBVIOUS
<1>. USE SchedAssumption, KernelAssumption
     DEF IInv, IdleLoop, Running, procVars, semVars
<1>1. TypeOK'
  BY DEF TypeOK, SchedTypeOK
<1>2. (AssertionsHold /\ OnProcessor /\ AddTimerAlone)'
  BY DEF AssertionsHold, OnProcessor, AddTimerAlone
<1>. QED BY <1>1, <1>2, RunQueueFrame, PcStateFrame, TimerOwnersFrame, HeadLaterFrame,
            WaitersFrame, InDownFrame, ParentsFrame

\* schedule() keeps the invariant: the process it takes off the processor is
\* queued if and only if it is RUNNABLE, and the one it chooses leaves the queue.
LEMMA ScheduleStep == IInv /\ Schedule => IInv'
<1>. SUFFICES ASSUME IInv, Schedule PROVE IInv'
  OBVIOUS
<1>. USE SchedAssumption, KernelAssumption DEF IInv, Schedule, procVars, semVars
<1>. DEFINE queue == IF Requeues THEN Append(run_list, current) ELSE run_list
<1>0. run_list \in Seq(Proc) /\ (Requeues => current \in Proc)
  BY DEF TypeOK, SchedTypeOK, Requeues
<1>1. Requeues => current \notin ToSet(run_list)
  BY <1>0 DEF RunQueueExact
<1>2. halt' = halt
  BY <1>1 DEF schedule, KAssert, Unqueued
<1>3. /\ queue \in Seq(Proc) /\ IsInjective(queue)
      /\ \A p \in Proc : p \in ToSet(queue) <=> state[p] = "RUNNABLE"
  <2>1. CASE Requeues
    <3>1. queue = Append(run_list, current)
      BY <2>1
    <3>2. /\ queue \in Seq(Proc) /\ IsInjective(queue)
          /\ ToSet(queue) = ToSet(run_list) \cup {current}
      BY <1>0, <1>1, <2>1, <3>1, AppendNew DEF RunQueueExact
    <3>3. state[current] = "RUNNABLE"
      BY <2>1 DEF Requeues
    <3>. QED BY <3>2, <3>3 DEF RunQueueExact
  <2>2. CASE ~Requeues
    BY <1>0, <2>2 DEF Requeues, RunQueueExact
  <2>. QED BY <2>1, <2>2
<1>4. /\ IF queue = <<>> THEN current' = Idle /\ run_list' = queue
         ELSE current' = Head(queue) /\ run_list' = Tail(queue)
      /\ in_sched' = FALSE /\ UNCHANGED <<state, wait_state, timer_list, walk, trap>>
      /\ in_sched /\ trap = "none"
  BY DEF schedule, Enqueued
<1>. HIDE DEF queue
<1>5. /\ run_list' \in Seq(Proc)
      /\ current' \in Proc => current' \in ToSet(queue)
      /\ current' \in Proc \cup {Idle}
      /\ RunQueueExact'
  <2>1. CASE queue = <<>>
    BY <1>3, <1>4, <2>1 DEF RunQueueExact
  <2>2. CASE queue # <<>>
    <3>1. /\ Head(queue) \in Proc /\ Head(queue) \in ToSet(queue)
          /\ Tail(queue) \in Seq(Proc) /\ IsInjective(Tail(queue))
          /\ ToSet(Tail(queue)) = ToSet(queue) \ {Head(queue)}
      BY <1>3, <2>2, TailInjective
    <3>. QED BY <1>3, <1>4, <2>2, <3>1 DEF RunQueueExact
  <2>. QED BY <2>1, <2>2
<1>6. time_slice' \in [Proc -> 0 .. MAX_TIME_SLICE]
      /\ need_resched' \in [Proc \cup {Idle} -> BOOLEAN]
  BY <1>0 DEF schedule, Refill, TypeOK, SchedTypeOK
<1>7. TypeOK'
  BY <1>2, <1>4, <1>5, <1>6 DEF TypeOK, SchedTypeOK
<1>8. (AssertionsHold /\ OnProcessor /\ AddTimerAlone)'
  BY <1>2, <1>3, <1>4, <1>5 DEF AssertionsHold, OnProcessor, AddTimerAlone
<1>. QED BY <1>4, <1>5, <1>7, <1>8, PcStateFrame, TimerOwnersFrame, HeadLaterFrame,
            WaitersFrame, InDownFrame, ParentsFrame

\* A timer interrupt keeps the invariant: it counts down the delay at the head
\* of the list, which HeadLater says is positive.
LEMMA TickStep == IInv /\ Tick => IInv'
<1>. SUFFICES ASSUME IInv, Tick PROVE IInv'
  OBVIOUS
<1>. USE SchedAssumption, KernelAssumption
     DEF IInv, Tick, TimerInterrupt, procVars, semVars
<1>1. /\ timer_list \in Seq(Timer) /\ trap = "none" /\ trap' = "timers"
      /\ timer_list # <<>> => 1 \in DOMAIN timer_list /\ timer_list[1] \in Timer
      /\ timer_list # <<>> => Head(timer_list) = timer_list[1]
  BY DEF TypeOK, SchedTypeOK
<1>2. halt' = halt
  BY <1>1 DEF KAssert, HeadLater, Timer
<1>3. \A p \in Proc : pc[p] # "add_timer"
  BY DEF AddTimerAlone, IntrEnabled, User
<1>4. timer_list' = IF timer_list # <<>>
                    THEN [timer_list EXCEPT ![1].expires = @ - 1] ELSE timer_list
  BY <1>1 DEF HeadLater, Timer
<1>5. /\ timer_list' \in Seq(Timer) /\ DOMAIN timer_list' = DOMAIN timer_list
      /\ \A i \in DOMAIN timer_list : timer_list'[i].proc = timer_list[i].proc
  <2>1. CASE timer_list = <<>>
    BY <1>1, <1>4, <2>1
  <2>2. CASE timer_list # <<>>
    <3>1. timer_list[1].expires > 0
      BY <1>1, <2>2 DEF HeadLater
    <3>2. timer_list' = [timer_list EXCEPT ![1] = [timer_list[1] EXCEPT !.expires = @ - 1]]
      BY <1>4, <2>2
    <3>. QED BY <1>1, <2>2, <3>1, <3>2, TimerTick
  <2>. QED BY <2>1, <2>2
<1>6. TypeOK'
  BY <1>2, <1>5 DEF TypeOK, SchedTypeOK
<1>7. (AssertionsHold /\ OnProcessor)'
  BY <1>2 DEF AssertionsHold, OnProcessor, IntrEnabled, User
<1>8. (AddTimerAlone /\ TimerOwners /\ HeadLater)'
  BY <1>1, <1>3, <1>5 DEF AddTimerAlone, TimerOwners, HeadLater
<1>. QED BY <1>6, <1>7, <1>8, RunQueueFrame, PcStateFrame, WaitersFrame, InDownFrame,
            ParentsFrame

\* One turn of the loop of run_timer_list keeps the invariant: the sleeper it
\* wakes has a timer, so it is in do_sleep and not already in the run queue.
LEMMA ExpireStep == IInv /\ Expire => IInv'
<1>. SUFFICES ASSUME IInv, Expire PROVE IInv'
  OBVIOUS
<1>. USE SchedAssumption, KernelAssumption
     DEF IInv, Expire, ExpireTimer, HeadDue, procVars, semVars
<1>. DEFINE q == Head(timer_list).proc
<1>1. /\ timer_list \in Seq(Timer) /\ timer_list # <<>> /\ trap = "timers" /\ trap' = trap
      /\ q \in Proc /\ q = timer_list[1].proc /\ 1 \in DOMAIN timer_list
      /\ timer_list' = Tail(timer_list)
  <2>1. timer_list \in Seq(Timer) /\ timer_list # <<>>
    BY DEF TypeOK, SchedTypeOK
  <2>2. timer_list[1] \in Timer /\ Head(timer_list) = timer_list[1] /\ 1 \in DOMAIN timer_list
    BY <2>1
  <2>. QED BY <2>1, <2>2 DEF Timer
<1>2. pc[q] = "sleep" /\ wait_state[q] \in {"0", "WT_TIMER"}
  BY <1>1 DEF TimerOwners
<1>. HIDE DEF q
<1>3. state[q] \in {"RUNNABLE", "SLEEPING"}
  BY <1>1, <1>2 DEF PcState, TypeOK, SchedTypeOK, ProcState
<1>4. wakeup_proc(q)
  BY DEF q
<1>5. /\ WakeupAsserts(q)
      /\ state' = [state EXCEPT ![q] = "RUNNABLE"]
      /\ wait_state' = [wait_state EXCEPT ![q] = "0"]
      /\ run_list' \in Seq(Proc)
      /\ time_slice' \in [Proc -> 0 .. MAX_TIME_SLICE]
      /\ RunQueueExact'
  <2>1. CASE state[q] = "SLEEPING"
    BY <1>1, <1>4, <2>1, WakeupSleeper
  <2>2. CASE state[q] = "RUNNABLE"
    <3>1. UNCHANGED <<state, wait_state, run_list, time_slice, current>>
      BY <1>4, <2>2 DEF wakeup_proc
    <3>2. wait_state[q] = "0"
      BY <1>1, <2>2 DEF PcState
    <3>. QED BY <1>1, <2>2, <3>1, <3>2
             DEF WakeupAsserts, TypeOK, SchedTypeOK, RunQueueExact
  <2>. QED BY <1>3, <2>1, <2>2
<1>6. halt' = halt
  BY <1>2, <1>5 DEF KAssert, Interruptible, q
<1>7. /\ timer_list' \in Seq(Timer) /\ DOMAIN timer_list' = 1 .. Len(timer_list) - 1
      /\ \A i \in DOMAIN timer_list' :
           i + 1 \in DOMAIN timer_list /\ timer_list'[i] = timer_list[i + 1]
  BY <1>1
<1>8. TypeOK'
  BY <1>1, <1>5, <1>6, <1>7 DEF TypeOK, SchedTypeOK, ProcState, WaitState
<1>9. (AssertionsHold /\ PcState /\ OnProcessor)'
  BY <1>1, <1>2, <1>5, <1>6
     DEF AssertionsHold, PcState, OnProcessor, TypeOK, SchedTypeOK
<1>10. \A p \in Proc : pc[p] # "add_timer"
  BY <1>1 DEF AddTimerAlone
<1>11. (AddTimerAlone /\ HeadLater)'
  BY <1>1, <1>10 DEF AddTimerAlone, HeadLater
<1>12. TimerOwners'
  <2>. USE DEF TimerOwners
  <2>1. pc' = pc
    BY <1>1
  <2>2. \A i \in DOMAIN timer_list' : pc'[timer_list'[i].proc] = "sleep"
    BY <1>1, <1>7, <2>1
  <2>3. \A i, j \in DOMAIN timer_list' :
          timer_list'[i].proc = timer_list'[j].proc => i = j
    <3>. SUFFICES ASSUME NEW i \in DOMAIN timer_list', NEW j \in DOMAIN timer_list',
                         timer_list'[i].proc = timer_list'[j].proc
                  PROVE  i = j
      OBVIOUS
    <3>1. i \in Nat /\ j \in Nat /\ i + 1 \in DOMAIN timer_list /\ j + 1 \in DOMAIN timer_list
      BY <1>7
    <3>2. timer_list[i + 1].proc = timer_list[j + 1].proc
      BY <1>7
    <3>3. i + 1 = j + 1
      BY <3>1, <3>2
    <3>. QED BY <3>1, <3>3
  <2>4. \A p \in Proc : pc'[p] = "sleep" => wait_state'[p] \in {"0", "WT_TIMER"}
    <3>1. wait_state \in [Proc -> WaitState]
      BY DEF TypeOK, SchedTypeOK
    <3>. QED BY <1>5, <2>1, <3>1
  <2>. QED BY <2>2, <2>3, <2>4
<1>13. Waiters'
  BY <1>1, <1>2, <1>5 DEF Waiters, TypeOK, SchedTypeOK
<1>14. InDown'
  BY <1>1, <1>2, <1>5 DEF InDown, TypeOK, SchedTypeOK
<1>. QED BY <1>5, <1>8, <1>9, <1>11, <1>12, <1>13, <1>14, ParentsFrame

\* The end of run_timer_list keeps the invariant: the head that is left is due
\* later, and the quantum of the current process goes down by one at most.
LEMMA TickEndStep == IInv /\ TickEnd => IInv'
<1>. SUFFICES ASSUME IInv, TickEnd PROVE IInv'
  OBVIOUS
<1>. USE SchedAssumption, KernelAssumption
     DEF IInv, TickEnd, ProcTick, semVars
<1>1. trap = "timers" /\ trap' = "none" /\ (current # Idle => current \in Proc)
  BY DEF TypeOK, SchedTypeOK
<1>2. time_slice' \in [Proc -> 0 .. MAX_TIME_SLICE]
      /\ need_resched' \in [Proc \cup {Idle} -> BOOLEAN]
  <2>1. CASE current = Idle
    BY <2>1 DEF TypeOK, SchedTypeOK
  <2>2. CASE current # Idle
    <3>1. time_slice[current] \in 0 .. MAX_TIME_SLICE
      BY <1>1, <2>2 DEF TypeOK, SchedTypeOK
    <3>2. Countdown(time_slice[current]) \in 0 .. MAX_TIME_SLICE
      BY <3>1 DEF Countdown
    <3>3. time_slice' = [time_slice EXCEPT ![current] = Countdown(time_slice[current])]
      BY <2>2
    <3>4. PICK b \in BOOLEAN : need_resched' = [need_resched EXCEPT ![current] = b]
      BY <1>1, <2>2 DEF TypeOK, SchedTypeOK
    <3>. QED BY <3>2, <3>3, <3>4 DEF TypeOK, SchedTypeOK
  <2>. QED BY <2>1, <2>2
<1>3. \A p \in Proc : pc[p] # "add_timer"
  BY <1>1 DEF AddTimerAlone
<1>4. HeadLater'
  <2>1. timer_list # <<>> => /\ timer_list[1] \in Timer
                             /\ Head(timer_list) = timer_list[1]
    BY DEF TypeOK, SchedTypeOK
  <2>2. timer_list # <<>> => timer_list[1].expires \in Nat /\ timer_list[1].expires # 0
    BY <2>1 DEF HeadDue, Timer
  <2>. QED BY <2>2 DEF HeadLater
<1>5. (AssertionsHold /\ RunQueueExact)'
  BY RunQueueFrame DEF AssertionsHold
<1>6. CASE current \notin User
  <2>1. UNCHANGED pc
    BY <1>6
  <2>2. TypeOK'
    BY <1>1, <1>2, <2>1 DEF TypeOK, SchedTypeOK
  <2>3. (OnProcessor /\ AddTimerAlone)'
    BY <1>1, <1>3, <2>1 DEF OnProcessor, AddTimerAlone
  <2>. QED BY <1>4, <1>5, <2>1, <2>2, <2>3, PcStateFrame, TimerOwnersFrame, WaitersFrame,
              InDownFrame, ParentsFrame
<1>7. CASE current \in User
  <2>1. /\ current \in Proc /\ current # Initproc /\ pc[current] = "user"
        /\ pc' = [pc EXCEPT ![current] = "tail"]
    BY <1>1, <1>7 DEF Goto, OnProcessor, User
  <2>2. TypeOK'
    BY <1>1, <1>2, <2>1, QuietMove DEF TypeOK, SchedTypeOK, Quiet
  <2>3. (PcState /\ TimerOwners /\ AddTimerAlone /\ Waiters /\ InDown /\ Parents)'
    BY <2>1, QuietMove DEF Quiet
  <2>4. OnProcessor'
    BY <1>1, <2>1 DEF OnProcessor, TypeOK, SchedTypeOK
  <2>. QED BY <1>4, <1>5, <2>2, <2>3, <2>4
<1>. QED BY <1>6, <1>7
-----------------------------------------------------------------------------
(* Processes.                                                              *)

\* The places where a process depends on a timer or on a semaphore.
Blocking == {"sleep", "down", "add_timer"}

\* A process that runs outside add_timer and do_exit is RUNNABLE.
LEMMA Runner ==
  ASSUME IInv, NEW p \in Proc, Running(p),
         pc[p] \notin {"add_timer", "exit_wake", "reparent", "dead"}
  PROVE  /\ current = p /\ ~in_sched /\ trap = "none" /\ halt = "no"
         /\ state[p] = "RUNNABLE" /\ wait_state[p] = "0"
BY DEF IInv, Running, OnProcessor, PcState, TypeOK, SchedTypeOK

\* A step that moves nobody into or out of the places of Blocking, and does no
\* more to a process there than end a wait that may be interrupted, keeps what
\* the invariant says of timers and semaphores.
LEMMA Elsewhere ==
  ASSUME IInv, current \in Proc, pc[current] # "add_timer",
         \A r \in Proc : \/ pc'[r] = pc[r]
                         \/ pc[r] \notin Blocking /\ pc'[r] \notin Blocking,
         \A r \in Proc : pc[r] \in Blocking =>
           /\ arg'[r] = arg[r]
           /\ \/ state'[r] = state[r] /\ wait_state'[r] = wait_state[r]
              \/ /\ wait_state[r] \in {"WT_CHILD", "WT_TIMER", "WT_KBD"}
                 /\ state'[r] = "RUNNABLE" /\ wait_state'[r] = "0",
         UNCHANGED <<timer_list, trap, value, wait_queue, wakeup_flags, holds>>
  PROVE  (TimerOwners /\ HeadLater /\ AddTimerAlone /\ Waiters /\ InDown)'
<1>. USE DEF IInv, Blocking
<1>1. TimerOwners'
  <2>1. \A i \in DOMAIN timer_list : timer_list[i] \in Timer
    BY DEF TypeOK, SchedTypeOK
  <2>2. \A i \in DOMAIN timer_list : timer_list[i].proc \in Proc
    BY <2>1 DEF Timer
  <2>. QED BY <2>2 DEF TimerOwners
<1>2. AddTimerAlone'
  BY DEF AddTimerAlone
<1>3. Waiters'
  <2>1. ASSUME NEW s \in Sem, NEW r \in ToSet(wait_queue[s])
        PROVE  /\ r \in Proc /\ pc[r] = "down" /\ arg[r] = s
               /\ wait_state[r] = "WT_KSEM" /\ wakeup_flags[r] = "WT_INTERRUPTED"
    <3>1. wait_queue[s] \in Seq(Proc)
      BY DEF TypeOK
    <3>2. r \in Proc
      BY <3>1, InToSet
    <3>. QED BY <3>2 DEF Waiters
  <2>2. \A s \in Sem : \A r \in ToSet(wait_queue[s]) :
          /\ pc'[r] = "down" /\ arg'[r] = s
          /\ wait_state'[r] = "WT_KSEM" /\ wakeup_flags'[r] = "WT_INTERRUPTED"
    BY <2>1
  <2>3. \A s \in Sem : /\ IsInjective(wait_queue[s])
                       /\ value[s] > 0 => wait_queue[s] = <<>>
    BY DEF Waiters
  <2>. QED BY <2>2, <2>3 DEF Waiters
<1>4. InDown'
  BY DEF InDown
<1>. QED BY <1>1, <1>2, <1>3, <1>4, HeadLaterFrame

\* A step of the process on the processor from one quiet place to another.
LEMMA QuietStep ==
  ASSUME IInv, NEW p \in Proc, p # Initproc, Running(p), pc[p] \in Quiet,
         NEW l \in Quiet, pc' = [pc EXCEPT ![p] = l],
         in_sched' \in BOOLEAN, need_resched' \in [Proc \cup {Idle} -> BOOLEAN],
         UNCHANGED <<current, state, wait_state, time_slice, run_list, timer_list,
                     walk, trap, halt, arg, exiting, parent, nr_process, semVars>>
  PROVE  IInv'
<1>. USE DEF IInv, semVars
<1>1. current = p /\ trap = "none" /\ state[p] = "RUNNABLE"
  BY Runner DEF Quiet
<1>2. (PcState /\ TimerOwners /\ AddTimerAlone /\ Waiters /\ InDown /\ Parents)'
  BY <1>1, QuietMove
<1>3. TypeOK'
  BY QuietMove DEF TypeOK, SchedTypeOK
<1>4. (AssertionsHold /\ OnProcessor)'
  BY <1>1 DEF AssertionsHold, OnProcessor
<1>. QED BY <1>2, <1>3, <1>4, RunQueueFrame, HeadLaterFrame

\* The steps of a process that touch nothing but its own place and its
\* need_resched flag keep the invariant: the end of trap(), yield, a fork that fails,
\* exit and the return to user mode.
LEMMA QuietSteps ==
  ASSUME IInv, NEW p \in Proc,
         TrapTail(p) \/ Yield(p) \/ ForkFails(p) \/ Exit(p) \/ Leave(p)
  PROVE  IInv'
<1>. USE KernelAssumption
     DEF At, Goto, User, Caller, Return, Quiet, semVars, schedVars
<1>0. TypeOK /\ SchedTypeOK /\ Parents
  BY DEF IInv, TypeOK
<1>1. CASE TrapTail(p)
  <2>1. Running(p) /\ pc[p] = "tail" /\ p # Initproc /\ need_resched' = need_resched
    BY <1>0, <1>1 DEF TrapTail, Parents
  <2>2. in_sched' \in BOOLEAN
    BY <1>0, <1>1 DEF TrapTail, SchedTypeOK
  <2>3. CASE exiting[p]
    BY <1>0, <1>1, <2>1, <2>2, <2>3, QuietStep DEF TrapTail, SchedTypeOK
  <2>4. CASE ~exiting[p]
    BY <1>0, <1>1, <2>1, <2>2, <2>4, QuietStep DEF TrapTail, SchedTypeOK
  <2>. QED BY <2>3, <2>4
<1>2. CASE Yield(p)
  <2>1. Running(p) /\ pc[p] = "user" /\ p # Initproc
    BY <1>0, <1>2 DEF Yield, Parents
  <2>. QED BY <1>0, <1>2, <2>1, QuietStep DEF Yield, SchedTypeOK
<1>3. CASE ForkFails(p)
  <2>1. Running(p) /\ pc[p] = "user" /\ p # Initproc
    BY <1>0, <1>3 DEF ForkFails, Parents
  <2>. QED BY <1>0, <1>3, <2>1, QuietStep DEF ForkFails, SchedTypeOK
<1>4. CASE Exit(p)
  BY <1>0, <1>4, QuietStep DEF Exit, SchedTypeOK
<1>5. CASE Leave(p)
  <2>1. Running(p) /\ pc[p] = "kernel" /\ p # Initproc
    BY <1>5 DEF Leave
  <2>. QED BY <1>0, <1>5, <2>1, QuietStep DEF Leave, SchedTypeOK
<1>. QED BY <1>1, <1>2, <1>3, <1>4, <1>5

\* A process that moves between two other places.
LEMMA MoveOne ==
  ASSUME pc \in [Proc -> Label], NEW p \in Proc, pc[p] \notin Blocking,
         NEW l \in Label \ Blocking, pc' = [pc EXCEPT ![p] = l]
  PROVE  /\ pc' \in [Proc -> Label]
         /\ \A r \in Proc : \/ pc'[r] = pc[r]
                            \/ pc[r] \notin Blocking /\ pc'[r] \notin Blocking
<1>1. pc' \in [Proc -> Label]
  OBVIOUS
<1>2. ASSUME NEW r \in Proc
      PROVE  pc'[r] = pc[r] \/ (pc[r] \notin Blocking /\ pc'[r] \notin Blocking)
  <2>1. CASE r = p
    BY <2>1
  <2>2. CASE r # p
    BY <2>2
  <2>. QED BY <2>1, <2>2
<1>. QED BY <1>1, <1>2

\* Two processes that do, as in do_fork and do_wait.
LEMMA MoveTwo ==
  ASSUME pc \in [Proc -> Label],
         NEW p \in Proc, pc[p] \notin Blocking, NEW c \in Proc, pc[c] \notin Blocking,
         NEW l \in Label \ Blocking, NEW m \in Label \ Blocking,
         pc' = [pc EXCEPT ![c] = m, ![p] = l]
  PROVE  /\ pc' \in [Proc -> Label]
         /\ \A r \in Proc : \/ pc'[r] = pc[r]
                            \/ pc[r] \notin Blocking /\ pc'[r] \notin Blocking
<1>1. pc' \in [Proc -> Label]
  OBVIOUS
<1>2. ASSUME NEW r \in Proc
      PROVE  pc'[r] = pc[r] \/ (pc[r] \notin Blocking /\ pc'[r] \notin Blocking)
  <2>1. CASE r \in {p, c}
    BY <2>1
  <2>2. CASE r \notin {p, c}
    BY <2>2
  <2>. QED BY <2>1, <2>2
<1>. QED BY <1>1, <1>2

\* do_fork keeps the invariant: the child is new, so wakeup_proc may queue it.
LEMMA ForkStep ==
  ASSUME IInv, NEW p \in Proc, NEW c \in Proc, Fork(p, c) PROVE IInv'
<1>. USE SchedAssumption, KernelAssumption DEF IInv, semVars
<1>1. /\ Running(p) /\ pc[p] \in {"user", "kernel"}
      /\ state[c] = "NONE" /\ pc[c] = "none"
  BY DEF Fork, At, Caller, Free, PcState
<1>2. /\ current = p /\ ~in_sched /\ trap = "none" /\ halt = "no"
      /\ state[p] = "RUNNABLE" /\ wait_state[p] = "0" /\ c # p
      /\ c \notin ToSet(run_list) /\ c # Initproc
  BY <1>1, Runner DEF RunQueueExact, Parents
<1>3. /\ halt' = halt /\ UNCHANGED <<current, need_resched, timer_list, walk, in_sched, trap, arg>>
      /\ UNCHANGED <<value, wait_queue, wakeup_flags, holds>>
      /\ run_list' = Append(run_list, c)
      /\ time_slice' = [time_slice EXCEPT ![c] = Refill(c)]
      /\ state' = [state EXCEPT ![c] = "RUNNABLE"]
      /\ wait_state' = [wait_state EXCEPT ![c] = "0"]
      /\ parent' = [parent EXCEPT ![c] = p]
      /\ exiting' = [exiting EXCEPT ![c] = FALSE]
      /\ pc' = [pc EXCEPT ![c] = Caller(c), ![p] = Return(p)]
      /\ nr_process' = nr_process + 1
  BY <1>2 DEF Fork, KAssert, Unqueued, RR_enqueue, Enqueued
<1>4. /\ run_list' \in Seq(Proc) /\ IsInjective(run_list')
      /\ ToSet(run_list') = ToSet(run_list) \cup {c}
  BY <1>2, <1>3, AppendNew DEF RunQueueExact, TypeOK, SchedTypeOK
<1>5. Refill(c) \in 0 .. MAX_TIME_SLICE
  BY DEF Refill, TypeOK, SchedTypeOK
<1>6. TypeOK'
  <2>1. pc' \in [Proc -> Label]
    BY <1>1, <1>3, MoveTwo DEF TypeOK, Label, Blocking, Caller, Return
  <2>2. SchedTypeOK'
    BY <1>3, <1>4, <1>5 DEF TypeOK, SchedTypeOK, ProcState, WaitState
  <2>. QED BY <1>3, <2>1, <2>2 DEF TypeOK
<1>7. RunQueueExact'
  BY <1>2, <1>3, <1>4 DEF RunQueueExact, TypeOK, SchedTypeOK
<1>8. PcState'
  BY <1>1, <1>2, <1>3 DEF PcState, TypeOK, SchedTypeOK, Caller, Return
<1>9. (OnProcessor /\ AssertionsHold)'
  BY <1>2, <1>3 DEF OnProcessor, AssertionsHold, TypeOK, SchedTypeOK
<1>10. (TimerOwners /\ HeadLater /\ AddTimerAlone /\ Waiters /\ InDown)'
  <2>1. \A r \in Proc : \/ pc'[r] = pc[r]
                        \/ pc[r] \notin Blocking /\ pc'[r] \notin Blocking
    BY <1>1, <1>3, MoveTwo DEF TypeOK, Label, Blocking, Caller, Return
  <2>2. \A r \in Proc : pc[r] \in Blocking =>
          arg'[r] = arg[r] /\ state'[r] = state[r] /\ wait_state'[r] = wait_state[r]
    BY <1>1, <1>3 DEF TypeOK, SchedTypeOK, Blocking
  <2>. QED BY <1>1, <1>2, <1>3, <2>1, <2>2, Elsewhere
<1>11. Parents'
  BY <1>1, <1>2, <1>3 DEF Parents, TypeOK, Return
<1>. QED BY <1>6, <1>7, <1>8, <1>9, <1>10, <1>11

\* do_wait, wherever it is called from.
LEMMA DoWaitStep ==
  ASSUME IInv, NEW p \in Proc, Running(p), pc[p] \in {"user", "kernel", "loop", "wait"},
         NEW t \in Proc \cup Sem \cup {NULL}, do_wait(p, t)
  PROVE  IInv'
<1>. USE SchedAssumption, KernelAssumption DEF IInv
<1>1. /\ current = p /\ ~in_sched /\ trap = "none" /\ halt = "no"
      /\ state[p] = "RUNNABLE" /\ wait_state[p] = "0"
  BY Runner
<1>2. UNCHANGED <<value, wait_queue, wakeup_flags, holds>>
  BY DEF do_wait, semVars
<1>3. ASSUME NEW z \in Proc, state[z] = "ZOMBIE", Reap(p, z) PROVE IInv'
  <2>1. /\ z # p /\ z # Initproc /\ pc[z] \in {"exit_wake", "reparent", "dead"}
    BY <1>1, <1>3 DEF PcState, Parents
  <2>2. /\ state' = [state EXCEPT ![z] = "NONE"]
        /\ parent' = [parent EXCEPT ![z] = NULL]
        /\ exiting' = [exiting EXCEPT ![z] = FALSE]
        /\ need_resched' = [need_resched EXCEPT ![z] = FALSE]
        /\ time_slice' = [time_slice EXCEPT ![z] = 0]
        /\ arg' = [arg EXCEPT ![p] = NULL]
        /\ nr_process' = nr_process - 1
        /\ pc' = [pc EXCEPT ![z] = "none",
                            ![p] = IF p = Initproc THEN "loop" ELSE Return(p)]
        /\ in_sched' \in BOOLEAN
        /\ UNCHANGED <<current, wait_state, run_list, timer_list, walk, trap, halt>>
    BY <1>3 DEF Reap
  <2>3. TypeOK'
    <3>1. pc' \in [Proc -> Label]
      BY <2>1, <2>2, MoveTwo DEF TypeOK, Label, Blocking, Return
    <3>2. SchedTypeOK'
      BY <2>2 DEF TypeOK, SchedTypeOK, ProcState
    <3>. QED BY <1>2, <2>2, <3>1, <3>2 DEF TypeOK
  <2>4. (RunQueueExact /\ AssertionsHold)'
    BY <1>3, <2>2 DEF RunQueueExact, AssertionsHold, TypeOK, SchedTypeOK
  <2>5. PcState'
    BY <1>1, <1>3, <2>1, <2>2 DEF PcState, TypeOK, SchedTypeOK, Return
  <2>6. OnProcessor'
    BY <1>1, <2>1, <2>2 DEF OnProcessor, TypeOK, SchedTypeOK
  <2>7. (TimerOwners /\ HeadLater /\ AddTimerAlone /\ Waiters /\ InDown)'
    <3>1. \A r \in Proc : \/ pc'[r] = pc[r]
                          \/ pc[r] \notin Blocking /\ pc'[r] \notin Blocking
      BY <2>1, <2>2, MoveTwo DEF TypeOK, Label, Blocking, Return
    <3>2. \A r \in Proc : pc[r] \in Blocking =>
            arg'[r] = arg[r] /\ state'[r] = state[r] /\ wait_state'[r] = wait_state[r]
      BY <2>1, <2>2 DEF TypeOK, SchedTypeOK, Blocking
    <3>. QED BY <1>1, <1>2, <2>2, <3>1, <3>2, Elsewhere
  <2>8. Parents'
    BY <2>1, <2>2 DEF Parents, TypeOK
  <2>. QED BY <2>3, <2>4, <2>5, <2>6, <2>7, <2>8
<1>4. ASSUME WaitSleep(p, t) PROVE IInv'
  <2>1. /\ state' = [state EXCEPT ![p] = "SLEEPING"]
        /\ wait_state' = [wait_state EXCEPT ![p] = "WT_CHILD"]
        /\ arg' = [arg EXCEPT ![p] = t]
        /\ pc' = [pc EXCEPT ![p] = "wait"]
        /\ in_sched' = TRUE
        /\ UNCHANGED <<current, need_resched, time_slice, run_list, timer_list, walk,
                       trap, halt, exiting, parent, nr_process>>
    BY <1>4 DEF WaitSleep, SleepOn, Goto
  <2>2. TypeOK'
    BY <1>2, <2>1 DEF TypeOK, SchedTypeOK, ProcState, WaitState, Label
  <2>3. (RunQueueExact /\ AssertionsHold)'
    BY <1>1, <2>1 DEF RunQueueExact, AssertionsHold, TypeOK, SchedTypeOK
  <2>4. (PcState /\ OnProcessor)'
    BY <1>1, <2>1 DEF PcState, OnProcessor, TypeOK, SchedTypeOK
  <2>5. (TimerOwners /\ HeadLater /\ AddTimerAlone /\ Waiters /\ InDown)'
    <3>1. \A r \in Proc : \/ pc'[r] = pc[r]
                          \/ pc[r] \notin Blocking /\ pc'[r] \notin Blocking
      BY <2>1, MoveOne DEF TypeOK, Label, Blocking
    <3>2. \A r \in Proc : pc[r] \in Blocking =>
            arg'[r] = arg[r] /\ state'[r] = state[r] /\ wait_state'[r] = wait_state[r]
      BY <2>1 DEF TypeOK, SchedTypeOK, Blocking
    <3>. QED BY <1>1, <1>2, <2>1, <3>1, <3>2, Elsewhere
  <2>6. Parents'
    BY <2>1 DEF Parents, TypeOK
  <2>. QED BY <2>2, <2>3, <2>4, <2>5, <2>6
<1>5. ASSUME NoChild(p) PROVE IInv'
  <2>1. /\ halt' \in {"no", "done", "left"}
        /\ arg' = [arg EXCEPT ![p] = NULL]
        /\ pc' = [pc EXCEPT ![p] = Return(p)]
        /\ UNCHANGED <<current, state, wait_state, need_resched, time_slice, run_list,
                       timer_list, walk, in_sched, trap, exiting, parent, nr_process>>
    BY <1>1, <1>5 DEF NoChild, Goto
  <2>2. TypeOK'
    BY <1>2, <2>1 DEF TypeOK, SchedTypeOK, Label, Return
  <2>3. (RunQueueExact /\ AssertionsHold)'
    BY <2>1, RunQueueFrame DEF AssertionsHold
  <2>4. (PcState /\ OnProcessor)'
    BY <1>1, <2>1 DEF PcState, OnProcessor, TypeOK, SchedTypeOK, Return
  <2>5. (TimerOwners /\ HeadLater /\ AddTimerAlone /\ Waiters /\ InDown)'
    <3>1. \A r \in Proc : \/ pc'[r] = pc[r]
                          \/ pc[r] \notin Blocking /\ pc'[r] \notin Blocking
      BY <2>1, MoveOne DEF TypeOK, Label, Blocking, Return
    <3>2. \A r \in Proc : pc[r] \in Blocking =>
            arg'[r] = arg[r] /\ state'[r] = state[r] /\ wait_state'[r] = wait_state[r]
      BY <2>1 DEF TypeOK, SchedTypeOK, Blocking
    <3>. QED BY <1>1, <1>2, <2>1, <3>1, <3>2, Elsewhere
  <2>6. Parents'
    BY <2>1 DEF Parents, TypeOK, Return
  <2>. QED BY <2>2, <2>3, <2>4, <2>5, <2>6
<1>. QED BY <1>3, <1>4, <1>5 DEF do_wait, Children

\* The calls that reach do_wait keep the invariant: wait() of a user process and
\* the loop of init_main.
LEMMA WaitSteps ==
  ASSUME IInv, NEW p \in Proc,
         \/ \E t \in Proc \cup {NULL} : Wait(p, t)
         \/ p = Initproc /\ InitWait
         \/ WaitAgain(p)
  PROVE  IInv'
<1>. USE KernelAssumption DEF At
<1>1. CASE \E t \in Proc \cup {NULL} : Wait(p, t)
  BY <1>1, DoWaitStep DEF Wait
<1>2. CASE p = Initproc /\ InitWait
  BY <1>2, DoWaitStep DEF InitWait
<1>3. CASE WaitAgain(p)
  <2>0. Running(p) /\ pc[p] = "wait"
    BY <1>3 DEF WaitAgain
  <2>1. CASE ~exiting[p]
    <3>1. arg[p] \in Proc \cup Sem \cup {NULL}
      BY DEF IInv, TypeOK
    <3>. QED BY <1>3, <2>0, <2>1, <3>1, DoWaitStep DEF WaitAgain
  <2>2. CASE exiting[p]
    <3>. USE DEF IInv
    <3>1. /\ arg' = [arg EXCEPT ![p] = NULL] /\ pc' = [pc EXCEPT ![p] = "exit"]
          /\ UNCHANGED <<current, state, wait_state, need_resched, time_slice, run_list,
                         timer_list, walk, in_sched, trap, halt, exiting, parent, nr_process,
                         value, wait_queue, wakeup_flags, holds>>
          /\ p # Initproc
      BY <1>3, <2>2 DEF WaitAgain, Goto, schedVars, semVars, Parents
    <3>2. current = p /\ trap = "none" /\ state[p] = "RUNNABLE"
      BY <2>0, Runner
    <3>3. TypeOK'
      BY <3>1 DEF TypeOK, SchedTypeOK, Label
    <3>4. (RunQueueExact /\ AssertionsHold)'
      BY <3>1, RunQueueFrame DEF AssertionsHold
    <3>5. (PcState /\ OnProcessor)'
      BY <2>0, <3>1, <3>2 DEF PcState, OnProcessor, TypeOK, SchedTypeOK
    <3>6. (TimerOwners /\ HeadLater /\ AddTimerAlone /\ Waiters /\ InDown)'
      <4>1. \A r \in Proc : \/ pc'[r] = pc[r]
                            \/ pc[r] \notin Blocking /\ pc'[r] \notin Blocking
        BY <2>0, <3>1, MoveOne DEF TypeOK, Label, Blocking
      <4>2. \A r \in Proc : pc[r] \in Blocking =>
              arg'[r] = arg[r] /\ state'[r] = state[r] /\ wait_state'[r] = wait_state[r]
        BY <2>0, <3>1 DEF TypeOK, SchedTypeOK, Blocking
      <4>. QED BY <2>0, <3>1, <3>2, <4>1, <4>2, Elsewhere
    <3>7. Parents'
      BY <2>0, <3>1 DEF Parents, TypeOK
    <3>. QED BY <3>3, <3>4, <3>5, <3>6, <3>7
  <2>. QED BY <2>1, <2>2
<1>. QED BY <1>1, <1>2, <1>3

\* What WakeIfWaiting does to the process q in the middle of a step that leaves
\* the processor alone.
LEMMA WakeWaiting ==
  ASSUME IInv, NEW q \in Proc, WakeIfWaiting(q), UNCHANGED current
  PROVE  /\ halt' = halt
         /\ \/ UNCHANGED <<state, wait_state, run_list, time_slice>>
            \/ /\ wait_state[q] = "WT_CHILD" /\ state[q] = "SLEEPING"
               /\ state' = [state EXCEPT ![q] = "RUNNABLE"]
               /\ wait_state' = [wait_state EXCEPT ![q] = "0"]
         /\ run_list' \in Seq(Proc)
         /\ time_slice' \in [Proc -> 0 .. MAX_TIME_SLICE]
         /\ RunQueueExact'
<1>. USE DEF IInv
<1>1. CASE wait_state[q] = "WT_CHILD"
  <2>1. state[q] = "SLEEPING" /\ wakeup_proc(q)
    BY <1>1 DEF PcState, WakeIfWaiting
  <2>. QED BY <1>1, <2>1, WakeupSleeper DEF WakeIfWaiting, KAssert
<1>2. CASE wait_state[q] # "WT_CHILD"
  <2>1. UNCHANGED <<halt, state, wait_state, run_list, time_slice>>
    BY <1>2 DEF WakeIfWaiting
  <2>. QED BY <2>1, RunQueueFrame DEF TypeOK, SchedTypeOK
<1>. QED BY <1>1, <1>2

\* The states of processes, one of which may have been woken.
LEMMA WokenTypes ==
  ASSUME TypeOK, NEW q \in Proc,
         \/ UNCHANGED <<state, wait_state>>
         \/ /\ state' = [state EXCEPT ![q] = "RUNNABLE"]
            /\ wait_state' = [wait_state EXCEPT ![q] = "0"]
  PROVE  /\ state' \in [Proc \cup {Idle} -> ProcState]
         /\ wait_state' \in [Proc -> WaitState]
<1>1. /\ state \in [Proc \cup {Idle} -> ProcState] /\ wait_state \in [Proc -> WaitState]
      /\ "RUNNABLE" \in ProcState /\ "0" \in WaitState
  BY DEF TypeOK, SchedTypeOK, ProcState, WaitState
<1>2. state' = state \/ state' = [state EXCEPT ![q] = "RUNNABLE"]
  OBVIOUS
<1>3. wait_state' = wait_state \/ wait_state' = [wait_state EXCEPT ![q] = "0"]
  OBVIOUS
<1>4. state' \in [Proc \cup {Idle} -> ProcState]
  BY <1>1, <1>2
<1>5. wait_state' \in [Proc -> WaitState]
  BY <1>1, <1>3
<1>. QED BY <1>4, <1>5

\* do_exit up to the ZOMBIE state keeps the invariant.
LEMMA DoExitStep ==
  ASSUME IInv, NEW p \in Proc, DoExit(p) PROVE IInv'
<1>. USE DEF IInv
<1>1. /\ Running(p) /\ pc[p] = "exit" /\ p # Initproc
      /\ current = p /\ trap = "none" /\ state[p] = "RUNNABLE" /\ wait_state[p] = "0"
  BY Runner DEF DoExit, At, Parents
<1>2. /\ state' = [state EXCEPT ![p] = "ZOMBIE"]
      /\ pc' = [pc EXCEPT ![p] = "exit_wake"]
      /\ UNCHANGED <<current, wait_state, need_resched, time_slice, run_list, timer_list,
                     walk, in_sched, trap, halt, arg, exiting, parent, nr_process,
                     value, wait_queue, wakeup_flags, holds>>
  BY DEF DoExit, Goto, semVars
<1>3. TypeOK'
  BY <1>2 DEF TypeOK, SchedTypeOK, ProcState, Label
<1>4. (RunQueueExact /\ AssertionsHold)'
  BY <1>1, <1>2 DEF RunQueueExact, AssertionsHold, TypeOK, SchedTypeOK
<1>5. (PcState /\ OnProcessor)'
  BY <1>1, <1>2 DEF PcState, OnProcessor, TypeOK, SchedTypeOK
<1>6. (TimerOwners /\ HeadLater /\ AddTimerAlone /\ Waiters /\ InDown)'
  <2>1. \A r \in Proc : pc'[r] = pc[r] \/ (pc[r] \notin Blocking /\ pc'[r] \notin Blocking)
    BY <1>1, <1>2, MoveOne DEF TypeOK, Label, Blocking
  <2>2. \A r \in Proc : pc[r] \in Blocking =>
          arg'[r] = arg[r] /\ state'[r] = state[r] /\ wait_state'[r] = wait_state[r]
    BY <1>1, <1>2 DEF TypeOK, SchedTypeOK, Blocking
  <2>. QED BY <1>1, <1>2, <2>1, <2>2, Elsewhere
<1>7. Parents'
  BY <1>1, <1>2 DEF Parents, TypeOK
<1>. QED BY <1>3, <1>4, <1>5, <1>6, <1>7

\* The wakeup of the parent by a dying process keeps the invariant: the parent
\* is woken only while it sleeps for a child.
LEMMA ExitWakeStep ==
  ASSUME IInv, NEW p \in Proc, ExitWake(p) PROVE IInv'
<1>. USE KernelAssumption DEF IInv
<1>1. /\ pc[p] = "exit_wake" /\ p # Initproc /\ state[p] = "ZOMBIE"
      /\ current = p /\ ~in_sched /\ trap = "none"
  BY DEF ExitWake, At, Running, Parents, PcState
<1>. DEFINE q == parent[p]
<1>2. q \in Proc
  BY <1>1 DEF Parents
<1>3. /\ WakeIfWaiting(q)
      /\ pc' = [pc EXCEPT ![p] = "reparent"]
      /\ UNCHANGED <<current, need_resched, timer_list, walk, in_sched, trap, arg, exiting,
                     parent, nr_process, value, wait_queue, wakeup_flags, holds>>
  BY DEF ExitWake, Goto, semVars
<1>. HIDE DEF q
<1>4. /\ halt' = halt /\ run_list' \in Seq(Proc)
      /\ time_slice' \in [Proc -> 0 .. MAX_TIME_SLICE] /\ RunQueueExact'
      /\ \/ UNCHANGED <<state, wait_state>>
         \/ /\ wait_state[q] = "WT_CHILD" /\ state[q] = "SLEEPING"
            /\ state' = [state EXCEPT ![q] = "RUNNABLE"]
            /\ wait_state' = [wait_state EXCEPT ![q] = "0"]
  BY <1>2, <1>3, WakeWaiting
<1>5. pc' \in [Proc -> Label]
  BY <1>3 DEF TypeOK, Label
<1>6. TypeOK'
  <2>1. state' \in [Proc \cup {Idle} -> ProcState] /\ wait_state' \in [Proc -> WaitState]
    BY <1>2, <1>4, WokenTypes
  <2>. QED BY <1>2, <1>3, <1>4, <1>5, <2>1 DEF TypeOK, SchedTypeOK
<1>7. AssertionsHold'
  BY <1>4 DEF AssertionsHold
<1>8. PcState'
  BY <1>1, <1>2, <1>3, <1>4 DEF PcState, TypeOK, SchedTypeOK
<1>9. OnProcessor'
  BY <1>1, <1>2, <1>3, <1>4 DEF OnProcessor, TypeOK, SchedTypeOK
<1>10. (TimerOwners /\ HeadLater /\ AddTimerAlone /\ Waiters /\ InDown)'
  <2>1. \A r \in Proc : pc'[r] = pc[r] \/ (pc[r] \notin Blocking /\ pc'[r] \notin Blocking)
    BY <1>1, <1>3, MoveOne DEF TypeOK, Label, Blocking
  <2>2. \A r \in Proc :
          /\ arg'[r] = arg[r]
          /\ \/ state'[r] = state[r] /\ wait_state'[r] = wait_state[r]
             \/ /\ wait_state[r] \in {"WT_CHILD", "WT_TIMER", "WT_KBD"}
                /\ state'[r] = "RUNNABLE" /\ wait_state'[r] = "0"
    BY <1>2, <1>3, <1>4 DEF TypeOK, SchedTypeOK
  <2>. QED BY <1>1, <1>3, <2>1, <2>2, Elsewhere
<1>11. Parents'
  BY <1>1, <1>3 DEF Parents, TypeOK
<1>. QED BY <1>4, <1>6, <1>7, <1>8, <1>9, <1>10, <1>11

\* One turn of do_exit's loop over the children keeps the invariant: initproc is
\* woken only while it sleeps for a child.
LEMMA ReparentStep ==
  ASSUME IInv, NEW p \in Proc, NEW c \in Proc, Reparent(p, c) PROVE IInv'
<1>. USE KernelAssumption DEF IInv
<1>1. /\ pc[p] = "reparent" /\ state[p] = "ZOMBIE"
      /\ current = p /\ ~in_sched /\ trap = "none" /\ Initproc \in Proc
  BY DEF Reparent, At, Running, PcState
<1>2. /\ parent' = [parent EXCEPT ![c] = Initproc]
      /\ UNCHANGED <<current, need_resched, timer_list, walk, in_sched, trap, pc, arg, exiting,
                     nr_process, value, wait_queue, wakeup_flags, holds>>
  BY DEF Reparent, semVars
<1>3. /\ halt' = halt /\ run_list' \in Seq(Proc)
      /\ time_slice' \in [Proc -> 0 .. MAX_TIME_SLICE] /\ RunQueueExact'
      /\ \/ UNCHANGED <<state, wait_state>>
         \/ /\ wait_state[Initproc] = "WT_CHILD" /\ state[Initproc] = "SLEEPING"
            /\ state' = [state EXCEPT ![Initproc] = "RUNNABLE"]
            /\ wait_state' = [wait_state EXCEPT ![Initproc] = "0"]
  <2>1. CASE state[c] = "ZOMBIE"
    BY <1>1, <1>2, <2>1, WakeWaiting DEF Reparent
  <2>2. CASE state[c] # "ZOMBIE"
    <3>1. UNCHANGED <<halt, state, wait_state, run_list, time_slice>>
      BY <2>2 DEF Reparent
    <3>. QED BY <1>2, <3>1, RunQueueFrame DEF TypeOK, SchedTypeOK
  <2>. QED BY <2>1, <2>2
<1>4. TypeOK'
  <2>1. state' \in [Proc \cup {Idle} -> ProcState] /\ wait_state' \in [Proc -> WaitState]
    BY <1>1, <1>3, WokenTypes
  <2>. QED BY <1>1, <1>2, <1>3, <2>1 DEF TypeOK, SchedTypeOK
<1>5. AssertionsHold'
  BY <1>3 DEF AssertionsHold
<1>6. (PcState /\ OnProcessor)'
  BY <1>1, <1>2, <1>3 DEF PcState, OnProcessor, TypeOK, SchedTypeOK
<1>7. (TimerOwners /\ HeadLater /\ AddTimerAlone /\ Waiters /\ InDown)'
  <2>1. \A r \in Proc :
          /\ arg'[r] = arg[r]
          /\ \/ state'[r] = state[r] /\ wait_state'[r] = wait_state[r]
             \/ /\ wait_state[r] \in {"WT_CHILD", "WT_TIMER", "WT_KBD"}
                /\ state'[r] = "RUNNABLE" /\ wait_state'[r] = "0"
    BY <1>1, <1>2, <1>3 DEF TypeOK, SchedTypeOK
  <2>. QED BY <1>1, <1>2, <2>1, Elsewhere
<1>8. Parents'
  BY <1>1, <1>2 DEF Parents, TypeOK
<1>. QED BY <1>3, <1>4, <1>5, <1>6, <1>7, <1>8

\* The last schedule() of do_exit keeps the invariant.
LEMMA DieStep ==
  ASSUME IInv, NEW p \in Proc, Die(p) PROVE IInv'
<1>. USE DEF IInv
<1>1. /\ pc[p] = "reparent" /\ p # Initproc /\ state[p] = "ZOMBIE"
      /\ current = p /\ trap = "none"
  BY DEF Die, At, Running, Parents, PcState
<1>2. /\ pc' = [pc EXCEPT ![p] = "dead"] /\ in_sched' = TRUE
      /\ UNCHANGED <<current, state, wait_state, need_resched, time_slice, run_list, timer_list,
                     walk, trap, halt, arg, exiting, parent, nr_process,
                     value, wait_queue, wakeup_flags, holds>>
  BY DEF Die, Goto, semVars
<1>3. TypeOK'
  BY <1>2 DEF TypeOK, SchedTypeOK, Label
<1>4. (RunQueueExact /\ AssertionsHold)'
  BY <1>2, RunQueueFrame DEF AssertionsHold
<1>5. (PcState /\ OnProcessor)'
  BY <1>1, <1>2 DEF PcState, OnProcessor, TypeOK, SchedTypeOK
<1>6. (TimerOwners /\ HeadLater /\ AddTimerAlone /\ Waiters /\ InDown)'
  <2>1. \A r \in Proc : pc'[r] = pc[r] \/ (pc[r] \notin Blocking /\ pc'[r] \notin Blocking)
    BY <1>1, <1>2, MoveOne DEF TypeOK, Label, Blocking
  <2>. QED BY <1>1, <1>2, <2>1, Elsewhere
<1>7. Parents'
  BY <1>1, <1>2 DEF Parents, TypeOK
<1>. QED BY <1>3, <1>4, <1>5, <1>6, <1>7

\* do_kill keeps the invariant: it wakes a sleeper that may be interrupted, which
\* is in no semaphore's queue.
LEMMA KillStep ==
  ASSUME IInv, NEW p \in Proc, NEW q \in Killable, Kill(p, q) PROVE IInv'
<1>. USE KernelAssumption DEF IInv
<1>1. /\ pc[p] = "user" /\ Running(p) /\ p # Initproc /\ q \in Proc /\ q # Initproc
      /\ current = p /\ ~in_sched /\ trap = "none"
      /\ state[p] = "RUNNABLE" /\ wait_state[p] = "0"
  BY Runner DEF Kill, At, Parents
<1>2. /\ pc' = [pc EXCEPT ![p] = "tail"]
      /\ exiting' \in [Proc -> BOOLEAN] /\ exiting'[Initproc] = exiting[Initproc]
      /\ UNCHANGED <<current, need_resched, timer_list, walk, in_sched, trap, arg, parent,
                     nr_process, value, wait_queue, wakeup_flags, holds>>
  BY <1>1 DEF Kill, Goto, semVars, TypeOK
<1>3. /\ halt' = halt /\ run_list' \in Seq(Proc)
      /\ time_slice' \in [Proc -> 0 .. MAX_TIME_SLICE] /\ RunQueueExact'
      /\ \/ UNCHANGED <<state, wait_state>>
         \/ /\ wait_state[q] \in {"WT_CHILD", "WT_TIMER", "WT_KBD"} /\ state[q] = "SLEEPING"
            /\ state' = [state EXCEPT ![q] = "RUNNABLE"]
            /\ wait_state' = [wait_state EXCEPT ![q] = "0"]
  <2>1. CASE ~(Free(q) \/ exiting[q]) /\ Interruptible(wait_state[q])
    <3>1. state[q] = "SLEEPING" /\ wakeup_proc(q) /\ KAssert(WakeupAsserts(q))
      BY <1>1, <2>1 DEF Kill, PcState, Interruptible
    <3>. QED BY <1>1, <1>2, <2>1, <3>1, WakeupSleeper DEF KAssert, Interruptible
  <2>2. CASE ~(~(Free(q) \/ exiting[q]) /\ Interruptible(wait_state[q]))
    <3>1. UNCHANGED <<halt, state, wait_state, run_list, time_slice>>
      BY <2>2 DEF Kill
    <3>. QED BY <1>2, <3>1, RunQueueFrame DEF TypeOK, SchedTypeOK
  <2>. QED BY <2>1, <2>2
<1>4. pc' \in [Proc -> Label]
  BY <1>2 DEF TypeOK, Label
<1>5. TypeOK'
  <2>1. state' \in [Proc \cup {Idle} -> ProcState] /\ wait_state' \in [Proc -> WaitState]
    BY <1>1, <1>3, WokenTypes
  <2>. QED BY <1>1, <1>2, <1>3, <1>4, <2>1 DEF TypeOK, SchedTypeOK
<1>6. AssertionsHold'
  BY <1>3 DEF AssertionsHold
<1>7. (PcState /\ OnProcessor)'
  BY <1>1, <1>2, <1>3 DEF PcState, OnProcessor, TypeOK, SchedTypeOK
<1>8. (TimerOwners /\ HeadLater /\ AddTimerAlone /\ Waiters /\ InDown)'
  <2>1. \A r \in Proc : pc'[r] = pc[r] \/ (pc[r] \notin Blocking /\ pc'[r] \notin Blocking)
    BY <1>1, <1>2, MoveOne DEF TypeOK, Label, Blocking
  <2>2. \A r \in Proc :
          /\ arg'[r] = arg[r]
          /\ \/ state'[r] = state[r] /\ wait_state'[r] = wait_state[r]
             \/ /\ wait_state[r] \in {"WT_CHILD", "WT_TIMER", "WT_KBD"}
                /\ state'[r] = "RUNNABLE" /\ wait_state'[r] = "0"
    BY <1>1, <1>2, <1>3 DEF TypeOK, SchedTypeOK
  <2>. QED BY <1>1, <1>2, <2>1, <2>2, Elsewhere
<1>9. Parents'
  BY <1>1, <1>2 DEF Parents, TypeOK
<1>. QED BY <1>3, <1>5, <1>6, <1>7, <1>8, <1>9

-----------------------------------------------------------------------------
(* do_sleep and the timer list.                                            *)

\* One element of the timer list gets another delay.
LEMMA ReplaceTimer ==
  ASSUME NEW list \in Seq(Timer), NEW i \in 1 .. Len(list), NEW e \in Nat
  PROVE  /\ [list EXCEPT ![i].expires = e] \in Seq(Timer)
         /\ Len([list EXCEPT ![i].expires = e]) = Len(list)
         /\ \A j \in 1 .. Len(list) :
              /\ [list EXCEPT ![i].expires = e][j].proc = list[j].proc
              /\ [list EXCEPT ![i].expires = e][j].expires
                   = IF j = i THEN e ELSE list[j].expires
<1>. DEFINE t == [list[i] EXCEPT !.expires = e]
<1>1. list[i] \in Timer
  OBVIOUS
<1>2. t \in Timer /\ t.proc = list[i].proc /\ t.expires = e
  BY <1>1 DEF Timer
<1>3. [list EXCEPT ![i].expires = e] = [list EXCEPT ![i] = t]
  OBVIOUS
<1>. HIDE DEF t
<1>. QED BY <1>2, <1>3

\* del_timer passes the delay of a timer on to the one behind it.
LEMMA PassedOnTimer ==
  ASSUME timer_list \in Seq(Timer), NEW i \in 1 .. Len(timer_list)
  PROVE  /\ PassedOn(i) \in Seq(Timer)
         /\ Len(PassedOn(i)) = Len(timer_list)
         /\ \A j \in 1 .. Len(timer_list) :
              /\ PassedOn(i)[j].proc = timer_list[j].proc
              /\ PassedOn(i)[j].expires >= timer_list[j].expires
              /\ j = i + 1 => PassedOn(i)[j].expires >= timer_list[i].expires
<1>1. \A j \in 1 .. Len(timer_list) : timer_list[j] \in Timer
  OBVIOUS
<1>2. \A j \in 1 .. Len(timer_list) : timer_list[j].expires \in Nat
  BY <1>1 DEF Timer
<1>3. CASE i < Len(timer_list)
  <2>. DEFINE e == timer_list[i + 1].expires + timer_list[i].expires
  <2>1. e \in Nat /\ i + 1 \in 1 .. Len(timer_list)
    BY <1>2, <1>3
  <2>2. PassedOn(i) = [timer_list EXCEPT ![i + 1].expires = e]
    BY <1>3 DEF PassedOn
  <2>3. e >= timer_list[i + 1].expires /\ e >= timer_list[i].expires
    BY <1>2, <2>1
  <2>. HIDE DEF e
  <2>. QED BY <1>2, <2>1, <2>2, <2>3, ReplaceTimer
<1>4. CASE ~(i < Len(timer_list))
  BY <1>2, <1>4 DEF PassedOn
<1>. QED BY <1>3, <1>4

\* do_sleep up to add_timer keeps the invariant: the process has no timer yet.
LEMMA SleepStep ==
  ASSUME IInv, NEW p \in Proc, NEW time \in 1 .. MaxSleep, Sleep(p, time) PROVE IInv'
<1>. USE KernelAssumption DEF IInv
<1>1. /\ pc[p] \in {"user", "kernel"} /\ p # Initproc
      /\ current = p /\ ~in_sched /\ trap = "none" /\ state[p] = "RUNNABLE"
  BY Runner DEF Sleep, At, Caller
<1>2. /\ state' = [state EXCEPT ![p] = "SLEEPING"]
      /\ wait_state' = [wait_state EXCEPT ![p] = "WT_TIMER"]
      /\ walk' = [pos |-> 1, expires |-> time]
      /\ pc' = [pc EXCEPT ![p] = "add_timer"]
      /\ UNCHANGED <<current, need_resched, time_slice, run_list, timer_list, in_sched, trap,
                     halt, arg, exiting, parent, nr_process,
                     value, wait_queue, wakeup_flags, holds>>
  BY DEF Sleep, SleepOn, Goto, semVars
<1>3. walk' \in [pos : Nat \ {0}, expires : Nat] /\ walk'.pos = 1 /\ walk'.expires > 0
  BY <1>2
<1>4. TypeOK'
  BY <1>2, <1>3 DEF TypeOK, SchedTypeOK, ProcState, WaitState, Label
<1>5. (RunQueueExact /\ AssertionsHold)'
  BY <1>1, <1>2 DEF RunQueueExact, AssertionsHold, TypeOK, SchedTypeOK
<1>6. (PcState /\ OnProcessor)'
  BY <1>1, <1>2 DEF PcState, OnProcessor, TypeOK, SchedTypeOK
<1>7. AddTimerAlone'
  <2>1. Len(timer_list) \in Nat
    BY DEF TypeOK, SchedTypeOK
  <2>. QED BY <1>1, <1>2, <1>3, <2>1 DEF AddTimerAlone, TypeOK, SchedTypeOK
<1>8. TimerOwners'
  BY <1>1, <1>2 DEF TimerOwners, TypeOK, SchedTypeOK
<1>9. Waiters'
  BY <1>1, <1>2 DEF Waiters, TypeOK, SchedTypeOK
<1>10. InDown'
  BY <1>1, <1>2 DEF InDown, TypeOK, SchedTypeOK
<1>11. Parents'
  BY <1>1, <1>2 DEF Parents, TypeOK
<1>. QED BY <1>2, <1>4, <1>5, <1>6, <1>7, <1>8, <1>9, <1>10, <1>11, HeadLaterFrame

\* One turn of add_timer's loop keeps the invariant: the cursor stays on the list.
LEMMA AddTimerWalkStep ==
  ASSUME IInv, NEW p \in Proc, AddTimerWalk(p) PROVE IInv'
<1>. USE DEF IInv, procVars, semVars
<1>1. /\ timer_list \in Seq(Timer) /\ walk.pos \in Nat \ {0} /\ walk.expires \in Nat
  BY DEF TypeOK, SchedTypeOK
<1>2. walk.pos \in 1 .. Len(timer_list)
  BY <1>1 DEF AddTimerWalk, PassTimer
<1>3. timer_list[walk.pos].expires \in Nat
  <2>1. timer_list[walk.pos] \in Timer
    BY <1>1, <1>2
  <2>. QED BY <2>1 DEF Timer
<1>4. /\ walk' = [pos |-> walk.pos + 1, expires |-> walk.expires - timer_list[walk.pos].expires]
      /\ walk.expires >= timer_list[walk.pos].expires
      /\ UNCHANGED <<current, state, wait_state, need_resched, time_slice, run_list, timer_list,
                     in_sched, trap, halt, pc, arg, exiting, parent, nr_process,
                     value, wait_queue, wakeup_flags, holds>>
  BY DEF AddTimerWalk, PassTimer
<1>5. /\ walk' \in [pos : Nat \ {0}, expires : Nat]
      /\ walk'.pos \in 2 .. Len(timer_list) + 1
  BY <1>1, <1>2, <1>3, <1>4
<1>6. TypeOK'
  BY <1>4, <1>5 DEF TypeOK, SchedTypeOK
<1>7. AddTimerAlone'
  BY <1>1, <1>4, <1>5 DEF AddTimerAlone
<1>. QED BY <1>4, <1>6, <1>7, RunQueueFrame, PcStateFrame, OnProcessorFrame, TimerOwnersFrame,
            HeadLaterFrame, WaitersFrame, InDownFrame, ParentsFrame DEF AssertionsHold

\* The insertion of add_timer keeps the invariant: every process keeps one timer
\* at most, and no delay goes below zero.
LEMMA AddTimerPlaceStep ==
  ASSUME IInv, NEW p \in Proc, AddTimerPlace(p) PROVE IInv'
<1>. USE KernelAssumption DEF IInv
<1>. DEFINE n == Len(timer_list)
            behind == walk.pos <= n
            relative == IF behind
                    THEN [timer_list EXCEPT ![walk.pos].expires =
                            timer_list[walk.pos].expires - walk.expires]
                    ELSE timer_list
            added == [proc |-> p, expires |-> walk.expires]
<1>1. /\ pc[p] = "add_timer" /\ p # Initproc /\ current = p /\ trap = "none"
      /\ state[p] = "SLEEPING" /\ wait_state[p] = "WT_TIMER"
      /\ walk.pos <= n + 1 /\ (walk.pos = 1 => walk.expires > 0)
  BY DEF AddTimerPlace, At, Running, Parents, AddTimerAlone, PcState
<1>2. /\ timer_list \in Seq(Timer) /\ n \in Nat
      /\ walk.pos \in 1 .. n + 1 /\ walk.expires \in Nat /\ added \in Timer
  BY <1>1 DEF TypeOK, SchedTypeOK, Timer
<1>3. \A i \in 1 .. n : timer_list[i] \in Timer /\ timer_list[i].expires \in Nat
                        /\ timer_list[i].proc \in Proc
  <2>1. \A i \in 1 .. n : timer_list[i] \in Timer
    BY <1>2
  <2>. QED BY <2>1 DEF Timer
<1>4. /\ behind => walk.expires < timer_list[walk.pos].expires
      /\ timer_list' = InsertAt(relative, walk.pos, added)
      /\ walk' = [pos |-> 1, expires |-> 0]
      /\ pc' = [pc EXCEPT ![p] = "sleep"]
      /\ in_sched' = TRUE
      /\ UNCHANGED <<current, state, wait_state, need_resched, time_slice, run_list, trap, halt,
                     arg, exiting, parent, nr_process, value, wait_queue, wakeup_flags, holds>>
  BY DEF AddTimerPlace, PlaceTimer, Goto, semVars
<1>5. PICK list \in Seq(Timer) :
      /\ timer_list' = InsertAt(list, walk.pos, added)
      /\ Len(list) = n
      /\ \A i \in 1 .. n : /\ list[i].proc = timer_list[i].proc
                           /\ i # walk.pos => list[i].expires = timer_list[i].expires
  <2>0. timer_list' = InsertAt(relative, walk.pos, added)
    BY <1>4
  <2>1. CASE behind
    <3>1. walk.pos \in 1 .. n /\ timer_list[walk.pos].expires - walk.expires \in Nat
      BY <1>2, <1>3, <1>4, <2>1
    <3>2. relative = [timer_list EXCEPT ![walk.pos].expires =
                        timer_list[walk.pos].expires - walk.expires]
      BY <2>1
    <3>3. /\ relative \in Seq(Timer) /\ Len(relative) = n
          /\ \A i \in 1 .. n : /\ relative[i].proc = timer_list[i].proc
                               /\ i # walk.pos => relative[i].expires = timer_list[i].expires
      BY <1>2, <3>1, <3>2, ReplaceTimer
    <3>. QED BY <2>0, <3>3
  <2>2. CASE ~behind
    BY <1>2, <2>0, <2>2
  <2>. QED BY <2>1, <2>2
<1>. HIDE DEF added
<1>6. /\ timer_list' \in Seq(Timer) /\ Len(timer_list') = n + 1
      /\ \A j \in 1 .. walk.pos - 1 : timer_list'[j] = list[j]
      /\ timer_list'[walk.pos] = added
      /\ \A j \in walk.pos + 1 .. n + 1 : timer_list'[j] = list[j - 1]
  <2>1. walk.pos \in 1 .. Len(list) + 1 /\ added \in Timer
    BY <1>2, <1>5
  <2>2. PICK pos \in 1 .. Len(list) + 1 : pos = walk.pos
    BY <2>1
  <2>3. InsertedAt(Timer, list, pos, added, InsertAt(list, pos, added))
    BY <1>2, <1>5, <2>1, InsertAtElements
  <2>4. timer_list' = InsertAt(list, pos, added)
    BY <1>5, <2>2
  <2>. QED BY <1>5, <2>2, <2>3, <2>4 DEF InsertedAt
<1>7. /\ \A j \in 1 .. walk.pos - 1 : timer_list'[j].proc = timer_list[j].proc
      /\ timer_list'[walk.pos].proc = p
      /\ \A j \in walk.pos + 1 .. n + 1 : timer_list'[j].proc = timer_list[j - 1].proc
  <2>1. added.proc = p
    BY DEF added
  <2>2. \A j \in 1 .. walk.pos - 1 : j \in 1 .. n
    BY <1>2
  <2>3. \A j \in walk.pos + 1 .. n + 1 : j - 1 \in 1 .. n
    BY <1>2
  <2>. QED BY <1>5, <1>6, <2>1, <2>2, <2>3
<1>8. TypeOK'
  <2>1. walk' \in [pos : Nat \ {0}, expires : Nat]
    BY <1>4
  <2>2. pc' \in [Proc -> Label]
    BY <1>4 DEF TypeOK, Label
  <2>3. SchedTypeOK'
    BY <1>4, <1>6, <2>1 DEF TypeOK, SchedTypeOK
  <2>. QED BY <1>4, <2>2, <2>3 DEF TypeOK
<1>9. (RunQueueExact /\ AssertionsHold)'
  BY <1>4, RunQueueFrame DEF AssertionsHold
<1>10. (PcState /\ OnProcessor)'
  BY <1>1, <1>4 DEF PcState, OnProcessor, TypeOK, SchedTypeOK
<1>11. AddTimerAlone'
  BY <1>1, <1>4 DEF AddTimerAlone, TypeOK
<1>12. TimerOwners'
  <2>1. DOMAIN timer_list = 1 .. n /\ DOMAIN timer_list' = 1 .. n + 1
    BY <1>2, <1>6
  <2>2. \A i \in 1 .. n : timer_list[i].proc # p /\ pc'[timer_list[i].proc] = "sleep"
    BY <1>1, <1>3, <1>4, <2>1 DEF TimerOwners, TypeOK
  <2>3. \A j \in 1 .. n + 1 : pc'[timer_list'[j].proc] = "sleep"
    <3>1. pc'[p] = "sleep"
      BY <1>4 DEF TypeOK
    <3>2. ASSUME NEW j \in 1 .. n + 1, j # walk.pos
          PROVE  \E i \in 1 .. n : timer_list'[j].proc = timer_list[i].proc
      <4>1. CASE j < walk.pos
        <5>1. j \in 1 .. n /\ j \in 1 .. walk.pos - 1
          BY <1>2, <4>1
        <5>. QED BY <1>7, <5>1
      <4>2. CASE ~(j < walk.pos)
        <5>1. j - 1 \in 1 .. n /\ j \in walk.pos + 1 .. n + 1
          BY <1>2, <3>2, <4>2
        <5>. QED BY <1>7, <5>1
      <4>. QED BY <4>1, <4>2
    <3>3. timer_list'[walk.pos].proc = p
      BY <1>2, <1>7
    <3>. QED BY <2>2, <3>1, <3>2, <3>3
  <2>4. \A i, j \in 1 .. n + 1 : timer_list'[i].proc = timer_list'[j].proc => i = j
    <3>1. \A i, j \in 1 .. n : timer_list[i].proc = timer_list[j].proc => i = j
      BY <2>1 DEF TimerOwners
    <3>2. ASSUME NEW i \in 1 .. n + 1, NEW j \in 1 .. n + 1,
                 timer_list'[i].proc = timer_list'[j].proc
          PROVE  i = j
      <4>. DEFINE old(k) == IF k < walk.pos THEN k ELSE k - 1
      <4>1. \A k \in 1 .. n + 1 : k # walk.pos =>
              old(k) \in 1 .. n /\ timer_list'[k].proc = timer_list[old(k)].proc
        BY <1>2, <1>7
      <4>2. timer_list'[walk.pos].proc = p
        BY <1>2, <1>7
      <4>3. CASE i = walk.pos \/ j = walk.pos
        BY <2>2, <3>2, <4>1, <4>2, <4>3
      <4>4. CASE i # walk.pos /\ j # walk.pos
        <5>1. old(i) \in 1 .. n /\ old(j) \in 1 .. n
              /\ timer_list[old(i)].proc = timer_list[old(j)].proc
          BY <3>2, <4>1, <4>4
        <5>2. old(i) = old(j)
          BY <3>1, <5>1
        <5>. QED BY <1>2, <4>4, <5>2
      <4>. QED BY <4>3, <4>4
    <3>. QED BY <3>2
  <2>5. \A r \in Proc : pc'[r] = "sleep" => wait_state'[r] \in {"0", "WT_TIMER"}
    BY <1>1, <1>4 DEF TimerOwners, TypeOK
  <2>. QED BY <2>1, <2>3, <2>4, <2>5 DEF TimerOwners
<1>13. HeadLater'
  <2>1. CASE walk.pos = 1
    <3>1. timer_list'[1] = added /\ added.expires > 0
      BY <1>1, <1>2, <1>6, <2>1 DEF added
    <3>. QED BY <3>1 DEF HeadLater
  <2>2. CASE walk.pos # 1
    <3>1. 1 < walk.pos /\ 1 \in 1 .. n /\ timer_list # <<>>
      BY <1>2, <2>2
    <3>2. timer_list'[1].expires = timer_list[1].expires
      BY <1>2, <1>5, <1>6, <3>1
    <3>. QED BY <1>1, <1>4, <3>1, <3>2 DEF HeadLater
  <2>. QED BY <2>1, <2>2
<1>14. Waiters'
  BY <1>1, <1>4 DEF Waiters, TypeOK
<1>15. InDown'
  BY <1>1, <1>4 DEF InDown, TypeOK
<1>16. Parents'
  BY <1>1, <1>4 DEF Parents, TypeOK
<1>. QED BY <1>8, <1>9, <1>10, <1>11, <1>12, <1>13, <1>14, <1>15, <1>16

\* The end of do_sleep keeps the invariant: del_timer takes the timer away, if it
\* is still there, and gives its delay to the next one.
LEMMA SleepDoneStep ==
  ASSUME IInv, NEW p \in Proc, SleepDone(p) PROVE IInv'
<1>. USE KernelAssumption DEF IInv
<1>. DEFINE n == Len(timer_list)
<1>1. /\ pc[p] = "sleep" /\ p # Initproc /\ current = p /\ ~in_sched /\ trap = "none"
      /\ state[p] = "RUNNABLE" /\ wait_state[p] = "0"
  BY Runner DEF SleepDone, At, Parents
<1>2. /\ timer_list \in Seq(Timer) /\ n \in Nat /\ DOMAIN timer_list = 1 .. n
  BY DEF TypeOK, SchedTypeOK
<1>3. \A i \in 1 .. n : timer_list[i].proc \in Proc /\ timer_list[i].expires \in Nat
  <2>1. \A i \in 1 .. n : timer_list[i] \in Timer
    BY <1>2
  <2>. QED BY <2>1 DEF Timer
<1>4. /\ del_timer(p)
      /\ pc' = [pc EXCEPT ![p] = Return(p)] /\ Return(p) \in {"kernel", "tail"}
      /\ UNCHANGED <<current, state, wait_state, need_resched, time_slice, run_list, walk,
                     in_sched, trap, halt, arg, exiting, parent, nr_process,
                     value, wait_queue, wakeup_flags, holds>>
  BY DEF SleepDone, Goto, semVars, Return
\* The list after del_timer: p owns no timer, and the head is later than now.
<1>5. /\ timer_list' \in Seq(Timer)
      /\ \A j \in DOMAIN timer_list' : /\ timer_list'[j].proc \in Proc
                                       /\ timer_list'[j].proc # p
                                       /\ pc[timer_list'[j].proc] = "sleep"
      /\ \A j, k \in DOMAIN timer_list' : timer_list'[j].proc = timer_list'[k].proc => j = k
      /\ timer_list' # <<>> => timer_list'[1].expires > 0
  <2>1. CASE UNCHANGED timer_list /\ \A i \in DOMAIN timer_list : ~OwnTimer(i, p)
    BY <1>1, <1>2, <1>3, <2>1 DEF OwnTimer, TimerOwners, HeadLater
  <2>2. ASSUME NEW i \in DOMAIN timer_list, OwnTimer(i, p),
               timer_list' = RemoveAt(PassedOn(i), i)
        PROVE  <1>5
    <3>1. /\ PassedOn(i) \in Seq(Timer) /\ Len(PassedOn(i)) = n /\ i \in 1 .. n
          /\ \A j \in 1 .. n :
               /\ PassedOn(i)[j].proc = timer_list[j].proc
               /\ PassedOn(i)[j].expires >= timer_list[j].expires
               /\ j = i + 1 => PassedOn(i)[j].expires >= timer_list[i].expires
      BY <1>2, PassedOnTimer
    <3>2. /\ timer_list' \in Seq(Timer) /\ Len(timer_list') = n - 1
          /\ \A j \in 1 .. n - 1 :
               timer_list'[j] = IF j < i THEN PassedOn(i)[j] ELSE PassedOn(i)[j + 1]
      <4>1. PICK w \in Seq(Timer) : w = PassedOn(i)
        BY <3>1
      <4>2. PICK k \in 1 .. Len(w) : k = i
        BY <3>1, <4>1
      <4>3. /\ RemoveAt(w, k) \in Seq(Timer)
            /\ Len(RemoveAt(w, k)) = Len(w) - 1
            /\ \A j \in 1 .. Len(w) - 1 :
                 RemoveAt(w, k)[j] = IF j < k THEN w[j] ELSE w[j + 1]
        BY RemoveAtElements
      <4>4. Len(w) = n /\ timer_list' = RemoveAt(w, k)
        BY <2>2, <3>1, <4>1, <4>2
      <4>. QED BY <4>1, <4>2, <4>3, <4>4
    <3>3. \A j \in 1 .. n - 1 :
            timer_list'[j].proc = IF j < i THEN timer_list[j].proc ELSE timer_list[j + 1].proc
      <4>1. ASSUME NEW j \in 1 .. n - 1
            PROVE  timer_list'[j].proc = IF j < i THEN timer_list[j].proc ELSE timer_list[j + 1].proc
        <5>1. j \in 1 .. n /\ j + 1 \in 1 .. n
          BY <1>2
        <5>. QED BY <3>1, <3>2, <5>1
      <4>. QED BY <4>1
    <3>4. DOMAIN timer_list' = 1 .. n - 1
      BY <3>2
    <3>5. \A j, k \in 1 .. n : timer_list[j].proc = timer_list[k].proc => j = k
      BY <1>2 DEF TimerOwners
    <3>6. \A j \in 1 .. n : pc[timer_list[j].proc] = "sleep" /\ (j # i => timer_list[j].proc # p)
      BY <1>2, <2>2, <3>5 DEF TimerOwners, OwnTimer
    <3>7. \A j \in 1 .. n - 1 : /\ timer_list'[j].proc \in Proc
                                /\ timer_list'[j].proc # p
                                /\ pc[timer_list'[j].proc] = "sleep"
      <4>1. ASSUME NEW j \in 1 .. n - 1
            PROVE  \E k \in 1 .. n : k # i /\ timer_list'[j].proc = timer_list[k].proc
        <5>1. CASE j < i
          <6>1. j \in 1 .. n /\ j # i
            BY <1>2, <3>1, <5>1
          <6>. QED BY <3>3, <5>1, <6>1
        <5>2. CASE ~(j < i)
          <6>1. j + 1 \in 1 .. n /\ j + 1 # i
            BY <1>2, <3>1, <5>2
          <6>. QED BY <3>3, <5>2, <6>1
        <5>. QED BY <5>1, <5>2
      <4>. QED BY <1>3, <3>6, <4>1
    <3>8. \A j, k \in 1 .. n - 1 : timer_list'[j].proc = timer_list'[k].proc => j = k
      BY <1>2, <3>1, <3>3, <3>5
    <3>9. ASSUME timer_list' # <<>> PROVE timer_list'[1].expires > 0
      <4>1. n - 1 >= 1 /\ timer_list # <<>> /\ timer_list[1].expires > 0
        BY <1>1, <1>2, <3>1, <3>2, <3>9 DEF HeadLater
      <4>2. CASE i = 1
        <5>1. timer_list'[1] = PassedOn(i)[2] /\ 2 \in 1 .. n
          BY <1>2, <3>2, <4>1, <4>2
        <5>2. PassedOn(i)[2] \in Timer
          BY <3>1, <5>1
        <5>. QED BY <1>3, <3>1, <4>1, <4>2, <5>1, <5>2 DEF Timer
      <4>3. CASE i # 1
        <5>1. timer_list'[1] = PassedOn(i)[1] /\ 1 \in 1 .. n
          BY <1>2, <3>1, <3>2, <4>1, <4>3
        <5>2. PassedOn(i)[1] \in Timer
          BY <3>1, <5>1
        <5>. QED BY <1>3, <3>1, <4>1, <5>1, <5>2 DEF Timer
      <4>. QED BY <4>2, <4>3
    <3>. QED BY <3>2, <3>4, <3>7, <3>8, <3>9
  <2>. QED BY <1>4, <2>1, <2>2 DEF del_timer
<1>6. TypeOK'
  BY <1>4, <1>5 DEF TypeOK, SchedTypeOK, Label
<1>7. (RunQueueExact /\ AssertionsHold)'
  BY <1>4, RunQueueFrame DEF AssertionsHold
<1>8. (PcState /\ OnProcessor)'
  BY <1>1, <1>4 DEF PcState, OnProcessor, TypeOK, SchedTypeOK
<1>9. AddTimerAlone'
  BY <1>1, <1>4 DEF AddTimerAlone, TypeOK
<1>10. TimerOwners'
  BY <1>4, <1>5 DEF TimerOwners, TypeOK
<1>11. HeadLater'
  BY <1>5 DEF HeadLater
<1>12. Waiters'
  BY <1>1, <1>4 DEF Waiters, TypeOK
<1>13. InDown'
  BY <1>1, <1>4 DEF InDown, TypeOK
<1>14. Parents'
  BY <1>1, <1>4 DEF Parents, TypeOK
<1>. QED BY <1>6, <1>7, <1>8, <1>9, <1>10, <1>11, <1>12, <1>13, <1>14

-----------------------------------------------------------------------------
(* Semaphores.                                                             *)

\* __down takes a unit that is free.
LEMMA DownFreeStep ==
  ASSUME IInv, NEW p \in Proc, NEW s \in Sem, DownFree(p, s) PROVE IInv'
<1>. USE KernelAssumption DEF IInv
<1>1. /\ pc[p] \in {"kernel", "user"} /\ p # Initproc
      /\ current = p /\ ~in_sched /\ trap = "none" /\ state[p] = "RUNNABLE"
  BY Runner DEF DownFree, MayLock
<1>2. /\ value[s] > 0
      /\ value' = [value EXCEPT ![s] = value[s] - 1]
      /\ holds' = [holds EXCEPT ![p] = holds[p] \cup {s}]
      /\ pc' = [pc EXCEPT ![p] = "kernel"]
      /\ UNCHANGED <<current, state, wait_state, need_resched, time_slice, run_list, timer_list,
                     walk, in_sched, trap, halt, arg, exiting, parent, nr_process,
                     wait_queue, wakeup_flags>>
  BY DEF DownFree, Goto, schedVars
<1>3. value' \in [Sem -> Nat] /\ \A r \in Sem : value'[r] > 0 => value[r] > 0
  BY <1>2 DEF TypeOK
<1>4. TypeOK'
  BY <1>2, <1>3 DEF TypeOK, SchedTypeOK, Label
<1>5. (RunQueueExact /\ AssertionsHold)'
  BY <1>2, RunQueueFrame DEF AssertionsHold
<1>6. (PcState /\ OnProcessor)'
  BY <1>1, <1>2 DEF PcState, OnProcessor, TypeOK, SchedTypeOK
<1>7. (AddTimerAlone /\ TimerOwners)'
  BY <1>1, <1>2 DEF AddTimerAlone, TimerOwners, TypeOK
<1>8. Waiters'
  BY <1>1, <1>2, <1>3 DEF Waiters, TypeOK
<1>9. InDown'
  BY <1>1, <1>2 DEF InDown, TypeOK
<1>10. Parents'
  BY <1>1, <1>2 DEF Parents, TypeOK
<1>. QED BY <1>2, <1>4, <1>5, <1>6, <1>7, <1>8, <1>9, <1>10, HeadLaterFrame

\* __down joins the queue of a semaphore that is taken. The process holds only
\* semaphores with smaller numbers, so not this one.
LEMMA DownBlockStep ==
  ASSUME IInv, NEW p \in Proc, NEW s \in Sem, DownBlock(p, s) PROVE IInv'
<1>. USE KernelAssumption DEF IInv
<1>1. /\ pc[p] \in {"kernel", "user"} /\ p # Initproc
      /\ current = p /\ ~in_sched /\ trap = "none" /\ state[p] = "RUNNABLE"
  BY Runner DEF DownBlock, MayLock
<1>2. s \notin holds[p]
  BY DEF DownBlock, MayLock
<1>3. /\ value[s] = 0
      /\ state' = [state EXCEPT ![p] = "SLEEPING"]
      /\ wait_state' = [wait_state EXCEPT ![p] = "WT_KSEM"]
      /\ wakeup_flags' = [wakeup_flags EXCEPT ![p] = "WT_INTERRUPTED"]
      /\ wait_queue' = [wait_queue EXCEPT ![s] = Append(wait_queue[s], p)]
      /\ arg' = [arg EXCEPT ![p] = s]
      /\ pc' = [pc EXCEPT ![p] = "down"]
      /\ in_sched' = TRUE
      /\ UNCHANGED <<current, need_resched, time_slice, run_list, timer_list, walk,
                     trap, halt, exiting, parent, nr_process, value, holds>>
  BY DEF DownBlock, SleepOn, Goto
<1>4. wait_queue[s] \in Seq(Proc) /\ p \notin ToSet(wait_queue[s])
  BY <1>1 DEF Waiters, TypeOK
<1>5. /\ wait_queue'[s] \in Seq(Proc) /\ IsInjective(wait_queue'[s])
      /\ ToSet(wait_queue'[s]) = ToSet(wait_queue[s]) \cup {p}
      /\ \A r \in Sem \ {s} : wait_queue'[r] = wait_queue[r]
  <2>1. wait_queue'[s] = Append(wait_queue[s], p)
    BY <1>3 DEF TypeOK
  <2>2. \A r \in Sem \ {s} : wait_queue'[r] = wait_queue[r]
    BY <1>3 DEF TypeOK
  <2>. QED BY <1>4, <2>1, <2>2, AppendNew DEF Waiters
<1>6. TypeOK'
  <2>1. SchedTypeOK'
    BY <1>3 DEF TypeOK, SchedTypeOK, ProcState, WaitState
  <2>2. wait_queue' \in [Sem -> Seq(Proc)]
    BY <1>3, <1>5 DEF TypeOK
  <2>3. pc' \in [Proc -> Label]
    BY <1>3 DEF TypeOK, Label
  <2>. QED BY <1>3, <2>1, <2>2, <2>3 DEF TypeOK
<1>7. (RunQueueExact /\ AssertionsHold)'
  BY <1>1, <1>3 DEF RunQueueExact, AssertionsHold, TypeOK, SchedTypeOK
<1>8. (PcState /\ OnProcessor)'
  BY <1>1, <1>3 DEF PcState, OnProcessor, TypeOK, SchedTypeOK
<1>9. (AddTimerAlone /\ TimerOwners)'
  BY <1>1, <1>3 DEF AddTimerAlone, TimerOwners, TypeOK, SchedTypeOK
<1>10. Waiters'
  <2>1. ASSUME NEW r \in Sem, NEW q \in ToSet(wait_queue'[r])
        PROVE  /\ pc'[q] = "down" /\ arg'[q] = r
               /\ wait_state'[q] = "WT_KSEM" /\ wakeup_flags'[q] = "WT_INTERRUPTED"
    <3>1. CASE q = p
      <4>1. r = s
        BY <1>1, <1>5, <2>1, <3>1 DEF Waiters
      <4>. QED BY <1>3, <3>1, <4>1 DEF TypeOK, SchedTypeOK
    <3>2. CASE q # p
      <4>1. q \in ToSet(wait_queue[r])
        BY <1>5, <2>1, <3>2
      <4>. QED BY <1>3, <3>2, <4>1 DEF Waiters, TypeOK, SchedTypeOK
    <3>. QED BY <3>1, <3>2
  <2>2. ASSUME NEW r \in Sem
        PROVE  IsInjective(wait_queue'[r]) /\ (value'[r] > 0 => wait_queue'[r] = <<>>)
    BY <1>3, <1>5 DEF Waiters
  <2>. QED BY <2>1, <2>2 DEF Waiters
<1>11. InDown'
  BY <1>1, <1>2, <1>3 DEF InDown, TypeOK, SchedTypeOK
<1>12. Parents'
  BY <1>1, <1>3 DEF Parents, TypeOK
<1>. QED BY <1>3, <1>6, <1>7, <1>8, <1>9, <1>10, <1>11, <1>12, HeadLaterFrame

\* A process that is back on the processor in __down was handed its unit.
LEMMA DownDoneStep ==
  ASSUME IInv, NEW p \in Proc, DownDone(p) PROVE IInv'
<1>. USE KernelAssumption DEF IInv
<1>1. /\ pc[p] = "down" /\ p # Initproc
      /\ current = p /\ ~in_sched /\ trap = "none" /\ state[p] = "RUNNABLE"
  BY Runner DEF DownDone, At, Parents
<1>2. arg[p] \in Sem /\ wakeup_flags[p] = "WT_KSEM"
  BY <1>1 DEF InDown
<1>3. p \notin ToSet(wait_queue[arg[p]])
  BY <1>2 DEF Waiters
<1>4. UNCHANGED wait_queue
  <2>1. wait_queue' = [wait_queue EXCEPT ![arg[p]] = RemoveFirst(wait_queue[arg[p]], p)]
    BY DEF DownDone
  <2>2. RemoveFirst(wait_queue[arg[p]], p) = wait_queue[arg[p]]
    BY <1>2, <1>3, RemoveFirstAbsent DEF TypeOK
  <2>. QED BY <1>2, <2>1, <2>2 DEF TypeOK
<1>5. /\ halt' = halt
      /\ holds' = [holds EXCEPT ![p] = holds[p] \cup {arg[p]}]
      /\ arg' = [arg EXCEPT ![p] = NULL]
      /\ pc' = [pc EXCEPT ![p] = "kernel"]
      /\ UNCHANGED <<current, state, wait_state, need_resched, time_slice, run_list, timer_list,
                     walk, in_sched, trap, exiting, parent, nr_process, value, wakeup_flags>>
  BY <1>2 DEF DownDone, KAssert, Goto
<1>6. TypeOK'
  BY <1>2, <1>4, <1>5 DEF TypeOK, SchedTypeOK, Label
<1>7. (RunQueueExact /\ AssertionsHold)'
  BY <1>5, RunQueueFrame DEF AssertionsHold
<1>8. (PcState /\ OnProcessor)'
  BY <1>1, <1>5 DEF PcState, OnProcessor, TypeOK, SchedTypeOK
<1>9. (AddTimerAlone /\ TimerOwners)'
  BY <1>1, <1>5 DEF AddTimerAlone, TimerOwners, TypeOK
<1>10. Waiters'
  <2>1. \A r \in Sem : p \notin ToSet(wait_queue[r])
    BY <1>2 DEF Waiters
  <2>. QED BY <1>4, <1>5, <2>1 DEF Waiters, TypeOK
<1>11. InDown'
  BY <1>1, <1>5 DEF InDown, TypeOK
<1>12. Parents'
  BY <1>1, <1>5 DEF Parents, TypeOK
<1>. QED BY <1>5, <1>6, <1>7, <1>8, <1>9, <1>10, <1>11, <1>12, HeadLaterFrame

\* __up with no waiter counts up.
LEMMA UpFreeStep ==
  ASSUME IInv, NEW p \in Proc, NEW s \in Sem, UpFree(p, s) PROVE IInv'
<1>. USE KernelAssumption DEF IInv
<1>1. /\ pc[p] = "kernel" /\ wait_queue[s] = <<>>
      /\ value' = [value EXCEPT ![s] = value[s] + 1]
      /\ holds' = [holds EXCEPT ![p] = holds[p] \ {s}]
      /\ UNCHANGED <<current, state, wait_state, need_resched, time_slice, run_list, timer_list,
                     walk, in_sched, trap, halt, pc, arg, exiting, parent, nr_process,
                     wait_queue, wakeup_flags>>
  BY DEF UpFree, At, schedVars, procVars
<1>2. TypeOK'
  <2>1. SchedTypeOK'
    BY <1>1 DEF TypeOK, SchedTypeOK
  <2>2. value' \in [Sem -> Nat] /\ holds' \in [Proc -> SUBSET Sem]
    BY <1>1 DEF TypeOK
  <2>. QED BY <1>1, <2>1, <2>2 DEF TypeOK
<1>3. Waiters'
  BY <1>1 DEF Waiters, TypeOK
<1>4. InDown'
  BY <1>1 DEF InDown, TypeOK
<1>. QED BY <1>1, <1>2, <1>3, <1>4, RunQueueFrame, PcStateFrame, OnProcessorFrame,
            AddTimerFrame, TimerOwnersFrame, HeadLaterFrame, ParentsFrame
         DEF AssertionsHold

\* __up hands its unit to the first waiter, which sleeps in __down: every
\* assertion on the way holds.
LEMMA UpHandStep ==
  ASSUME IInv, NEW p \in Proc, NEW s \in Sem, UpHand(p, s) PROVE IInv'
<1>. USE KernelAssumption DEF IInv
<1>. DEFINE w == Head(wait_queue[s])
<1>1. /\ pc[p] = "kernel" /\ current = p /\ ~in_sched /\ trap = "none" /\ state[p] = "RUNNABLE"
  BY Runner DEF UpHand, At
<1>2. wait_queue[s] \in Seq(Proc) /\ wait_queue[s] # <<>> /\ IsInjective(wait_queue[s])
  BY DEF UpHand, Waiters, TypeOK
<1>3. /\ w \in Proc /\ w \in ToSet(wait_queue[s])
      /\ Tail(wait_queue[s]) \in Seq(Proc) /\ IsInjective(Tail(wait_queue[s]))
      /\ ToSet(Tail(wait_queue[s])) = ToSet(wait_queue[s]) \ {w}
  BY <1>2, TailInjective
<1>4. /\ wakeup_proc(w)
      /\ KAssert(wait_state[w] = "WT_KSEM" /\ WakeupAsserts(w))
      /\ wakeup_flags' = [wakeup_flags EXCEPT ![w] = "WT_KSEM"]
      /\ wait_queue' = [wait_queue EXCEPT ![s] = Tail(wait_queue[s])]
      /\ holds' = [holds EXCEPT ![p] = holds[p] \ {s}]
      /\ UNCHANGED <<current, need_resched, timer_list, walk, in_sched, trap,
                     pc, arg, exiting, parent, nr_process, value>>
  BY DEF UpHand, procVars
<1>. HIDE DEF w
<1>5. /\ pc[w] = "down" /\ arg[w] = s /\ wait_state[w] = "WT_KSEM" /\ state[w] = "SLEEPING"
  BY <1>3 DEF Waiters, PcState
<1>6. /\ WakeupAsserts(w)
      /\ state' = [state EXCEPT ![w] = "RUNNABLE"]
      /\ wait_state' = [wait_state EXCEPT ![w] = "0"]
      /\ run_list' \in Seq(Proc)
      /\ time_slice' \in [Proc -> 0 .. MAX_TIME_SLICE]
      /\ RunQueueExact'
  BY <1>3, <1>4, <1>5, WakeupSleeper
<1>7. halt' = halt
  BY <1>4, <1>5, <1>6 DEF KAssert
<1>8. /\ wait_queue' \in [Sem -> Seq(Proc)]
      /\ wait_queue'[s] = Tail(wait_queue[s])
      /\ \A r \in Sem \ {s} : wait_queue'[r] = wait_queue[r]
  BY <1>3, <1>4 DEF TypeOK
<1>9. TypeOK'
  <2>1. state' \in [Proc \cup {Idle} -> ProcState] /\ wait_state' \in [Proc -> WaitState]
    BY <1>3, <1>6, WokenTypes
  <2>2. SchedTypeOK'
    BY <1>4, <1>6, <1>7, <2>1 DEF TypeOK, SchedTypeOK
  <2>. QED BY <1>3, <1>4, <1>8, <2>2 DEF TypeOK
<1>10. AssertionsHold'
  BY <1>7 DEF AssertionsHold
<1>11. (PcState /\ OnProcessor)'
  BY <1>1, <1>3, <1>4, <1>5, <1>6 DEF PcState, OnProcessor, TypeOK, SchedTypeOK
<1>12. (AddTimerAlone /\ TimerOwners)'
  BY <1>3, <1>4, <1>5, <1>6 DEF AddTimerAlone, TimerOwners, TypeOK, SchedTypeOK
<1>13. Waiters'
  <2>1. ASSUME NEW r \in Sem, NEW q \in ToSet(wait_queue'[r])
        PROVE  /\ pc'[q] = "down" /\ arg'[q] = r
               /\ wait_state'[q] = "WT_KSEM" /\ wakeup_flags'[q] = "WT_INTERRUPTED"
    <3>1. q \in ToSet(wait_queue[r]) /\ q # w
      <4>1. CASE r = s
        <5>1. wait_queue'[r] = Tail(wait_queue[s])
          BY <1>8, <4>1
        <5>. QED BY <1>3, <2>1, <4>1, <5>1
      <4>2. CASE r # s
        <5>1. q \in ToSet(wait_queue[r])
          BY <1>8, <2>1, <4>2
        <5>2. arg[q] = r
          BY <5>1 DEF Waiters
        <5>. QED BY <1>5, <4>2, <5>1, <5>2
      <4>. QED BY <4>1, <4>2
    <3>2. /\ pc[q] = "down" /\ arg[q] = r
          /\ wait_state[q] = "WT_KSEM" /\ wakeup_flags[q] = "WT_INTERRUPTED"
      BY <3>1 DEF Waiters
    <3>3. q \in Proc
      <4>1. wait_queue[r] \in Seq(Proc)
        BY DEF TypeOK
      <4>. QED BY <3>1, <4>1, InToSet
    <3>. QED BY <1>4, <1>6, <3>1, <3>2, <3>3 DEF TypeOK, SchedTypeOK
  <2>2. ASSUME NEW r \in Sem
        PROVE  IsInjective(wait_queue'[r]) /\ (value'[r] > 0 => wait_queue'[r] = <<>>)
    BY <1>2, <1>3, <1>4, <1>8 DEF Waiters
  <2>. QED BY <2>1, <2>2 DEF Waiters
<1>14. InDown'
  BY <1>1, <1>3, <1>4, <1>5, <1>6 DEF InDown, TypeOK, SchedTypeOK
<1>. QED BY <1>4, <1>6, <1>9, <1>10, <1>11, <1>12, <1>13, <1>14, HeadLaterFrame, ParentsFrame

-----------------------------------------------------------------------------
(* The invariant.                                                          *)

\* Every step of the kernel keeps the invariant, and so does a stutter.
LEMMA NextIInv == IInv /\ [Next]_vars => IInv'
<1>. SUFFICES ASSUME IInv, [Next]_vars PROVE IInv'
  OBVIOUS
<1>. USE KernelAssumption
<1>1. CASE UNCHANGED vars
  <2>1. UNCHANGED <<current, state, wait_state, need_resched, time_slice, run_list, timer_list,
                    walk, in_sched, trap, halt, pc, arg, exiting, parent, nr_process,
                    value, wait_queue, wakeup_flags, holds>>
    BY <1>1 DEF vars, schedVars, procVars, semVars
  <2>2. TypeOK'
    BY <2>1 DEF IInv, TypeOK, SchedTypeOK
  <2>. QED BY <2>1, <2>2, RunQueueFrame, PcStateFrame, OnProcessorFrame, AddTimerFrame,
              TimerOwnersFrame, HeadLaterFrame, WaitersFrame, InDownFrame, ParentsFrame
           DEF IInv, AssertionsHold
<1>2. CASE IdleLoop \/ Schedule
  BY <1>2, IdleLoopStep, ScheduleStep
<1>3. CASE Interrupt
  BY <1>3, TickStep, ExpireStep, TickEndStep DEF Interrupt
<1>4. CASE InitWait
  BY <1>4, WaitSteps
<1>5. ASSUME NEW p \in Proc, Process(p) PROVE IInv'
  <2>1. CASE TrapTail(p) \/ Yield(p) \/ ForkFails(p) \/ Exit(p) \/ Leave(p)
    BY <2>1, QuietSteps
  <2>2. CASE \E c \in Proc : Fork(p, c) \/ Reparent(p, c)
    BY <2>2, ForkStep, ReparentStep
  <2>3. CASE WaitAgain(p) \/ \E t \in Proc \cup {NULL} : Wait(p, t)
    BY <2>3, WaitSteps
  <2>4. CASE DoExit(p) \/ ExitWake(p) \/ Die(p)
    BY <2>4, DoExitStep, ExitWakeStep, DieStep
  <2>5. CASE \E q \in Killable : Kill(p, q)
    BY <2>5, KillStep
  <2>6. CASE \E time \in 1 .. MaxSleep : Sleep(p, time)
    BY <2>6, SleepStep
  <2>7. CASE AddTimerWalk(p) \/ AddTimerPlace(p) \/ SleepDone(p)
    BY <2>7, AddTimerWalkStep, AddTimerPlaceStep, SleepDoneStep
  <2>8. CASE \E s \in Sem : DownFree(p, s) \/ DownBlock(p, s) \/ UpFree(p, s) \/ UpHand(p, s)
    BY <2>8, DownFreeStep, DownBlockStep, UpFreeStep, UpHandStep
  <2>9. CASE DownDone(p)
    BY <2>9, DownDoneStep
  <2>. QED BY <1>5, <2>1, <2>2, <2>3, <2>4, <2>5, <2>6, <2>7, <2>8, <2>9 DEF Process
<1>. QED BY <1>1, <1>2, <1>3, <1>4, <1>5 DEF Next, Halted

\* The parts of the scheduler, the timer list, the semaphores and the process
\* table fit together in every state the kernel can reach.
THEOREM Invariance == Spec => []IInv
<1>1. Init => IInv
  BY InitIInv
<1>2. IInv /\ [Next]_vars => IInv'
  BY NextIInv
<1>. QED BY <1>1, <1>2, PTL DEF Spec

\* Every variable keeps its type; in particular a quantum stays within
\* MAX_TIME_SLICE, and no delay of a timer and no semaphore goes below zero.
THEOREM TypeCorrect == Spec => []TypeOK
<1>1. IInv => TypeOK
  BY DEF IInv
<1>. QED BY <1>1, Invariance, PTL

\* No order of interrupts, kills, exits and semaphore operations fails an
\* assertion of sched.c, default_sched_c.c, wait.c or down(), with any number
\* of processes, semaphores and timers.
THEOREM NoAssertFails == Spec => []AssertionsHold
<1>1. IInv => AssertionsHold
  BY DEF IInv
<1>. QED BY <1>1, Invariance, PTL

\* No wakeup is lost and none counts twice: the run queue is always the
\* RUNNABLE processes off the processor, each once.
THEOREM RunQueueCorrect == Spec => []RunQueueExact
<1>1. IInv => RunQueueExact
  BY DEF IInv
<1>. QED BY <1>1, Invariance, PTL

-----------------------------------------------------------------------------
(* The semaphores.                                                         *)

\* The owners of a unit of s, as SemSpec sees them.
Owners(s) == Holders(s) \cup Handed(s)

\* A process owns a unit when it holds it, or was handed it and has not run.
Owns(q, s) == \/ s \in holds[q]
              \/ pc[q] = "down" /\ arg[q] = s /\ wakeup_flags[q] = "WT_KSEM"

\* Owners(s) is the set of the processes that own a unit of s.
LEMMA OwnersOwn ==
  ASSUME NEW s
  PROVE  /\ Owners(s) \subseteq Proc /\ Owners(s)' \subseteq Proc
         /\ \A q \in Proc : q \in Owners(s) <=> Owns(q, s)
         /\ \A q \in Proc : q \in Owners(s)' <=> Owns(q, s)'
BY DEF Owners, Owns, Holders, Handed

\* A process that may lock s does not own a unit of it: it holds semaphores
\* with smaller numbers only.
LEMMA LockerOwnsNone ==
  ASSUME IInv, NEW p \in Proc, NEW s \in Sem, MayLock(p, s)
  PROVE  ~Owns(p, s)
<1>1. s \in Int
  BY KernelAssumption
<1>2. s \notin holds[p]
  BY <1>1 DEF MayLock
<1>. QED BY <1>2 DEF MayLock, Owns

\* __down of a semaphore with a free unit is the Take of SemSpec.
LEMMA DownFreeTakes ==
  ASSUME IInv, NEW p \in Proc, NEW s \in Sem, DownFree(p, s)
  PROVE  Semaphore!Take(p, s)
<1>. USE DEF IInv
<1>1. /\ value[s] > 0 /\ wait_queue[s] = <<>> /\ p \notin Owners(s)
  BY LockerOwnsNone, OwnersOwn DEF DownFree, Waiters
<1>2. /\ value' = [value EXCEPT ![s] = value[s] - 1]
      /\ holds' = [holds EXCEPT ![p] = holds[p] \cup {s}]
      /\ pc' = [pc EXCEPT ![p] = "kernel"]
      /\ pc[p] \in {"kernel", "user"}
      /\ UNCHANGED <<arg, wait_queue, wakeup_flags>>
  BY DEF DownFree, MayLock, Goto
<1>3. \A r \in Sem, q \in Proc : Owns(q, r)' <=> Owns(q, r) \/ (q = p /\ r = s)
  BY <1>2 DEF Owns, TypeOK
<1>4. \A r \in Sem : Owners(r)' = IF r = s THEN Owners(r) \cup {p} ELSE Owners(r)
  BY <1>3, OwnersOwn
<1>. QED BY <1>1, <1>2, <1>4 DEF Semaphore!Take, Owners

\* __down of a semaphore without a free unit is the WaitFor of SemSpec.
LEMMA DownBlockWaits ==
  ASSUME IInv, NEW p \in Proc, NEW s \in Sem, DownBlock(p, s)
  PROVE  Semaphore!WaitFor(p, s)
<1>. USE DEF IInv
<1>1. /\ value[s] = 0 /\ p \notin Owners(s) /\ ~Owns(p, s)
  BY LockerOwnsNone, OwnersOwn DEF DownBlock
<1>2. /\ wait_queue' = [wait_queue EXCEPT ![s] = Append(wait_queue[s], p)]
      /\ wakeup_flags' = [wakeup_flags EXCEPT ![p] = "WT_INTERRUPTED"]
      /\ arg' = [arg EXCEPT ![p] = s]
      /\ pc' = [pc EXCEPT ![p] = "down"]
      /\ pc[p] \in {"kernel", "user"}
      /\ UNCHANGED <<value, holds>>
  BY DEF DownBlock, MayLock, Goto
<1>3. \A i \in DOMAIN wait_queue[s] : wait_queue[s][i] # p
  <2>1. wait_queue[s] \in Seq(Proc) /\ p \notin ToSet(wait_queue[s])
    BY <1>2 DEF Waiters, TypeOK
  <2>. QED BY <2>1, InToSet
<1>4. \A r \in Sem, q \in Proc : Owns(q, r)' <=> Owns(q, r)
  BY <1>2 DEF Owns, TypeOK
<1>5. \A r \in Sem : Owners(r)' = Owners(r)
  BY <1>4, OwnersOwn
<1>. QED BY <1>1, <1>2, <1>3, <1>5 DEF Semaphore!WaitFor, Owners

\* __up of a semaphore nobody waits for is the GiveBack of SemSpec.
LEMMA UpFreeGivesBack ==
  ASSUME IInv, NEW p \in Proc, NEW s \in Sem, UpFree(p, s)
  PROVE  Semaphore!GiveBack(p, s)
<1>. USE DEF IInv
<1>1. /\ pc[p] = "kernel" /\ s \in holds[p] /\ wait_queue[s] = <<>>
      /\ value' = [value EXCEPT ![s] = value[s] + 1]
      /\ holds' = [holds EXCEPT ![p] = holds[p] \ {s}]
      /\ UNCHANGED <<pc, arg, wait_queue, wakeup_flags>>
  BY DEF UpFree, At, procVars
<1>2. p \in Owners(s)
  BY <1>1, OwnersOwn DEF Owns
<1>3. \A r \in Sem, q \in Proc : Owns(q, r)' <=> Owns(q, r) /\ ~(q = p /\ r = s)
  BY <1>1 DEF Owns, TypeOK
<1>4. \A r \in Sem : Owners(r)' = IF r = s THEN Owners(r) \ {p} ELSE Owners(r)
  BY <1>3, OwnersOwn
<1>. QED BY <1>1, <1>2, <1>4 DEF Semaphore!GiveBack, Owners

\* __up of a semaphore somebody waits for is the HandOver of SemSpec: the unit
\* goes to the process at the head of the queue.
LEMMA UpHandHandsOver ==
  ASSUME IInv, NEW p \in Proc, NEW s \in Sem, UpHand(p, s)
  PROVE  Semaphore!HandOver(p, s) /\ ~Owns(Head(wait_queue[s]), s)
<1>. USE DEF IInv
<1>. DEFINE w == Head(wait_queue[s])
<1>1. /\ pc[p] = "kernel" /\ s \in holds[p] /\ wait_queue[s] # <<>>
      /\ wait_queue' = [wait_queue EXCEPT ![s] = Tail(wait_queue[s])]
      /\ wakeup_flags' = [wakeup_flags EXCEPT ![w] = "WT_KSEM"]
      /\ holds' = [holds EXCEPT ![p] = holds[p] \ {s}]
      /\ UNCHANGED <<value, pc, arg>>
  BY DEF UpHand, At, procVars
<1>2. w \in Proc /\ w \in ToSet(wait_queue[s])
  BY <1>1, TailInjective DEF Waiters, TypeOK
<1>. HIDE DEF w
<1>3. pc[w] = "down" /\ arg[w] = s /\ wakeup_flags[w] = "WT_INTERRUPTED" /\ s \notin holds[w]
  BY <1>2 DEF Waiters, InDown
<1>4. p \in Owners(s)
  BY <1>1, OwnersOwn DEF Owns
<1>5. \A r \in Sem, q \in Proc :
        Owns(q, r)' <=> (Owns(q, r) /\ ~(q = p /\ r = s)) \/ (q = w /\ r = s)
  BY <1>1, <1>2, <1>3 DEF Owns, TypeOK
<1>6. \A r \in Sem : Owners(r)' = IF r = s THEN (Owners(r) \ {p}) \cup {w} ELSE Owners(r)
  <2>1. ASSUME NEW r \in Sem, r # s PROVE Owners(r)' = Owners(r)
    BY <1>5, <2>1, OwnersOwn
  <2>2. Owners(s)' = (Owners(s) \ {p}) \cup {w}
    <3>1. Owners(s) \subseteq Proc /\ Owners(s)' \subseteq Proc
      BY OwnersOwn
    <3>2. \A q \in Proc : q \in Owners(s)' <=> (q \in Owners(s) /\ q # p) \/ q = w
      BY <1>5, OwnersOwn
    <3>. QED BY <1>2, <3>1, <3>2
  <2>. QED BY <2>1, <2>2
<1>. QED BY <1>1, <1>3, <1>4, <1>6 DEF Semaphore!HandOver, Owners, Owns, w

\* The other steps move nobody into or out of __down but the process that
\* leaves it with its unit.
LEMMA OthersStutter ==
  ASSUME UNCHANGED <<value, wait_queue, wakeup_flags, holds>>,
         \A r \in Proc : \/ pc'[r] = pc[r] /\ arg'[r] = arg[r]
                         \/ pc[r] # "down" /\ pc'[r] # "down"
  PROVE  UNCHANGED <<value, wait_queue, [s \in Sem |-> Owners(s)]>>
<1>1. \A s \in Sem, q \in Proc : Owns(q, s)' <=> Owns(q, s)
  BY DEF Owns
<1>2. \A s \in Sem : Owners(s)' = Owners(s)
  BY <1>1, OwnersOwn
<1>. QED BY <1>2

\* The return of __down is a stutter: the unit was owned since up() handed it over.
LEMMA DownDoneStutters ==
  ASSUME IInv, NEW p \in Proc, DownDone(p)
  PROVE  UNCHANGED <<value, wait_queue, [s \in Sem |-> Owners(s)]>>
<1>. USE DEF IInv
<1>1. pc[p] = "down" /\ state[p] = "RUNNABLE"
  BY Runner DEF DownDone, At
<1>2. arg[p] \in Sem /\ wakeup_flags[p] = "WT_KSEM"
  BY <1>1 DEF InDown
<1>3. /\ wait_queue' = [wait_queue EXCEPT ![arg[p]] = RemoveFirst(wait_queue[arg[p]], p)]
      /\ holds' = [holds EXCEPT ![p] = holds[p] \cup {arg[p]}]
      /\ arg' = [arg EXCEPT ![p] = NULL]
      /\ pc' = [pc EXCEPT ![p] = "kernel"]
      /\ UNCHANGED <<value, wakeup_flags>>
  BY DEF DownDone, Goto
<1>4. UNCHANGED wait_queue
  <2>1. p \notin ToSet(wait_queue[arg[p]])
    BY <1>2 DEF Waiters
  <2>2. RemoveFirst(wait_queue[arg[p]], p) = wait_queue[arg[p]]
    BY <1>2, <2>1, RemoveFirstAbsent DEF TypeOK
  <2>. QED BY <1>2, <1>3, <2>2 DEF TypeOK
<1>5. \A s \in Sem, q \in Proc : Owns(q, s)' <=> Owns(q, s)
  BY <1>1, <1>2, <1>3 DEF Owns, TypeOK
<1>6. \A s \in Sem : Owners(s)' = Owners(s)
  BY <1>5, OwnersOwn
<1>. QED BY <1>3, <1>4, <1>6

\* A step of one process p from one place to another, neither in __down.
LEMMA MoveStutters ==
  ASSUME IInv, NEW p \in Proc, NEW l, pc' = [pc EXCEPT ![p] = l],
         pc[p] # "down", l # "down",
         arg' = arg \/ \E a : arg' = [arg EXCEPT ![p] = a],
         UNCHANGED <<value, wait_queue, wakeup_flags, holds>>
  PROVE  UNCHANGED <<value, wait_queue, [s \in Sem |-> Owners(s)]>>
<1>1. pc \in [Proc -> Label] /\ arg \in [Proc -> Proc \cup Sem \cup {NULL}]
  BY DEF IInv, TypeOK
<1>2. \A r \in Proc : \/ pc'[r] = pc[r] /\ arg'[r] = arg[r]
                      \/ pc[r] # "down" /\ pc'[r] # "down"
  BY <1>1
<1>. QED BY <1>2, OthersStutter

\* do_wait is a stutter of every semaphore.
LEMMA DoWaitStutters ==
  ASSUME IInv, NEW p \in Proc, pc[p] # "down",
         NEW t \in Proc \cup Sem \cup {NULL}, do_wait(p, t)
  PROVE  UNCHANGED <<value, wait_queue, [s \in Sem |-> Owners(s)]>>
<1>. USE DEF IInv
<1>0. UNCHANGED <<value, wait_queue, wakeup_flags, holds>>
  BY DEF do_wait, semVars
<1>1. ASSUME NEW z \in Proc, state[z] = "ZOMBIE", Reap(p, z)
      PROVE  UNCHANGED <<value, wait_queue, [s \in Sem |-> Owners(s)]>>
  <2>1. pc[z] # "down"
    BY <1>1 DEF PcState
  <2>2. \A r \in Proc : \/ pc'[r] = pc[r] /\ arg'[r] = arg[r]
                        \/ pc[r] # "down" /\ pc'[r] # "down"
    BY <1>1, <2>1 DEF Reap, Return, TypeOK
  <2>. QED BY <1>0, <2>2, OthersStutter
<1>2. CASE WaitSleep(p, t)
  BY <1>0, <1>2, MoveStutters DEF WaitSleep, Goto
<1>3. CASE NoChild(p)
  <2>1. /\ arg' = [arg EXCEPT ![p] = NULL]
        /\ pc' = [pc EXCEPT ![p] = Return(p)] /\ Return(p) # "down"
    BY <1>3 DEF NoChild, Goto, Return
  <2>. QED BY <1>0, <2>1, MoveStutters
<1>. QED BY <1>1, <1>2, <1>3 DEF do_wait, Children

\* A step of the kernel is a step of SemSpec, or leaves its variables alone.
LEMMA SemStep ==
  ASSUME IInv, [Next]_vars
  PROVE  \/ UNCHANGED <<value, wait_queue, [s \in Sem |-> Owners(s)]>>
         \/ \E p \in Proc, s \in Sem :
              \/ Semaphore!Take(p, s) \/ Semaphore!WaitFor(p, s)
              \/ Semaphore!GiveBack(p, s)
              \/ Semaphore!HandOver(p, s) /\ ~Owns(Head(wait_queue[s]), s)
<1>. DEFINE Stutter == UNCHANGED <<value, wait_queue, [s \in Sem |-> Owners(s)]>>
<1>1. ASSUME UNCHANGED vars PROVE Stutter
  BY <1>1, OthersStutter DEF vars, procVars, semVars
<1>2. ASSUME IdleLoop \/ Schedule \/ Tick \/ Expire PROVE Stutter
  BY <1>2, OthersStutter DEF IdleLoop, Schedule, Tick, Expire, procVars, semVars
<1>3. ASSUME TickEnd PROVE Stutter
  <2>1. CASE current \in User
    <3>1. current \in Proc /\ pc[current] # "down"
      BY <1>3, <2>1 DEF TickEnd, ProcTick, IInv, OnProcessor, User
    <3>. QED BY <1>3, <2>1, <3>1, MoveStutters DEF TickEnd, Goto, semVars
  <2>2. CASE current \notin User
    BY <1>3, <2>2, OthersStutter DEF TickEnd, semVars
  <2>. QED BY <2>1, <2>2
<1>4. ASSUME InitWait PROVE Stutter
  BY <1>4, DoWaitStutters, KernelAssumption DEF InitWait, At
<1>5. ASSUME NEW p \in Proc, Process(p),
             ~\E s \in Sem : DownFree(p, s) \/ DownBlock(p, s) \/ UpFree(p, s) \/ UpHand(p, s)
      PROVE  Stutter
  <2>. USE DEF Goto, At, Caller, Return, schedVars, semVars
  <2>1. CASE TrapTail(p)
    BY <2>1, MoveStutters DEF TrapTail
  <2>2. CASE Yield(p) \/ ForkFails(p) \/ Exit(p) \/ Leave(p)
    BY <2>2, MoveStutters DEF Yield, ForkFails, Exit, Leave
  <2>3. CASE DoExit(p) \/ ExitWake(p) \/ Die(p)
    BY <2>3, MoveStutters DEF DoExit, ExitWake, Die
  <2>4. ASSUME NEW c \in Proc, Fork(p, c) PROVE Stutter
    <3>1. pc[p] # "down" /\ pc[c] # "down"
      BY <2>4 DEF Fork, Free, IInv, PcState
    <3>2. \A r \in Proc : \/ pc'[r] = pc[r] /\ arg'[r] = arg[r]
                          \/ pc[r] # "down" /\ pc'[r] # "down"
      BY <2>4, <3>1 DEF Fork, IInv, TypeOK
    <3>. QED BY <2>4, <3>2, OthersStutter DEF Fork
  <2>5. ASSUME NEW c \in Proc, Reparent(p, c) PROVE Stutter
    BY <2>5, OthersStutter DEF Reparent
  <2>6. CASE \E t \in Proc \cup {NULL} : Wait(p, t)
    BY <2>6, DoWaitStutters DEF Wait
  <2>7. CASE WaitAgain(p)
    <3>1. pc[p] = "wait" /\ arg[p] \in Proc \cup Sem \cup {NULL}
      BY <2>7 DEF WaitAgain, IInv, TypeOK
    <3>2. CASE exiting[p]
      BY <2>7, <3>1, <3>2, MoveStutters DEF WaitAgain
    <3>3. CASE ~exiting[p]
      BY <2>7, <3>1, <3>3, DoWaitStutters DEF WaitAgain
    <3>. QED BY <3>2, <3>3
  <2>8. CASE \E q \in Killable : Kill(p, q)
    BY <2>8, MoveStutters DEF Kill
  <2>9. CASE \E time \in 1 .. MaxSleep : Sleep(p, time)
    BY <2>9, MoveStutters DEF Sleep
  <2>10. CASE AddTimerWalk(p)
    BY <2>10, OthersStutter DEF AddTimerWalk, procVars
  <2>11. CASE AddTimerPlace(p) \/ SleepDone(p)
    BY <2>11, MoveStutters DEF AddTimerPlace, SleepDone
  <2>12. CASE DownDone(p)
    BY <2>12, DownDoneStutters
  <2>. QED BY <1>5, <2>1, <2>2, <2>3, <2>4, <2>5, <2>6, <2>7, <2>8, <2>9, <2>10, <2>11, <2>12
           DEF Process
<1>6. \/ Stutter
      \/ \E p \in Proc, s \in Sem :
           DownFree(p, s) \/ DownBlock(p, s) \/ UpFree(p, s) \/ UpHand(p, s)
  <2>1. CASE \E p \in Proc : Process(p)
    <3>1. PICK p \in Proc : Process(p)
      BY <2>1
    <3>2. CASE \E s \in Sem : DownFree(p, s) \/ DownBlock(p, s) \/ UpFree(p, s) \/ UpHand(p, s)
      BY <3>2
    <3>3. CASE ~\E s \in Sem : DownFree(p, s) \/ DownBlock(p, s) \/ UpFree(p, s) \/ UpHand(p, s)
      BY <1>5, <3>1, <3>3
    <3>. QED BY <3>2, <3>3
  <2>2. CASE ~\E p \in Proc : Process(p)
    BY <1>1, <1>2, <1>3, <1>4, <2>2 DEF Next, Interrupt, Halted
  <2>. QED BY <2>1, <2>2
<1>. QED BY <1>6, DownFreeTakes, DownBlockWaits, UpFreeGivesBack, UpHandHandsOver

\* up() and down() implement SemSpec: waiters are served in the order they
\* came, a unit that is given back goes to the first of them at once, and no
\* process that comes later takes it in between.
THEOREM SemaphoresImplement == Spec => SemaphoresFair
<1>1. Init => Semaphore!Init
  BY DEF Init, Semaphore!Init, Holders, Handed
<1>2. IInv /\ [Next]_vars => [Semaphore!Next]_(Semaphore!semVars)
  BY SemStep DEF Semaphore!Next, Semaphore!semVars, Owners
<1>. QED BY <1>1, <1>2, Invariance, PTL DEF Spec, SemaphoresFair, Semaphore!Spec

-----------------------------------------------------------------------------
(* No unit is lost.                                                        *)

\* Units that are free and units that are owned make up the initial value.
Units == \A s \in Sem : value[s] + Cardinality(Owners(s)) = SemValue[s]

\* The sets of owners can be counted.
LEMMA OwnersFinite ==
  ASSUME NEW s
  PROVE  IsFiniteSet(Owners(s)) /\ IsFiniteSet(Holders(s)) /\ IsFiniteSet(Handed(s))
<1>1. Holders(s) \subseteq Proc /\ Handed(s) \subseteq Proc
  BY DEF Holders, Handed
<1>. QED BY <1>1, FiniteAssumption, FS_Subset DEF Owners

\* Every step of SemSpec keeps the sum, and nothing else touches it.
LEMMA UnitsStep ==
  ASSUME IInv, Units, [Next]_vars PROVE Units'
<1>. USE DEF IInv
<1>1. \A s \in Sem : value[s] \in Nat /\ Cardinality(Owners(s)) \in Nat /\ IsFiniteSet(Owners(s))
  BY OwnersFinite, FS_CardinalityType DEF TypeOK
<1>2. CASE UNCHANGED <<value, wait_queue, [s \in Sem |-> Owners(s)]>>
  <2>1. value' = value /\ \A s \in Sem : Owners(s)' = Owners(s)
    <3>1. [s \in Sem |-> Owners(s)]' = [s \in Sem |-> Owners(s)]
      BY <1>2
    <3>2. \A s \in Sem : [r \in Sem |-> Owners(r)]'[s] = [r \in Sem |-> Owners(r)][s]
      BY <3>1
    <3>. QED BY <1>2, <3>2
  <2>2. ASSUME NEW s \in Sem PROVE value'[s] + Cardinality(Owners(s)') = SemValue[s]
    BY <2>1 DEF Units
  <2>. QED BY <2>2 DEF Units
<1>3. ASSUME NEW p \in Proc, NEW s \in Sem,
             \/ Semaphore!Take(p, s) \/ Semaphore!WaitFor(p, s)
             \/ Semaphore!GiveBack(p, s)
             \/ Semaphore!HandOver(p, s) /\ ~Owns(Head(wait_queue[s]), s)
      PROVE  Units'
  <2>. DEFINE After(n, S) ==
                /\ value' = [value EXCEPT ![s] = value[s] + n]
                /\ [r \in Sem |-> Owners(r)]' = [[r \in Sem |-> Owners(r)] EXCEPT ![s] = S]
                /\ Cardinality(S) = Cardinality(Owners(s)) - n
  <2>1. ASSUME NEW n \in Int, NEW S, After(n, S)
        PROVE  Units'
    <3>1. \A r \in Sem : Owners(r)' = IF r = s THEN S ELSE Owners(r)
      <4>1. \A r \in Sem : [q \in Sem |-> Owners(q)]'[r] = IF r = s THEN S ELSE Owners(r)
        BY <2>1
      <4>. QED BY <4>1
    <3>2. ASSUME NEW r \in Sem PROVE value'[r] + Cardinality(Owners(r)') = SemValue[r]
      <4>1. CASE r = s
        <5>1. Owners(s)' = S /\ value'[s] = value[s] + n
          BY <2>1, <3>1 DEF TypeOK
        <5>2. value[s] + Cardinality(Owners(s)) = SemValue[s]
          BY DEF Units
        <5>3. \A a, b \in Nat : (a + n) + (b - n) = a + b
          OBVIOUS
        <5>4. (value[s] + n) + (Cardinality(Owners(s)) - n) = value[s] + Cardinality(Owners(s))
          BY <1>1, <5>3
        <5>. QED BY <2>1, <4>1, <5>1, <5>2, <5>4
      <4>2. CASE r # s
        <5>1. value'[r] = value[r] /\ Owners(r)' = Owners(r)
          BY <2>1, <3>1, <4>2 DEF TypeOK
        <5>. QED BY <5>1 DEF Units
      <4>. QED BY <4>1, <4>2
    <3>. QED BY <3>2 DEF Units
  <2>. HIDE DEF After
  <2>. DEFINE w == Head(wait_queue[s])
  <2>2. CASE Semaphore!Take(p, s)
    <3>1. /\ [r \in Sem |-> Owners(r)]' =
               [[r \in Sem |-> Owners(r)] EXCEPT ![s] = Owners(s) \cup {p}]
          /\ value' = [value EXCEPT ![s] = value[s] + (-1)]
          /\ p \notin Owners(s)
      BY <1>1, <2>2 DEF Semaphore!Take, Owners
    <3>2. Cardinality(Owners(s) \cup {p}) = Cardinality(Owners(s)) + 1
      BY <1>1, <3>1, FS_AddElement
    <3>3. After(-1, Owners(s) \cup {p})
      BY <1>1, <3>1, <3>2 DEF After
    <3>. QED BY <2>1, <3>3
  <2>3. CASE Semaphore!WaitFor(p, s)
    <3>1. /\ [r \in Sem |-> Owners(r)]' = [r \in Sem |-> Owners(r)] /\ value' = value
      BY <2>3 DEF Semaphore!WaitFor, Owners
    <3>2. \A r \in Sem : Owners(r)' = Owners(r)
      <4>1. \A r \in Sem : [q \in Sem |-> Owners(q)]'[r] = Owners(r)
        BY <3>1
      <4>. QED BY <4>1
    <3>. QED BY <3>1, <3>2 DEF Units
  <2>4. CASE Semaphore!GiveBack(p, s)
    <3>1. /\ [r \in Sem |-> Owners(r)]' =
               [[r \in Sem |-> Owners(r)] EXCEPT ![s] = Owners(s) \ {p}]
          /\ value' = [value EXCEPT ![s] = value[s] + 1]
          /\ p \in Owners(s)
      BY <2>4 DEF Semaphore!GiveBack, Owners
    <3>2. Cardinality(Owners(s) \ {p}) = Cardinality(Owners(s)) - 1
      BY <1>1, <3>1, FS_RemoveElement
    <3>3. After(1, Owners(s) \ {p})
      BY <1>1, <3>1, <3>2 DEF After
    <3>. QED BY <2>1, <3>3
  <2>5. CASE Semaphore!HandOver(p, s) /\ ~Owns(w, s)
    <3>1. /\ [r \in Sem |-> Owners(r)]' =
               [[r \in Sem |-> Owners(r)] EXCEPT ![s] = (Owners(s) \ {p}) \cup {w}]
          /\ p \in Owners(s) /\ wait_queue[s] # <<>> /\ value' = value
      BY <2>5 DEF Semaphore!HandOver, Owners
    <3>2. w \notin Owners(s)
      BY <2>5, <3>1, OwnersOwn, TailInjective DEF Waiters, TypeOK
    <3>3. /\ IsFiniteSet(Owners(s) \ {p})
          /\ Cardinality(Owners(s) \ {p}) = Cardinality(Owners(s)) - 1
      BY <1>1, <3>1, FS_RemoveElement
    <3>4. Cardinality((Owners(s) \ {p}) \cup {w}) = Cardinality(Owners(s)) - 1 + 1
      BY <3>2, <3>3, FS_AddElement
    <3>5. Cardinality((Owners(s) \ {p}) \cup {w}) = Cardinality(Owners(s)) - 0
      BY <1>1, <3>4
    <3>6. value' = [value EXCEPT ![s] = value[s] + 0]
      BY <1>1, <3>1 DEF TypeOK
    <3>7. After(0, (Owners(s) \ {p}) \cup {w})
      BY <3>1, <3>5, <3>6 DEF After
    <3>. QED BY <2>1, <3>7
  <2>. QED BY <1>3, <2>2, <2>3, <2>4, <2>5
<1>. QED BY <1>2, <1>3, SemStep

\* Whatever is interrupted, killed or handed over, the value of a semaphore, the
\* processes that hold a unit and those that were handed one make up its initial
\* value, and a unit is free only while nobody waits for it.
THEOREM SemaphoresAccounted == Spec => []SemAccounting
<1>1. Init => Units
  <2>. SUFFICES ASSUME Init, NEW s \in Sem
                PROVE  value[s] + Cardinality(Owners(s)) = SemValue[s]
    BY DEF Units
  <2>1. Owners(s) = {} /\ value[s] = SemValue[s] /\ SemValue[s] \in Nat
    BY KernelAssumption DEF Init, Owners, Holders, Handed
  <2>. QED BY <2>1, FS_EmptySet
<1>2. IInv /\ Units /\ [Next]_vars => Units'
  BY UnitsStep
<1>3. IInv /\ Units => SemAccounting
  <2>. SUFFICES ASSUME IInv, Units, NEW s \in Sem
                PROVE  /\ value[s] + Cardinality(Holders(s)) + Cardinality(Handed(s)) = SemValue[s]
                       /\ value[s] > 0 => wait_queue[s] = <<>>
    BY DEF SemAccounting
  <2>1. Holders(s) \cap Handed(s) = {}
    BY DEF Holders, Handed, IInv, InDown
  <2>2. Cardinality(Holders(s) \cap Handed(s)) = 0
    BY <2>1, FS_EmptySet
  <2>3. Cardinality(Owners(s)) = Cardinality(Holders(s)) + Cardinality(Handed(s))
                                   - Cardinality(Holders(s) \cap Handed(s))
    BY OwnersFinite, FS_Union DEF Owners
  <2>4. Cardinality(Holders(s)) \in Nat /\ Cardinality(Handed(s)) \in Nat /\ value[s] \in Nat
    BY OwnersFinite, FS_CardinalityType DEF IInv, TypeOK
  <2>. QED BY <2>2, <2>3, <2>4 DEF Units, IInv, Waiters
<1>. QED BY <1>1, <1>2, <1>3, Invariance, PTL DEF Spec

-----------------------------------------------------------------------------
(* What the family and the sleepers keep.                                  *)

Exiting == {"exit_wake", "reparent"}

\* No other process runs between the stages of do_exit.
ExitRuns ==
  \A p \in Proc : pc[p] \in Exiting => current = p /\ ~in_sched

\* Lineage, by the places of the processes.
Line ==
  /\ \A p \in Proc \ {Initproc} :
       IF pc[p] = "none" THEN parent[p] = NULL
       ELSE parent[p] \in Proc /\ pc[parent[p]] \notin {"none", "dead"}
  /\ nr_process = 1 + Cardinality({p \in Proc : pc[p] # "none"})

\* Whoever follows `parent` comes to initproc: no set of processes is closed.
NoCycle ==
  \A S \in SUBSET (Proc \ {Initproc}) :
    S # {} /\ (\A p \in S : pc[p] # "none") => \E p \in S : parent[p] \notin S

FamilyInv == ExitRuns /\ Line /\ NoCycle /\ arg[Initproc] = NULL /\ InitprocLast

\* A process past its own wakeup_proc, or reaped by none yet.
Done == {"reparent", "dead"}

\* What p waits for is there, and where p is while it waits.
Waits(p) ==
  /\ wait_state[p] # "WT_KBD"
  /\ wait_state[p] = "WT_KSEM" =>
       pc[p] = "down" /\ arg[p] \in Sem /\ p \in ToSet(wait_queue[arg[p]])
  /\ wait_state[p] = "WT_TIMER" => pc[p] = "add_timer" \/ (pc[p] = "sleep" /\ HasTimer(p))
  /\ wait_state[p] = "WT_CHILD" =>
       /\ pc[p] = "wait"
       /\ \E c \in Proc : Awaited(p, c)
       /\ \A c \in Proc : Awaited(p, c) => pc[c] \notin Done
  /\ pc[p] = "sleep" /\ state[p] = "RUNNABLE" /\ HasTimer(p) => exiting[p]

SleepInv == \A p \in Proc : Waits(p)
-----------------------------------------------------------------------------
(* The family.                                                             *)

\* Line says the same as Lineage of the states the scheduler keeps.
LEMMA LineIsLineage ==
  ASSUME IInv
  PROVE  Line <=> Lineage
<1>1. \A p \in Proc : /\ state[p] = "NONE" <=> pc[p] = "none"
                      /\ state[p] = "ZOMBIE" <=> pc[p] \in {"exit_wake", "reparent", "dead"}
  BY DEF IInv, PcState
<1>2. {p \in Proc : pc[p] # "none"} = {p \in Proc : state[p] # "NONE"}
  BY <1>1
<1>3. (\A p \in Proc \ {Initproc} :
         IF pc[p] = "none" THEN parent[p] = NULL
         ELSE parent[p] \in Proc /\ pc[parent[p]] \notin {"none", "dead"})
      <=>
      (\A p \in Proc \ {Initproc} :
         IF state[p] = "NONE" THEN parent[p] = NULL
         ELSE /\ parent[p] \in Proc
              /\ state[parent[p]] # "NONE"
              /\ state[parent[p]] = "ZOMBIE" => pc[parent[p]] \in {"exit_wake", "reparent"})
  BY <1>1
<1>. QED BY <1>2, <1>3 DEF Line, Lineage

\* proc_init leaves initproc alone under idleproc.
LEMMA FamilyInit ==
  ASSUME Init
  PROVE  FamilyInv
<1>. USE SchedAssumption, KernelAssumption
<1>1. /\ \A p \in Proc : pc[p] = (IF p = Initproc THEN "kernel" ELSE "none")
      /\ \A p \in Proc \ {Initproc} : parent[p] = NULL
      /\ \A p \in Proc : arg[p] = NULL
      /\ nr_process = 2 /\ halt = "no"
  BY DEF Init, SchedInit
<1>2. ExitRuns /\ NoCycle /\ arg[Initproc] = NULL /\ InitprocLast
  BY <1>1 DEF ExitRuns, NoCycle, InitprocLast, Exiting
<1>3. {p \in Proc : pc[p] # "none"} = {Initproc}
  BY <1>1
<1>4. Line
  BY <1>1, <1>3, FS_Singleton DEF Line
<1>. QED BY <1>2, <1>4 DEF FamilyInv

\* A step that leaves the parents as they are keeps the family, if nobody is
\* born or reaped and whoever dies has no children.
LEMMA FamilyFrame ==
  ASSUME FamilyInv, UNCHANGED <<parent, nr_process>>, halt' # "left",
         arg'[Initproc] = NULL,
         \A r \in Proc : pc'[r] = "none" <=> pc[r] = "none",
         \A r \in Proc : pc'[r] = "dead" => pc[r] = "dead" \/ Children(r) = {},
         ExitRuns'
  PROVE  FamilyInv'
<1>1. {p \in Proc : pc'[p] # "none"} = {p \in Proc : pc[p] # "none"}
  OBVIOUS
<1>2. ASSUME NEW p \in Proc \ {Initproc}
      PROVE  IF pc'[p] = "none" THEN parent'[p] = NULL
             ELSE parent'[p] \in Proc /\ pc'[parent'[p]] \notin {"none", "dead"}
  BY DEF FamilyInv, Line, Children
<1>3. Line'
  BY <1>1, <1>2 DEF FamilyInv, Line
<1>4. NoCycle'
  BY DEF FamilyInv, NoCycle
<1>. QED BY <1>3, <1>4 DEF FamilyInv, InitprocLast

\* Nobody starts an exit, and whoever is in one keeps the processor.
LEMMA ExitFrame ==
  ASSUME ExitRuns, TypeOK,
         \A r \in Proc : pc'[r] \in Exiting => pc[r] \in Exiting,
         \/ UNCHANGED <<current, in_sched>>
         \/ in_sched \/ current \notin Proc \/ pc[current] \notin Exiting
  PROVE  ExitRuns'
BY DEF ExitRuns

\* A step of p from a place outside do_exit to another one.
LEMMA FamilyMove ==
  ASSUME IInv, FamilyInv, UNCHANGED <<parent, nr_process>>, halt' # "left",
         NEW p \in Proc, current = p, pc[p] \notin Exiting \cup {"none", "dead"},
         NEW l \in Label \ (Exiting \cup {"none", "dead"}), pc' = [pc EXCEPT ![p] = l],
         arg'[Initproc] = NULL
  PROVE  FamilyInv'
<1>1. pc \in [Proc -> Label]
  BY DEF IInv, TypeOK
<1>2. \A r \in Proc : pc'[r] = IF r = p THEN l ELSE pc[r]
  BY <1>1
<1>3. ExitRuns'
  BY <1>2, ExitFrame DEF FamilyInv, IInv
<1>. QED BY <1>2, <1>3, FamilyFrame

\* ... or one that leaves the places as they are.
LEMMA FamilyStays ==
  ASSUME IInv, FamilyInv, UNCHANGED <<parent, nr_process, pc, arg>>, halt' # "left",
         \/ UNCHANGED <<current, in_sched>>
         \/ in_sched \/ current \notin Proc \/ pc[current] \notin Exiting
  PROVE  FamilyInv'
<1>1. ExitRuns'
  BY ExitFrame DEF FamilyInv, IInv
<1>. QED BY <1>1, FamilyFrame DEF FamilyInv

\* The steps that nobody's family is touched by.
LEMMA FamilyQuiet ==
  ASSUME IInv, IInv', FamilyInv, NEW p \in Proc,
         \/ TrapTail(p) \/ Yield(p) \/ ForkFails(p) \/ Exit(p) \/ Leave(p)
         \/ WaitAgain(p) /\ exiting[p]
         \/ \E q \in Killable : Kill(p, q)
         \/ \E time \in 1 .. MaxSleep : Sleep(p, time)
         \/ AddTimerWalk(p) \/ AddTimerPlace(p) \/ SleepDone(p)
         \/ \E s \in Sem : DownFree(p, s) \/ DownBlock(p, s) \/ UpFree(p, s) \/ UpHand(p, s)
         \/ DownDone(p)
  PROVE  FamilyInv'
<1>. USE DEF procVars, semVars, schedVars, At, Running, Goto, Caller, Return, Label
<1>1. halt # "left" /\ arg[Initproc] = NULL /\ NULL # Initproc /\ Initproc \in Proc
  BY KernelAssumption DEF FamilyInv, InitprocLast
<1>2. arg \in [Proc -> Proc \cup Sem \cup {NULL}] /\ pc[Initproc] \in {"kernel", "loop", "wait"}
  BY DEF IInv, TypeOK, Parents
<1>3. CASE TrapTail(p) \/ Yield(p) \/ ForkFails(p) \/ Exit(p) \/ Leave(p)
  BY <1>1, <1>3, FamilyMove DEF TrapTail, Yield, ForkFails, Exit, Leave, Exiting
<1>4. CASE WaitAgain(p) /\ exiting[p]
  BY <1>1, <1>2, <1>4, FamilyMove DEF WaitAgain, Exiting
<1>5. CASE \E q \in Killable : Kill(p, q)
  <2>1. halt' # "left"
    BY <1>1, <1>5 DEF Kill, KAssert
  <2>. QED BY <1>1, <1>5, <2>1, FamilyMove DEF Kill, Exiting
<1>6. CASE \E time \in 1 .. MaxSleep : Sleep(p, time)
  BY <1>1, <1>6, FamilyMove DEF Sleep, Exiting
<1>7. CASE AddTimerWalk(p)
  BY <1>1, <1>7, FamilyStays DEF AddTimerWalk
<1>8. CASE AddTimerPlace(p) \/ SleepDone(p)
  BY <1>1, <1>8, FamilyMove DEF AddTimerPlace, SleepDone, Exiting
<1>9. CASE \E s \in Sem : DownFree(p, s) \/ DownBlock(p, s) \/ UpFree(p, s) \/ UpHand(p, s)
  <2>. PICK s \in Sem : DownFree(p, s) \/ DownBlock(p, s) \/ UpFree(p, s) \/ UpHand(p, s)
    BY <1>9
  <2>1. CASE DownFree(p, s)
    BY <1>1, <2>1, FamilyMove DEF DownFree, MayLock, Exiting
  <2>2. CASE DownBlock(p, s)
    <3>1. arg'[Initproc] = NULL
      BY <1>1, <1>2, <2>2 DEF DownBlock, MayLock
    <3>. QED BY <1>1, <2>2, <3>1, FamilyMove DEF DownBlock, MayLock, Exiting
  <2>3. CASE UpFree(p, s)
    BY <1>1, <2>3, FamilyStays DEF UpFree
  <2>4. CASE UpHand(p, s)
    <3>1. halt' # "left"
      BY <1>1, <2>4 DEF UpHand, KAssert
    <3>. QED BY <1>1, <2>4, <3>1, FamilyStays DEF UpHand
  <2>. QED BY <2>1, <2>2, <2>3, <2>4
<1>10. CASE DownDone(p)
  <2>1. halt' # "left" /\ arg'[Initproc] = NULL
    BY <1>1, <1>2, <1>10 DEF DownDone, KAssert
  <2>. QED BY <1>1, <1>10, <2>1, FamilyMove DEF DownDone, Exiting
<1>. QED BY <1>3, <1>4, <1>5, <1>6, <1>7, <1>8, <1>9, <1>10

\* Nor by the scheduler and the timer interrupt.
LEMMA FamilySched ==
  ASSUME IInv, FamilyInv, IdleLoop \/ Schedule \/ Interrupt \/ UNCHANGED vars
  PROVE  FamilyInv'
<1>. USE DEF procVars, semVars, schedVars
<1>1. halt # "left"
  BY DEF FamilyInv, InitprocLast
<1>2. CASE IdleLoop
  BY <1>1, <1>2, SchedAssumption, FamilyStays DEF IdleLoop, Running
<1>3. CASE Schedule
  <2>1. halt' # "left"
    BY <1>1, <1>3 DEF Schedule, schedule, KAssert
  <2>. QED BY <1>3, <2>1, FamilyStays DEF Schedule, schedule
<1>4. CASE Tick
  <2>1. halt' # "left"
    BY <1>1, <1>4 DEF Tick, TimerInterrupt, KAssert
  <2>. QED BY <1>4, <2>1, FamilyStays DEF Tick, TimerInterrupt
<1>5. CASE Expire
  <2>1. halt' # "left"
    BY <1>1, <1>5 DEF Expire, ExpireTimer, KAssert
  <2>. QED BY <1>5, <2>1, FamilyStays DEF Expire, ExpireTimer
<1>6. CASE TickEnd
  <2>1. CASE current \in User
    <3>1. current \in Proc /\ pc[current] = "user"
      BY <1>6, <2>1 DEF TickEnd, ProcTick, User, IInv, OnProcessor
    <3>. QED BY <1>1, <1>6, <2>1, <3>1, FamilyMove
             DEF TickEnd, ProcTick, Goto, Exiting, Label, FamilyInv
  <2>2. CASE current \notin User
    BY <1>1, <1>6, <2>2, FamilyStays DEF TickEnd, ProcTick
  <2>. QED BY <2>1, <2>2
<1>7. CASE UNCHANGED vars
  BY <1>1, <1>7, FamilyStays DEF vars
<1>. QED BY <1>2, <1>3, <1>4, <1>5, <1>6, <1>7 DEF Interrupt

\* The stages of do_exit; a process that dies has given its children away.
LEMMA FamilyExit ==
  ASSUME IInv, FamilyInv, NEW p \in Proc, DoExit(p) \/ ExitWake(p) \/ Die(p)
  PROVE  FamilyInv'
<1>1. /\ current = p /\ ~in_sched /\ pc[p] \in {"exit", "exit_wake", "reparent"}
      /\ UNCHANGED <<parent, nr_process, arg, current>> /\ halt # "left"
  BY DEF DoExit, ExitWake, Die, At, Running, semVars, FamilyInv, InitprocLast
<1>2. halt' # "left"
  BY <1>1 DEF DoExit, ExitWake, Die, WakeIfWaiting, KAssert
<1>3. PICK l \in {"exit_wake", "reparent", "dead"} :
        /\ pc' = [pc EXCEPT ![p] = l]
        /\ l # "dead" => in_sched' = in_sched
        /\ l = "dead" => Children(p) = {}
  BY DEF DoExit, ExitWake, Die, Goto
<1>4. \A r \in Proc : pc'[r] = IF r = p THEN l ELSE pc[r]
  BY <1>3 DEF IInv, TypeOK
<1>5. ExitRuns'
  BY <1>1, <1>3, <1>4 DEF FamilyInv, ExitRuns, Exiting
<1>. QED BY <1>1, <1>2, <1>3, <1>4, <1>5, FamilyFrame DEF FamilyInv

\* A child that goes to initproc is under a parent that never dies.
LEMMA FamilyReparent ==
  ASSUME IInv, FamilyInv, NEW p \in Proc, NEW c \in Proc, Reparent(p, c)
  PROVE  FamilyInv'
<1>1. /\ parent' = [parent EXCEPT ![c] = Initproc] /\ c \in Children(p)
      /\ UNCHANGED <<nr_process, arg, current, in_sched, pc>> /\ halt # "left"
  BY DEF Reparent, semVars, FamilyInv, InitprocLast
<1>2. halt' # "left"
  BY <1>1 DEF Reparent, WakeIfWaiting, KAssert
<1>3. /\ parent \in [Proc -> Proc \cup {Idle, NULL}] /\ Initproc \in Proc
      /\ pc[Initproc] \in {"kernel", "loop", "wait"}
      /\ NULL \notin Proc
  BY KernelAssumption DEF IInv, TypeOK, Parents
<1>4. \A q \in Proc : parent'[q] = IF q = c THEN Initproc ELSE parent[q]
  BY <1>1, <1>3
<1>5. Line'
  <2>1. c # Initproc => pc[c] # "none"
    BY <1>1, <1>3 DEF FamilyInv, Line, Children
  <2>. QED BY <1>1, <1>3, <1>4, <2>1 DEF FamilyInv, Line
<1>6. NoCycle'
  <2>. SUFFICES ASSUME NEW S \in SUBSET (Proc \ {Initproc}), S # {}, \A q \in S : pc[q] # "none"
                PROVE  \E q \in S : parent'[q] \notin S
    BY <1>1 DEF NoCycle
  <2>1. PICK q \in S : parent[q] \notin S
    BY DEF FamilyInv, NoCycle
  <2>. QED BY <1>4, <2>1
<1>. QED BY <1>1, <1>2, <1>5, <1>6 DEF FamilyInv, ExitRuns, InitprocLast

\* The child of do_fork has no children itself yet.
LEMMA FamilyFork ==
  ASSUME IInv, FamilyInv, NEW p \in Proc, NEW c \in Proc, Fork(p, c)
  PROVE  FamilyInv'
<1>1. /\ current = p /\ ~in_sched /\ pc[p] \in {"user", "kernel"} /\ pc[c] = "none"
      /\ parent' = [parent EXCEPT ![c] = p] /\ nr_process' = nr_process + 1
      /\ pc' = [pc EXCEPT ![c] = Caller(c), ![p] = Return(p)]
      /\ UNCHANGED <<arg, current, in_sched>> /\ halt # "left" /\ state[c] = "NONE"
  BY DEF Fork, At, Running, Caller, Free, IInv, PcState, FamilyInv, InitprocLast
<1>2. halt' # "left"
  BY <1>1 DEF Fork, KAssert
<1>3. /\ parent \in [Proc -> Proc \cup {Idle, NULL}] /\ Initproc \in Proc
      /\ pc[Initproc] \in {"kernel", "loop", "wait"} /\ pc \in [Proc -> Label]
      /\ NULL \notin Proc
  BY KernelAssumption DEF IInv, TypeOK, Parents
<1>4. /\ c # p /\ c # Initproc
      /\ \A q \in Proc : parent'[q] = IF q = c THEN p ELSE parent[q]
      /\ Caller(c) \in {"user", "kernel"} /\ Return(p) \in {"tail", "kernel"}
      /\ \A q \in Proc : pc'[q] = IF q = c THEN Caller(c) ELSE IF q = p THEN Return(p) ELSE pc[q]
  BY <1>1, <1>3 DEF Caller, Return
<1>. DEFINE Live == {q \in Proc : pc[q] # "none"}
<1>5. nr_process' = 1 + Cardinality({q \in Proc : pc'[q] # "none"})
  <2>1. {q \in Proc : pc'[q] # "none"} = Live \cup {c} /\ c \notin Live
    BY <1>1, <1>4
  <2>2. IsFiniteSet(Live) /\ Cardinality(Live) \in Nat
    BY FiniteAssumption, FS_Subset, FS_CardinalityType
  <2>3. Cardinality(Live \cup {c}) = Cardinality(Live) + 1
    BY <2>1, <2>2, FS_AddElement
  <2>4. nr_process = 1 + Cardinality(Live)
    BY DEF FamilyInv, Line
  <2>5. Cardinality({q \in Proc : pc'[q] # "none"}) = Cardinality(Live) + 1
    BY <2>1, <2>3
  <2>. HIDE DEF Live
  <2>. QED BY <1>1, <2>2, <2>4, <2>5
<1>6. \A q \in Proc \ {Initproc} :
         IF pc'[q] = "none" THEN parent'[q] = NULL
         ELSE parent'[q] \in Proc /\ pc'[parent'[q]] \notin {"none", "dead"}
  BY <1>1, <1>3, <1>4 DEF FamilyInv, Line
<1>7. NoCycle'
  <2>. SUFFICES ASSUME NEW S \in SUBSET (Proc \ {Initproc}), S # {}, \A q \in S : pc'[q] # "none"
                PROVE  \E q \in S : parent'[q] \notin S
    BY DEF NoCycle
  <2>1. \A q \in S \ {c} : pc[q] # "none"
    BY <1>1, <1>4
  <2>2. CASE S = {c}
    BY <1>4, <2>2
  <2>3. CASE S # {c}
    <3>1. PICK q \in S \ {c} : parent[q] \notin S \ {c}
      <4>1. S \ {c} \in SUBSET (Proc \ {Initproc}) /\ S \ {c} # {}
        BY <2>3
      <4>. QED BY <2>1, <4>1 DEF FamilyInv, NoCycle
    <3>2. parent[q] # c
      BY <1>1, <2>1 DEF FamilyInv, Line
    <3>. QED BY <1>4, <3>1, <3>2
  <2>. QED BY <2>2, <2>3
<1>8. ExitRuns'
  BY <1>1, <1>4 DEF FamilyInv, ExitRuns, Exiting
<1>. QED BY <1>1, <1>2, <1>5, <1>6, <1>7, <1>8 DEF FamilyInv, Line, InitprocLast

\* Nobody's parent is reaped; the last process that is reaped leaves initproc.
LEMMA FamilyDoWait ==
  ASSUME IInv, FamilyInv, NEW p \in Proc, Running(p),
         pc[p] \in {"user", "kernel", "loop", "wait"},
         NEW t \in Proc \cup Sem \cup {NULL}, p = Initproc => t = NULL, do_wait(p, t)
  PROVE  FamilyInv'
<1>1. /\ current = p /\ ~in_sched /\ halt # "left" /\ state[p] = "RUNNABLE"
      /\ pc \in [Proc -> Label] /\ arg \in [Proc -> Proc \cup Sem \cup {NULL}]
      /\ parent \in [Proc -> Proc \cup {Idle, NULL}]
      /\ Return(p) \in {"tail", "kernel"} /\ Initproc \in Proc
      /\ pc[Initproc] \in {"kernel", "loop", "wait"} /\ NULL \notin Proc
      /\ arg[Initproc] = NULL
  BY Runner, KernelAssumption DEF IInv, TypeOK, Parents, Return, FamilyInv, InitprocLast
<1>2. ASSUME NEW z \in Proc, state[z] = "ZOMBIE", Reap(p, z) PROVE FamilyInv'
  <2>1. /\ parent' = [parent EXCEPT ![z] = NULL] /\ nr_process' = nr_process - 1
        /\ arg' = [arg EXCEPT ![p] = NULL]
        /\ pc' = [pc EXCEPT ![z] = "none", ![p] = IF p = Initproc THEN "loop" ELSE Return(p)]
        /\ UNCHANGED <<current, halt>>
    BY <1>2 DEF Reap
  <2>2. z # p /\ pc[z] = "dead" /\ z # Initproc
    BY <1>1, <1>2 DEF IInv, PcState, FamilyInv, ExitRuns, Exiting
  <2>3. /\ \A q \in Proc : parent'[q] = IF q = z THEN NULL ELSE parent[q]
        /\ \A q \in Proc \ {z, p} : pc'[q] = pc[q]
        /\ pc'[z] = "none" /\ pc'[p] \in {"tail", "kernel", "loop"}
    BY <1>1, <2>1, <2>2
  <2>. DEFINE Live == {q \in Proc : pc[q] # "none"}
  <2>4. nr_process' = 1 + Cardinality({q \in Proc : pc'[q] # "none"})
    <3>1. {q \in Proc : pc'[q] # "none"} = Live \ {z} /\ z \in Live
      BY <1>1, <2>2, <2>3
    <3>2. IsFiniteSet(Live) /\ Cardinality(Live) \in Nat
      BY FiniteAssumption, FS_Subset, FS_CardinalityType
    <3>3. Cardinality(Live \ {z}) = Cardinality(Live) - 1
      BY <3>1, <3>2, FS_RemoveElement
    <3>4. nr_process = 1 + Cardinality(Live)
      BY DEF FamilyInv, Line
    <3>5. Cardinality({q \in Proc : pc'[q] # "none"}) = Cardinality(Live) - 1
      BY <3>1, <3>3
    <3>. HIDE DEF Live
    <3>. QED BY <2>1, <3>2, <3>4, <3>5
  <2>5. \A q \in Proc \ {Initproc} :
           IF pc'[q] = "none" THEN parent'[q] = NULL
           ELSE parent'[q] \in Proc /\ pc'[parent'[q]] \notin {"none", "dead"}
    BY <1>1, <2>2, <2>3 DEF FamilyInv, Line
  <2>6. NoCycle'
    <3>. SUFFICES ASSUME NEW S \in SUBSET (Proc \ {Initproc}), S # {}, \A q \in S : pc'[q] # "none"
                  PROVE  \E q \in S : parent'[q] \notin S
      BY DEF NoCycle
    <3>1. \A q \in S : pc[q] # "none" /\ q # z
      BY <1>1, <2>3
    <3>. QED BY <2>3, <3>1 DEF FamilyInv, NoCycle
  <2>7. ExitRuns' /\ arg'[Initproc] = NULL
    BY <1>1, <2>1, <2>3 DEF FamilyInv, ExitRuns, Exiting
  <2>. QED BY <1>1, <2>1, <2>4, <2>5, <2>6, <2>7 DEF FamilyInv, Line, InitprocLast
<1>3. ASSUME WaitSleep(p, t) PROVE FamilyInv'
  <2>1. arg'[Initproc] = NULL
    BY <1>1, <1>3 DEF WaitSleep
  <2>. QED BY <1>1, <1>3, <2>1, FamilyMove DEF WaitSleep, Goto, Label, Exiting
<1>4. ASSUME NoChild(p), Children(p) \cap (IF t = NULL THEN Proc ELSE {t}) = {} PROVE FamilyInv'
  <2>1. CASE p # Initproc
    BY <1>1, <1>4, <2>1, FamilyMove DEF NoChild, Goto, Label, Exiting
  <2>2. CASE p = Initproc
    <3>1. \A q \in Proc : parent[q] # Initproc
      BY <1>4, <2>2 DEF Children
    <3>. DEFINE S == {q \in Proc \ {Initproc} : pc[q] # "none"}
    <3>2. S = {}
      <4>. SUFFICES ASSUME S # {} PROVE FALSE
        OBVIOUS
      <4>1. PICK q \in S : parent[q] \notin S
        BY DEF FamilyInv, NoCycle
      <4>2. parent[q] \in Proc /\ pc[parent[q]] # "none"
        BY DEF FamilyInv, Line
      <4>. QED BY <3>1, <4>1, <4>2
    <3>3. {q \in Proc : pc[q] # "none"} = {Initproc}
      BY <1>1, <3>2
    <3>4. nr_process = 2
      BY <3>3, FS_Singleton DEF FamilyInv, Line
    <3>5. \A q \in Proc \ {Initproc} : state[q] = "NONE"
      BY <3>2 DEF IInv, PcState
    <3>6. halt' = "done"
      BY <1>4, <2>2, <3>4, <3>5 DEF NoChild
    <3>. QED BY <1>1, <1>4, <3>6, FamilyMove DEF NoChild, Goto, Label, Exiting
  <2>. QED BY <2>1, <2>2
<1>. QED BY <1>2, <1>3, <1>4 DEF do_wait, Children

\* Every step of the kernel keeps the family together, and so does a stutter.
LEMMA FamilyNext ==
  ASSUME IInv, IInv', FamilyInv, [Next]_vars
  PROVE  FamilyInv'
<1>1. CASE IdleLoop \/ Schedule \/ Interrupt \/ Halted \/ UNCHANGED vars
  BY <1>1, FamilySched DEF Halted
<1>2. CASE InitWait
  BY <1>2, KernelAssumption, FamilyDoWait DEF InitWait, At
<1>3. ASSUME NEW p \in Proc, Process(p) PROVE FamilyInv'
  <2>1. pc[Initproc] \in {"kernel", "loop", "wait"} /\ arg \in [Proc -> Proc \cup Sem \cup {NULL}]
    BY DEF IInv, TypeOK, Parents
  <2>2. CASE \E t \in Proc \cup {NULL} : Wait(p, t)
    BY <2>1, <2>2, FamilyDoWait DEF Wait, At
  <2>3. CASE WaitAgain(p) /\ ~exiting[p]
    BY <2>1, <2>3, FamilyDoWait DEF WaitAgain, At, FamilyInv
  <2>4. CASE \E c \in Proc : Fork(p, c) \/ Reparent(p, c)
    BY <2>4, FamilyFork, FamilyReparent
  <2>5. CASE DoExit(p) \/ ExitWake(p) \/ Die(p)
    BY <2>5, FamilyExit
  <2>. QED BY <1>3, <2>2, <2>3, <2>4, <2>5, FamilyQuiet DEF Process
<1>. QED BY <1>1, <1>2, <1>3 DEF Next
-----------------------------------------------------------------------------
(* The sleepers.                                                           *)

\* Nobody waits at the start.
LEMMA SleepInit ==
  ASSUME Init
  PROVE  SleepInv
BY DEF Init, SchedInit, SleepInv, Waits

\* A process in none of the places of a wait waits for nothing.
LEMMA Wakeful ==
  ASSUME IInv, SleepInv, NEW r \in Proc, pc[r] \notin {"down", "add_timer", "sleep", "wait"}
  PROVE  wait_state[r] = "0"
BY DEF IInv, TypeOK, SchedTypeOK, WaitState, SleepInv, Waits

\* A process that is awake waits for nothing, unless it was woken too early.
LEMMA WakesUp ==
  ASSUME NEW r \in Proc, wait_state'[r] = "0",
         pc'[r] = "sleep" /\ state'[r] = "RUNNABLE" /\ HasTimer(r)' => exiting'[r]
  PROVE  Waits(r)'
BY DEF Waits

\* A bystander of a step.
LEMMA StillWaits ==
  ASSUME SleepInv, NEW r \in Proc,
         wait_state'[r] = wait_state[r], state'[r] = state[r], pc'[r] = pc[r],
         arg'[r] = arg[r], exiting[r] => exiting'[r],
         HasTimer(r)' <=> HasTimer(r),
         wait_state[r] = "WT_KSEM" /\ r \in ToSet(wait_queue[arg[r]])
           => r \in ToSet(wait_queue'[arg[r]]),
         wait_state[r] = "WT_CHILD" =>
           \A c \in Proc : /\ parent'[c] = r <=> parent[c] = r
                           /\ parent[c] = r /\ pc'[c] \in Done => pc[c] \in Done
  PROVE  Waits(r)'
BY DEF SleepInv, Waits, Awaited

\* A step that leaves parents, queues and timers as they are and nobody but p
\* and q at another place.
LEMMA OthersWait ==
  ASSUME SleepInv, NEW p \in Proc, NEW q \in Proc,
         UNCHANGED <<parent, wait_queue, timer_list>>,
         \A r \in Proc : r # p /\ r # q =>
           /\ wait_state'[r] = wait_state[r] /\ state'[r] = state[r] /\ pc'[r] = pc[r]
           /\ arg'[r] = arg[r] /\ (exiting[r] => exiting'[r]),
         pc'[p] \in Done => pc[p] \in Done, pc'[q] \in Done => pc[q] \in Done,
         Waits(p)', Waits(q)'
  PROVE  SleepInv'
<1>1. ASSUME NEW r \in Proc, r # p, r # q PROVE Waits(r)'
  <2>1. HasTimer(r)' <=> HasTimer(r)
    BY DEF HasTimer
  <2>2. \A c \in Proc : pc'[c] \in Done => pc[c] \in Done
    OBVIOUS
  <2>. QED BY <1>1, <2>1, <2>2, StillWaits
<1>. QED BY <1>1 DEF SleepInv

\* A step that touches nothing the waits depend on.
LEMMA AllWait ==
  ASSUME SleepInv,
         UNCHANGED <<parent, wait_queue, timer_list, wait_state, state, pc, arg, exiting>>
  PROVE  SleepInv'
<1>1. ASSUME NEW r \in Proc PROVE Waits(r)'
  <2>1. HasTimer(r)' <=> HasTimer(r)
    BY DEF HasTimer
  <2>. QED BY <2>1, StillWaits
<1>. QED BY <1>1 DEF SleepInv

\* The scheduler and the timer interrupt.
LEMMA SleepSched ==
  ASSUME IInv, SleepInv, IdleLoop \/ Schedule \/ Interrupt \/ UNCHANGED vars
  PROVE  SleepInv'
<1>. USE DEF procVars, semVars, schedVars
<1>1. CASE IdleLoop \/ Schedule \/ UNCHANGED vars
  <2>1. UNCHANGED <<parent, wait_queue, timer_list, wait_state, state, pc, arg, exiting>>
    BY <1>1 DEF IdleLoop, Schedule, schedule, vars
  <2>. QED BY <2>1, AllWait
<1>2. timer_list \in Seq(Timer)
  BY DEF IInv, TypeOK, SchedTypeOK
<1>3. CASE Tick
  <2>1. UNCHANGED <<parent, wait_queue, wait_state, state, pc, arg, exiting>>
    BY <1>3 DEF Tick, TimerInterrupt
  <2>2. /\ DOMAIN timer_list' = DOMAIN timer_list
        /\ \A i \in DOMAIN timer_list : timer_list'[i].proc = timer_list[i].proc
    <3>1. CASE UNCHANGED timer_list
      BY <3>1
    <3>2. CASE timer_list # <<>> /\ timer_list' = [timer_list EXCEPT ![1].expires = @ - 1]
                                 /\ Head(timer_list).expires # 0
      <4>1. /\ 1 \in DOMAIN timer_list /\ timer_list[1] \in Timer
            /\ Head(timer_list) = timer_list[1]
        BY <1>2, <3>2
      <4>2. timer_list[1].expires > 0
        BY <3>2, <4>1 DEF Timer
      <4>3. [timer_list[1] EXCEPT !.expires = @ - 1].proc = timer_list[1].proc
        BY <4>1, <4>2, TimerTick
      <4>. QED BY <1>2, <3>2, <4>1, <4>3
    <3>. QED BY <1>3, <3>1, <3>2 DEF Tick, TimerInterrupt
  <2>3. ASSUME NEW r \in Proc PROVE Waits(r)'
    <3>1. HasTimer(r)' <=> HasTimer(r)
      BY <2>2 DEF HasTimer
    <3>. QED BY <2>1, <3>1, StillWaits
  <2>. QED BY <2>3 DEF SleepInv
<1>4. CASE Expire
  <2>1. PICK q \in Proc :
           /\ q = timer_list[1].proc /\ wakeup_proc(q)
           /\ UNCHANGED <<parent, wait_queue, pc, arg, exiting>>
           /\ timer_list # <<>> /\ timer_list' = Tail(timer_list)
    <3>1. timer_list # <<>> /\ timer_list[1] \in Timer /\ Head(timer_list) = timer_list[1]
      BY <1>2, <1>4 DEF Expire, ExpireTimer, HeadDue
    <3>. QED BY <1>4, <3>1 DEF Expire, ExpireTimer, Timer
  <2>2. /\ \A r \in Proc \ {q} : wait_state'[r] = wait_state[r] /\ state'[r] = state[r]
        /\ wait_state'[q] = "0"
    BY <2>1 DEF wakeup_proc, IInv, TypeOK, SchedTypeOK, PcState
  <2>3. /\ \A i \in DOMAIN timer_list' :
             i + 1 \in DOMAIN timer_list /\ timer_list'[i] = timer_list[i + 1] /\ i + 1 # 1
        /\ \A i \in DOMAIN timer_list : i # 1 =>
             i - 1 \in DOMAIN timer_list' /\ timer_list'[i - 1] = timer_list[i]
        /\ 1 \in DOMAIN timer_list
    BY <1>2, <2>1
  <2>4. \A i, j \in DOMAIN timer_list : timer_list[i].proc = timer_list[j].proc => i = j
    BY DEF IInv, TimerOwners
  <2>5. ~HasTimer(q)'
    BY <2>1, <2>3, <2>4 DEF HasTimer
  <2>6. ASSUME NEW r \in Proc \ {q} PROVE HasTimer(r)' <=> HasTimer(r)
    BY <2>1, <2>3 DEF HasTimer
  <2>7. \A r \in Proc \ {q} : Waits(r)'
    BY <2>1, <2>2, <2>6, StillWaits
  <2>8. Waits(q)'
    BY <2>1, <2>2, <2>5, WakesUp
  <2>. QED BY <2>7, <2>8 DEF SleepInv
<1>5. CASE TickEnd
  <2>1. UNCHANGED <<parent, wait_queue, timer_list, wait_state, state, arg, exiting>>
    BY <1>5 DEF TickEnd, ProcTick
  <2>2. CASE current \in User
    <3>1. current \in Proc /\ pc[current] = "user" /\ pc' = [pc EXCEPT ![current] = "tail"]
      BY <1>5, <2>2 DEF TickEnd, ProcTick, User, IInv, OnProcessor, Goto
    <3>2. PICK p \in Proc : p = current
      BY <3>1
    <3>3. /\ \A r \in Proc \ {p} : pc'[r] = pc[r]
          /\ pc'[p] = "tail"
      BY <3>1, <3>2 DEF IInv, TypeOK
    <3>4. wait_state'[p] = "0"
      BY <2>1, <3>1, <3>2, Wakeful
    <3>5. Waits(p)'
      BY <3>3, <3>4, WakesUp
    <3>6. pc'[p] \notin Done
      BY <3>3 DEF Done
    <3>. QED BY <2>1, <3>3, <3>5, <3>6, OthersWait
  <2>3. CASE current \notin User
    BY <1>5, <2>1, <2>3, AllWait DEF TickEnd
  <2>. QED BY <2>2, <2>3
<1>. QED BY <1>1, <1>3, <1>4, <1>5 DEF Interrupt

\* A step of p, which is awake and goes to a place where nobody sleeps.
LEMMA AwakeMove ==
  ASSUME SleepInv, NEW p \in Proc, wait_state'[p] = "0", pc'[p] # "sleep",
         UNCHANGED <<parent, wait_queue, timer_list>>,
         \A r \in Proc : r # p =>
           /\ wait_state'[r] = wait_state[r] /\ state'[r] = state[r] /\ pc'[r] = pc[r]
           /\ arg'[r] = arg[r] /\ (exiting[r] => exiting'[r]),
         pc'[p] \in Done => pc[p] \in Done
  PROVE  SleepInv'
<1>1. Waits(p)'
  BY WakesUp
<1>. QED BY <1>1, OthersWait

\* The steps of a process that nobody waits for and that does not sleep.
LEMMA SleepQuiet ==
  ASSUME IInv, SleepInv, NEW p \in Proc,
         \/ TrapTail(p) \/ Yield(p) \/ ForkFails(p) \/ Exit(p) \/ Leave(p)
         \/ WaitAgain(p) /\ exiting[p]
         \/ AddTimerWalk(p)
         \/ \E s \in Sem : DownFree(p, s)
         \/ \E s \in Sem : UpFree(p, s)
         \/ DoExit(p) \/ Die(p)
  PROVE  SleepInv'
<1>. USE DEF procVars, semVars, schedVars, At, Goto
<1>1. /\ pc \in [Proc -> Label] /\ arg \in [Proc -> Proc \cup Sem \cup {NULL}]
      /\ state \in [Proc \cup {Idle} -> ProcState]
  BY DEF IInv, TypeOK, SchedTypeOK
<1>2. ASSUME Running(p), pc[p] \in {"tail", "user", "kernel", "wait"},
             UNCHANGED <<wait_state, state, exiting, parent, wait_queue, timer_list>>,
             arg' = arg \/ arg' = [arg EXCEPT ![p] = NULL],
             NEW l \in {"exit", "user", "tail", "kernel"}, pc' = [pc EXCEPT ![p] = l]
      PROVE  SleepInv'
  <2>1. wait_state[p] = "0"
    BY <1>2, Runner
  <2>2. pc'[p] = l /\ \A r \in Proc : r # p => pc'[r] = pc[r] /\ arg'[r] = arg[r]
    BY <1>1, <1>2
  <2>. QED BY <1>2, <2>1, <2>2, AwakeMove DEF Done
<1>3. CASE TrapTail(p) \/ Yield(p) \/ ForkFails(p) \/ Exit(p) \/ Leave(p)
  BY <1>2, <1>3 DEF TrapTail, Yield, ForkFails, Exit, Leave, Caller
<1>4. CASE WaitAgain(p) /\ exiting[p]
  BY <1>2, <1>4 DEF WaitAgain
<1>5. CASE AddTimerWalk(p)
  BY <1>5, AllWait DEF AddTimerWalk
<1>6. CASE \E s \in Sem : DownFree(p, s)
  BY <1>2, <1>6 DEF DownFree, MayLock
<1>7. CASE \E s \in Sem : UpFree(p, s)
  BY <1>7, AllWait DEF UpFree
<1>8. CASE DoExit(p) \/ Die(p)
  <2>1. /\ pc[p] \in {"exit", "reparent"}
        /\ UNCHANGED <<wait_state, exiting, parent, wait_queue, timer_list, arg>>
        /\ state' = state \/ state' = [state EXCEPT ![p] = "ZOMBIE"]
        /\ \/ pc' = [pc EXCEPT ![p] = "exit_wake"]
           \/ pc' = [pc EXCEPT ![p] = "dead"] /\ pc[p] = "reparent"
    BY <1>8 DEF DoExit, Die
  <2>2. wait_state[p] = "0"
    BY <2>1, Wakeful
  <2>3. \A r \in Proc : r # p => pc'[r] = pc[r] /\ state'[r] = state[r]
    BY <1>1, <2>1
  <2>4. pc'[p] # "sleep" /\ (pc'[p] \in Done => pc[p] \in Done)
    BY <1>1, <2>1 DEF Done
  <2>. QED BY <2>1, <2>2, <2>3, <2>4, AwakeMove
<1>. QED BY <1>3, <1>4, <1>5, <1>6, <1>7, <1>8

\* wakeup_proc(q): q waits for nothing any more.
LEMMA Woken ==
  ASSUME TypeOK, PcState, NEW q \in Proc, wakeup_proc(q)
  PROVE  /\ wait_state'[q] = "0" /\ state'[q] = "RUNNABLE"
         /\ \A r \in Proc : r # q => wait_state'[r] = wait_state[r] /\ state'[r] = state[r]
BY DEF wakeup_proc, TypeOK, SchedTypeOK, PcState

\* do_kill marks the process before it wakes it.
LEMMA SleepKill ==
  ASSUME IInv, SleepInv, NEW p \in Proc, NEW q \in Killable, Kill(p, q)
  PROVE  SleepInv'
<1>1. /\ q \in Proc /\ Running(p) /\ pc[p] = "user"
      /\ pc' = [pc EXCEPT ![p] = "tail"]
      /\ UNCHANGED <<parent, arg, timer_list, wait_queue>>
      /\ \/ UNCHANGED <<exiting, state, wait_state>>
         \/ /\ exiting' = [exiting EXCEPT ![q] = TRUE]
            /\ wakeup_proc(q) \/ UNCHANGED <<state, wait_state>>
  BY KernelAssumption DEF Kill, At, Goto, semVars
<1>2. /\ pc \in [Proc -> Label] /\ exiting \in [Proc -> BOOLEAN] /\ TypeOK /\ PcState
  BY DEF IInv, TypeOK
<1>3. /\ pc'[p] = "tail" /\ \A r \in Proc : r # p => pc'[r] = pc[r]
      /\ \A r \in Proc : exiting[r] => exiting'[r]
  BY <1>1, <1>2
<1>4. /\ \A r \in Proc : r # q => wait_state'[r] = wait_state[r] /\ state'[r] = state[r]
      /\ \/ wait_state'[q] = wait_state[q] /\ state'[q] = state[q]
         \/ wait_state'[q] = "0" /\ exiting'[q]
  BY <1>1, <1>2, Woken
<1>5. wait_state[p] = "0"
  BY <1>1, Runner
<1>6. Waits(p)'
  BY <1>3, <1>4, <1>5, WakesUp
<1>7. ASSUME q # p PROVE Waits(q)'
  <2>1. CASE wait_state'[q] = "0" /\ exiting'[q]
    BY <1>1, <2>1, WakesUp
  <2>2. CASE wait_state'[q] = wait_state[q] /\ state'[q] = state[q]
    <3>1. HasTimer(q)' <=> HasTimer(q)
      BY <1>1 DEF HasTimer
    <3>2. \A c \in Proc : pc'[c] \in Done => pc[c] \in Done
      BY <1>3 DEF Done
    <3>. QED BY <1>1, <1>3, <1>7, <2>2, <3>1, <3>2, StillWaits
  <2>. QED BY <1>4, <2>1, <2>2
<1>. QED BY <1>1, <1>3, <1>4, <1>6, <1>7, OthersWait DEF Done

\* do_sleep: the process waits for its timer, and is about to add it.
LEMMA SleepSleep ==
  ASSUME IInv, SleepInv, NEW p \in Proc, \E time \in 1 .. MaxSleep : Sleep(p, time)
  PROVE  SleepInv'
<1>1. /\ wait_state' = [wait_state EXCEPT ![p] = "WT_TIMER"]
      /\ state' = [state EXCEPT ![p] = "SLEEPING"]
      /\ pc' = [pc EXCEPT ![p] = "add_timer"]
      /\ UNCHANGED <<parent, arg, exiting, timer_list, wait_queue>>
  BY DEF Sleep, SleepOn, Goto, semVars
<1>2. /\ wait_state'[p] = "WT_TIMER" /\ pc'[p] = "add_timer"
      /\ \A r \in Proc : r # p =>
           wait_state'[r] = wait_state[r] /\ state'[r] = state[r] /\ pc'[r] = pc[r]
  BY <1>1 DEF IInv, TypeOK, SchedTypeOK
<1>3. Waits(p)'
  BY <1>2 DEF Waits
<1>. QED BY <1>1, <1>2, <1>3, OthersWait DEF Done

\* add_timer and del_timer leave the timers of the others in the list.
LEMMA SleepTimers ==
  ASSUME IInv, SleepInv, NEW p \in Proc,
         UNCHANGED <<parent, arg, exiting, wait_queue, wait_state, state>>,
         \A r \in Proc : r # p => pc'[r] = pc[r] /\ (HasTimer(r)' <=> HasTimer(r)),
         pc'[p] \notin Done,
         Waits(p)'
  PROVE  SleepInv'
<1>1. \A c \in Proc : pc'[c] \in Done => pc[c] \in Done
  OBVIOUS
<1>2. ASSUME NEW r \in Proc, r # p PROVE Waits(r)'
  BY <1>1, <1>2, StillWaits
<1>. QED BY <1>2 DEF SleepInv

\* add_timer puts the timer in the list: do_sleep has somebody to end it.
LEMMA SleepPlace ==
  ASSUME IInv, SleepInv, NEW p \in Proc, AddTimerPlace(p)
  PROVE  SleepInv'
<1>. DEFINE n == Len(timer_list)
            relative == IF walk.pos <= n
                    THEN [timer_list EXCEPT ![walk.pos].expires =
                            timer_list[walk.pos].expires - walk.expires]
                    ELSE timer_list
            added == [proc |-> p, expires |-> walk.expires]
<1>1. /\ pc[p] = "add_timer" /\ walk.pos <= n + 1 /\ wait_state[p] = "WT_TIMER"
      /\ state[p] = "SLEEPING"
  BY DEF AddTimerPlace, At, IInv, AddTimerAlone, PcState
<1>2. /\ timer_list \in Seq(Timer) /\ n \in Nat
      /\ walk.pos \in 1 .. n + 1 /\ walk.expires \in Nat /\ added \in Timer /\ added.proc = p
  BY <1>1 DEF IInv, TypeOK, SchedTypeOK, Timer
<1>3. \A i \in 1 .. n : timer_list[i].expires \in Nat
  <2>1. \A i \in 1 .. n : timer_list[i] \in Timer
    BY <1>2
  <2>. QED BY <2>1 DEF Timer
<1>4. /\ walk.pos <= n => walk.expires < timer_list[walk.pos].expires
      /\ timer_list' = InsertAt(relative, walk.pos, added)
      /\ pc' = [pc EXCEPT ![p] = "sleep"]
      /\ UNCHANGED <<parent, arg, exiting, wait_queue, wait_state, state>>
  BY DEF AddTimerPlace, PlaceTimer, Goto, semVars
<1>. HIDE DEF added
<1>5. PICK list \in Seq(Timer) :
      /\ timer_list' = InsertAt(list, walk.pos, added)
      /\ Len(list) = n
      /\ \A i \in 1 .. n : list[i].proc = timer_list[i].proc
  <2>1. CASE walk.pos <= n
    <3>1. walk.pos \in 1 .. n /\ timer_list[walk.pos].expires - walk.expires \in Nat
      BY <1>2, <1>3, <1>4, <2>1
    <3>2. relative = [timer_list EXCEPT ![walk.pos].expires =
                        timer_list[walk.pos].expires - walk.expires]
      BY <2>1
    <3>3. /\ relative \in Seq(Timer) /\ Len(relative) = n
          /\ \A i \in 1 .. n : relative[i].proc = timer_list[i].proc
      BY <1>2, <3>1, <3>2, ReplaceTimer
    <3>. QED BY <1>4, <3>3
  <2>2. CASE ~(walk.pos <= n)
    BY <1>2, <1>4, <2>2
  <2>. QED BY <2>1, <2>2
<1>6. PICK pos \in 1 .. Len(list) + 1 : pos = walk.pos
  BY <1>2, <1>5
<1>7. /\ Len(timer_list') = n + 1 /\ timer_list' \in Seq(Timer)
      /\ \A j \in 1 .. pos - 1 : timer_list'[j] = list[j]
      /\ timer_list'[pos] = added
      /\ \A j \in pos + 1 .. n + 1 : timer_list'[j] = list[j - 1]
  <2>1. InsertedAt(Timer, list, pos, added, InsertAt(list, pos, added))
    BY <1>2, <1>5, InsertAtElements
  <2>2. timer_list' = InsertAt(list, pos, added)
    BY <1>5, <1>6
  <2>. QED BY <1>5, <2>1, <2>2 DEF InsertedAt
<1>8. ASSUME NEW r \in Proc, HasTimer(r) PROVE HasTimer(r)'
  <2>1. PICK i \in 1 .. n : timer_list[i].proc = r
    BY <1>2, <1>8 DEF HasTimer
  <2>2. CASE i < pos
    <3>1. i \in 1 .. pos - 1 /\ i \in 1 .. n + 1
      BY <1>2, <1>6, <2>2
    <3>2. timer_list'[i].proc = r
      BY <1>5, <1>7, <2>1, <3>1
    <3>. QED BY <1>7, <3>1, <3>2 DEF HasTimer
  <2>3. CASE ~(i < pos)
    <3>1. i + 1 \in pos + 1 .. n + 1 /\ i + 1 \in 1 .. n + 1 /\ (i + 1) - 1 = i
      BY <1>2, <1>6, <2>3
    <3>2. timer_list'[i + 1].proc = r
      BY <1>5, <1>7, <2>1, <3>1
    <3>. QED BY <1>7, <3>1, <3>2 DEF HasTimer
  <2>. QED BY <2>2, <2>3
<1>9. ASSUME NEW r \in Proc, r # p, HasTimer(r)' PROVE HasTimer(r)
  <2>1. PICK j \in 1 .. n + 1 : timer_list'[j].proc = r
    BY <1>7, <1>9 DEF HasTimer
  <2>2. j # pos
    BY <1>2, <1>7, <1>9, <2>1
  <2>3. CASE j < pos
    <3>1. j \in 1 .. pos - 1 /\ j \in 1 .. n
      BY <1>2, <1>5, <1>6, <2>3
    <3>2. timer_list[j].proc = r
      BY <1>5, <1>7, <2>1, <3>1
    <3>. QED BY <1>2, <3>1, <3>2 DEF HasTimer
  <2>4. CASE ~(j < pos)
    <3>1. j \in pos + 1 .. n + 1 /\ j - 1 \in 1 .. n
      BY <1>2, <1>5, <1>6, <2>2, <2>4
    <3>2. timer_list[j - 1].proc = r
      BY <1>5, <1>7, <2>1, <3>1
    <3>. QED BY <1>2, <3>1, <3>2 DEF HasTimer
  <2>. QED BY <2>3, <2>4
<1>10. HasTimer(p)'
  <2>1. pos \in DOMAIN timer_list' /\ timer_list'[pos].proc = p
    BY <1>2, <1>5, <1>7
  <2>. QED BY <2>1 DEF HasTimer
<1>11. pc'[p] = "sleep" /\ \A r \in Proc : r # p => pc'[r] = pc[r]
  BY <1>4 DEF IInv, TypeOK
<1>12. Waits(p)'
  BY <1>1, <1>4, <1>10, <1>11 DEF Waits
<1>. QED BY <1>4, <1>8, <1>9, <1>11, <1>12, SleepTimers DEF Done

\* del_timer takes no timer but its own.
LEMMA SleepEnd ==
  ASSUME IInv, SleepInv, NEW p \in Proc, SleepDone(p)
  PROVE  SleepInv'
<1>. DEFINE n == Len(timer_list)
<1>1. wait_state[p] = "0" /\ pc[p] = "sleep"
  BY Runner DEF SleepDone, At
<1>2. /\ del_timer(p) /\ pc' = [pc EXCEPT ![p] = Return(p)] /\ Return(p) \in {"kernel", "tail"}
      /\ UNCHANGED <<parent, arg, exiting, wait_queue, wait_state, state>>
  BY DEF SleepDone, Goto, semVars, Return
<1>3. /\ timer_list \in Seq(Timer) /\ n \in Nat /\ DOMAIN timer_list = 1 .. n
  BY DEF IInv, TypeOK, SchedTypeOK
<1>4. \A r \in Proc : r # p => (HasTimer(r)' <=> HasTimer(r))
  <2>1. CASE UNCHANGED timer_list
    BY <2>1 DEF HasTimer
  <2>2. ASSUME NEW i \in DOMAIN timer_list, OwnTimer(i, p),
               timer_list' = RemoveAt(PassedOn(i), i)
        PROVE  <1>4
    <3>1. /\ PassedOn(i) \in Seq(Timer) /\ Len(PassedOn(i)) = n /\ i \in 1 .. n
          /\ \A j \in 1 .. n : PassedOn(i)[j].proc = timer_list[j].proc
      BY <1>3, PassedOnTimer
    <3>2. /\ Len(timer_list') = n - 1 /\ timer_list' \in Seq(Timer)
          /\ \A j \in 1 .. n - 1 :
               timer_list'[j] = IF j < i THEN PassedOn(i)[j] ELSE PassedOn(i)[j + 1]
      BY <2>2, <3>1, RemoveAtElements
    <3>3. ASSUME NEW r \in Proc, r # p, HasTimer(r) PROVE HasTimer(r)'
      <4>1. PICK j \in 1 .. n : timer_list[j].proc = r
        BY <1>3, <3>3 DEF HasTimer
      <4>2. j # i
        BY <2>2, <3>3, <4>1 DEF OwnTimer
      <4>3. CASE j < i
        <5>1. j \in 1 .. n - 1
          BY <1>3, <3>1, <4>3
        <5>. QED BY <3>1, <3>2, <4>1, <4>3, <5>1 DEF HasTimer
      <4>4. CASE ~(j < i)
        <5>1. j - 1 \in 1 .. n - 1 /\ ~(j - 1 < i) /\ (j - 1) + 1 = j
          BY <1>3, <3>1, <4>2, <4>4
        <5>2. timer_list'[j - 1].proc = r
          BY <3>1, <3>2, <4>1, <5>1
        <5>. QED BY <3>2, <5>1, <5>2 DEF HasTimer
      <4>. QED BY <4>3, <4>4
    <3>4. ASSUME NEW r \in Proc, HasTimer(r)' PROVE HasTimer(r)
      <4>1. PICK j \in 1 .. n - 1 : timer_list'[j].proc = r
        BY <3>2, <3>4 DEF HasTimer
      <4>2. j \in 1 .. n /\ j + 1 \in 1 .. n
        BY <1>3
      <4>3. timer_list[j].proc = r \/ timer_list[j + 1].proc = r
        BY <3>1, <3>2, <4>1, <4>2
      <4>. QED BY <1>3, <4>2, <4>3 DEF HasTimer
    <3>. QED BY <3>3, <3>4
  <2>. QED BY <1>2, <2>1, <2>2 DEF del_timer
<1>5. pc'[p] \in {"kernel", "tail"} /\ \A r \in Proc : r # p => pc'[r] = pc[r]
  BY <1>2 DEF IInv, TypeOK
<1>6. Waits(p)'
  BY <1>1, <1>2, <1>5, WakesUp
<1>. QED BY <1>2, <1>4, <1>5, <1>6, SleepTimers DEF Done

\* __down joins the queue it waits in.
LEMMA SleepBlock ==
  ASSUME IInv, SleepInv, NEW p \in Proc, NEW s \in Sem, DownBlock(p, s)
  PROVE  SleepInv'
<1>1. /\ current = p /\ pc[p] \in {"kernel", "user"} /\ wait_state[p] = "0"
  BY Runner DEF DownBlock, MayLock
<1>2. /\ wait_state' = [wait_state EXCEPT ![p] = "WT_KSEM"]
      /\ state' = [state EXCEPT ![p] = "SLEEPING"]
      /\ pc' = [pc EXCEPT ![p] = "down"]
      /\ arg' = [arg EXCEPT ![p] = s]
      /\ wait_queue' = [wait_queue EXCEPT ![s] = Append(wait_queue[s], p)]
      /\ UNCHANGED <<parent, exiting, timer_list>>
  BY DEF DownBlock, SleepOn, Goto
<1>3. /\ wait_state'[p] = "WT_KSEM" /\ pc'[p] = "down" /\ arg'[p] = s
      /\ \A r \in Proc : r # p =>
           /\ wait_state'[r] = wait_state[r] /\ state'[r] = state[r] /\ pc'[r] = pc[r]
           /\ arg'[r] = arg[r]
  BY <1>2 DEF IInv, TypeOK, SchedTypeOK
<1>4. /\ ToSet(wait_queue'[s]) = ToSet(wait_queue[s]) \cup {p}
      /\ \A t \in Sem \ {s} : wait_queue'[t] = wait_queue[t]
  <2>1. wait_queue[s] \in Seq(Proc) /\ IsInjective(wait_queue[s]) /\ p \notin ToSet(wait_queue[s])
    BY <1>1 DEF IInv, TypeOK, Waiters
  <2>2. wait_queue'[s] = Append(wait_queue[s], p)
        /\ \A t \in Sem \ {s} : wait_queue'[t] = wait_queue[t]
    BY <1>2 DEF IInv, TypeOK
  <2>. QED BY <2>1, <2>2, AppendNew
<1>5. Waits(p)'
  BY <1>3, <1>4 DEF Waits
<1>6. ASSUME NEW r \in Proc, r # p PROVE Waits(r)'
  <2>1. HasTimer(r)' <=> HasTimer(r)
    BY <1>2 DEF HasTimer
  <2>2. wait_state[r] = "WT_KSEM" => arg[r] \in Sem
    BY DEF SleepInv, Waits
  <2>3. \A c \in Proc : pc'[c] \in Done => pc[c] \in Done
    BY <1>3 DEF Done
  <2>. QED BY <1>2, <1>3, <1>4, <1>6, <2>1, <2>2, <2>3, StillWaits
<1>. QED BY <1>5, <1>6 DEF SleepInv

\* __down ends; up() had taken the process off the queue.
LEMMA SleepDown ==
  ASSUME IInv, SleepInv, NEW p \in Proc, DownDone(p)
  PROVE  SleepInv'
<1>1. pc[p] = "down" /\ wait_state[p] = "0" /\ state[p] = "RUNNABLE"
  BY Runner DEF DownDone, At
<1>2. arg[p] \in Sem /\ wakeup_flags[p] = "WT_KSEM"
  BY <1>1 DEF IInv, InDown
<1>3. UNCHANGED wait_queue
  <2>1. wait_queue' = [wait_queue EXCEPT ![arg[p]] = RemoveFirst(wait_queue[arg[p]], p)]
    BY DEF DownDone
  <2>2. wait_queue \in [Sem -> Seq(Proc)] /\ p \notin ToSet(wait_queue[arg[p]])
    BY <1>2 DEF IInv, TypeOK, Waiters
  <2>3. RemoveFirst(wait_queue[arg[p]], p) = wait_queue[arg[p]]
    BY <1>2, <2>2, RemoveFirstAbsent
  <2>. QED BY <1>2, <2>1, <2>2, <2>3
<1>4. /\ arg' = [arg EXCEPT ![p] = NULL] /\ pc' = [pc EXCEPT ![p] = "kernel"]
      /\ UNCHANGED <<parent, exiting, timer_list, wait_state, state>>
  BY DEF DownDone, Goto
<1>5. pc'[p] = "kernel" /\ \A r \in Proc : r # p => pc'[r] = pc[r] /\ arg'[r] = arg[r]
  BY <1>4 DEF IInv, TypeOK
<1>. QED BY <1>1, <1>3, <1>4, <1>5, AwakeMove DEF Done

\* __up takes the first waiter off the queue and wakes it.
LEMMA SleepHand ==
  ASSUME IInv, SleepInv, NEW p \in Proc, NEW s \in Sem, UpHand(p, s)
  PROVE  SleepInv'
<1>1. wait_queue[s] \in Seq(Proc) /\ wait_queue[s] # <<>> /\ IsInjective(wait_queue[s])
  BY DEF UpHand, IInv, Waiters, TypeOK
<1>2. PICK w \in Proc :
         /\ w = Head(wait_queue[s]) /\ w \in ToSet(wait_queue[s])
         /\ ToSet(Tail(wait_queue[s])) = ToSet(wait_queue[s]) \ {w}
  BY <1>1, TailInjective
<1>3. /\ wakeup_proc(w)
      /\ wait_queue' = [wait_queue EXCEPT ![s] = Tail(wait_queue[s])]
      /\ UNCHANGED <<parent, exiting, timer_list, pc, arg>>
  BY <1>2 DEF UpHand, procVars
<1>4. /\ wait_state'[w] = "0"
      /\ \A r \in Proc : r # w => wait_state'[r] = wait_state[r] /\ state'[r] = state[r]
  BY <1>3, Woken DEF IInv
<1>5. /\ ToSet(wait_queue'[s]) = ToSet(wait_queue[s]) \ {w}
      /\ \A t \in Sem \ {s} : wait_queue'[t] = wait_queue[t]
  BY <1>2, <1>3 DEF IInv, TypeOK
<1>6. pc[w] = "down"
  BY <1>2 DEF IInv, Waiters
<1>7. Waits(w)'
  BY <1>3, <1>4, <1>6, WakesUp
<1>8. ASSUME NEW r \in Proc, r # w PROVE Waits(r)'
  <2>1. HasTimer(r)' <=> HasTimer(r)
    BY <1>3 DEF HasTimer
  <2>2. wait_state[r] = "WT_KSEM" => arg[r] \in Sem
    BY DEF SleepInv, Waits
  <2>. QED BY <1>3, <1>4, <1>5, <1>8, <2>1, <2>2, StillWaits
<1>. QED BY <1>7, <1>8 DEF SleepInv

\* A step that wakes or moves p and q, and lets the others wait for the same
\* children; those it moves into Done are children of p or q.
LEMMA KinWait ==
  ASSUME SleepInv, NEW p \in Proc, NEW q \in Proc,
         UNCHANGED <<wait_queue, timer_list>>,
         \A r \in Proc : r # p /\ r # q =>
           /\ wait_state'[r] = wait_state[r] /\ state'[r] = state[r] /\ pc'[r] = pc[r]
           /\ arg'[r] = arg[r] /\ (exiting[r] => exiting'[r]),
         \A r \in Proc : r # p /\ r # q /\ wait_state[r] = "WT_CHILD" =>
           \A c \in Proc : /\ parent'[c] = r <=> parent[c] = r
                           /\ parent[c] = r /\ pc'[c] \in Done => pc[c] \in Done,
         Waits(p)', Waits(q)'
  PROVE  SleepInv'
<1>1. ASSUME NEW r \in Proc, r # p, r # q PROVE Waits(r)'
  <2>1. HasTimer(r)' <=> HasTimer(r)
    BY DEF HasTimer
  <2>. QED BY <1>1, <2>1, StillWaits
<1>. QED BY <1>1 DEF SleepInv

\* do_fork: the child waits for nothing, and nobody waits for it yet.
LEMMA SleepFork ==
  ASSUME IInv, FamilyInv, SleepInv, NEW p \in Proc, NEW c \in Proc, Fork(p, c)
  PROVE  SleepInv'
<1>1. /\ pc[p] \in {"user", "kernel"} /\ pc[c] = "none" /\ Running(p)
      /\ parent' = [parent EXCEPT ![c] = p]
      /\ exiting' = [exiting EXCEPT ![c] = FALSE]
      /\ state' = [state EXCEPT ![c] = "RUNNABLE"]
      /\ wait_state' = [wait_state EXCEPT ![c] = "0"]
      /\ pc' = [pc EXCEPT ![c] = Caller(c), ![p] = Return(p)]
      /\ UNCHANGED <<arg, timer_list, wait_queue>>
  BY DEF Fork, At, Caller, Free, IInv, PcState, semVars
<1>2. /\ Caller(c) \in {"user", "kernel"} /\ Return(p) \in {"tail", "kernel"} /\ c # p
      /\ pc \in [Proc -> Label] /\ parent \in [Proc -> Proc \cup {Idle, NULL}]
      /\ wait_state \in [Proc -> WaitState] /\ exiting \in [Proc -> BOOLEAN]
      /\ state \in [Proc \cup {Idle} -> ProcState]
      /\ pc[Initproc] # "none" /\ NULL \notin Proc
  BY <1>1, KernelAssumption DEF IInv, TypeOK, SchedTypeOK, Parents, Caller, Return
<1>3. /\ \A r \in Proc : r # p /\ r # c =>
           /\ wait_state'[r] = wait_state[r] /\ state'[r] = state[r] /\ pc'[r] = pc[r]
           /\ arg'[r] = arg[r] /\ (exiting[r] => exiting'[r])
      /\ wait_state'[c] = "0" /\ wait_state'[p] = wait_state[p]
  <2>1. UNCHANGED arg /\ \A r \in Proc : r # c => exiting'[r] = exiting[r]
    BY <1>1, <1>2
  <2>. QED BY <1>1, <1>2, <2>1
<1>4. pc'[c] \in {"user", "kernel"} /\ pc'[p] \in {"tail", "kernel"}
  BY <1>1, <1>2
<1>5. \A x \in Proc : parent'[x] = IF x = c THEN p ELSE parent[x]
  BY <1>1, <1>2
<1>6. parent[c] = NULL
  BY <1>1, <1>2 DEF FamilyInv, Line
<1>7. wait_state[p] = "0"
  BY <1>1, Runner
<1>8. Waits(p)' /\ Waits(c)'
  BY <1>3, <1>4, <1>7, WakesUp
<1>9. \A r \in Proc : r # p =>
        \A x \in Proc : /\ parent'[x] = r <=> parent[x] = r
                        /\ pc'[x] \in Done => pc[x] \in Done
  BY <1>2, <1>3, <1>4, <1>5, <1>6 DEF Done
<1>10. UNCHANGED <<wait_queue, timer_list>>
  BY <1>1
<1>. QED BY <1>3, <1>8, <1>9, <1>10, KinWait

\* do_wait sleeps only when it saw a child, and none that is a zombie: each has
\* still to call wakeup_proc.
LEMMA SleepDoWait ==
  ASSUME IInv, FamilyInv, SleepInv, NEW p \in Proc, Running(p),
         pc[p] \in {"user", "kernel", "loop", "wait"},
         NEW t \in Proc \cup Sem \cup {NULL}, do_wait(p, t)
  PROVE  SleepInv'
<1>1. /\ state[p] = "RUNNABLE" /\ wait_state[p] = "0" /\ Return(p) \in {"tail", "kernel"}
      /\ UNCHANGED wait_queue
  BY Runner DEF Return, do_wait, semVars
<1>2. /\ pc \in [Proc -> Label] /\ parent \in [Proc -> Proc \cup {Idle, NULL}]
      /\ wait_state \in [Proc -> WaitState] /\ exiting \in [Proc -> BOOLEAN]
      /\ state \in [Proc \cup {Idle} -> ProcState]
      /\ arg \in [Proc -> Proc \cup Sem \cup {NULL}] /\ NULL \notin Proc
  BY KernelAssumption DEF IInv, TypeOK, SchedTypeOK
<1>3. ASSUME NEW z \in Proc, state[z] = "ZOMBIE", parent[z] = p, Reap(p, z) PROVE SleepInv'
  <2>1. /\ parent' = [parent EXCEPT ![z] = NULL]
        /\ exiting' = [exiting EXCEPT ![z] = FALSE]
        /\ state' = [state EXCEPT ![z] = "NONE"]
        /\ arg' = [arg EXCEPT ![p] = NULL]
        /\ pc' = [pc EXCEPT ![z] = "none", ![p] = IF p = Initproc THEN "loop" ELSE Return(p)]
        /\ UNCHANGED <<wait_state, timer_list>>
    BY <1>3 DEF Reap
  <2>2. z # p /\ pc[z] \in {"exit_wake", "reparent", "dead"}
    BY <1>1, <1>3 DEF IInv, PcState
  <2>3. /\ pc'[z] = "none" /\ pc'[p] \in {"loop", "tail", "kernel"}
        /\ \A r \in Proc : r # p /\ r # z => pc'[r] = pc[r]
    BY <1>1, <1>2, <2>1, <2>2
  <2>4. \A r \in Proc : r # p /\ r # z =>
           /\ state'[r] = state[r] /\ arg'[r] = arg[r] /\ exiting'[r] = exiting[r]
    BY <1>2, <2>1
  <2>5. \A x \in Proc : parent'[x] = IF x = z THEN NULL ELSE parent[x]
    BY <1>2, <2>1
  <2>6. wait_state[z] = "0"
    BY <2>2, Wakeful
  <2>7. Waits(p)' /\ Waits(z)'
    BY <1>1, <2>1, <2>3, <2>6, WakesUp
  <2>8. \A r \in Proc : r # p =>
          \A x \in Proc : /\ parent'[x] = r <=> parent[x] = r
                          /\ pc'[x] \in Done => pc[x] \in Done
    BY <1>2, <1>3, <2>3, <2>5 DEF Done
  <2>9. UNCHANGED <<wait_queue, timer_list>> /\ UNCHANGED wait_state
    BY <1>1, <2>1
  <2>. QED BY <2>3, <2>4, <2>7, <2>8, <2>9, KinWait
<1>4. ASSUME WaitSleep(p, t), NEW k \in Proc, parent[k] = p, t \in {k, NULL},
             \A c \in Proc : parent[c] = p /\ t \in {c, NULL} => state[c] # "ZOMBIE"
      PROVE  SleepInv'
  <2>1. /\ state' = [state EXCEPT ![p] = "SLEEPING"]
        /\ wait_state' = [wait_state EXCEPT ![p] = "WT_CHILD"]
        /\ arg' = [arg EXCEPT ![p] = t]
        /\ pc' = [pc EXCEPT ![p] = "wait"]
        /\ UNCHANGED <<exiting, parent, timer_list>>
    BY <1>4 DEF WaitSleep, SleepOn, Goto
  <2>2. wait_state'[p] = "WT_CHILD" /\ arg'[p] = t /\ pc'[p] = "wait"
    BY <1>2, <2>1
  <2>3. \A r \in Proc : r # p =>
           /\ wait_state'[r] = wait_state[r] /\ state'[r] = state[r] /\ pc'[r] = pc[r]
           /\ arg'[r] = arg[r]
    BY <1>2, <2>1
  <2>4. \A c \in Proc : parent[c] = p /\ t \in {c, NULL} => pc'[c] \notin Done
    <3>1. \A c \in Proc : parent[c] = p /\ t \in {c, NULL} => pc[c] \notin Done
      BY <1>4 DEF IInv, PcState, Done
    <3>. QED BY <2>2, <2>3, <3>1 DEF Done
  <2>5. Waits(p)'
    BY <1>4, <2>1, <2>2, <2>4 DEF Waits, Awaited
  <2>. QED BY <1>1, <2>1, <2>2, <2>3, <2>5, OthersWait DEF Done
<1>5. ASSUME NoChild(p) PROVE SleepInv'
  <2>1. /\ arg' = [arg EXCEPT ![p] = NULL] /\ pc' = [pc EXCEPT ![p] = Return(p)]
        /\ UNCHANGED <<state, wait_state, exiting, parent, timer_list>>
    BY <1>5 DEF NoChild, Goto
  <2>2. pc'[p] \in {"tail", "kernel"} /\ \A r \in Proc : r # p => pc'[r] = pc[r] /\ arg'[r] = arg[r]
    BY <1>1, <1>2, <2>1
  <2>. QED BY <1>1, <2>1, <2>2, AwakeMove DEF Done
<1>. DEFINE kids == Children(p) \cap (IF t = NULL THEN Proc ELSE {t})
<1>6. kids = {c \in Proc : parent[c] = p /\ t \in {c, NULL}}
  BY DEF Children
<1>7. \/ \E z \in {c \in kids : state[c] = "ZOMBIE"} : Reap(p, z)
      \/ {c \in kids : state[c] = "ZOMBIE"} = {} /\ kids # {} /\ WaitSleep(p, t)
      \/ NoChild(p)
  BY DEF do_wait
<1>. HIDE DEF kids
<1>. QED BY <1>3, <1>4, <1>5, <1>6, <1>7

\* do_exit wakes its parent, if it waits, before it can be reaped.
LEMMA SleepExitWake ==
  ASSUME IInv, SleepInv, NEW p \in Proc, ExitWake(p)
  PROVE  SleepInv'
<1>1. /\ pc[p] = "exit_wake" /\ pc' = [pc EXCEPT ![p] = "reparent"]
      /\ UNCHANGED <<parent, arg, exiting, wait_queue, timer_list>>
  BY DEF ExitWake, At, Goto, semVars
<1>2. parent[p] \in Proc
  BY <1>1 DEF IInv, Parents
<1>3. PICK q \in Proc : q = parent[p]
  BY <1>2
<1>4. WakeIfWaiting(q)
  BY <1>3 DEF ExitWake
<1>5. wait_state[p] = "0"
  BY <1>1, Wakeful
<1>6. pc'[p] = "reparent" /\ \A r \in Proc : r # p => pc'[r] = pc[r]
  BY <1>1 DEF IInv, TypeOK
<1>7. /\ \A r \in Proc : r # q => wait_state'[r] = wait_state[r] /\ state'[r] = state[r]
      /\ \/ wait_state[q] = "WT_CHILD" /\ wait_state'[q] = "0"
         \/ wait_state[q] # "WT_CHILD" /\ wait_state'[q] = wait_state[q] /\ state'[q] = state[q]
  BY <1>4, Woken DEF WakeIfWaiting, IInv
<1>8. Waits(p)'
  BY <1>5, <1>6, <1>7, WakesUp
<1>9. ASSUME q # p PROVE Waits(q)'
  <2>1. CASE wait_state[q] = "WT_CHILD" /\ wait_state'[q] = "0"
    <3>1. pc[q] = "wait"
      BY <2>1 DEF SleepInv, Waits
    <3>. QED BY <1>6, <1>9, <2>1, <3>1, WakesUp
  <2>2. CASE wait_state[q] # "WT_CHILD" /\ wait_state'[q] = wait_state[q] /\ state'[q] = state[q]
    <3>1. HasTimer(q)' <=> HasTimer(q)
      BY <1>1 DEF HasTimer
    <3>. QED BY <1>1, <1>6, <1>9, <2>2, <3>1, StillWaits
  <2>. QED BY <1>7, <2>1, <2>2
<1>10. \A r \in Proc : r # p /\ r # q =>
         \A c \in Proc : parent[c] = r /\ pc'[c] \in Done => pc[c] \in Done
  BY <1>3, <1>6
<1>. QED BY <1>1, <1>6, <1>7, <1>8, <1>9, <1>10, KinWait

\* initproc is woken for a zombie it is given, and another child it is given
\* has still to call wakeup_proc.
LEMMA SleepReparent ==
  ASSUME IInv, SleepInv, NEW p \in Proc, NEW c \in Proc, Reparent(p, c)
  PROVE  SleepInv'
<1>1. /\ pc[p] = "reparent" /\ parent[c] = p
      /\ parent' = [parent EXCEPT ![c] = Initproc]
      /\ UNCHANGED <<pc, arg, exiting, wait_queue, timer_list>>
      /\ IF state[c] = "ZOMBIE" THEN WakeIfWaiting(Initproc)
                                ELSE UNCHANGED <<state, wait_state>>
  BY DEF Reparent, At, Children, semVars
<1>2. /\ Initproc \in Proc /\ pc[Initproc] \in {"kernel", "loop", "wait"}
      /\ \A x \in Proc : parent'[x] = IF x = c THEN Initproc ELSE parent[x]
      /\ TypeOK /\ PcState
  BY <1>1, KernelAssumption DEF IInv, TypeOK, Parents
<1>3. Initproc # p
  BY <1>1, <1>2
<1>4. /\ \A r \in Proc : r # Initproc => wait_state'[r] = wait_state[r] /\ state'[r] = state[r]
      /\ \/ wait_state'[Initproc] = "0"
         \/ /\ wait_state'[Initproc] = wait_state[Initproc] /\ state'[Initproc] = state[Initproc]
            /\ wait_state[Initproc] # "WT_CHILD" \/ state[c] # "ZOMBIE"
  BY <1>1, <1>2, Woken DEF WakeIfWaiting
<1>5. Waits(p)'
  <2>1. wait_state[p] = "0"
    BY <1>1, Wakeful
  <2>. QED BY <1>1, <1>3, <1>4, <2>1, WakesUp
<1>6. Waits(Initproc)'
  <2>1. CASE wait_state'[Initproc] = "0"
    BY <1>1, <1>2, <2>1, WakesUp
  <2>2. HasTimer(Initproc)' <=> HasTimer(Initproc)
    BY <1>1 DEF HasTimer
  <2>3. CASE /\ wait_state'[Initproc] = wait_state[Initproc] /\ state'[Initproc] = state[Initproc]
             /\ wait_state[Initproc] # "WT_CHILD"
    BY <1>1, <1>2, <2>2, <2>3, StillWaits
  <2>4. CASE wait_state'[Initproc] = "WT_CHILD" /\ wait_state[Initproc] = "WT_CHILD" /\ state[c] # "ZOMBIE"
    <3>1. pc[c] \notin Done
      BY <1>2, <2>4 DEF PcState, Done
    <3>2. /\ pc[Initproc] = "wait"
          /\ \E x \in Proc : Awaited(Initproc, x)
          /\ \A x \in Proc : Awaited(Initproc, x) => pc[x] \notin Done
      BY <1>2, <2>4 DEF SleepInv, Waits
    <3>3. \A x \in Proc : parent'[x] = Initproc <=> parent[x] = Initproc \/ x = c
      BY <1>2
    <3>4. \E x \in Proc : parent'[x] = Initproc /\ arg'[Initproc] \in {x, NULL}
      BY <1>1, <3>2, <3>3 DEF Awaited
    <3>5. \A x \in Proc : parent'[x] = Initproc /\ arg'[Initproc] \in {x, NULL} => pc'[x] \notin Done
      BY <1>1, <3>1, <3>2, <3>3 DEF Awaited
    <3>. QED BY <1>1, <2>4, <3>2, <3>4, <3>5 DEF Waits, Awaited
  <2>. QED BY <1>4, <2>1, <2>3, <2>4
<1>7. \A r \in Proc : r # p /\ r # Initproc =>
        \A x \in Proc : parent'[x] = r <=> parent[x] = r
  BY <1>1, <1>2
<1>. QED BY <1>1, <1>2, <1>4, <1>5, <1>6, <1>7, KinWait

\* Every step of the kernel leaves every sleeper somebody to wake it.
LEMMA SleepNext ==
  ASSUME IInv, FamilyInv, SleepInv, [Next]_vars
  PROVE  SleepInv'
<1>1. CASE IdleLoop \/ Schedule \/ Interrupt \/ Halted \/ UNCHANGED vars
  BY <1>1, SleepSched DEF Halted
<1>2. CASE InitWait
  BY <1>2, KernelAssumption, SleepDoWait DEF InitWait, At
<1>3. ASSUME NEW p \in Proc, Process(p) PROVE SleepInv'
  <2>1. arg \in [Proc -> Proc \cup Sem \cup {NULL}]
    BY DEF IInv, TypeOK
  <2>2. CASE \E t \in Proc \cup {NULL} : Wait(p, t)
    BY <2>2, SleepDoWait DEF Wait, At
  <2>3. CASE WaitAgain(p) /\ ~exiting[p]
    BY <2>1, <2>3, SleepDoWait DEF WaitAgain, At
  <2>4. CASE \E c \in Proc : Fork(p, c) \/ Reparent(p, c)
    BY <2>4, SleepFork, SleepReparent
  <2>5. CASE ExitWake(p)
    BY <2>5, SleepExitWake
  <2>6. CASE \E q \in Killable : Kill(p, q)
    BY <2>6, SleepKill
  <2>7. CASE \E time \in 1 .. MaxSleep : Sleep(p, time)
    BY <2>7, SleepSleep
  <2>8. CASE AddTimerPlace(p) \/ SleepDone(p)
    BY <2>8, SleepPlace, SleepEnd
  <2>9. CASE \E s \in Sem : DownBlock(p, s) \/ UpHand(p, s)
    BY <2>9, SleepBlock, SleepHand
  <2>10. CASE DownDone(p)
    BY <2>10, SleepDown
  <2>. QED BY <1>3, <2>2, <2>3, <2>4, <2>5, <2>6, <2>7, <2>8, <2>9, <2>10, SleepQuiet DEF Process
<1>. QED BY <1>1, <1>2, <1>3 DEF Next
-----------------------------------------------------------------------------
(* The theorems.                                                           *)

\* Both invariants hold in every state the kernel can reach.
THEOREM FamilyInvariance == Spec => [](IInv /\ FamilyInv /\ SleepInv)
<1>1. Init => IInv /\ FamilyInv /\ SleepInv
  BY InitIInv, FamilyInit, SleepInit
<1>2. IInv /\ FamilyInv /\ SleepInv /\ [Next]_vars => (IInv /\ FamilyInv /\ SleepInv)'
  BY NextIInv, FamilyNext, SleepNext
<1>. QED BY <1>1, <1>2, PTL DEF Spec

\* Every process has a parent that can still reap it, however fork, exit, wait
\* and kill interleave: do_exit gives its children away before it is done, and
\* do_wait reaps no process that has any. nr_process counts what is left.
THEOREM LineageHolds == Spec => []Lineage
<1>1. IInv /\ FamilyInv /\ SleepInv => Lineage
  BY LineIsLineage DEF FamilyInv
<1>. QED BY <1>1, FamilyInvariance, PTL

\* init_main finds itself the last process when do_wait tells it that it has no
\* child: whoever follows proc->parent comes to initproc.
THEOREM InitprocEndsAlone == Spec => []InitprocLast
<1>1. IInv /\ FamilyInv /\ SleepInv => InitprocLast
  BY DEF FamilyInv
<1>. QED BY <1>1, FamilyInvariance, PTL

\* No process sleeps for ever for want of a wakeup: do_sleep, down() and do_wait
\* each leave somebody behind who has yet to call wakeup_proc.
THEOREM SleepersAreWoken == Spec => []SleeperHasWaker
<1>1. ASSUME IInv, SleepInv PROVE SleeperHasWaker
  <2>. SUFFICES ASSUME NEW p \in Proc, state[p] = "SLEEPING"
                PROVE  CASE wait_state[p] = "WT_KSEM"  -> arg[p] \in Sem /\ p \in ToSet(wait_queue[arg[p]])
                         [] wait_state[p] = "WT_TIMER" -> pc[p] = "add_timer" \/ HasTimer(p)
                         [] wait_state[p] = "WT_CHILD" ->
                              /\ \E c \in Proc : Awaited(p, c)
                              /\ \A c \in Proc : Awaited(p, c) /\ state[c] = "ZOMBIE" => pc[c] = "exit_wake"
                         [] OTHER -> FALSE
    BY DEF SleeperHasWaker
  <2>1. wait_state[p] \in {"WT_KSEM", "WT_TIMER", "WT_CHILD"}
    BY <1>1 DEF IInv, TypeOK, SchedTypeOK, PcState, WaitState, SleepInv, Waits
  <2>2. \A c \in Proc : state[c] = "ZOMBIE" /\ pc[c] \notin Done => pc[c] = "exit_wake"
    BY <1>1 DEF IInv, PcState, Done
  <2>3. Waits(p)
    BY <1>1 DEF SleepInv
  <2>4. CASE wait_state[p] = "WT_KSEM"
    BY <2>3, <2>4 DEF Waits
  <2>5. CASE wait_state[p] = "WT_TIMER"
    BY <2>3, <2>5 DEF Waits
  <2>6. CASE wait_state[p] = "WT_CHILD"
    BY <2>2, <2>3, <2>6 DEF Waits
  <2>. QED BY <2>1, <2>4, <2>5, <2>6
<1>2. IInv /\ FamilyInv /\ SleepInv => SleeperHasWaker
  BY <1>1
<1>. QED BY <1>2, FamilyInvariance, PTL

\* Nothing but do_kill ends a do_sleep before its timer goes off.
THEOREM OnlyKillsCutSleep == Spec => []SleepCutShort
<1>1. IInv /\ FamilyInv /\ SleepInv => SleepCutShort
  BY DEF SleepInv, Waits, SleepCutShort
<1>. QED BY <1>1, FamilyInvariance, PTL
-----------------------------------------------------------------------------
(* The time the timers are due at. Due adds up the delays of the timers up *)
(* to one; what it adds up to when a timer comes, leaves or is due is      *)
(* shown with a least counterexample, which stands for the induction.      *)

\* A set of numbers has a least element.
LEMMA LeastOf ==
  ASSUME NEW T, T \subseteq Nat, T # {}
  PROVE  \E x \in T : \A y \in T : x <= y
<1>. DEFINE R == {ss \in Nat \X Nat : ss[1] < ss[2]}
<1>1. IsWellFoundedOn(R, Nat)
  BY NatLessThanWellFounded DEF OpToRel
<1>. HIDE DEF R
<1>2. PICK x \in T : \A y \in T : <<y, x>> \notin R
  BY <1>1, WFMin
<1>3. \A y \in T : <<y, x>> \in R <=> y < x
  BY DEF R
<1>4. \A y \in T : y \in Nat /\ x \in Nat /\ ~(y < x)
  BY <1>2, <1>3
<1>. QED BY <1>4

\* The sums of the first n delays.
Sums(tl, n, g) ==
  /\ g \in [0 .. n -> Int] /\ g[0] = 0
  /\ \A i \in 1 .. n : g[i] = g[i - 1] + tl[i].expires

DueOf(tl) == CHOOSE f : f = [i \in 0 .. Len(tl) |-> IF i = 0 THEN 0 ELSE f[i - 1] + tl[i].expires]

\* The model's Due, in both states of a step.
LEMMA DueIsOf == Due = DueOf(timer_list) /\ Due' = DueOf(timer_list')
<1>1. Due = DueOf(timer_list)
  BY DEF Due, DueOf
<1>2. Due' = DueOf(timer_list')
  BY DEF Due, DueOf
<1>. QED BY <1>1, <1>2

\* There are such sums, whatever the list.
LEMMA SumsExist ==
  ASSUME NEW tl, NEW n \in Nat, \A i \in 1 .. n : tl[i].expires \in Int
  PROVE  \E g : Sums(tl, n, g)
<1>. DEFINE T == {k \in Nat : k <= n /\ ~(\E g : Sums(tl, k, g))}
<1>1. SUFFICES ASSUME T # {} PROVE FALSE
  OBVIOUS
<1>2. PICK k \in T : \A y \in T : k <= y
  <2>1. T \subseteq Nat
    OBVIOUS
  <2>. HIDE DEF T
  <2>. QED BY <1>1, <2>1, LeastOf
<1>3. k \in Nat /\ k <= n /\ ~(\E g : Sums(tl, k, g))
  OBVIOUS
<1>4. k # 0
  <2>1. PICK g : g = [i \in 0 .. 0 |-> 0]
    OBVIOUS
  <2>2. Sums(tl, 0, g)
    BY <2>1 DEF Sums
  <2>. QED BY <1>3, <2>2
<1>5. PICK j \in Nat : k = j + 1
  BY <1>3, <1>4
<1>6. j \notin T /\ j <= n
  BY <1>2, <1>3, <1>5
<1>7. PICK g : Sums(tl, j, g)
  BY <1>6
<1>8. tl[k].expires \in Int /\ g \in [0 .. j -> Int] /\ g[j] \in Int /\ g[0] = 0
      /\ \A i \in 1 .. j : g[i] = g[i - 1] + tl[i].expires
  BY <1>3, <1>4, <1>7 DEF Sums
<1>9. PICK e \in Int : e = g[j] + tl[k].expires
  BY <1>8
<1>10. PICK h : h = [i \in 0 .. k |-> IF i = k THEN e ELSE g[i]]
  OBVIOUS
<1>11. /\ h \in [0 .. k -> Int] /\ h[k] = e
       /\ \A i \in 0 .. j : h[i] = g[i]
  BY <1>3, <1>5, <1>8, <1>10
<1>12. h[0] = 0
  BY <1>8, <1>11
<1>13. ASSUME NEW i \in 1 .. k PROVE h[i] = h[i - 1] + tl[i].expires
  <2>1. CASE i = k
    <3>1. i - 1 = j /\ j \in 0 .. j
      BY <1>5, <2>1
    <3>. QED BY <1>9, <1>11, <2>1, <3>1
  <2>2. CASE i # k
    <3>1. i \in 1 .. j /\ i \in 0 .. j /\ i - 1 \in 0 .. j
      BY <1>5, <2>2
    <3>. QED BY <1>8, <1>11, <3>1
  <2>. QED BY <2>1, <2>2
<1>14. Sums(tl, k, h)
  BY <1>11, <1>12, <1>13 DEF Sums
<1>. QED BY <1>3, <1>14

\* And they are the only ones.
LEMMA SumsUnique ==
  ASSUME NEW tl, NEW n \in Nat, NEW g, Sums(tl, n, g), NEW h, Sums(tl, n, h)
  PROVE  g = h
<1>. DEFINE T == {k \in Nat : k <= n /\ g[k] # h[k]}
<1>1. g \in [0 .. n -> Int] /\ h \in [0 .. n -> Int] /\ g[0] = 0 /\ h[0] = 0
  BY DEF Sums
<1>2. CASE T = {}
  <2>1. \A k \in 0 .. n : g[k] = h[k]
    BY <1>2
  <2>. QED BY <1>1, <2>1
<1>3. CASE T # {}
  <2>1. PICK k \in T : \A y \in T : k <= y
    <3>1. T \subseteq Nat
      OBVIOUS
    <3>. HIDE DEF T
    <3>. QED BY <1>3, <3>1, LeastOf
  <2>2. k \in Nat /\ k <= n /\ g[k] # h[k]
    OBVIOUS
  <2>3. k # 0
    BY <1>1, <2>2
  <2>4. k \in 1 .. n /\ k - 1 \in Nat /\ k - 1 <= n /\ ~(k <= k - 1)
    BY <2>2, <2>3
  <2>5. k - 1 \notin T
    BY <2>1, <2>4
  <2>6. g[k - 1] = h[k - 1]
    BY <2>4, <2>5
  <2>7. g[k] = g[k - 1] + tl[k].expires /\ h[k] = h[k - 1] + tl[k].expires
    BY <2>4 DEF Sums
  <2>. QED BY <2>2, <2>6, <2>7
<1>. QED BY <1>2, <1>3

\* Due computes them.
LEMMA DueSums ==
  ASSUME NEW tl, NEW n \in Nat, Len(tl) = n, \A i \in 1 .. n : tl[i].expires \in Int
  PROVE  /\ Sums(tl, n, DueOf(tl))
         /\ \A g : Sums(tl, n, g) => DueOf(tl) = g
<1>. DEFINE Adds(f) == [i \in 0 .. n |-> IF i = 0 THEN 0 ELSE f[i - 1] + tl[i].expires]
<1>1. PICK g : Sums(tl, n, g)
  BY SumsExist
<1>2. g = Adds(g)
  <2>1. g \in [0 .. n -> Int]
    BY <1>1 DEF Sums
  <2>2. \A i \in 0 .. n : g[i] = IF i = 0 THEN 0 ELSE g[i - 1] + tl[i].expires
    BY <1>1 DEF Sums
  <2>. QED BY <2>1, <2>2
<1>3. PICK d : d = DueOf(tl)
  OBVIOUS
<1>4. DueOf(tl) = CHOOSE f : f = Adds(f)
  BY DEF DueOf
<1>. HIDE DEF Adds
<1>5. d = Adds(d)
  BY <1>2, <1>3, <1>4
<1>6. Sums(tl, n, d)
  <2>1. /\ d = [i \in 0 .. n |-> d[i]]
        /\ \A i \in 0 .. n : i = 0 => d[i] = 0
        /\ \A i \in 0 .. n : i # 0 => d[i] = d[i - 1] + tl[i].expires
    <3>1. DOMAIN d = 0 .. n /\ d = [i \in 0 .. n |-> d[i]]
      BY <1>5 DEF Adds
    <3>2. ASSUME NEW i \in 0 .. n
          PROVE  d[i] = IF i = 0 THEN 0 ELSE d[i - 1] + tl[i].expires
      <4>1. Adds(d)[i] = IF i = 0 THEN 0 ELSE d[i - 1] + tl[i].expires
        BY DEF Adds
      <4>. QED BY <1>5, <4>1
    <3>. QED BY <3>1, <3>2
  <2>. DEFINE T == {k \in Nat : k <= n /\ d[k] \notin Int}
  <2>2. T = {}
    <3>1. SUFFICES ASSUME T # {} PROVE FALSE
      OBVIOUS
    <3>2. PICK k \in T : \A y \in T : k <= y
      <4>1. T \subseteq Nat
        OBVIOUS
      <4>. HIDE DEF T
      <4>. QED BY <3>1, <4>1, LeastOf
    <3>3. k \in Nat /\ k <= n /\ d[k] \notin Int
      OBVIOUS
    <3>4. k # 0
      BY <2>1, <3>3
    <3>5. k \in 1 .. n /\ k - 1 \in Nat /\ k - 1 <= n /\ ~(k <= k - 1)
      BY <3>3, <3>4
    <3>6. d[k - 1] \in Int
      BY <3>2, <3>5
    <3>7. d[k] = d[k - 1] + tl[k].expires /\ tl[k].expires \in Int
      <4>1. k \in 0 .. n
        BY <3>3
      <4>. QED BY <2>1, <3>4, <3>5, <4>1
    <3>. QED BY <3>3, <3>6, <3>7
  <2>3. \A k \in 0 .. n : d[k] \in Int
    BY <2>2
  <2>4. d \in [0 .. n -> Int]
    BY <2>1, <2>3
  <2>5. d[0] = 0 /\ \A i \in 1 .. n : d[i] = d[i - 1] + tl[i].expires
    <3>1. 0 \in 0 .. n /\ \A i \in 1 .. n : i \in 0 .. n /\ i # 0
      OBVIOUS
    <3>. QED BY <2>1, <3>1
  <2>. QED BY <2>4, <2>5 DEF Sums
<1>. QED BY <1>3, <1>6, SumsUnique

\* A list of timers, for the sums of its delays.
IsTimers(tl) == tl \in Seq(Timer) /\ Len(tl) \in Nat /\ \A i \in 1 .. Len(tl) : tl[i].expires \in Nat

\* The list of timers is one.
LEMMA TimersAre == ASSUME NEW tl \in Seq(Timer) PROVE IsTimers(tl)
<1>1. \A i \in 1 .. Len(tl) : tl[i] \in Timer
  OBVIOUS
<1>. QED BY <1>1 DEF IsTimers, Timer

\* Due counts from the head, delay by delay.
LEMMA DueFacts ==
  ASSUME NEW tl, IsTimers(tl)
  PROVE  /\ DueOf(tl) \in [0 .. Len(tl) -> Int] /\ DueOf(tl)[0] = 0
         /\ \A i \in 1 .. Len(tl) : /\ DueOf(tl)[i] = DueOf(tl)[i - 1] + tl[i].expires
                                    /\ tl[i].expires \in Nat
<1>1. Sums(tl, Len(tl), DueOf(tl))
  BY DueSums DEF IsTimers
<1>. QED BY <1>1 DEF Sums, IsTimers

\* Whatever adds up the delays is Due.
LEMMA DueIs ==
  ASSUME NEW tl, IsTimers(tl), NEW n, n = Len(tl), NEW g, Sums(tl, n, g)
  PROVE  DueOf(tl) = g
<1>1. n \in Nat /\ \A i \in 1 .. n : tl[i].expires \in Int
  BY DEF IsTimers
<1>. QED BY <1>1, DueSums

\* What happens to the delays, on a tick, when a timer is put at k or deleted there.
Ticked(tl, tl2) ==
  /\ IsTimers(tl) /\ IsTimers(tl2) /\ Len(tl2) = Len(tl) /\ Len(tl) > 0
  /\ tl2[1].expires = tl[1].expires - 1
  /\ \A i \in 2 .. Len(tl) : tl2[i].expires = tl[i].expires
Placed(tl, tl2, k, x) ==
  /\ IsTimers(tl) /\ IsTimers(tl2) /\ Len(tl2) = Len(tl) + 1
  /\ k \in 1 .. Len(tl) + 1 /\ x \in Nat /\ tl2[k].expires = x
  /\ \A i \in 1 .. k - 1 : tl2[i].expires = tl[i].expires
  /\ k <= Len(tl) => tl2[k + 1].expires = tl[k].expires - x
  /\ \A i \in k + 1 .. Len(tl) : tl2[i + 1].expires = tl[i].expires
Deleted(tl, tl2, n, k) ==
  /\ IsTimers(tl) /\ IsTimers(tl2) /\ n \in Nat /\ Len(tl) = n + 1 /\ Len(tl2) = n
  /\ k \in 1 .. n + 1
  /\ \A i \in 1 .. k - 1 : tl2[i].expires = tl[i].expires
  /\ k <= n => tl2[k].expires = tl[k + 1].expires + tl[k].expires
  /\ \A i \in k + 1 .. n : tl2[i].expires = tl[i + 1].expires

\* A tick takes one from the delay of the head, and brings all timers nearer.
LEMMA DueTick ==
  ASSUME NEW tl, NEW tl2, Ticked(tl, tl2)
  PROVE  \A i \in 1 .. Len(tl) : DueOf(tl2)[i] = DueOf(tl)[i] - 1
<1>. USE DEF Ticked
<1>1. PICK d, n : d = DueOf(tl) /\ n = Len(tl)
  OBVIOUS
<1>2. /\ n \in Nat /\ n > 0 /\ d \in [0 .. n -> Int] /\ d[0] = 0
      /\ \A i \in 1 .. n : d[i] = d[i - 1] + tl[i].expires /\ tl[i].expires \in Nat
  BY <1>1, DueFacts DEF IsTimers
<1>3. PICK g : g = [i \in 0 .. n |-> IF i = 0 THEN 0 ELSE d[i] - 1]
  OBVIOUS
<1>4. /\ g \in [0 .. n -> Int] /\ g[0] = 0
      /\ \A i \in 1 .. n : g[i] = d[i] - 1
  BY <1>2, <1>3
<1>5. ASSUME NEW i \in 1 .. n PROVE g[i] = g[i - 1] + tl2[i].expires
  <2>1. d[i] \in Int /\ d[i - 1] \in Int /\ tl[i].expires \in Nat /\ d[i] = d[i - 1] + tl[i].expires
        /\ g[i] = d[i] - 1
    BY <1>2, <1>4
  <2>2. CASE i = 1
    <3>1. tl2[i].expires = tl[i].expires - 1 /\ g[i - 1] = 0 /\ d[i - 1] = 0
      BY <1>2, <1>4, <2>2
    <3>. QED BY <2>1, <3>1
  <2>3. CASE i # 1
    <3>1. i \in 2 .. n /\ i - 1 \in 1 .. n
      BY <1>2, <2>3
    <3>2. tl2[i].expires = tl[i].expires /\ g[i - 1] = d[i - 1] - 1
      BY <1>1, <1>4, <3>1
    <3>. QED BY <2>1, <3>2
  <2>. QED BY <2>2, <2>3
<1>6. Sums(tl2, n, g)
  BY <1>4, <1>5 DEF Sums
<1>7. DueOf(tl2) = g
  BY <1>1, <1>6, DueIs
<1>. QED BY <1>1, <1>4, <1>7

\* The timer at the head leaves when it is due now.
LEMMA DueExpire ==
  ASSUME NEW tl, IsTimers(tl), Len(tl) > 0, tl[1].expires = 0,
         NEW tl2, IsTimers(tl2), Len(tl2) = Len(tl) - 1,
         \A i \in 1 .. Len(tl) - 1 : tl2[i] = tl[i + 1]
  PROVE  \A i \in 1 .. Len(tl) - 1 : DueOf(tl2)[i] = DueOf(tl)[i + 1]
<1>1. PICK d, n : d = DueOf(tl) /\ n = Len(tl) - 1
  OBVIOUS
<1>2. /\ n \in Nat /\ d \in [0 .. n + 1 -> Int] /\ d[0] = 0
      /\ \A i \in 1 .. n + 1 : d[i] = d[i - 1] + tl[i].expires /\ tl[i].expires \in Nat
      /\ \A i \in 1 .. n : tl2[i] = tl[i + 1]
  <2>1. Len(tl) = n + 1 /\ n \in Nat
    BY <1>1 DEF IsTimers
  <2>. QED BY <1>1, <2>1, DueFacts
<1>3. d[1] = 0
  <2>1. d[1] = d[1 - 1] + tl[1].expires
    <3>1. 1 \in 1 .. n + 1
      BY <1>2
    <3>. QED BY <1>2, <3>1
  <2>. QED BY <1>2, <2>1
<1>4. PICK g : g = [i \in 0 .. n |-> d[i + 1]]
  OBVIOUS
<1>5. /\ g \in [0 .. n -> Int] /\ g[0] = 0
      /\ \A i \in 0 .. n : g[i] = d[i + 1]
  BY <1>2, <1>3, <1>4
<1>6. ASSUME NEW i \in 1 .. n PROVE g[i] = g[i - 1] + tl2[i].expires
  <2>1. i + 1 \in 1 .. n + 1 /\ (i + 1) - 1 = i /\ (i - 1) + 1 = i /\ i \in 0 .. n /\ i - 1 \in 0 .. n
    BY <1>2
  <2>2. d[i + 1] = d[i] + tl[i + 1].expires
    BY <1>2, <2>1
  <2>3. g[i] = d[i + 1] /\ g[i - 1] = d[i] /\ tl2[i] = tl[i + 1]
    BY <1>2, <1>5, <2>1
  <2>. QED BY <2>2, <2>3
<1>7. Sums(tl2, n, g)
  BY <1>5, <1>6 DEF Sums
<1>8. DueOf(tl2) = g
  BY <1>1, <1>7, DueIs
<1>. QED BY <1>1, <1>5, <1>8

\* A timer comes between two others, and the second is made relative to it.
LEMMA DuePlace ==
  ASSUME NEW tl, NEW tl2, NEW k, NEW x, Placed(tl, tl2, k, x)
  PROVE  /\ \A i \in 1 .. k - 1 : DueOf(tl2)[i] = DueOf(tl)[i]
         /\ DueOf(tl2)[k] = DueOf(tl)[k - 1] + x
         /\ \A i \in k .. Len(tl) : DueOf(tl2)[i + 1] = DueOf(tl)[i]
<1>. USE DEF Placed
<1>1. PICK d, n : d = DueOf(tl) /\ n = Len(tl)
  OBVIOUS
<1>2. /\ n \in Nat /\ d \in [0 .. n -> Int] /\ d[0] = 0 /\ k \in Nat /\ k >= 1 /\ k <= n + 1
      /\ \A i \in 1 .. n : d[i] = d[i - 1] + tl[i].expires /\ tl[i].expires \in Nat
  BY <1>1, DueFacts DEF IsTimers
<1>0. n \in Nat /\ k \in Nat /\ k >= 1 /\ k <= n + 1
  BY <1>2
<1>3. PICK e \in Int : e = d[k - 1] + x
  <2>1. k - 1 \in 0 .. n
    BY <1>2
  <2>. QED BY <1>2, <2>1
<1>4. PICK g : g = [i \in 0 .. n + 1 |-> IF i < k THEN d[i] ELSE IF i = k THEN e ELSE d[i - 1]]
  OBVIOUS
<1>5. /\ \A i \in 0 .. k - 1 : g[i] = d[i]
      /\ g[k] = e
      /\ \A i \in k .. n : g[i + 1] = d[i]
      /\ g = [i \in 0 .. n + 1 |-> g[i]]
  <2>1. \A i \in 0 .. k - 1 : i \in 0 .. n + 1 /\ i < k
    BY <1>2
  <2>2. k \in 0 .. n + 1 /\ ~(k < k)
    BY <1>2
  <2>3. \A i \in k .. n : i + 1 \in 0 .. n + 1 /\ ~(i + 1 < k) /\ i + 1 # k /\ (i + 1) - 1 = i
    BY <1>2
  <2>. QED BY <1>4, <2>1, <2>2, <2>3
<1>6. g \in [0 .. n + 1 -> Int] /\ g[0] = 0
  <2>1. ASSUME NEW i \in 0 .. n + 1 PROVE g[i] \in Int
    <3>1. i \in 0 .. k - 1 \/ i = k \/ (i - 1 \in k .. n /\ i = (i - 1) + 1)
      BY <1>2
    <3>2. \A j \in 0 .. n : d[j] \in Int
      BY <1>2
    <3>3. \A j \in 0 .. k - 1 : j \in 0 .. n
      BY <1>2
    <3>4. \A j \in k .. n : j \in 0 .. n
      BY <1>2
    <3>5. CASE i \in 0 .. k - 1
      BY <1>5, <3>2, <3>3, <3>5
    <3>6. CASE i = k
      BY <1>3, <1>5, <3>6
    <3>7. CASE i - 1 \in k .. n /\ i = (i - 1) + 1
      BY <1>5, <3>2, <3>4, <3>7
    <3>. QED BY <3>1, <3>5, <3>6, <3>7
  <2>2. 0 \in 0 .. k - 1
    BY <1>2
  <2>. QED BY <1>2, <1>5, <2>1, <2>2
<1>7. ASSUME NEW i \in 1 .. n + 1 PROVE g[i] = g[i - 1] + tl2[i].expires
  <2>1. CASE i < k
    <3>1. i \in 1 .. k - 1 /\ i \in 0 .. k - 1 /\ i - 1 \in 0 .. k - 1 /\ i \in 1 .. n
      BY <1>0, <2>1
    <3>. QED BY <1>2, <1>5, <3>1
  <2>2. CASE i = k
    <3>1. k - 1 \in 0 .. k - 1
      BY <1>2
    <3>. QED BY <1>3, <1>5, <2>2, <3>1
  <2>3. CASE i = k + 1
    <3>1. k \in k .. n /\ k \in 1 .. n /\ k - 1 \in 0 .. n /\ k \in 0 .. n /\ k <= Len(tl) /\ i - 1 = k
      BY <1>1, <1>2, <2>3
    <3>2. g[i] = d[k] /\ g[i - 1] = e
      BY <1>5, <2>3, <3>1
    <3>3. tl2[i].expires = tl[k].expires - x
      BY <2>3, <3>1
    <3>4. d[k] = d[k - 1] + tl[k].expires /\ tl[k].expires \in Nat /\ d[k - 1] \in Int
      BY <1>2, <3>1
    <3>5. \A y \in Int, z \in Nat : y + z = (y + x) + (z - x)
      OBVIOUS
    <3>6. d[k - 1] + tl[k].expires = (d[k - 1] + x) + (tl[k].expires - x)
      BY <3>4, <3>5
    <3>. QED BY <1>3, <3>2, <3>3, <3>4, <3>6
  <2>4. CASE i > k + 1
    <3>1. PICK j \in Nat : i = j + 1
      BY <1>2
    <3>2. j \in k + 1 .. n /\ j \in k .. n /\ j - 1 \in k .. n /\ j \in 1 .. n /\ (j - 1) + 1 = j /\ i - 1 = j
      BY <1>0, <2>4, <3>1
    <3>3. g[i] = d[j]
      BY <1>5, <3>1, <3>2
    <3>4. g[j] = d[j - 1]
      <4>1. g[(j - 1) + 1] = d[j - 1]
        BY <1>5, <3>2
      <4>. QED BY <3>2, <4>1
    <3>5. tl2[i].expires = tl[j].expires
      BY <1>1, <3>1, <3>2
    <3>. QED BY <1>2, <3>2, <3>3, <3>4, <3>5
  <2>. QED BY <1>2, <2>1, <2>2, <2>3, <2>4
<1>8. Sums(tl2, n + 1, g)
  BY <1>6, <1>7 DEF Sums
<1>9. DueOf(tl2) = g
  BY <1>1, <1>8, DueIs
<1>10. \A i \in 1 .. k - 1 : g[i] = d[i]
  <2>1. \A i \in 1 .. k - 1 : i \in 0 .. k - 1
    BY <1>0
  <2>. QED BY <1>5, <2>1
<1>. QED BY <1>1, <1>3, <1>5, <1>9, <1>10

\* A timer leaves, and the one behind it gets its delay.
LEMMA DueDelete ==
  ASSUME NEW tl, NEW tl2, NEW n, NEW k, Deleted(tl, tl2, n, k)
  PROVE  /\ \A i \in 1 .. k - 1 : DueOf(tl2)[i] = DueOf(tl)[i]
         /\ \A i \in k .. n : DueOf(tl2)[i] = DueOf(tl)[i + 1]
<1>. USE DEF Deleted
<1>1. PICK d : d = DueOf(tl)
  OBVIOUS
<1>2. /\ d \in [0 .. n + 1 -> Int] /\ d[0] = 0 /\ k \in Nat /\ k >= 1 /\ k <= n + 1
      /\ \A i \in 1 .. n + 1 : d[i] = d[i - 1] + tl[i].expires /\ tl[i].expires \in Nat
  <2>1. n + 1 = Len(tl) /\ k \in Nat /\ k >= 1 /\ k <= n + 1
    OBVIOUS
  <2>. QED BY <1>1, <2>1, DueFacts
<1>0. n \in Nat /\ k \in Nat /\ k >= 1 /\ k <= n + 1
  BY <1>2
<1>3. PICK g : g = [i \in 0 .. n |-> IF i < k THEN d[i] ELSE d[i + 1]]
  OBVIOUS
<1>4. /\ \A i \in 0 .. k - 1 : g[i] = d[i]
      /\ \A i \in k .. n : g[i] = d[i + 1]
      /\ g = [i \in 0 .. n |-> g[i]]
  <2>1. \A i \in 0 .. k - 1 : i \in 0 .. n /\ i < k
    BY <1>2
  <2>2. \A i \in k .. n : i \in 0 .. n /\ ~(i < k)
    BY <1>2
  <2>. QED BY <1>3, <2>1, <2>2
<1>5. g \in [0 .. n -> Int] /\ g[0] = 0
  <2>1. ASSUME NEW i \in 0 .. n PROVE g[i] \in Int
    <3>1. d[i] \in Int /\ d[i + 1] \in Int
      BY <1>2
    <3>2. i \in 0 .. k - 1 \/ i \in k .. n
      BY <1>2
    <3>. QED BY <1>4, <3>1, <3>2
  <2>2. 0 \in 0 .. k - 1
    BY <1>2
  <2>. QED BY <1>2, <1>4, <2>1, <2>2
<1>6. ASSUME NEW i \in 1 .. n PROVE g[i] = g[i - 1] + tl2[i].expires
  <2>1. i + 1 \in 1 .. n + 1 /\ i \in 1 .. n + 1 /\ (i + 1) - 1 = i /\ i - 1 \in 0 .. n + 1
    OBVIOUS
  <2>2. d[i] = d[i - 1] + tl[i].expires /\ tl[i].expires \in Nat /\ d[i - 1] \in Int
    BY <1>2, <2>1
  <2>3. d[i + 1] = d[i] + tl[i + 1].expires /\ tl[i + 1].expires \in Nat
    BY <1>2, <2>1
  <2>4. CASE i < k
    <3>1. i \in 1 .. k - 1 /\ i \in 0 .. k - 1 /\ i - 1 \in 0 .. k - 1
      BY <1>2, <2>4
    <3>. QED BY <1>4, <2>2, <3>1
  <2>5. CASE i = k
    <3>1. k \in k .. n /\ k - 1 \in 0 .. k - 1 /\ k <= n
      BY <1>2, <2>5
    <3>2. g[i] = d[i + 1] /\ g[i - 1] = d[i - 1]
      BY <1>4, <2>5, <3>1
    <3>3. tl2[i].expires = tl[i + 1].expires + tl[i].expires
      BY <2>5, <3>1
    <3>. QED BY <2>2, <2>3, <3>2, <3>3
  <2>6. CASE i > k
    <3>1. i \in k .. n /\ i - 1 \in k .. n /\ i \in k + 1 .. n /\ (i - 1) + 1 = i
      BY <1>2, <2>6
    <3>2. g[i] = d[i + 1]
      BY <1>4, <3>1
    <3>3. g[i - 1] = d[i]
      <4>1. g[i - 1] = d[(i - 1) + 1]
        BY <1>4, <3>1
      <4>. QED BY <3>1, <4>1
    <3>4. tl2[i].expires = tl[i + 1].expires
      BY <3>1
    <3>. QED BY <2>3, <3>2, <3>3, <3>4
  <2>. QED BY <1>2, <2>4, <2>5, <2>6
<1>7. Sums(tl2, n, g)
  BY <1>5, <1>6 DEF Sums
<1>8. DueOf(tl2) = g
  BY <1>7, DueIs
<1>9. \A i \in 1 .. k - 1 : g[i] = d[i]
  <2>1. \A i \in 1 .. k - 1 : i \in 0 .. k - 1
    BY <1>0
  <2>. QED BY <1>4, <2>1
<1>. QED BY <1>1, <1>4, <1>8, <1>9

\* One delay is replaced.
Replaced(list, i, e, r) == r = [list EXCEPT ![i].expires = e]

\* It stays a list of timers.
LEMMA ReplacedIs ==
  ASSUME NEW list \in Seq(Timer), NEW i \in 1 .. Len(list), NEW e \in Nat,
         NEW r, Replaced(list, i, e, r)
  PROVE  /\ r \in Seq(Timer) /\ Len(r) = Len(list)
         /\ \A j \in 1 .. Len(list) :
              /\ r[j].proc = list[j].proc
              /\ j = i => r[j].expires = e
              /\ j # i => r[j].expires = list[j].expires
<1>1. r = [list EXCEPT ![i].expires = e]
  BY DEF Replaced
<1>2. /\ r \in Seq(Timer) /\ Len(r) = Len(list)
      /\ \A j \in 1 .. Len(list) : /\ r[j].proc = list[j].proc
                                   /\ r[j].expires = IF j = i THEN e ELSE list[j].expires
  BY <1>1, ReplaceTimer
<1>. QED BY <1>2

\* The timer at k is made relative to one that is due x later than the one
\* before it; the timer behind k gets what is left of the one at k.
Relative(tl, k, x, list) ==
  list = IF k <= Len(tl) THEN [tl EXCEPT ![k].expires = tl[k].expires - x] ELSE tl
PassedBack(tl, k, list) ==
  list = IF k < Len(tl) THEN [tl EXCEPT ![k + 1].expires = tl[k + 1].expires + tl[k].expires] ELSE tl

\* Nobody has two timers.
Distinct(tl) == \A i, j \in 1 .. Len(tl) : tl[i].proc = tl[j].proc => i = j

\* The timers that are in both lists are n ticks nearer in the second.
Nearer(tl, tl2, n) ==
  \A i \in 1 .. Len(tl), j \in 1 .. Len(tl2) :
    tl[i].proc = tl2[j].proc => DueOf(tl2)[j] = DueOf(tl)[i] - n

\* Due is a number.
LEMMA DueInt ==
  ASSUME NEW tl, IsTimers(tl), NEW i \in 0 .. Len(tl)
  PROVE  DueOf(tl)[i] \in Int
BY DueFacts

\* A tick.
LEMMA TickNearer ==
  ASSUME NEW tl \in Seq(Timer), Distinct(tl), tl # <<>>, tl[1].expires > 0,
         NEW e, e = tl[1].expires - 1, NEW tl2, Replaced(tl, 1, e, tl2)
  PROVE  Nearer(tl, tl2, 1)
<1>2. IsTimers(tl) /\ 1 \in 1 .. Len(tl) /\ e \in Nat /\ Len(tl) > 0
  <2>1. IsTimers(tl) /\ 1 \in 1 .. Len(tl)
    BY TimersAre DEF IsTimers
  <2>2. tl[1].expires \in Nat
    BY <2>1 DEF IsTimers
  <2>. QED BY <2>1, <2>2 DEF IsTimers
<1>4. /\ tl2 \in Seq(Timer) /\ Len(tl2) = Len(tl)
      /\ \A j \in 1 .. Len(tl) : /\ tl2[j].proc = tl[j].proc
                                 /\ j = 1 => tl2[j].expires = e
                                 /\ j # 1 => tl2[j].expires = tl[j].expires
  BY <1>2, ReplacedIs
<1>5. IsTimers(tl2)
  BY <1>4, TimersAre
<1>6. tl2[1].expires = tl[1].expires - 1 /\ \A i \in 2 .. Len(tl) : tl2[i].expires = tl[i].expires
  <2>1. \A i \in 2 .. Len(tl) : i \in 1 .. Len(tl) /\ i # 1
    BY <1>2 DEF IsTimers
  <2>. QED BY <1>2, <1>4, <2>1
<1>7. \A i \in 1 .. Len(tl) : DueOf(tl2)[i] = DueOf(tl)[i] - 1
  <2>1. Ticked(tl, tl2)
    BY <1>2, <1>4, <1>5, <1>6 DEF Ticked
  <2>. QED BY <2>1, DueTick
<1>8. ASSUME NEW i \in 1 .. Len(tl), NEW j \in 1 .. Len(tl2), tl[i].proc = tl2[j].proc
      PROVE  DueOf(tl2)[j] = DueOf(tl)[i] - 1
  <2>1. j \in 1 .. Len(tl) /\ i = j
    BY <1>4, <1>8 DEF Distinct
  <2>. QED BY <1>7, <2>1
<1>. QED BY <1>8 DEF Nearer

\* A timer goes off.
LEMMA TailNearer ==
  ASSUME NEW tl \in Seq(Timer), Distinct(tl), tl # <<>>, tl[1].expires = 0,
         NEW tl2, tl2 = Tail(tl)
  PROVE  Nearer(tl, tl2, 0)
<1>1. /\ IsTimers(tl) /\ Len(tl) \in Nat /\ Len(tl) > 0
      /\ tl2 \in Seq(Timer) /\ Len(tl2) = Len(tl) - 1
      /\ \A i \in 1 .. Len(tl) - 1 : tl2[i] = tl[i + 1]
  BY TimersAre
<1>2. IsTimers(tl2)
  BY <1>1, TimersAre
<1>3. \A i \in 1 .. Len(tl) - 1 : DueOf(tl2)[i] = DueOf(tl)[i + 1]
  BY <1>1, <1>2, DueExpire
<1>4. ASSUME NEW i \in 1 .. Len(tl), NEW j \in 1 .. Len(tl2), tl[i].proc = tl2[j].proc
      PROVE  DueOf(tl2)[j] = DueOf(tl)[i] - 0
  <2>1. j \in 1 .. Len(tl) - 1 /\ j + 1 \in 1 .. Len(tl)
    BY <1>1
  <2>2. i = j + 1
    <3>1. tl[i].proc = tl[j + 1].proc
      BY <1>1, <1>4, <2>1
    <3>. QED BY <2>1, <3>1 DEF Distinct
  <2>3. DueOf(tl)[i] \in Int
    <3>1. i \in 0 .. Len(tl)
      BY <1>1
    <3>. QED BY <1>1, <3>1, DueInt
  <2>. QED BY <1>3, <2>1, <2>2, <2>3
<1>. QED BY <1>4 DEF Nearer

\* A timer is put in its place; it is due as long after the one before it as
\* add_timer still has to go.
LEMMA PlaceNearer ==
  ASSUME NEW tl \in Seq(Timer), Distinct(tl), NEW p \in Proc, NEW x \in Nat,
         \A i \in 1 .. Len(tl) : tl[i].proc # p,
         NEW k \in 1 .. Len(tl) + 1, k <= Len(tl) => x < tl[k].expires,
         NEW list, Relative(tl, k, x, list),
         NEW tl2, tl2 = InsertAt(list, k, [proc |-> p, expires |-> x])
  PROVE  /\ Nearer(tl, tl2, 0)
         /\ k \in 1 .. Len(tl2) /\ tl2[k].proc = p
         /\ DueOf(tl2)[k] = DueOf(tl)[k - 1] + x
<1>1. PICK n : n = Len(tl)
  OBVIOUS
<1>2. /\ IsTimers(tl) /\ n \in Nat /\ k \in Nat /\ k >= 1 /\ k <= n + 1
      /\ \A i \in 1 .. n : tl[i].expires \in Nat
  BY <1>1, TimersAre DEF IsTimers
<1>0. n \in Nat /\ k \in Nat /\ k >= 1 /\ k <= n + 1
  BY <1>2
<1>3. /\ list \in Seq(Timer) /\ Len(list) = n
      /\ \A i \in 1 .. n : /\ list[i].proc = tl[i].proc
                           /\ i # k => list[i].expires = tl[i].expires
                           /\ i = k => list[i].expires = tl[i].expires - x
  <2>1. CASE k <= n
    <3>1. PICK e : e = tl[k].expires - x
      OBVIOUS
    <3>2. k \in 1 .. n /\ x < tl[k].expires /\ tl[k].expires \in Nat
      BY <1>1, <1>2, <2>1
    <3>3. e \in Nat
      BY <3>1, <3>2
    <3>4. Replaced(tl, k, e, list) /\ k \in 1 .. Len(tl)
      BY <1>1, <2>1, <3>1, <3>2 DEF Replaced, Relative
    <3>5. /\ list \in Seq(Timer) /\ Len(list) = n
          /\ \A i \in 1 .. n : /\ list[i].proc = tl[i].proc
                               /\ i = k => list[i].expires = e
                               /\ i # k => list[i].expires = tl[i].expires
      BY <1>1, <3>3, <3>4, ReplacedIs
    <3>. QED BY <3>1, <3>2, <3>5
  <2>2. CASE ~(k <= n)
    <3>1. list = tl /\ \A i \in 1 .. n : i # k
      BY <1>0, <1>1, <2>2 DEF Relative
    <3>. QED BY <1>1, <3>1
  <2>. QED BY <2>1, <2>2
<1>4. PICK t : t = [proc |-> p, expires |-> x]
  OBVIOUS
<1>5. t \in Timer /\ t.proc = p /\ t.expires = x
  BY <1>4 DEF Timer
<1>6. /\ tl2 \in Seq(Timer) /\ Len(tl2) = n + 1
      /\ \A j \in 1 .. k - 1 : tl2[j] = list[j]
      /\ tl2[k] = t
      /\ \A j \in k + 1 .. n + 1 : tl2[j] = list[j - 1]
  <2>1. InsertedAt(Timer, list, k, t, InsertAt(list, k, t))
    BY <1>1, <1>3, <1>5, InsertAtElements
  <2>. QED BY <1>3, <1>4, <2>1 DEF InsertedAt
<1>7. IsTimers(tl2)
  BY <1>6, TimersAre
<1>8. \A i \in 1 .. k - 1 : tl2[i].expires = tl[i].expires /\ tl2[i].proc = tl[i].proc
  <2>1. \A i \in 1 .. k - 1 : i \in 1 .. n /\ i # k
    BY <1>0
  <2>. QED BY <1>3, <1>6, <2>1
<1>9. \A i \in k .. n : i + 1 \in k + 1 .. n + 1 /\ tl2[i + 1] = list[i] /\ i \in 1 .. n
  <2>1. \A i \in k .. n : i + 1 \in k + 1 .. n + 1 /\ (i + 1) - 1 = i /\ i \in 1 .. n
    BY <1>0
  <2>. QED BY <1>6, <2>1
<1>10. k <= n => tl2[k + 1].expires = tl[k].expires - x
  <2>1. k <= n => k \in k .. n
    BY <1>0
  <2>. QED BY <1>3, <1>9, <2>1
<1>11. \A i \in k + 1 .. n : tl2[i + 1].expires = tl[i].expires
  <2>1. \A i \in k + 1 .. n : i \in k .. n /\ i # k
    BY <1>0
  <2>. QED BY <1>3, <1>9, <2>1
<1>12. /\ \A i \in 1 .. k - 1 : DueOf(tl2)[i] = DueOf(tl)[i]
       /\ DueOf(tl2)[k] = DueOf(tl)[k - 1] + x
       /\ \A i \in k .. n : DueOf(tl2)[i + 1] = DueOf(tl)[i]
  <2>1. tl2[k].expires = x
    BY <1>5, <1>6
  <2>2. Placed(tl, tl2, k, x)
    BY <1>1, <1>2, <1>6, <1>7, <1>8, <1>10, <1>11, <2>1 DEF Placed
  <2>3. n = Len(tl)
    BY <1>1
  <2>4. /\ \A i \in 1 .. k - 1 : DueOf(tl2)[i] = DueOf(tl)[i]
        /\ DueOf(tl2)[k] = DueOf(tl)[k - 1] + x
        /\ \A i \in k .. Len(tl) : DueOf(tl2)[i + 1] = DueOf(tl)[i]
    BY <2>2, DuePlace
  <2>. QED BY <2>3, <2>4
<1>13. ASSUME NEW i \in 1 .. Len(tl), NEW j \in 1 .. Len(tl2), tl[i].proc = tl2[j].proc
       PROVE  DueOf(tl2)[j] = DueOf(tl)[i] - 0
  <2>0. i \in 1 .. n /\ j \in 1 .. n + 1
    BY <1>1, <1>6
  <2>1. DueOf(tl)[i] \in Int
    <3>1. i \in 0 .. Len(tl)
      BY <1>0, <1>1
    <3>. QED BY <1>2, <3>1, DueInt
  <2>2. j # k
    BY <1>5, <1>6, <1>13
  <2>3. CASE j < k
    <3>1. j \in 1 .. k - 1 /\ j \in 1 .. n
      BY <1>0, <2>0, <2>3
    <3>2. i = j
      BY <1>1, <1>8, <1>13, <3>1 DEF Distinct
    <3>3. DueOf(tl2)[j] = DueOf(tl)[j]
      BY <1>12, <3>1
    <3>. QED BY <2>1, <3>2, <3>3
  <2>4. CASE j > k
    <3>1. PICK l \in k .. n : j = l + 1
      <4>1. j - 1 \in k .. n /\ j = (j - 1) + 1
        BY <1>0, <2>0, <2>4
      <4>. QED BY <4>1
    <3>2. tl2[j].proc = tl[l].proc /\ l \in 1 .. n
      BY <1>3, <1>9, <3>1
    <3>3. i = l
      BY <1>1, <1>13, <3>2 DEF Distinct
    <3>4. DueOf(tl2)[j] = DueOf(tl)[l]
      BY <1>12, <3>1
    <3>. QED BY <2>1, <3>3, <3>4
  <2>. QED BY <1>0, <2>0, <2>2, <2>3, <2>4
<1>14. k \in 1 .. Len(tl2) /\ tl2[k].proc = p
  BY <1>0, <1>5, <1>6
<1>. QED BY <1>12, <1>13, <1>14 DEF Nearer

\* A timer is deleted.
LEMMA DeleteNearer ==
  ASSUME NEW tl \in Seq(Timer), Distinct(tl), NEW k \in 1 .. Len(tl),
         NEW list, PassedBack(tl, k, list),
         NEW tl2, tl2 = RemoveAt(list, k)
  PROVE  Nearer(tl, tl2, 0)
<1>1. PICK n \in Nat : Len(tl) = n + 1
  <2>1. Len(tl) \in Nat /\ Len(tl) >= 1
    OBVIOUS
  <2>2. Len(tl) - 1 \in Nat /\ Len(tl) = (Len(tl) - 1) + 1
    BY <2>1
  <2>. QED BY <2>2
<1>0. n \in Nat /\ k \in Nat /\ k >= 1 /\ k <= n + 1
  BY <1>1
<1>2. /\ IsTimers(tl) /\ \A i \in 1 .. n + 1 : tl[i].expires \in Nat
  BY <1>1, TimersAre DEF IsTimers
<1>3. /\ list \in Seq(Timer) /\ Len(list) = n + 1
      /\ \A i \in 1 .. n + 1 : /\ list[i].proc = tl[i].proc
                               /\ i # k + 1 => list[i].expires = tl[i].expires
                               /\ i = k + 1 => list[i].expires = tl[k + 1].expires + tl[k].expires
  <2>1. CASE k < n + 1
    <3>1. PICK e, l : e = tl[k + 1].expires + tl[k].expires /\ l = k + 1
      OBVIOUS
    <3>2. k \in 1 .. n + 1 /\ l \in 1 .. n + 1
      BY <1>0, <2>1, <3>1
    <3>3. e \in Nat
      BY <1>2, <3>1, <3>2
    <3>4. Replaced(tl, l, e, list) /\ l \in 1 .. Len(tl)
      BY <1>1, <2>1, <3>1, <3>2 DEF Replaced, PassedBack
    <3>5. /\ list \in Seq(Timer) /\ Len(list) = Len(tl)
          /\ \A i \in 1 .. Len(tl) : /\ list[i].proc = tl[i].proc
                                     /\ i = l => list[i].expires = e
                                     /\ i # l => list[i].expires = tl[i].expires
      BY <3>3, <3>4, ReplacedIs
    <3>6. /\ list \in Seq(Timer) /\ Len(list) = n + 1
          /\ \A i \in 1 .. n + 1 : /\ list[i].proc = tl[i].proc
                                   /\ i = l => list[i].expires = e
                                   /\ i # l => list[i].expires = tl[i].expires
      BY <1>1, <3>5
    <3>. QED BY <3>1, <3>6
  <2>2. CASE ~(k < n + 1)
    <3>1. list = tl /\ \A i \in 1 .. n + 1 : i # k + 1
      BY <1>0, <1>1, <2>2 DEF PassedBack
    <3>. QED BY <1>1, <3>1
  <2>. QED BY <2>1, <2>2
<1>4. /\ tl2 \in Seq(Timer) /\ Len(tl2) = n
      /\ \A j \in 1 .. n : tl2[j] = IF j < k THEN list[j] ELSE list[j + 1]
  <2>1. k \in 1 .. Len(list) /\ Len(list) - 1 = n
    BY <1>0, <1>3
  <2>2. PICK l \in Seq(Timer) : l = list
    BY <1>3
  <2>3. /\ RemoveAt(l, k) \in Seq(Timer)
        /\ Len(RemoveAt(l, k)) = Len(l) - 1
        /\ \A j \in 1 .. Len(l) - 1 : RemoveAt(l, k)[j] = IF j < k THEN l[j] ELSE l[j + 1]
    <3>1. k \in 1 .. Len(l)
      BY <2>1, <2>2
    <3>. QED BY <3>1, RemoveAtElements
  <2>. QED BY <2>1, <2>2, <2>3
<1>5. IsTimers(tl2)
  BY <1>4, TimersAre
<1>6. \A i \in 1 .. k - 1 : i \in 1 .. n /\ i \in 1 .. n + 1 /\ tl2[i].expires = tl[i].expires /\ tl2[i].proc = tl[i].proc
  <2>1. \A i \in 1 .. k - 1 : i \in 1 .. n /\ i \in 1 .. n + 1 /\ i < k /\ i # k + 1
    BY <1>0
  <2>. QED BY <1>3, <1>4, <2>1
<1>7. \A i \in k .. n : i \in 1 .. n /\ i + 1 \in 1 .. n + 1 /\ tl2[i] = list[i + 1]
  <2>1. \A i \in k .. n : i \in 1 .. n /\ i + 1 \in 1 .. n + 1 /\ ~(i < k)
    BY <1>0
  <2>. QED BY <1>4, <2>1
<1>8. k <= n => tl2[k].expires = tl[k + 1].expires + tl[k].expires
  <2>1. k <= n => k \in k .. n
    BY <1>0
  <2>. QED BY <1>3, <1>7, <2>1
<1>9. \A i \in k + 1 .. n : tl2[i].expires = tl[i + 1].expires
  <2>1. \A i \in k + 1 .. n : i \in k .. n /\ i + 1 # k + 1
    BY <1>0
  <2>. QED BY <1>3, <1>7, <2>1
<1>10. /\ \A i \in 1 .. k - 1 : DueOf(tl2)[i] = DueOf(tl)[i]
       /\ \A i \in k .. n : DueOf(tl2)[i] = DueOf(tl)[i + 1]
  <2>1. Deleted(tl, tl2, n, k)
    BY <1>0, <1>1, <1>2, <1>4, <1>5, <1>6, <1>8, <1>9 DEF Deleted
  <2>. QED BY <2>1, DueDelete
<1>11. ASSUME NEW i \in 1 .. Len(tl), NEW j \in 1 .. Len(tl2), tl[i].proc = tl2[j].proc
       PROVE  DueOf(tl2)[j] = DueOf(tl)[i] - 0
  <2>0. i \in 1 .. n + 1 /\ j \in 1 .. n
    BY <1>1, <1>4
  <2>1. DueOf(tl)[i] \in Int
    <3>1. i \in 0 .. Len(tl)
      BY <1>0, <1>1
    <3>. QED BY <1>2, <3>1, DueInt
  <2>2. CASE j < k
    <3>1. j \in 1 .. k - 1
      BY <1>0, <2>0, <2>2
    <3>2. i = j
      BY <1>1, <1>6, <1>11, <3>1 DEF Distinct
    <3>3. DueOf(tl2)[j] = DueOf(tl)[j]
      BY <1>10, <3>1
    <3>. QED BY <2>1, <3>2, <3>3
  <2>3. CASE ~(j < k)
    <3>1. j \in k .. n
      BY <1>0, <2>0, <2>3
    <3>2. tl2[j].proc = tl[j + 1].proc /\ j + 1 \in 1 .. n + 1
      BY <1>3, <1>7, <3>1
    <3>3. i = j + 1
      BY <1>1, <1>11, <3>2 DEF Distinct
    <3>4. DueOf(tl2)[j] = DueOf(tl)[j + 1]
      BY <1>10, <3>1
    <3>. QED BY <2>1, <3>3, <3>4
  <2>. QED BY <2>2, <2>3
<1>. QED BY <1>11 DEF Nearer

\* The ticks a process has still to sleep, in any state.
Left(tl, w, c, p) ==
  IF c[p] = "add_timer" THEN DueOf(tl)[w.pos - 1] + w.expires
  ELSE DueOf(tl)[CHOOSE i \in DOMAIN tl : tl[i].proc = p]

\* It is the model's Remaining, in both states of a step.
LEMMA RemainingIs ==
  ASSUME NEW p \in Proc
  PROVE  /\ Remaining(p) = Left(timer_list, walk, pc, p)
         /\ Remaining(p)' = Left(timer_list', walk', pc', p)
<1>1. Due = DueOf(timer_list) /\ Due' = DueOf(timer_list')
  BY DueIsOf
<1>2. Remaining(p) = Left(timer_list, walk, pc, p)
  BY <1>1 DEF Remaining, Left
<1>3. Remaining(p)' = Left(timer_list', walk', pc', p)
  BY <1>1 DEF Remaining, Left
<1>. QED BY <1>2, <1>3

\* What the invariant says of the timers.
Timers(tl, c) ==
  /\ tl \in Seq(Timer) /\ Distinct(tl)
  /\ \A i \in 1 .. Len(tl) : c[tl[i].proc] = "sleep"

\* In both states of a step.
LEMMA InvTimers ==
  ASSUME IInv, IInv'
  PROVE  Timers(timer_list, pc) /\ Timers(timer_list', pc')
<1>1. /\ timer_list \in Seq(Timer) /\ DOMAIN timer_list = 1 .. Len(timer_list)
      /\ timer_list' \in Seq(Timer) /\ DOMAIN timer_list' = 1 .. Len(timer_list')
  BY DEF IInv, TypeOK, SchedTypeOK
<1>. QED BY <1>1 DEF IInv, TimerOwners, Timers, Distinct

\* The owner of a timer sleeps until it is due.
LEMMA LeftIs ==
  ASSUME NEW tl, NEW c, Timers(tl, c), NEW w, NEW i \in 1 .. Len(tl)
  PROVE  Left(tl, w, c, tl[i].proc) = DueOf(tl)[i] /\ DueOf(tl)[i] \in Int
<1>. DEFINE p == tl[i].proc
<1>1. DOMAIN tl = 1 .. Len(tl) /\ c[p] = "sleep" /\ IsTimers(tl) /\ Distinct(tl)
  BY TimersAre DEF Timers
<1>2. (CHOOSE j \in DOMAIN tl : tl[j].proc = p) = i
  BY <1>1 DEF Distinct
<1>3. DueOf(tl)[i] \in Int
  <2>1. i \in 0 .. Len(tl)
    BY <1>1 DEF IsTimers
  <2>. QED BY <1>1, <2>1, DueInt
<1>. QED BY <1>1, <1>2, <1>3 DEF Left

\* Everybody who has a timer before and after a step is n ticks nearer.
Later(n) == \A p \in Proc : Timed(p) /\ Timed(p)' => Remaining(p)' = Remaining(p) - n

Has(tl, p) == \E i \in 1 .. Len(tl) : tl[i].proc = p

\* Who is timed, in both states of a step.
LEMMA TimedIs ==
  ASSUME IInv, IInv', NEW p \in Proc
  PROVE  /\ Timed(p) <=> pc[p] = "add_timer" \/ Has(timer_list, p)
         /\ Timed(p)' <=> pc'[p] = "add_timer" \/ Has(timer_list', p)
<1>1. DOMAIN timer_list = 1 .. Len(timer_list) /\ DOMAIN timer_list' = 1 .. Len(timer_list')
  BY DEF IInv, TypeOK, SchedTypeOK
<1>2. Timed(p) <=> pc[p] = "add_timer" \/ Has(timer_list, p)
  BY <1>1 DEF Timed, HasTimer, Has
<1>3. Timed(p)' <=> pc'[p] = "add_timer" \/ Has(timer_list', p)
  BY <1>1 DEF Timed, HasTimer, Has
<1>. QED BY <1>2, <1>3

\* For those with a timer before and after: the lists say so.
LEMMA LaterTimers ==
  ASSUME NEW tl, NEW c, Timers(tl, c), NEW tl2, NEW c2, Timers(tl2, c2), NEW n, Nearer(tl, tl2, n),
         NEW w, NEW w2, NEW p, Has(tl, p), Has(tl2, p)
  PROVE  Left(tl2, w2, c2, p) = Left(tl, w, c, p) - n
<1>1. PICK i \in 1 .. Len(tl) : tl[i].proc = p
  BY DEF Has
<1>2. PICK j \in 1 .. Len(tl2) : tl2[j].proc = p
  BY DEF Has
<1>3. Left(tl, w, c, p) = DueOf(tl)[i] /\ Left(tl2, w2, c2, p) = DueOf(tl2)[j]
  <2>1. Left(tl, w, c, tl[i].proc) = DueOf(tl)[i]
    BY LeftIs
  <2>2. Left(tl2, w2, c2, tl2[j].proc) = DueOf(tl2)[j]
    BY LeftIs
  <2>. QED BY <1>1, <1>2, <2>1, <2>2
<1>4. DueOf(tl2)[j] = DueOf(tl)[i] - n
  BY <1>1, <1>2 DEF Nearer
<1>. QED BY <1>3, <1>4

\* Nothing happens to the same list.
LEMMA SameNearer == ASSUME NEW tl, NEW c, Timers(tl, c) PROVE Nearer(tl, tl, 0)
<1>1. ASSUME NEW i \in 1 .. Len(tl), NEW j \in 1 .. Len(tl), tl[i].proc = tl[j].proc
      PROVE  DueOf(tl)[j] = DueOf(tl)[i] - 0
  <2>1. i = j
    BY <1>1 DEF Timers, Distinct
  <2>2. DueOf(tl)[i] \in Int
    BY LeftIs
  <2>. QED BY <2>1, <2>2
<1>. QED BY <1>1 DEF Nearer

\* What is to be shown of a step that makes timers n ticks nearer, for those
\* that are in add_timer before or after.
LEMMA LaterStep ==
  ASSUME IInv, IInv', NEW n, Nearer(timer_list, timer_list', n),
         \A p \in Proc : /\ pc[p] = "add_timer" /\ Timed(p)' => Remaining(p)' = Remaining(p) - n
                         /\ Has(timer_list, p) => pc'[p] # "add_timer"
  PROVE  Later(n)
<1>1. Timers(timer_list, pc) /\ Timers(timer_list', pc')
  BY InvTimers
<1>2. ASSUME NEW p \in Proc, Timed(p), Timed(p)', pc[p] # "add_timer"
      PROVE  Remaining(p)' = Remaining(p) - n
  <2>1. Has(timer_list, p) /\ Has(timer_list', p)
    BY <1>2, TimedIs
  <2>. QED BY <1>1, <2>1, LaterTimers, RemainingIs
<1>. QED BY <1>2 DEF Later

\* Steps that leave the list and the cursor of add_timer alone.
LEMMA LaterSame ==
  ASSUME IInv, IInv', UNCHANGED <<timer_list, walk>>
  PROVE  Later(0)
<1>1. Timers(timer_list, pc) /\ Timers(timer_list', pc') /\ timer_list' = timer_list
  BY InvTimers
<1>2. ASSUME NEW p \in Proc, Timed(p), Timed(p)' PROVE Remaining(p)' = Remaining(p) - 0
  <2>1. CASE Has(timer_list, p)
    <3>1. Nearer(timer_list, timer_list, 0)
      BY <1>1, SameNearer
    <3>. QED BY <1>1, <2>1, <3>1, LaterTimers, RemainingIs
  <2>2. CASE ~Has(timer_list, p)
    <3>1. pc[p] = "add_timer" /\ pc'[p] = "add_timer"
      BY <1>1, <1>2, <2>2, TimedIs
    <3>2. Remaining(p)' = Remaining(p)
      BY <1>1, <3>1, RemainingIs DEF Left
    <3>3. Remaining(p) \in Int
      <4>1. /\ walk.pos \in Nat \ {0} /\ walk.pos <= Len(timer_list) + 1 /\ walk.expires \in Nat
            /\ IsTimers(timer_list)
        BY <1>1, <3>1, TimersAre DEF IInv, TypeOK, SchedTypeOK, AddTimerAlone, Timers
      <4>2. walk.pos - 1 \in 0 .. Len(timer_list)
        BY <4>1 DEF IsTimers
      <4>3. DueOf(timer_list)[walk.pos - 1] \in Int
        BY <4>1, <4>2, DueInt
      <4>4. Remaining(p) = DueOf(timer_list)[walk.pos - 1] + walk.expires
        BY <3>1, RemainingIs DEF Left
      <4>. QED BY <4>1, <4>3, <4>4
    <3>. QED BY <3>2, <3>3
  <2>. QED BY <2>1, <2>2
<1>. QED BY <1>2 DEF Later

\* do_sleep begins: the process had no timer, and nobody else is in add_timer.
LEMMA LaterSleep ==
  ASSUME IInv, IInv', NEW p \in Proc, NEW time, Sleep(p, time)
  PROVE  Later(0)
<1>1. /\ current = p /\ pc[p] \notin {"add_timer", "sleep"} /\ timer_list' = timer_list
      /\ pc' = [pc EXCEPT ![p] = "add_timer"]
  BY DEF Sleep, At, Caller, Goto, Running
<1>2. Timers(timer_list, pc) /\ Nearer(timer_list, timer_list', 0)
  BY <1>1, InvTimers, SameNearer
<1>3. ASSUME NEW q \in Proc
      PROVE  pc[q] # "add_timer" /\ (Has(timer_list, q) => pc'[q] # "add_timer")
  <2>1. pc[q] # "add_timer"
    BY <1>1 DEF IInv, AddTimerAlone
  <2>2. ASSUME Has(timer_list, q) PROVE pc'[q] # "add_timer"
    <3>1. pc[q] = "sleep"
      BY <1>2, <2>2 DEF Timers, Has
    <3>. QED BY <1>1, <3>1
  <2>. QED BY <2>1, <2>2
<1>. QED BY <1>2, <1>3, LaterStep

\* One turn of add_timer's loop: the new timer is due as late as before.
LEMMA LaterWalk ==
  ASSUME IInv, IInv', NEW p \in Proc, AddTimerWalk(p)
  PROVE  Later(0)
<1>1. /\ timer_list' = timer_list /\ pc' = pc
      /\ walk.pos <= Len(timer_list) /\ walk.expires >= timer_list[walk.pos].expires
      /\ walk' = [pos |-> walk.pos + 1, expires |-> walk.expires - timer_list[walk.pos].expires]
  BY DEF AddTimerWalk, PassTimer, procVars
<1>2. Timers(timer_list, pc) /\ Nearer(timer_list, timer_list', 0) /\ IsTimers(timer_list)
  BY <1>1, InvTimers, SameNearer, TimersAre DEF Timers
<1>3. walk.pos \in Nat \ {0} /\ walk.expires \in Nat
  BY DEF IInv, TypeOK, SchedTypeOK
<1>4. PICK d, k, x, y : /\ d = DueOf(timer_list) /\ k = walk.pos
                        /\ x = walk.expires /\ y = timer_list[walk.pos].expires
  OBVIOUS
<1>5. k \in 1 .. Len(timer_list) /\ k \in Nat
  BY <1>1, <1>2, <1>3, <1>4 DEF IsTimers
<1>6. d[k] = d[k - 1] + y /\ y \in Nat /\ x \in Nat /\ d[k - 1] \in Int
  <2>1. d[k] = d[k - 1] + timer_list[k].expires /\ timer_list[k].expires \in Nat
    BY <1>2, <1>4, <1>5, DueFacts
  <2>2. k - 1 \in 0 .. Len(timer_list)
    BY <1>2, <1>5 DEF IsTimers
  <2>3. d[k - 1] \in Int
    BY <1>2, <1>4, <2>2, DueInt
  <2>. QED BY <1>3, <1>4, <2>1, <2>3
<1>7. walk'.pos = k + 1 /\ walk'.expires = x - y /\ (k + 1) - 1 = k
  BY <1>1, <1>4, <1>5
<1>8. ASSUME NEW q \in Proc, pc[q] = "add_timer" PROVE Remaining(q)' = Remaining(q) - 0
  <2>1. Remaining(q) = d[k - 1] + x
    BY <1>4, <1>8, RemainingIs DEF Left
  <2>2. Remaining(q)' = DueOf(timer_list')[walk'.pos - 1] + walk'.expires
    BY <1>1, <1>8, RemainingIs DEF Left
  <2>3. Remaining(q)' = d[k] + (x - y)
    BY <1>1, <1>4, <1>7, <2>2
  <2>. QED BY <1>6, <2>1, <2>3
<1>9. \A q \in Proc : Has(timer_list, q) => pc'[q] # "add_timer"
  BY <1>1, <1>2 DEF Timers, Has
<1>. QED BY <1>2, <1>8, <1>9, LaterStep

\* The timer is put in its place.
LEMMA LaterPlace ==
  ASSUME IInv, IInv', NEW p \in Proc, AddTimerPlace(p)
  PROVE  Later(0)
<1>1. /\ pc[p] = "add_timer" /\ current = p /\ pc' = [pc EXCEPT ![p] = "sleep"]
      /\ PlaceTimer(p)
  BY DEF AddTimerPlace, At, Running, Goto
<1>2. Timers(timer_list, pc) /\ IsTimers(timer_list) /\ Timers(timer_list', pc')
  BY InvTimers, TimersAre DEF Timers
<1>3. walk.pos \in Nat \ {0} /\ walk.expires \in Nat /\ walk.pos <= Len(timer_list) + 1
  BY <1>1 DEF IInv, TypeOK, SchedTypeOK, AddTimerAlone
<1>4. PICK tl, tl2, k, x : tl = timer_list /\ tl2 = timer_list' /\ k = walk.pos /\ x = walk.expires
  OBVIOUS
<1>5. PICK list : /\ Relative(tl, k, x, list) /\ tl2 = InsertAt(list, k, [proc |-> p, expires |-> x])
                  /\ k <= Len(tl) => x < tl[k].expires
  BY <1>1, <1>4 DEF PlaceTimer, Relative
<1>6. k \in 1 .. Len(tl) + 1 /\ x \in Nat
  BY <1>2, <1>3, <1>4 DEF IsTimers
<1>7. \A i \in 1 .. Len(tl) : tl[i].proc # p
  BY <1>1, <1>2, <1>4 DEF Timers
<1>8. /\ Nearer(tl, tl2, 0) /\ k \in 1 .. Len(tl2) /\ tl2[k].proc = p
      /\ DueOf(tl2)[k] = DueOf(tl)[k - 1] + x
  BY <1>2, <1>4, <1>5, <1>6, <1>7, PlaceNearer DEF Timers
<1>9. ASSUME NEW q \in Proc, pc[q] = "add_timer" PROVE Remaining(q)' = Remaining(q) - 0
  <2>1. q = p
    BY <1>1, <1>9 DEF IInv, AddTimerAlone
  <2>2. Remaining(q) = DueOf(tl)[k - 1] + x
    BY <1>4, <1>9, RemainingIs DEF Left
  <2>3. Left(tl2, walk', pc', p) = DueOf(tl2)[k] /\ DueOf(tl2)[k] \in Int
    <3>1. Timers(tl2, pc')
      BY <1>2, <1>4
    <3>2. Left(tl2, walk', pc', tl2[k].proc) = DueOf(tl2)[k] /\ DueOf(tl2)[k] \in Int
      BY <1>8, <3>1, LeftIs
    <3>. QED BY <1>8, <3>2
  <2>. QED BY <1>4, <1>8, <2>1, <2>2, <2>3, RemainingIs
<1>10. ASSUME NEW q \in Proc, Has(timer_list, q) PROVE pc'[q] # "add_timer"
  <2>1. pc[q] = "sleep"
    BY <1>2, <1>10 DEF Timers, Has
  <2>. QED BY <1>1, <2>1
<1>. QED BY <1>4, <1>8, <1>9, <1>10, LaterStep

\* A sleep ends: the timer of the process leaves the list, if it is still there.
LEMMA LaterDone ==
  ASSUME IInv, IInv', NEW p \in Proc, SleepDone(p)
  PROVE  Later(0)
<1>1. /\ pc[p] = "sleep" /\ current = p /\ pc' = [pc EXCEPT ![p] = Return(p)]
      /\ Return(p) \in {"kernel", "tail"} /\ del_timer(p)
  BY DEF SleepDone, At, Running, Goto, Return
<1>2. Timers(timer_list, pc) /\ IsTimers(timer_list) /\ DOMAIN timer_list = 1 .. Len(timer_list)
  BY InvTimers, TimersAre DEF Timers
<1>3. Nearer(timer_list, timer_list', 0)
  <2>1. CASE timer_list' = timer_list
    BY <1>2, <2>1, SameNearer
  <2>2. CASE timer_list' # timer_list
    <3>1. PICK k \in 1 .. Len(timer_list) : timer_list' = RemoveAt(PassedOn(k), k)
      BY <1>1, <1>2, <2>2 DEF del_timer
    <3>2. PICK tl, tl2, list : tl = timer_list /\ tl2 = timer_list' /\ list = PassedOn(k)
      OBVIOUS
    <3>3. PassedBack(tl, k, list)
      BY <3>2 DEF PassedBack, PassedOn
    <3>4. tl2 = RemoveAt(list, k)
      BY <3>1, <3>2
    <3>5. tl \in Seq(Timer) /\ Distinct(tl) /\ k \in 1 .. Len(tl)
      BY <1>2, <3>2 DEF Timers
    <3>. QED BY <3>2, <3>3, <3>4, <3>5, DeleteNearer
  <2>. QED BY <2>1, <2>2
<1>4. \A q \in Proc : pc[q] # "add_timer"
  BY <1>1 DEF IInv, AddTimerAlone
<1>5. \A q \in Proc : pc'[q] # "add_timer"
  BY <1>1, <1>4
<1>. QED BY <1>3, <1>4, <1>5, LaterStep

\* One turn of run_timer_list's loop: a timer that is due leaves.
LEMMA LaterExpire ==
  ASSUME IInv, IInv', Expire
  PROVE  Later(0)
<1>1. /\ timer_list # <<>> /\ Head(timer_list).expires = 0 /\ timer_list' = Tail(timer_list)
      /\ pc' = pc /\ trap = "timers"
  BY DEF Expire, ExpireTimer, HeadDue, procVars
<1>2. Timers(timer_list, pc) /\ Head(timer_list) = timer_list[1]
  BY <1>1, InvTimers DEF Timers
<1>3. Nearer(timer_list, timer_list', 0)
  BY <1>1, <1>2, TailNearer DEF Timers
<1>4. \A q \in Proc : pc[q] # "add_timer"
  BY <1>1 DEF IInv, AddTimerAlone
<1>. QED BY <1>1, <1>3, <1>4, LaterStep

\* A timer interrupt: the only step that brings timers nearer.
LEMMA LaterTick ==
  ASSUME IInv, IInv', Tick
  PROVE  Later(1)
<1>1. trap = "none" /\ IntrEnabled /\ TimerInterrupt /\ pc' = pc
  BY DEF Tick, TimerInterrupt, procVars
<1>2. Timers(timer_list, pc) /\ (timer_list # <<>> => Head(timer_list) = timer_list[1])
  BY InvTimers DEF Timers
<1>3. timer_list # <<>> => timer_list[1].expires > 0
  BY <1>1 DEF IInv, HeadLater
<1>4. Nearer(timer_list, timer_list', 1)
  <2>1. CASE timer_list = <<>>
    <3>1. timer_list' = timer_list /\ 1 .. Len(timer_list) = {}
      BY <1>1, <2>1 DEF TimerInterrupt
    <3>. QED BY <3>1 DEF Nearer
  <2>2. CASE timer_list # <<>>
    <3>1. PICK tl, e, tl2 : tl = timer_list /\ e = timer_list[1].expires - 1 /\ tl2 = timer_list'
      OBVIOUS
    <3>2. IsTimers(tl) /\ tl[1].expires \in Nat
      <4>1. IsTimers(tl) /\ 1 \in 1 .. Len(tl)
        BY <1>2, <2>2, <3>1, TimersAre DEF Timers
      <4>. QED BY <4>1 DEF IsTimers
    <3>3. Replaced(tl, 1, e, tl2)
      <4>1. Head(timer_list).expires # 0
        BY <1>2, <1>3, <2>2, <3>1, <3>2
      <4>2. timer_list' = [timer_list EXCEPT ![1].expires = @ - 1]
        BY <1>1, <2>2, <4>1 DEF TimerInterrupt
      <4>. QED BY <3>1, <4>2 DEF Replaced
    <3>. QED BY <1>2, <1>3, <2>2, <3>1, <3>3, TickNearer DEF Timers
  <2>. QED BY <2>1, <2>2
<1>5. \A q \in Proc : pc[q] # "add_timer"
  BY <1>1, SchedAssumption, KernelAssumption DEF IInv, AddTimerAlone, IntrEnabled, User
<1>. QED BY <1>1, <1>4, <1>5, LaterStep

\* Whether a tick went by.
Ticks == IF trap = "none" /\ trap' = "timers" THEN 1 ELSE 0

\* The steps that have nothing to do with timers.
LEMMA TimerlessSteps ==
  ASSUME \/ UNCHANGED vars \/ IdleLoop \/ Schedule \/ TickEnd \/ InitWait
         \/ \E p \in Proc :
              \/ TrapTail(p) \/ Yield(p) \/ ForkFails(p) \/ WaitAgain(p)
              \/ \E c \in Proc : Fork(p, c) \/ Reparent(p, c)
              \/ \E t \in Proc \cup {NULL} : Wait(p, t)
              \/ Exit(p) \/ DoExit(p) \/ ExitWake(p) \/ Die(p)
              \/ \E q \in Killable : Kill(p, q)
              \/ \E s \in Sem : DownFree(p, s) \/ DownBlock(p, s) \/ UpFree(p, s) \/ UpHand(p, s)
              \/ DownDone(p) \/ Leave(p)
  PROVE  UNCHANGED <<timer_list, walk>> /\ (trap' = trap \/ trap' = "none")
<1>. USE DEF vars, schedVars
<1>1. CASE UNCHANGED vars \/ IdleLoop \/ Schedule \/ TickEnd
  BY <1>1 DEF IdleLoop, Schedule, schedule, TickEnd, ProcTick
<1>2. CASE InitWait
  BY <1>2 DEF InitWait, do_wait, Reap, WaitSleep, NoChild
<1>3. ASSUME NEW p \in Proc,
             TrapTail(p) \/ Yield(p) \/ ForkFails(p) \/ Exit(p) \/ DoExit(p) \/ ExitWake(p) \/ Die(p)
      PROVE  UNCHANGED <<timer_list, walk>> /\ (trap' = trap \/ trap' = "none")
  BY <1>3 DEF TrapTail, Yield, ForkFails, Exit, DoExit, ExitWake, Die
<1>4. ASSUME NEW p \in Proc, NEW c \in Proc, Fork(p, c) \/ Reparent(p, c)
      PROVE  UNCHANGED <<timer_list, walk>> /\ (trap' = trap \/ trap' = "none")
  BY <1>4 DEF Fork, Reparent
<1>5. ASSUME NEW p \in Proc, WaitAgain(p) \/ \E t \in Proc \cup {NULL} : Wait(p, t)
      PROVE  UNCHANGED <<timer_list, walk>> /\ (trap' = trap \/ trap' = "none")
  BY <1>5 DEF WaitAgain, Wait, do_wait, Reap, WaitSleep, NoChild
<1>6. ASSUME NEW p \in Proc, \E q \in Killable : Kill(p, q)
      PROVE  UNCHANGED <<timer_list, walk>> /\ (trap' = trap \/ trap' = "none")
  BY <1>6 DEF Kill
<1>7. ASSUME NEW p \in Proc, NEW s \in Sem,
             DownFree(p, s) \/ DownBlock(p, s) \/ UpFree(p, s) \/ UpHand(p, s)
      PROVE  UNCHANGED <<timer_list, walk>> /\ (trap' = trap \/ trap' = "none")
  BY <1>7 DEF DownFree, DownBlock, UpFree, UpHand
<1>8. ASSUME NEW p \in Proc, DownDone(p) \/ Leave(p)
      PROVE  UNCHANGED <<timer_list, walk>> /\ (trap' = trap \/ trap' = "none")
  BY <1>8 DEF DownDone, Leave
<1>. QED BY <1>1, <1>2, <1>3, <1>4, <1>5, <1>6, <1>7, <1>8

\* Every step keeps the times.
LEMMA StepKeepsTime == IInv /\ IInv' /\ [Next]_vars => Later(Ticks)
<1>. SUFFICES ASSUME IInv, IInv', [Next]_vars PROVE Later(Ticks)
  OBVIOUS
<1>1. CASE Tick
  <2>1. trap = "none" /\ trap' = "timers"
    BY <1>1 DEF Tick, TimerInterrupt
  <2>2. Ticks = 1
    BY <2>1 DEF Ticks
  <2>. QED BY <1>1, <2>2, LaterTick
<1>2. CASE Expire
  <2>1. trap = "timers" /\ trap' = "timers"
    BY <1>2 DEF Expire, ExpireTimer
  <2>2. Ticks = 0
    BY <2>1 DEF Ticks
  <2>. QED BY <1>2, <2>2, LaterExpire
<1>3. ASSUME NEW p \in Proc,
             \/ \E time \in 1 .. MaxSleep : Sleep(p, time)
             \/ AddTimerWalk(p) \/ AddTimerPlace(p) \/ SleepDone(p)
      PROVE  Later(Ticks)
  <2>1. trap' = trap
    BY <1>3 DEF Sleep, AddTimerWalk, AddTimerPlace, SleepDone
  <2>2. Ticks = 0
    BY <2>1 DEF Ticks
  <2>. QED BY <1>3, <2>2, LaterSleep, LaterWalk, LaterPlace, LaterDone
<1>4. CASE UNCHANGED <<timer_list, walk>> /\ (trap' = trap \/ trap' = "none")
  <2>1. Ticks = 0
    BY <1>4 DEF Ticks
  <2>. QED BY <1>4, <2>1, LaterSame
<1>. QED BY <1>1, <1>2, <1>3, <1>4, TimerlessSteps DEF Next, Process, Interrupt, Halted

\* Whatever is added to the timer list or deleted from it, in any order of sleeps,
\* kills and interrupts, a sleeper keeps the time it is due at: a tick brings
\* everybody one tick nearer, and nothing else does. (add_timer, del_timer,
\* run_timer_list)
THEOREM TimesAreKept == Spec => TimersKeepTime
<1>1. IInv /\ IInv' /\ [Next]_vars =>
        [\A p \in Proc : Timed(p) /\ Timed(p)' =>
           Remaining(p)' = Remaining(p) - (IF trap = "none" /\ trap' = "timers" THEN 1 ELSE 0)]_vars
  BY StepKeepsTime DEF Later, Ticks
<1>. QED BY <1>1, Invariance, PTL DEF Spec, TimersKeepTime
=============================================================================
