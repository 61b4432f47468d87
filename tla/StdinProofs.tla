----------------------------- MODULE StdinProofs -----------------------------
(***************************************************************************)
(* Proofs about Stdin, for any number of readers, any ring and any number  *)
(* of characters: no reader sleeps past a character, and every character   *)
(* is read once or known to be overwritten.                                *)
(***************************************************************************)
EXTENDS Stdin, TLAPS, FiniteSetTheorems, FunctionTheorems

-----------------------------------------------------------------------------
(* What the sequence operators of the model return.                        *)

\* An element of the set of a sequence has a place in it.
LEMMA InToSet ==
  ASSUME NEW S, NEW q \in Seq(S), NEW e
  PROVE  e \in ToSet(q) <=> \E i \in 1 .. Len(q) : q[i] = e
BY DEF ToSet

\* A queue without duplicates stays so when a newcomer joins at the tail.
LEMMA AppendNew ==
  ASSUME NEW S, NEW q \in Seq(S), NEW e \in S, IsInjective(q), e \notin ToSet(q)
  PROVE  /\ Append(q, e) \in Seq(S)
         /\ IsInjective(Append(q, e))
         /\ ToSet(Append(q, e)) = ToSet(q) \cup {e}
         /\ Append(q, e) # <<>>
<1>1. /\ Append(q, e) \in Seq(S) /\ Len(q) \in Nat /\ Len(Append(q, e)) = Len(q) + 1
      /\ Append(q, e)[Len(q) + 1] = e
      /\ \A i \in 1 .. Len(q) : Append(q, e)[i] = q[i]
  OBVIOUS
<1>2. \A i \in 1 .. Len(q) : q[i] # e
  BY InToSet
<1>3. IsInjective(Append(q, e))
  BY <1>1, <1>2 DEF IsInjective
<1>4. ToSet(Append(q, e)) = ToSet(q) \cup {e}
  BY <1>1 DEF ToSet
<1>5. Append(q, e) # <<>>
  BY <1>1
<1>. QED BY <1>1, <1>3, <1>4, <1>5

\* The head of a queue without duplicates leaves it for good.
LEMMA TailInjective ==
  ASSUME NEW S, NEW q \in Seq(S), q # <<>>, IsInjective(q)
  PROVE  /\ Head(q) \in S /\ Head(q) \in ToSet(q)
         /\ Tail(q) \in Seq(S)
         /\ IsInjective(Tail(q))
         /\ ToSet(Tail(q)) = ToSet(q) \ {Head(q)}
<1>1. Head(q) \in S /\ Head(q) = q[1] /\ Len(q) \in Nat \ {0} /\ Tail(q) \in Seq(S)
  OBVIOUS
<1>2. Len(Tail(q)) = Len(q) - 1 /\ \A i \in 1 .. Len(q) - 1 : Tail(q)[i] = q[i + 1]
  OBVIOUS
<1>3. IsInjective(Tail(q))
  BY <1>1, <1>2 DEF IsInjective
<1>4. ToSet(Tail(q)) \subseteq ToSet(q) \ {Head(q)}
  BY <1>1, <1>2 DEF IsInjective, ToSet
<1>5. ASSUME NEW x \in ToSet(q) \ {Head(q)} PROVE x \in ToSet(Tail(q))
  <2>1. PICK i \in 1 .. Len(q) : q[i] = x
    BY DEF ToSet
  <2>2. i # 1
    BY <2>1, <1>1
  <2>3. i - 1 \in 1 .. Len(Tail(q)) /\ Tail(q)[i - 1] = x
    BY <1>1, <1>2, <2>1, <2>2
  <2>. QED BY <1>1, <2>3, InToSet
<1>. QED BY <1>1, <1>3, <1>4, <1>5 DEF ToSet

\* The elements of a concatenation.
LEMMA ConcatElements ==
  ASSUME NEW S, NEW a \in Seq(S), NEW b \in Seq(S)
  PROVE  /\ a \o b \in Seq(S)
         /\ Len(a \o b) = Len(a) + Len(b)
         /\ \A j \in 1 .. Len(a) + Len(b) :
              (a \o b)[j] = IF j <= Len(a) THEN a[j] ELSE b[j - Len(a)]
OBVIOUS

\* RemoveAt closes the gap at i and leaves the order of the others.
LEMMA RemoveAtElements ==
  ASSUME NEW S, NEW q \in Seq(S), NEW i \in 1 .. Len(q)
  PROVE  /\ RemoveAt(q, i) \in Seq(S)
         /\ Len(RemoveAt(q, i)) = Len(q) - 1
         /\ \A j \in 1 .. Len(q) - 1 :
              RemoveAt(q, i)[j] = IF j < i THEN q[j] ELSE q[j + 1]
<1>. DEFINE a == SubSeq(q, 1, i - 1)
            b == SubSeq(q, i + 1, Len(q))
<1>1. a \in Seq(S) /\ Len(a) = i - 1 /\ \A j \in 1 .. i - 1 : a[j] = q[j]
  OBVIOUS
<1>2. /\ b \in Seq(S) /\ Len(b) = Len(q) - i
      /\ \A j \in 1 .. Len(q) - i : b[j] = q[j + i]
  OBVIOUS
<1>. HIDE DEF a, b
<1>3. /\ a \o b \in Seq(S) /\ Len(a \o b) = Len(a) + Len(b)
      /\ \A j \in 1 .. Len(a) + Len(b) :
           (a \o b)[j] = IF j <= Len(a) THEN a[j] ELSE b[j - Len(a)]
  BY <1>1, <1>2, ConcatElements
<1>4. ASSUME NEW j \in 1 .. Len(q) - 1
      PROVE  (a \o b)[j] = IF j < i THEN q[j] ELSE q[j + 1]
  <2>1. CASE j < i
    BY <1>1, <1>2, <1>3, <2>1
  <2>2. CASE ~ (j < i)
    <3>1. j - Len(a) \in 1 .. Len(q) - i /\ (j - Len(a)) + i = j + 1
      BY <1>1, <2>2
    <3>2. (a \o b)[j] = b[j - Len(a)]
      BY <1>1, <1>2, <1>3, <2>2
    <3>3. b[j - Len(a)] = q[j + 1]
      BY <1>2, <3>1
    <3>. QED BY <2>2, <3>2, <3>3
  <2>. QED BY <2>1, <2>2
<1>5. RemoveAt(q, i) = a \o b
  BY DEF RemoveAt, a, b
<1>6. Len(a \o b) = Len(q) - 1
  BY <1>1, <1>2, <1>3
<1>. QED BY <1>3, <1>4, <1>5, <1>6

\* What leaves a queue without duplicates is gone, and only that.
LEMMA RemoveAtExact ==
  ASSUME NEW S, NEW q \in Seq(S), NEW i \in 1 .. Len(q), IsInjective(q)
  PROVE  /\ RemoveAt(q, i) \in Seq(S)
         /\ IsInjective(RemoveAt(q, i))
         /\ ToSet(RemoveAt(q, i)) = ToSet(q) \ {q[i]}
<1>. DEFINE r == RemoveAt(q, i)
<1>1. i \in 1 .. Len(q) /\ Len(q) \in Nat
  OBVIOUS
<1>2. /\ r \in Seq(S) /\ Len(r) = Len(q) - 1
      /\ \A j \in 1 .. Len(q) - 1 : r[j] = IF j < i THEN q[j] ELSE q[j + 1]
  BY RemoveAtElements
<1>. HIDE DEF r
<1>3. IsInjective(r)
  <2>. SUFFICES ASSUME NEW j \in 1 .. Len(q) - 1, NEW k \in 1 .. Len(q) - 1, r[j] = r[k]
                PROVE  j = k
    BY <1>1, <1>2 DEF IsInjective
  <2>. DEFINE from(m) == IF m < i THEN m ELSE m + 1
  <2>1. ASSUME NEW m \in 1 .. Len(q) - 1
        PROVE  from(m) \in 1 .. Len(q) /\ r[m] = q[from(m)]
    <3>1. m \in 1 .. Len(q) /\ m + 1 \in 1 .. Len(q)
      BY <1>1
    <3>2. r[m] = IF m < i THEN q[m] ELSE q[m + 1]
      BY <1>2
    <3>. QED BY <3>1, <3>2
  <2>2. from(j) = from(k) => j = k
    BY <1>1
  <2>. HIDE DEF from
  <2>3. \A m, n \in 1 .. Len(q) : q[m] = q[n] => m = n
    BY DEF IsInjective
  <2>. QED BY <2>1, <2>2, <2>3
<1>4. ToSet(r) \subseteq ToSet(q) \ {q[i]}
  <2>. SUFFICES ASSUME NEW j \in 1 .. Len(r) PROVE r[j] \in ToSet(q) /\ r[j] # q[i]
    BY <1>2 DEF ToSet
  <2>1. PICK k \in 1 .. Len(q) : r[j] = q[k] /\ k # i
    BY <1>1, <1>2
  <2>. QED BY <1>1, <2>1 DEF IsInjective, ToSet
<1>5. ASSUME NEW x \in ToSet(q) \ {q[i]} PROVE x \in ToSet(r)
  <2>1. PICK k \in 1 .. Len(q) : q[k] = x
    BY DEF ToSet
  <2>2. k # i
    BY <1>1, <2>1
  <2>3. PICK j \in 1 .. Len(r) : r[j] = x
    <3>1. CASE k < i
      BY <1>1, <1>2, <2>1, <3>1
    <3>2. CASE k > i
      <4>1. k - 1 \in 1 .. Len(r) /\ ~(k - 1 < i) /\ (k - 1) + 1 = k
        BY <1>1, <1>2, <3>2
      <4>2. r[k - 1] = x
        BY <1>2, <2>1, <4>1
      <4>. QED BY <4>1, <4>2
    <3>. QED BY <1>1, <2>2, <3>1, <3>2
  <2>. QED BY <1>2, <2>3, InToSet
<1>. QED BY <1>2, <1>3, <1>4, <1>5 DEF r

\* Nothing is removed of what is not there.
LEMMA RemoveFirstAbsent ==
  ASSUME NEW S, NEW q \in Seq(S), NEW e, e \notin ToSet(q)
  PROVE  RemoveFirst(q, e) = q
BY DEF RemoveFirst, ToSet

\* ... and what is there is removed once.
LEMMA RemoveFirstIndex ==
  ASSUME NEW S, NEW q \in Seq(S), IsInjective(q), NEW e \in ToSet(q)
  PROVE  \E i \in 1 .. Len(q) : q[i] = e /\ RemoveFirst(q, e) = RemoveAt(q, i)
<1>. DEFINE I == {i \in 1 .. Len(q) : q[i] = e}
<1>1. PICK k \in 1 .. Len(q) : q[k] = e
  BY InToSet
<1>2. I = {k}
  BY <1>1 DEF IsInjective
<1>3. (CHOOSE x \in I : \A y \in I : x =< y) = k
  BY <1>1, <1>2
<1>4. SelectInSeq(q, LAMBDA v : v = e) = k
  BY <1>2, <1>3 DEF SelectInSeq, Min
<1>. QED BY <1>1, <1>4 DEF RemoveFirst

\* A queue without duplicates, after a member that may have left it leaves it.
LEMMA RemoveFirstExact ==
  ASSUME NEW S, NEW q \in Seq(S), NEW e, IsInjective(q)
  PROVE  /\ RemoveFirst(q, e) \in Seq(S)
         /\ IsInjective(RemoveFirst(q, e))
         /\ ToSet(RemoveFirst(q, e)) = ToSet(q) \ {e}
<1>1. CASE e \in ToSet(q)
  <2>1. PICK i \in 1 .. Len(q) : q[i] = e /\ RemoveFirst(q, e) = RemoveAt(q, i)
    BY <1>1, RemoveFirstIndex
  <2>. QED BY <2>1, RemoveAtExact
<1>2. CASE e \notin ToSet(q)
  BY <1>2, RemoveFirstAbsent
<1>. QED BY <1>1, <1>2

-----------------------------------------------------------------------------

\* The run queue holds the RUNNABLE readers but the one on the processor.
Runnables ==
  /\ IsInjective(run_list)
  /\ \A p \in Proc :
       p \in ToSet(run_list) <=> state[p] = "RUNNABLE" /\ p # current

\* What a reader does agrees with the state the scheduler keeps of it.
Readers ==
  \A p \in Proc :
    /\ state[p] # "NONE"
    /\ state[p] = "ZOMBIE" <=> pc[p] = "dead"
    /\ state[p] = "SLEEPING" <=> wait_state[p] # "0"
    /\ wait_state[p] \in {"0", "WT_KBD"}
    /\ pc[p] = "read" => want[p] > 0

\* The reader on the processor is RUNNABLE, unless it is on its way into
\* schedule(). The timer interrupts it in user mode only.
OnCpu ==
  current \in Proc =>
    /\ ~in_sched => state[current] = "RUNNABLE"
    /\ trap = "timers" => pc[current] = "user" /\ ~in_sched

\* The reader that waits in the queue was not woken by a character yet, and
\* the loop of wakeup_queue runs as long as there is one.
InQueue ==
  /\ IsInjective(wait_queue)
  /\ \A p \in ToSet(wait_queue) : pc[p] = "read" /\ wakeup_flags[p] = "WT_INTERRUPTED"
  /\ \A p \in Proc : state[p] = "SLEEPING" => p \in ToSet(wait_queue)
  /\ input = "wake" => wait_queue # <<>>
  /\ input # "wake" /\ wait_queue # <<>> => p_rpos = p_wpos

\* The interrupt finds no timer, and no assertion ever fails.
Calm ==
  /\ timer_list = <<>> /\ halt = "no"
  /\ input # "none" => trap = "none"

\* A character goes to the ring at most once.
Positions == typed \in 0 .. MaxTyped /\ p_wpos <= typed

\* The inductive invariant behind ReaderAsleep.
SInv ==
  /\ TypeOK /\ Runnables /\ Readers /\ OnCpu /\ InQueue /\ Calm /\ Positions

\* What comes out of the ring in the end: what was read, then what was not yet.
Out == taken \o Line

\* CharsOnce with what makes it inductive: the reading position counts the
\* characters that were read.
RInv ==
  /\ taken \in Seq(1 .. typed) /\ Len(taken) = p_rpos
  /\ CharsOnce
-----------------------------------------------------------------------------
(* Arithmetic of the ring.                                                 *)

LEMMA Quotient ==
  ASSUME NEW n \in Nat \ {0}, NEW a \in Nat
  PROVE  /\ a % n \in 0 .. n - 1 /\ a \div n \in Nat
         /\ a = n * (a \div n) + (a % n)
OBVIOUS

LEMMA SlotsApart ==
  ASSUME NEW n \in Nat \ {0}, NEW a \in Nat, NEW b \in Nat, a < b, b - a < n
  PROVE  a % n # b % n
<1>. SUFFICES ASSUME a % n = b % n PROVE FALSE
  OBVIOUS
<1>1. PICK i \in Nat : i = a \div n
  BY Quotient
<1>2. PICK j \in Nat : j = b \div n
  BY Quotient
<1>3. PICK r \in 0 .. n - 1 : r = a % n
  BY Quotient
<1>4. a = n * i + r /\ b = n * j + r
  BY <1>1, <1>2, <1>3, Quotient
<1>5. PICK d \in Int : d = j - i
  OBVIOUS
<1>6. b - a = n * d
  BY <1>4, <1>5
<1>7. CASE d <= 0
  <2>1. n * d <= 0
    BY <1>7
  <2>. QED BY <1>6, <2>1
<1>8. CASE d >= 1
  <2>1. n * d >= n
    BY <1>8
  <2>. QED BY <1>6, <2>1
<1>. QED BY <1>5, <1>7, <1>8
LEMMA SlotAgain ==
  ASSUME NEW n \in Nat \ {0}, NEW a \in Nat
  PROVE  (a + n) % n = a % n
<1>1. PICK i \in Nat : i = a \div n
  BY Quotient
<1>2. PICK j \in Nat : j = (a + n) \div n
  BY a + n \in Nat, Quotient
<1>3. PICK r \in 0 .. n - 1 : r = a % n
  BY Quotient
<1>4. PICK s \in 0 .. n - 1 : s = (a + n) % n
  BY a + n \in Nat, Quotient
<1>5. a = n * i + r /\ a + n = n * j + s
  BY <1>1, <1>2, <1>3, <1>4, a + n \in Nat, Quotient
<1>6. PICK d \in Int : d = i + 1 - j
  OBVIOUS
<1>7. s - r = n * d
  BY <1>5, <1>6
<1>8. d = 0
  BY <1>7
<1>. QED BY <1>3, <1>4, <1>7, <1>8
-----------------------------------------------------------------------------
(* What the initial run queue is.                                          *)

\* SetToSeq puts every element of a finite set in the sequence, once: the run
\* queue of Init holds every reader.
LEMMA SetToSeqIsExact ==
  ASSUME NEW S, IsFiniteSet(S)
  PROVE  SetToSeq(S) \in Seq(S) /\ IsInjective(SetToSeq(S)) /\ ToSet(SetToSeq(S)) = S
<1>. DEFINE n == Cardinality(S)
            f == SetToSeq(S)
<1>1. n \in Nat /\ ExistsBijection(1 .. n, S)
  BY FS_CardinalityType
<1>2. PICK g : g \in [1 .. n -> S] /\ IsInjective(g)
  BY <1>1 DEF ExistsBijection, Bijection, Injection
<1>3. f \in [1 .. n -> S] /\ IsInjective(f)
  BY <1>2 DEF SetToSeq
<1>4. f \in Seq(S)
  BY <1>1, <1>3
<1>. HIDE DEF f
<1>5. ToSet(f) = S
  <2>1. ToSet(f) \subseteq S /\ f \in [1 .. n -> ToSet(f)]
        /\ \A t \in ToSet(f) : \E i \in 1 .. n : f[i] = t
    BY <1>3 DEF ToSet
  <2>2. f \in Injection(1 .. n, ToSet(f)) /\ f \in Surjection(1 .. n, ToSet(f))
    BY <1>3, <2>1 DEF Injection, Surjection
  <2>3. ExistsBijection(1 .. n, ToSet(f))
    BY <2>2 DEF ExistsBijection, Bijection
  <2>4. Cardinality(ToSet(f)) = n
    BY <1>1, <2>3, FS_CountingElements
  <2>. QED BY <2>1, <2>4, FS_Subset
<1>. QED BY <1>3, <1>4, <1>5 DEF f

\* The initial state is as the invariant says.
LEMMA InitSInv == ASSUME Init PROVE SInv
<1>. USE SchedAssumption, StdinAssumption DEF Init
<1>1. run_list \in Seq(Proc) /\ IsInjective(run_list) /\ ToSet(run_list) = Proc
  BY SetToSeqIsExact
<1>2. SchedTypeOK
  <2>1. state \in [Proc \cup {Idle} -> ProcState] /\ wait_state \in [Proc -> WaitState]
    BY DEF ProcState, WaitState
  <2>2. time_slice \in [Proc -> 0 .. MAX_TIME_SLICE] /\ timer_list \in Seq(Timer)
    OBVIOUS
  <2>3. need_resched \in [Proc \cup {Idle} -> BOOLEAN]
    OBVIOUS
  <2>4. walk \in [pos : Nat \ {0}, expires : Nat] /\ current \in Proc \cup {Idle}
    OBVIOUS
  <2>. QED BY <1>1, <2>1, <2>2, <2>3, <2>4 DEF SchedTypeOK
<1>3. TypeOK
  <2>1. /\ pc \in [Proc -> {"user", "tail", "read", "dead"}]
        /\ exiting \in [Proc -> BOOLEAN]
        /\ want \in [Proc -> 0 .. MaxRead]
        /\ stdin_buffer \in [Slot -> 0 .. MaxTyped]
        /\ p_wpos \in 0 .. MaxTyped /\ p_rpos \in 0 .. p_wpos
    OBVIOUS
  <2>2. /\ wait_queue \in Seq(Proc)
        /\ wakeup_flags \in [Proc -> {"WT_INTERRUPTED", "WT_KBD"}]
        /\ input \in {"none", "char", "wake"}
    OBVIOUS
  <2>. QED BY <1>2, <2>1, <2>2 DEF TypeOK
<1>4. Runnables /\ Readers /\ OnCpu
  BY <1>1 DEF Runnables, Readers, OnCpu
<1>5. InQueue /\ Calm /\ Positions
  BY DEF InQueue, Calm, Positions, IsInjective, ToSet
<1>. QED BY <1>3, <1>4, <1>5 DEF SInv
-----------------------------------------------------------------------------
(* What the steps share.                                                   *)

\* Who runs, and is not in dev_stdin_read, is in no queue.
LEMMA Runner ==
  ASSUME SInv, NEW p \in Proc, NEW l, At(p, l)
  PROVE  /\ current = p /\ ~in_sched /\ trap = "none" /\ input = "none"
         /\ pc[p] = l /\ l # "dead" /\ state[p] = "RUNNABLE" /\ wait_state[p] = "0"
         /\ p \notin ToSet(run_list)
         /\ l # "read" => p \notin ToSet(wait_queue)
<1>1. current = p /\ ~in_sched /\ trap = "none" /\ input = "none" /\ pc[p] = l
  BY DEF At, Running
<1>2. state[p] = "RUNNABLE"
  BY <1>1 DEF SInv, OnCpu
<1>3. l # "dead" /\ wait_state[p] = "0"
  BY <1>1, <1>2 DEF SInv, Readers
<1>4. p \notin ToSet(run_list)
  BY <1>1 DEF SInv, Runnables
<1>5. l # "read" => p \notin ToSet(wait_queue)
  BY <1>1 DEF SInv, InQueue
<1>. QED BY <1>1, <1>2, <1>3, <1>4, <1>5

\* wakeup_proc of a reader that still lives asserts nothing that fails, and
\* leaves the run queue exact.
LEMMA Woken ==
  ASSUME SInv, NEW q \in Proc, state[q] # "ZOMBIE", wakeup_proc(q), current' = current
  PROVE  /\ WakeupAsserts(q)
         /\ state' = [state EXCEPT ![q] = "RUNNABLE"]
         /\ wait_state' = [wait_state EXCEPT ![q] = "0"]
         /\ run_list' \in Seq(Proc) /\ time_slice' \in [Proc -> 0 .. MAX_TIME_SLICE]
         /\ Runnables'
<1>. USE SchedAssumption
<1>1. /\ state \in [Proc \cup {Idle} -> ProcState] /\ wait_state \in [Proc -> WaitState]
      /\ run_list \in Seq(Proc) /\ time_slice \in [Proc -> 0 .. MAX_TIME_SLICE]
      /\ Runnables
  BY DEF SInv, TypeOK, SchedTypeOK
<1>2. WakeupAsserts(q)
  BY <1>1 DEF WakeupAsserts, NeedsQueue, Unqueued, Runnables
<1>3. CASE state[q] = "RUNNABLE"
  <2>1. UNCHANGED <<state, wait_state, run_list, time_slice>>
    BY <1>3 DEF wakeup_proc
  <2>2. wait_state[q] = "0"
    BY <1>3 DEF SInv, Readers
  <2>3. Runnables'
    BY <1>1, <2>1 DEF Runnables
  <2>. QED BY <1>1, <1>2, <1>3, <2>1, <2>2, <2>3
<1>4. CASE state[q] # "RUNNABLE"
  <2>1. /\ state' = [state EXCEPT ![q] = "RUNNABLE"]
        /\ wait_state' = [wait_state EXCEPT ![q] = "0"]
    BY <1>4 DEF wakeup_proc
  <2>2. q \notin ToSet(run_list)
    BY <1>1, <1>4 DEF Runnables
  <2>3. CASE q # current
    <3>1. run_list' = Append(run_list, q) /\ time_slice' = [time_slice EXCEPT ![q] = Refill(q)]
      BY <1>4, <2>3 DEF wakeup_proc, NeedsQueue, RR_enqueue, Enqueued
    <3>2. Refill(q) \in 0 .. MAX_TIME_SLICE
      BY <1>1 DEF Refill
    <3>3. /\ run_list' \in Seq(Proc) /\ IsInjective(run_list')
          /\ ToSet(run_list') = ToSet(run_list) \cup {q}
      BY <1>1, <2>2, <3>1, AppendNew DEF Runnables
    <3>4. Runnables'
      BY <1>1, <2>1, <2>3, <3>3 DEF Runnables
    <3>. QED BY <1>1, <1>2, <2>1, <3>1, <3>2, <3>3, <3>4
  <2>4. CASE q = current
    <3>1. UNCHANGED <<run_list, time_slice>>
      BY <1>4, <2>4 DEF wakeup_proc, NeedsQueue
    <3>2. Runnables'
      BY <1>1, <2>1, <2>4, <3>1 DEF Runnables
    <3>. QED BY <1>1, <1>2, <2>1, <3>1, <3>2
  <2>. QED BY <2>3, <2>4
<1>. QED BY <1>3, <1>4
-----------------------------------------------------------------------------
(* The steps, one lemma each.                                              *)

\* cpu_idle.
LEMMA IdleLoopStep == ASSUME SInv, IdleLoop PROVE SInv'
<1>. USE SchedAssumption DEF SInv, IdleLoop, Running
<1>1. TypeOK'
  BY DEF TypeOK, SchedTypeOK, ring, queue, history, Slot
<1>2. Runnables' /\ Readers' /\ OnCpu'
  BY DEF Runnables, Readers, OnCpu
<1>3. InQueue' /\ Calm' /\ Positions'
  BY DEF InQueue, Calm, Positions, ring, queue, history
<1>. QED BY <1>1, <1>2, <1>3

\* schedule().
LEMMA ScheduleStep == ASSUME SInv, Schedule PROVE SInv'
<1>. USE SchedAssumption DEF Schedule
<1>. DEFINE next == IF Requeues THEN Enqueued(run_list, current) ELSE run_list
<1>1. /\ state \in [Proc \cup {Idle} -> ProcState] /\ run_list \in Seq(Proc)
      /\ current \in Proc \cup {Idle} /\ time_slice \in [Proc -> 0 .. MAX_TIME_SLICE]
      /\ Runnables
  BY DEF SInv, TypeOK, SchedTypeOK
<1>2. Requeues => current \in Proc /\ current \notin ToSet(run_list)
  BY <1>1 DEF Requeues, Runnables
<1>3. /\ next \in Seq(Proc) /\ IsInjective(next)
      /\ \A p \in Proc : p \in ToSet(next) <=> state[p] = "RUNNABLE"
  <2>1. CASE Requeues
    <3>1. next = Append(run_list, current)
      BY <2>1 DEF Enqueued
    <3>2. LET q == Append(run_list, current)
          IN q \in Seq(Proc) /\ IsInjective(q) /\ ToSet(q) = ToSet(run_list) \cup {current}
      BY <1>1, <1>2, <2>1, AppendNew DEF Runnables
    <3>. QED BY <1>1, <2>1, <3>1, <3>2 DEF Requeues, Runnables
  <2>2. CASE ~Requeues
    BY <1>1, <2>2 DEF Requeues, Runnables
  <2>. QED BY <2>1, <2>2
<1>4. /\ IF next = <<>> THEN current' = Idle /\ run_list' = next
                        ELSE current' = Head(next) /\ run_list' = Tail(next)
      /\ halt' = IF Requeues => Unqueued(current) THEN halt ELSE "assert"
      /\ in_sched' = FALSE
      /\ need_resched' = [need_resched EXCEPT ![current] = FALSE]
      /\ time_slice' = IF Requeues THEN [time_slice EXCEPT ![current] = Refill(current)]
                                   ELSE time_slice
      /\ UNCHANGED <<state, wait_state, timer_list, walk, trap>>
      /\ UNCHANGED <<pc, exiting, want, ring, queue, input, history>>
      /\ trap = "none"
  BY DEF schedule, KAssert
<1>5. halt' = halt
  BY <1>2, <1>4 DEF Unqueued
<1>. HIDE DEF next
<1>6. /\ current' \in Proc \cup {Idle} /\ run_list' \in Seq(Proc)
      /\ current' \in Proc => state[current'] = "RUNNABLE"
      /\ Runnables'
  <2>1. CASE next = <<>>
    <3>1. current' = Idle /\ run_list' = <<>>
      BY <1>4, <2>1
    <3>2. \A p \in Proc : state[p] # "RUNNABLE"
      BY <1>3, <2>1 DEF ToSet
    <3>3. ToSet(run_list') = {} /\ IsInjective(run_list')
      BY <3>1 DEF ToSet, IsInjective
    <3>. QED BY <1>4, <3>1, <3>2, <3>3 DEF Runnables
  <2>2. CASE next # <<>>
    <3>1. current' = Head(next) /\ run_list' = Tail(next)
      BY <1>4, <2>2
    <3>2. /\ Head(next) \in Proc /\ Head(next) \in ToSet(next)
          /\ Tail(next) \in Seq(Proc) /\ IsInjective(Tail(next))
          /\ ToSet(Tail(next)) = ToSet(next) \ {Head(next)}
      BY <1>3, <2>2, TailInjective
    <3>. QED BY <1>3, <1>4, <3>1, <3>2 DEF Runnables
  <2>. QED BY <2>1, <2>2
<1>7. TypeOK'
  <2>1. time_slice' \in [Proc -> 0 .. MAX_TIME_SLICE]
    BY <1>1, <1>2, <1>4 DEF Refill
  <2>2. SchedTypeOK'
    BY <1>4, <1>5, <1>6, <2>1 DEF SInv, TypeOK, SchedTypeOK
  <2>. QED BY <1>4, <2>2 DEF SInv, TypeOK, ring, queue, history, Slot
<1>8. Readers' /\ OnCpu'
  BY <1>4, <1>6 DEF SInv, Readers, OnCpu
<1>9. InQueue' /\ Calm' /\ Positions'
  BY <1>4, <1>5 DEF SInv, InQueue, Calm, Positions, ring, queue, history
<1>. QED BY <1>6, <1>7, <1>8, <1>9 DEF SInv

\* The timer interrupt begins.
LEMMA TickStep == ASSUME SInv, Tick PROVE SInv'
<1>1. /\ trap' = "timers" /\ UNCHANGED <<timer_list, halt>>
      /\ UNCHANGED <<current, state, wait_state, need_resched, time_slice,
                     run_list, walk, in_sched>>
      /\ UNCHANGED <<pc, exiting, want, ring, queue, input, history>>
      /\ input = "none"
      /\ current # Idle => pc[current] = "user" /\ ~in_sched
  BY DEF Tick, TimerInterrupt, KAssert, SInv, Calm
<1>2. TypeOK'
  BY <1>1 DEF SInv, TypeOK, SchedTypeOK, ring, queue, history, Slot
<1>3. Runnables' /\ Readers' /\ OnCpu'
  BY <1>1, SchedAssumption DEF SInv, Runnables, Readers, OnCpu
<1>4. InQueue' /\ Calm' /\ Positions'
  BY <1>1 DEF SInv, InQueue, Calm, Positions, ring, queue, history
<1>. QED BY <1>2, <1>3, <1>4 DEF SInv

\* The timer interrupt comes to dev_stdin_write.
LEMMA TickEndStep == ASSUME SInv, TickEnd PROVE SInv'
<1>. USE SchedAssumption
<1>1. /\ trap = "timers" /\ trap' = "none" /\ input' = "char"
      /\ UNCHANGED <<current, state, wait_state, run_list, timer_list, walk, in_sched, halt>>
      /\ UNCHANGED <<exiting, want, ring, queue, history>>
      /\ IF current = Idle THEN UNCHANGED pc ELSE pc' = [pc EXCEPT ![current] = "tail"]
  BY DEF TickEnd, ProcTick, Goto
<1>2. need_resched' \in [Proc \cup {Idle} -> BOOLEAN] /\ time_slice' \in [Proc -> 0 .. MAX_TIME_SLICE]
  <2>1. /\ need_resched \in [Proc \cup {Idle} -> BOOLEAN] /\ current \in Proc \cup {Idle}
        /\ time_slice \in [Proc -> 0 .. MAX_TIME_SLICE]
    BY DEF SInv, TypeOK, SchedTypeOK
  <2>2. CASE current = Idle
    <3>1. need_resched' = [need_resched EXCEPT ![Idle] = TRUE] /\ UNCHANGED time_slice
      BY <2>2 DEF TickEnd, ProcTick
    <3>. QED BY <2>1, <3>1
  <2>3. CASE current # Idle
    <3>1. PICK n \in 0 .. MAX_TIME_SLICE : n = Countdown(time_slice[current])
      BY <2>1, <2>3 DEF Countdown
    <3>2. /\ time_slice' = [time_slice EXCEPT ![current] = n]
          /\ need_resched' = [need_resched EXCEPT ![current] = @ \/ n = 0]
      BY <2>3, <3>1 DEF TickEnd, ProcTick
    <3>. QED BY <2>1, <3>2
  <2>. QED BY <2>2, <2>3
<1>3. input # "wake" /\ (current \in Proc => pc[current] = "user" /\ state[current] = "RUNNABLE")
  BY <1>1 DEF SInv, Calm, OnCpu
<1>4. TypeOK'
  <2>1. SchedTypeOK'
    BY <1>1, <1>2 DEF SInv, TypeOK, SchedTypeOK
  <2>2. pc' \in [Proc -> {"user", "tail", "read", "dead"}]
    BY <1>1 DEF SInv, TypeOK, SchedTypeOK
  <2>. QED BY <1>1, <2>1, <2>2 DEF SInv, TypeOK, ring, queue, history, Slot
<1>5. \A p \in Proc : pc'[p] = pc[p] \/ (p = current /\ pc[p] = "user" /\ pc'[p] = "tail")
  BY <1>1, <1>3 DEF SInv, TypeOK, SchedTypeOK
<1>6. Runnables' /\ Readers' /\ OnCpu'
  BY <1>1, <1>5 DEF SInv, Runnables, Readers, OnCpu
<1>7. InQueue'
  <2>1. \A p \in ToSet(wait_queue) : p \in Proc
    BY DEF SInv, TypeOK, ToSet
  <2>. QED BY <1>1, <1>3, <1>5, <2>1 DEF SInv, InQueue, ring, queue, history
<1>8. Calm' /\ Positions'
  BY <1>1 DEF SInv, Calm, Positions, ring, history
<1>. QED BY <1>4, <1>6, <1>7, <1>8 DEF SInv

\* No character.
LEMMA NoKeyStep == ASSUME SInv, NoKey PROVE SInv'
<1>1. input = "char" /\ input' = "none" /\ UNCHANGED <<schedVars, pc, exiting, want, ring, queue, history>>
  BY DEF NoKey
<1>. USE <1>1 DEF schedVars, ring, queue, history
<1>2. TypeOK'
  BY DEF SInv, TypeOK, SchedTypeOK, Slot
<1>3. Runnables' /\ Readers' /\ OnCpu' /\ Calm' /\ Positions'
  BY DEF SInv, Runnables, Readers, OnCpu, Calm, Positions
<1>4. InQueue'
  BY DEF SInv, InQueue
<1>. QED BY <1>2, <1>3, <1>4 DEF SInv

\* A position of the ring is that of a slot.
LEMMA SlotOf == \A k \in Nat : k % STDIN_BUFSIZE \in Slot
<1>. SUFFICES ASSUME NEW k \in Nat PROVE k % STDIN_BUFSIZE \in Slot
  OBVIOUS
<1>1. STDIN_BUFSIZE \in Nat \ {0}
  BY StdinAssumption
<1>2. k % STDIN_BUFSIZE \in 0 .. STDIN_BUFSIZE - 1
  BY <1>1, Quotient
<1>. QED BY <1>2 DEF Slot

\* A character goes to the ring.
LEMMA KeyStep == ASSUME SInv, Key PROVE SInv'
<1>. USE StdinAssumption
<1>1. /\ input = "char" /\ typed < MaxTyped /\ typed' = typed + 1
      /\ stdin_buffer' = [stdin_buffer EXCEPT ![p_wpos % STDIN_BUFSIZE] = typed + 1]
      /\ p_wpos' = p_wpos + Advance
      /\ input' = Wake
      /\ UNCHANGED <<schedVars, pc, exiting, want, p_rpos, queue, taken>>
  BY DEF Key
<1>2. /\ stdin_buffer \in [Slot -> 0 .. MaxTyped]
      /\ typed \in 0 .. MaxTyped /\ p_wpos <= typed
      /\ p_wpos \in 0 .. MaxTyped /\ p_rpos \in 0 .. p_wpos
  BY DEF SInv, TypeOK, Positions
<1>3. Advance \in {0, 1}
  BY DEF Advance
<1>4. stdin_buffer' \in [Slot -> 0 .. MaxTyped]
  <2>1. typed + 1 \in 0 .. MaxTyped /\ p_wpos \in Nat
    BY <1>1, <1>2
  <2>2. p_wpos % STDIN_BUFSIZE \in Slot
    BY <2>1, SlotOf
  <2>3. PICK s \in Slot, c \in 0 .. MaxTyped : s = p_wpos % STDIN_BUFSIZE /\ c = typed + 1
    BY <2>1, <2>2
  <2>. QED BY <1>1, <1>2, <2>3
<1>5. p_wpos' \in 0 .. MaxTyped /\ p_rpos' \in 0 .. p_wpos' /\ Positions'
  BY <1>1, <1>2, <1>3 DEF Positions
<1>6. TypeOK'
  <2>1. SchedTypeOK'
    BY <1>1 DEF SInv, TypeOK, SchedTypeOK, schedVars
  <2>2. input' \in {"none", "char", "wake"}
    BY <1>1 DEF Wake
  <2>. QED BY <1>1, <1>4, <1>5, <2>1, <2>2 DEF SInv, TypeOK, queue, Slot
<1>7. Runnables' /\ Readers' /\ OnCpu'
  BY <1>1 DEF SInv, Runnables, Readers, OnCpu, schedVars
<1>8. InQueue' /\ Calm'
  BY <1>1 DEF SInv, InQueue, Calm, Wake, queue, schedVars
<1>. QED BY <1>5, <1>6, <1>7, <1>8 DEF SInv

\* wakeup_queue wakes a reader.
LEMMA WakeReaderStep == ASSUME SInv, WakeReader PROVE SInv'
<1>1. wait_queue \in Seq(Proc) /\ wait_queue # <<>> /\ IsInjective(wait_queue)
  BY DEF WakeReader, SInv, TypeOK, InQueue
<1>2. /\ Head(wait_queue) \in Proc /\ Head(wait_queue) \in ToSet(wait_queue)
      /\ Tail(wait_queue) \in Seq(Proc) /\ IsInjective(Tail(wait_queue))
      /\ ToSet(Tail(wait_queue)) = ToSet(wait_queue) \ {Head(wait_queue)}
  BY <1>1, TailInjective
<1>3. PICK p \in Proc : p = Head(wait_queue)
  BY <1>2
<1>4. /\ input = "wake"
      /\ wakeup_flags' = [wakeup_flags EXCEPT ![p] = "WT_KBD"]
      /\ halt' = IF WakeupAsserts(p) THEN halt ELSE "assert"
      /\ wakeup_proc(p)
      /\ wait_queue' = Tail(wait_queue)
      /\ input' = IF Len(wait_queue) = 1 THEN "none" ELSE "wake"
      /\ UNCHANGED <<current, need_resched, timer_list, walk, in_sched, trap, pc,
                     exiting, want, ring, history>>
  BY <1>3 DEF WakeReader, KAssert
<1>5. pc[p] = "read" /\ state[p] # "ZOMBIE"
  BY <1>2, <1>3 DEF SInv, InQueue, Readers
<1>6. /\ WakeupAsserts(p)
      /\ state' = [state EXCEPT ![p] = "RUNNABLE"]
      /\ wait_state' = [wait_state EXCEPT ![p] = "0"]
      /\ run_list' \in Seq(Proc) /\ time_slice' \in [Proc -> 0 .. MAX_TIME_SLICE]
      /\ Runnables'
  BY <1>4, <1>5, Woken
<1>7. halt' = halt
  BY <1>4, <1>6
<1>8. TypeOK'
  <2>1. SchedTypeOK'
    <3>1. /\ state' \in [Proc \cup {Idle} -> ProcState] /\ wait_state' \in [Proc -> WaitState]
      BY <1>6 DEF SInv, TypeOK, SchedTypeOK, ProcState, WaitState
    <3>. QED BY <1>4, <1>6, <1>7, <3>1 DEF SInv, TypeOK, SchedTypeOK
  <2>2. /\ wakeup_flags' \in [Proc -> {"WT_INTERRUPTED", "WT_KBD"}]
        /\ wait_queue' \in Seq(Proc) /\ input' \in {"none", "char", "wake"}
    BY <1>2, <1>4 DEF SInv, TypeOK
  <2>. QED BY <1>4, <2>1, <2>2 DEF SInv, TypeOK, ring, history, Slot
<1>9. Readers' /\ OnCpu'
  BY <1>4, <1>5, <1>6, SchedAssumption DEF SInv, TypeOK, SchedTypeOK, Readers, OnCpu
<1>10. InQueue'
  <2>1. input' = "wake" => wait_queue' # <<>>
    <3>1. Len(Tail(wait_queue)) = Len(wait_queue) - 1 /\ Len(wait_queue) \in Nat \ {0}
      BY <1>1
    <3>2. Len(wait_queue) # 1 => Len(Tail(wait_queue)) # 0
      BY <3>1
    <3>. QED BY <1>4, <3>2
  <2>2. input' # "wake" /\ wait_queue' # <<>> => p_rpos' = p_wpos'
    BY <1>1, <1>4
  <2>3. \A q \in ToSet(wait_queue') : q \in Proc /\ q # p /\ q \in ToSet(wait_queue)
    <3>1. \A q \in ToSet(wait_queue) : q \in Proc
      BY <1>1 DEF ToSet
    <3>2. ToSet(wait_queue') = ToSet(wait_queue) \ {p}
      BY <1>2, <1>3, <1>4
    <3>. QED BY <3>1, <3>2
  <2>4. \A q \in ToSet(wait_queue') : pc'[q] = "read" /\ wakeup_flags'[q] = "WT_INTERRUPTED"
    BY <1>4, <2>3 DEF SInv, TypeOK, InQueue
  <2>5. \A q \in Proc : state'[q] = "SLEEPING" => q \in ToSet(wait_queue')
    BY <1>2, <1>3, <1>4, <1>6 DEF SInv, TypeOK, SchedTypeOK, InQueue
  <2>. QED BY <1>2, <1>4, <2>1, <2>2, <2>4, <2>5 DEF InQueue
<1>11. Calm' /\ Positions'
  BY <1>4, <1>7 DEF SInv, Calm, Positions, ring, history
<1>. QED BY <1>6, <1>8, <1>9, <1>10, <1>11 DEF SInv

\* The loop of dev_stdin_read, from a queue the reader has left.
LEMMA ReadLoopStep ==
  ASSUME SInv, NEW p \in Proc, NEW l \in {"user", "read"}, At(p, l),
         NEW n \in 1 .. MaxRead, NEW rest \in Seq(Proc), IsInjective(rest),
         ToSet(rest) = ToSet(wait_queue) \ {p}, ReadLoop(p, n, rest)
  PROVE  SInv'
<1>. USE SchedAssumption, StdinAssumption
<1>1. /\ current = p /\ ~in_sched /\ trap = "none" /\ input = "none"
      /\ pc[p] = l /\ state[p] = "RUNNABLE" /\ wait_state[p] = "0"
      /\ p \notin ToSet(run_list)
  BY Runner
<1>2. /\ p_wpos \in 0 .. MaxTyped /\ p_rpos \in 0 .. p_wpos /\ Unread \in Nat
      /\ MaxRead \in Nat
  BY DEF SInv, TypeOK, Unread
<1>3. \A q \in ToSet(wait_queue) : q \in Proc
  BY DEF SInv, TypeOK, ToSet
<1>4. rest # <<>> => p_rpos = p_wpos
  <2>1. rest # <<>> => ToSet(wait_queue) # {}
    BY DEF ToSet
  <2>2. wait_queue = <<>> => ToSet(wait_queue) = {}
    BY DEF ToSet
  <2>. QED BY <1>1, <2>1, <2>2 DEF SInv, InQueue
<1>5. CASE ReadAll(p, n, rest)
  <2>1. /\ Unread >= n /\ p_rpos' = p_rpos + n
        /\ UNCHANGED <<stdin_buffer, p_wpos, typed, overwritten>>
        /\ wait_queue' = rest /\ pc' = [pc EXCEPT ![p] = "tail"]
        /\ UNCHANGED <<schedVars, exiting, want, wakeup_flags, input>>
    BY <1>5 DEF ReadAll, Take, Goto
  <2>2. rest = <<>>
    BY <1>2, <1>4, <2>1 DEF Unread
  <2>3. p_wpos' = p_wpos /\ p_rpos' \in 0 .. p_wpos
    BY <1>2, <2>1 DEF Unread
  <2>4. TypeOK'
    BY <2>1, <2>2, <2>3 DEF SInv, TypeOK, SchedTypeOK, schedVars, Slot
  <2>5. Runnables' /\ Readers' /\ OnCpu'
    BY <1>1, <2>1 DEF SInv, TypeOK, SchedTypeOK, Runnables, Readers, OnCpu, schedVars
  <2>6. InQueue'
    <3>1. \A q \in Proc : state[q] = "SLEEPING" => q \in ToSet(rest)
      BY <1>1 DEF SInv, InQueue
    <3>2. ToSet(rest) = {}
      BY <2>2 DEF ToSet
    <3>. QED BY <1>1, <2>1, <2>2, <3>1, <3>2 DEF InQueue, schedVars
  <2>7. Calm' /\ Positions'
    BY <1>1, <2>1 DEF SInv, Calm, Positions, schedVars
  <2>. QED BY <2>4, <2>5, <2>6, <2>7 DEF SInv
<1>6. CASE ReadSome(p, n, rest)
  <2>1. /\ Unread < n /\ p_rpos' = p_rpos + Unread
        /\ UNCHANGED <<stdin_buffer, p_wpos, typed, overwritten>>
        /\ want' = [want EXCEPT ![p] = n - Unread]
        /\ wait_queue' = Append(rest, p) /\ pc' = [pc EXCEPT ![p] = "read"]
        /\ wakeup_flags' = [wakeup_flags EXCEPT ![p] = "WT_INTERRUPTED"]
        /\ state' = [state EXCEPT ![p] = "SLEEPING"]
        /\ wait_state' = [wait_state EXCEPT ![p] = "WT_KBD"]
        /\ in_sched' = TRUE
        /\ UNCHANGED <<current, need_resched, time_slice, run_list, timer_list, walk,
                       trap, halt, exiting, input>>
    BY <1>6 DEF ReadSome, Take, Goto, SleepOn
  <2>2. PICK m \in 1 .. MaxRead : m = n - Unread
    BY <1>2, <2>1
  <2>3. p_rpos' = p_wpos /\ p_wpos' = p_wpos
    BY <1>2, <2>1 DEF Unread
  <2>4. /\ Append(rest, p) \in Seq(Proc) /\ IsInjective(Append(rest, p))
        /\ ToSet(Append(rest, p)) = ToSet(rest) \cup {p} /\ Append(rest, p) # <<>>
    <3>1. p \notin ToSet(rest)
      OBVIOUS
    <3>. QED BY <3>1, AppendNew
  <2>5. TypeOK'
    <3>1. want' \in [Proc -> 0 .. MaxRead]
      BY <1>2, <2>1, <2>2 DEF SInv, TypeOK
    <3>2. p_wpos' \in 0 .. MaxTyped /\ p_rpos' \in 0 .. p_wpos'
      BY <1>2, <2>3
    <3>3. SchedTypeOK'
      BY <2>1 DEF SInv, TypeOK, SchedTypeOK, ProcState, WaitState
    <3>. QED BY <2>1, <2>4, <3>1, <3>2, <3>3 DEF SInv, TypeOK, Slot
  <2>6. Runnables'
    BY <1>1, <2>1 DEF SInv, TypeOK, SchedTypeOK, Runnables
  <2>7. Readers' /\ OnCpu'
    <3>1. want'[p] > 0 /\ \A q \in Proc \ {p} : want'[q] = want[q]
      BY <1>2, <2>1, <2>2 DEF SInv, TypeOK
    <3>. QED BY <1>1, <2>1, <3>1 DEF SInv, TypeOK, SchedTypeOK, Readers, OnCpu
  <2>8. InQueue'
    <3>1. \A q \in ToSet(wait_queue') : q = p \/ (q \in Proc /\ q # p /\ q \in ToSet(wait_queue))
      BY <1>3, <2>1, <2>4
    <3>2. \A q \in ToSet(wait_queue') : pc'[q] = "read" /\ wakeup_flags'[q] = "WT_INTERRUPTED"
      BY <2>1, <3>1 DEF SInv, TypeOK, InQueue
    <3>3. \A q \in Proc : state'[q] = "SLEEPING" => q \in ToSet(wait_queue')
      BY <2>1, <2>4 DEF SInv, TypeOK, SchedTypeOK, InQueue
    <3>. QED BY <1>1, <2>1, <2>3, <2>4, <3>2, <3>3 DEF InQueue
  <2>9. Calm' /\ Positions'
    BY <1>1, <2>1 DEF SInv, Calm, Positions
  <2>. QED BY <2>5, <2>6, <2>7, <2>8, <2>9 DEF SInv
<1>. QED BY <1>5, <1>6 DEF ReadLoop

\* dev_stdin_read begins.
LEMMA ReadStep ==
  ASSUME SInv, NEW p \in Proc, NEW n \in 1 .. MaxRead, Read(p, n) PROVE SInv'
<1>1. At(p, "user") /\ ReadLoop(p, n, wait_queue)
  BY DEF Read
<1>2. p \notin ToSet(wait_queue)
  BY <1>1, Runner
<1>3. wait_queue \in Seq(Proc) /\ IsInjective(wait_queue)
  BY DEF SInv, TypeOK, InQueue
<1>. QED BY <1>1, <1>2, <1>3, ReadLoopStep

\* dev_stdin_read after its schedule().
LEMMA ReadAgainStep == ASSUME SInv, NEW p \in Proc, ReadAgain(p) PROVE SInv'
<1>1. PICK rest : rest = RemoveFirst(wait_queue, p)
  OBVIOUS
<1>2. wait_queue \in Seq(Proc) /\ IsInjective(wait_queue)
  BY DEF SInv, TypeOK, InQueue
<1>3. /\ rest \in Seq(Proc) /\ IsInjective(rest)
      /\ ToSet(rest) = ToSet(wait_queue) \ {p}
  BY <1>1, <1>2, RemoveFirstExact
<1>4. /\ At(p, "read")
      /\ IF wakeup_flags[p] = "WT_KBD"
         THEN ReadLoop(p, want[p], rest)
         ELSE /\ wait_queue' = rest /\ pc' = [pc EXCEPT ![p] = "tail"]
              /\ UNCHANGED <<schedVars, exiting, want, ring, wakeup_flags, input, history>>
  BY <1>1 DEF ReadAgain, Goto
<1>5. /\ current = p /\ pc[p] = "read" /\ state[p] = "RUNNABLE" /\ input = "none"
  BY <1>4, Runner
<1>6. CASE wakeup_flags[p] = "WT_KBD"
  <2>1. want[p] \in 1 .. MaxRead
    BY <1>5, StdinAssumption DEF SInv, TypeOK, Readers
  <2>. QED BY <1>3, <1>4, <1>6, <2>1, ReadLoopStep
<1>7. CASE wakeup_flags[p] # "WT_KBD"
  <2>1. /\ wait_queue' = rest /\ pc' = [pc EXCEPT ![p] = "tail"]
        /\ UNCHANGED <<schedVars, exiting, want, ring, wakeup_flags, input, history>>
    BY <1>4, <1>7
  <2>2. TypeOK'
    BY <1>3, <2>1 DEF SInv, TypeOK, SchedTypeOK, schedVars, ring, Slot
  <2>3. Runnables' /\ Readers' /\ OnCpu'
    BY <1>5, <2>1 DEF SInv, TypeOK, SchedTypeOK, Runnables, Readers, OnCpu, schedVars
  <2>4. InQueue'
    <3>1. \A q \in ToSet(wait_queue') : q \in Proc /\ q # p /\ q \in ToSet(wait_queue)
      <4>1. \A q \in ToSet(wait_queue) : q \in Proc
        BY <1>2 DEF ToSet
      <4>. QED BY <1>3, <2>1, <4>1
    <3>2. \A q \in ToSet(wait_queue') : pc'[q] = "read" /\ wakeup_flags'[q] = "WT_INTERRUPTED"
      BY <2>1, <3>1 DEF SInv, TypeOK, InQueue
    <3>3. \A q \in Proc : state'[q] = "SLEEPING" => q \in ToSet(wait_queue')
      BY <1>3, <1>5, <2>1 DEF SInv, TypeOK, SchedTypeOK, InQueue, schedVars
    <3>4. wait_queue' # <<>> => p_rpos' = p_wpos'
      <4>1. rest # <<>> => ToSet(wait_queue) # {}
        BY <1>3 DEF ToSet
      <4>2. wait_queue = <<>> => ToSet(wait_queue) = {}
        BY DEF ToSet
      <4>. QED BY <1>5, <2>1, <4>1, <4>2 DEF SInv, InQueue, ring
    <3>. QED BY <1>3, <1>5, <2>1, <3>2, <3>3, <3>4 DEF InQueue
  <2>5. Calm' /\ Positions'
    BY <1>5, <2>1 DEF SInv, Calm, Positions, schedVars, ring, history
  <2>. QED BY <2>2, <2>3, <2>4, <2>5 DEF SInv
<1>. QED BY <1>6, <1>7

\* trap() ends, and a killed reader exits.
LEMMA TrapTailStep == ASSUME SInv, NEW p \in Proc, TrapTail(p) PROVE SInv'
<1>. USE SchedAssumption
<1>1. At(p, "tail")
  BY DEF TrapTail
<1>2. /\ current = p /\ ~in_sched /\ trap = "none" /\ input = "none" /\ pc[p] = "tail"
      /\ state[p] = "RUNNABLE" /\ wait_state[p] = "0"
      /\ p \notin ToSet(run_list) /\ p \notin ToSet(wait_queue)
  BY <1>1, Runner
<1>3. /\ \/ /\ pc' = [pc EXCEPT ![p] = "dead"] /\ in_sched' = TRUE
            /\ state' = [state EXCEPT ![p] = "ZOMBIE"]
         \/ /\ pc' = [pc EXCEPT ![p] = "user"] /\ in_sched' = need_resched[p]
            /\ UNCHANGED state
      /\ UNCHANGED <<current, wait_state, need_resched, time_slice, run_list,
                     timer_list, walk, trap, halt, exiting, want, ring, queue, input,
                     history>>
  BY DEF TrapTail, Goto
<1>4. TypeOK'
  <2>1. state' \in [Proc \cup {Idle} -> ProcState] /\ in_sched' \in BOOLEAN
    BY <1>3 DEF SInv, TypeOK, SchedTypeOK, ProcState
  <2>2. pc' \in [Proc -> {"user", "tail", "read", "dead"}]
    BY <1>3 DEF SInv, TypeOK
  <2>. QED BY <1>3, <2>1, <2>2 DEF SInv, TypeOK, SchedTypeOK, ring, queue, Slot
<1>5. Runnables' /\ Readers' /\ OnCpu'
  BY <1>2, <1>3 DEF SInv, TypeOK, SchedTypeOK, Runnables, Readers, OnCpu
<1>6. InQueue'
  <2>1. \A q \in ToSet(wait_queue) : q \in Proc /\ q # p
    BY <1>2 DEF SInv, TypeOK, ToSet
  <2>. QED BY <1>2, <1>3, <2>1 DEF SInv, TypeOK, SchedTypeOK, InQueue, queue, ring
<1>7. Calm' /\ Positions'
  BY <1>2, <1>3 DEF SInv, Calm, Positions, ring, history
<1>. QED BY <1>4, <1>5, <1>6, <1>7 DEF SInv

\* do_kill.
LEMMA KillStep == ASSUME SInv, NEW p \in Proc, NEW q \in Proc, Kill(p, q) PROVE SInv'
<1>. USE SchedAssumption
<1>1. At(p, "user")
  BY DEF Kill
<1>2. /\ current = p /\ ~in_sched /\ trap = "none" /\ input = "none" /\ pc[p] = "user"
      /\ state[p] = "RUNNABLE" /\ wait_state[p] = "0"
      /\ p \notin ToSet(run_list) /\ p \notin ToSet(wait_queue)
  BY <1>1, Runner
<1>3. /\ pc' = [pc EXCEPT ![p] = "tail"]
      /\ UNCHANGED <<current, need_resched, timer_list, walk, in_sched, trap, want,
                     ring, queue, input, history>>
  BY DEF Kill, Goto
<1>4. exiting' \in [Proc -> BOOLEAN]
  BY DEF Kill, SInv, TypeOK
<1>5. /\ \/ UNCHANGED <<state, wait_state>>
         \/ /\ state[q] # "ZOMBIE"
            /\ state' = [state EXCEPT ![q] = "RUNNABLE"]
            /\ wait_state' = [wait_state EXCEPT ![q] = "0"]
      /\ run_list' \in Seq(Proc) /\ time_slice' \in [Proc -> 0 .. MAX_TIME_SLICE]
      /\ Runnables' /\ halt' = halt
  <2>1. CASE state[q] # "ZOMBIE" /\ ~exiting[q] /\ Interruptible(wait_state[q])
    <3>1. wakeup_proc(q) /\ halt' = IF WakeupAsserts(q) THEN halt ELSE "assert"
      BY <2>1 DEF Kill, KAssert
    <3>. QED BY <1>3, <2>1, <3>1, Woken
  <2>2. CASE ~(state[q] # "ZOMBIE" /\ ~exiting[q] /\ Interruptible(wait_state[q]))
    <3>1. UNCHANGED <<state, wait_state, run_list, time_slice, halt>>
      BY <2>2 DEF Kill
    <3>. QED BY <1>3, <3>1 DEF SInv, TypeOK, SchedTypeOK, Runnables
  <2>. QED BY <2>1, <2>2
<1>6. /\ state' \in [Proc \cup {Idle} -> ProcState] /\ wait_state' \in [Proc -> WaitState]
      /\ \A x \in Proc : \/ state'[x] = state[x] /\ wait_state'[x] = wait_state[x]
                         \/ state[x] # "ZOMBIE" /\ state'[x] = "RUNNABLE" /\ wait_state'[x] = "0"
  <2>1. /\ state \in [Proc \cup {Idle} -> ProcState] /\ wait_state \in [Proc -> WaitState]
        /\ "RUNNABLE" \in ProcState /\ "0" \in WaitState
    BY DEF SInv, TypeOK, SchedTypeOK, ProcState, WaitState
  <2>2. CASE UNCHANGED <<state, wait_state>>
    BY <2>1, <2>2
  <2>3. CASE /\ state[q] # "ZOMBIE"
             /\ state' = [state EXCEPT ![q] = "RUNNABLE"]
             /\ wait_state' = [wait_state EXCEPT ![q] = "0"]
    BY <2>1, <2>3
  <2>. QED BY <1>5, <2>2, <2>3
<1>7. TypeOK'
  <2>1. SchedTypeOK'
    BY <1>3, <1>5, <1>6 DEF SInv, TypeOK, SchedTypeOK
  <2>. QED BY <1>3, <1>4, <2>1 DEF SInv, TypeOK, ring, queue, Slot
<1>8. Readers' /\ OnCpu'
  BY <1>2, <1>3, <1>6 DEF SInv, TypeOK, SchedTypeOK, Readers, OnCpu
<1>9. InQueue'
  <2>1. \A x \in ToSet(wait_queue) : x \in Proc /\ x # p
    BY <1>2 DEF SInv, TypeOK, ToSet
  <2>. QED BY <1>2, <1>3, <1>6, <2>1 DEF SInv, TypeOK, SchedTypeOK, InQueue, queue, ring
<1>10. Calm' /\ Positions'
  BY <1>2, <1>3, <1>5 DEF SInv, Calm, Positions, ring, history
<1>. QED BY <1>5, <1>7, <1>8, <1>9, <1>10 DEF SInv

\* Every step keeps the invariant.
LEMMA NextSInv == SInv /\ [Next]_vars => SInv'
<1>. SUFFICES ASSUME SInv, [Next]_vars PROVE SInv'
  OBVIOUS
<1>1. CASE IdleLoop
  BY <1>1, IdleLoopStep
<1>2. CASE Schedule
  BY <1>2, ScheduleStep
<1>3. ASSUME NEW p \in Proc, TrapTail(p) PROVE SInv'
  BY <1>3, TrapTailStep
<1>4. ASSUME NEW p \in Proc, ReadAgain(p) PROVE SInv'
  BY <1>4, ReadAgainStep
<1>5. CASE Tick
  BY <1>5, TickStep
<1>6. CASE TickEnd
  BY <1>6, TickEndStep
<1>7. CASE NoKey
  BY <1>7, NoKeyStep
<1>8. CASE Key
  BY <1>8, KeyStep
<1>9. CASE WakeReader
  BY <1>9, WakeReaderStep
<1>10. ASSUME NEW p \in Proc, NEW n \in 1 .. MaxRead, Read(p, n) PROVE SInv'
  BY <1>10, ReadStep
<1>11. ASSUME NEW p \in Proc, NEW q \in Proc, Kill(p, q) PROVE SInv'
  BY <1>11, KillStep
<1>12. CASE UNCHANGED vars
  <2>1. TypeOK'
    BY <1>12 DEF SInv, TypeOK, SchedTypeOK, Slot, vars, schedVars, ring, queue, history
  <2>2. Runnables' /\ Readers' /\ OnCpu' /\ InQueue' /\ Calm' /\ Positions'
    BY <1>12 DEF SInv, Runnables, Readers, OnCpu, InQueue, Calm, Positions,
                 vars, schedVars, ring, queue, history
  <2>. QED BY <2>1, <2>2 DEF SInv
<1>. QED BY <1>1, <1>2, <1>3, <1>4, <1>5, <1>6, <1>7, <1>8, <1>9, <1>10, <1>11, <1>12
     DEF Next, KernelStep, Interrupt

\* In every behaviour the run queue, the device's wait queue and the places of
\* the readers agree (dev_stdin.c, sched.c).
THEOREM ReadersInvariance == Spec => []SInv
<1>1. Init => SInv
  BY InitSInv
<1>2. SInv /\ [Next]_vars => SInv'
  BY NextSInv
<1>. QED BY <1>1, <1>2, PTL DEF Spec

\* No reader sleeps past a character (dev_stdin.c:30-75), whatever the number of
\* readers, the size of the ring and the kills.
THEOREM NoReaderSleepsPast == Spec => []ReaderAsleep
<1>1. SInv => ReaderAsleep
  BY DEF SInv, InQueue, ReaderAsleep
<1>. QED BY <1>1, ReadersInvariance, PTL
-----------------------------------------------------------------------------
(* The characters.                                                         *)

\* Sequences with the same elements are the same.
LEMMA SameElements ==
  ASSUME NEW S, NEW a \in Seq(S), NEW b \in Seq(S), Len(a) = Len(b),
         \A k \in 1 .. Len(a) : a[k] = b[k]
  PROVE  a = b
OBVIOUS

\* line is what buffer holds of the n characters from position r on.
IsLine(line, buffer, r, n) ==
  /\ line \in Seq(Nat) /\ Len(line) = n
  /\ \A i \in 1 .. n : line[i] = buffer[(r + i - 1) % STDIN_BUFSIZE]

\* The n characters from position r on.
LEMMA RingElements ==
  ASSUME NEW n \in Nat, NEW r \in Nat, NEW buffer \in [Slot -> Nat]
  PROVE  IsLine([i \in 1 .. n |-> buffer[(r + i - 1) % STDIN_BUFSIZE]], buffer, r, n)
<1>1. \A i \in 1 .. n : buffer[(r + i - 1) % STDIN_BUFSIZE] \in Nat
  <2>. SUFFICES ASSUME NEW i \in 1 .. n
                PROVE  buffer[(r + i - 1) % STDIN_BUFSIZE] \in Nat
    OBVIOUS
  <2>1. r + i - 1 \in Nat
    OBVIOUS
  <2>2. (r + i - 1) % STDIN_BUFSIZE \in Slot
    BY <2>1, SlotOf
  <2>. QED BY <2>2
<1>. QED BY <1>1 DEF IsLine

\* The elements of a sequence are of its type.
LEMMA OfType ==
  ASSUME NEW S, NEW q \in Seq(S) PROVE \A k \in 1 .. Len(q) : q[k] \in S
OBVIOUS

\* A sequence is one of the elements it has.
LEMMA Retype ==
  ASSUME NEW S, NEW T, NEW q \in Seq(S), \A k \in 1 .. Len(q) : q[k] \in T
  PROVE  q \in Seq(T)
OBVIOUS

\* t is what was read up to position r.
IsTaken(t, r) == t \in Seq(Nat) /\ Len(t) = r

\* What the characters from position r to w add to those that were read.
LEMMA OutElements ==
  ASSUME NEW w \in Nat, NEW r \in 0 .. w,
         NEW t, IsTaken(t, r), NEW buffer,
         NEW line, IsLine(line, buffer, r, w - r)
  PROVE  /\ t \o line \in Seq(Nat) /\ Len(t \o line) = w
         /\ \A k \in 1 .. w :
              (t \o line)[k] = IF k <= r THEN t[k] ELSE buffer[(k - 1) % STDIN_BUFSIZE]
<1>0. /\ line \in Seq(Nat) /\ Len(line) = w - r /\ t \in Seq(Nat) /\ Len(t) = r
      /\ \A i \in 1 .. w - r : line[i] = buffer[(r + i - 1) % STDIN_BUFSIZE]
  BY DEF IsLine, IsTaken
<1>1. /\ t \o line \in Seq(Nat) /\ Len(t \o line) = Len(t) + Len(line)
      /\ \A j \in 1 .. Len(t) + Len(line) :
           (t \o line)[j] = IF j <= Len(t) THEN t[j] ELSE line[j - Len(t)]
  BY <1>0, ConcatElements
<1>2. \A k \in 1 .. w : k > r => line[k - r] = buffer[(k - 1) % STDIN_BUFSIZE]
  <2>. SUFFICES ASSUME NEW k \in 1 .. w, k > r
                PROVE  line[k - r] = buffer[(k - 1) % STDIN_BUFSIZE]
    OBVIOUS
  <2>1. k - r \in 1 .. w - r /\ r + (k - r) - 1 = k - 1
    OBVIOUS
  <2>. QED BY <1>0, <2>1
<1>3. ASSUME NEW k \in 1 .. w
      PROVE  (t \o line)[k] = IF k <= r THEN t[k] ELSE buffer[(k - 1) % STDIN_BUFSIZE]
  <2>1. k \in 1 .. Len(t) + Len(line)
    BY <1>0
  <2>2. (t \o line)[k] = IF k <= r THEN t[k] ELSE line[k - r]
    BY <1>0, <1>1, <2>1
  <2>3. CASE k <= r
    BY <2>2, <2>3
  <2>4. CASE ~(k <= r)
    <3>1. k > r
      BY <2>4
    <3>2. line[k - r] = buffer[(k - 1) % STDIN_BUFSIZE]
      BY <1>2, <3>1
    <3>. QED BY <2>2, <2>4, <3>2
  <2>. QED BY <2>3, <2>4
<1>. QED BY <1>0, <1>1, <1>3

\* A newcomer takes the place of another element.
LEMMA ReplaceNew ==
  ASSUME NEW S, NEW q \in Seq(S), IsInjective(q), NEW i \in 1 .. Len(q),
         NEW e, e \notin ToSet(q), NEW r \in Seq(S), Len(r) = Len(q), r[i] = e,
         \A j \in 1 .. Len(q) : j # i => r[j] = q[j]
  PROVE  IsInjective(r) /\ ToSet(r) = (ToSet(q) \ {q[i]}) \cup {e}
<1>1. \A j \in 1 .. Len(q) : q[j] # e
  BY InToSet
<1>2. IsInjective(r)
  BY <1>1 DEF IsInjective
<1>3. ToSet(r) \subseteq (ToSet(q) \ {q[i]}) \cup {e}
  BY DEF ToSet, IsInjective
<1>4. (ToSet(q) \ {q[i]}) \cup {e} \subseteq ToSet(r)
  BY DEF ToSet
<1>. QED BY <1>2, <1>3, <1>4

\* What the invariants say of Out.
LEMMA OutIs ==
  ASSUME SInv, RInv
  PROVE  /\ p_wpos \in Nat /\ p_rpos \in 0 .. p_wpos /\ p_wpos <= typed /\ typed \in Nat
         /\ stdin_buffer \in [Slot -> Nat]
         /\ Out \in Seq(Nat) /\ Len(Out) = p_wpos /\ IsInjective(Out)
         /\ ToSet(Out) \subseteq 1 .. typed /\ overwritten \subseteq 1 .. typed
         /\ \A k \in 1 .. p_wpos :
              Out[k] = IF k <= p_rpos THEN taken[k]
                       ELSE stdin_buffer[(k - 1) % STDIN_BUFSIZE]
<1>1. /\ p_wpos \in Nat /\ p_rpos \in 0 .. p_wpos /\ p_wpos <= typed /\ typed \in Nat
      /\ stdin_buffer \in [Slot -> Nat]
  BY StdinAssumption DEF SInv, TypeOK, Positions
<1>2. taken \in Seq(Nat) /\ Len(taken) = p_rpos
  BY <1>1 DEF RInv
<1>3. IsInjective(Out) /\ ToSet(Out) \subseteq 1 .. typed /\ overwritten \subseteq 1 .. typed
  BY DEF RInv, CharsOnce, Out
<1>4. IsLine(Line, stdin_buffer, p_rpos, p_wpos - p_rpos)
  <2>1. p_wpos - p_rpos \in Nat /\ p_rpos \in Nat
    BY <1>1
  <2>. QED BY <1>1, <2>1, RingElements DEF Line, Unread
<1>5. /\ taken \o Line \in Seq(Nat) /\ Len(taken \o Line) = p_wpos
      /\ \A k \in 1 .. p_wpos :
           (taken \o Line)[k] = IF k <= p_rpos THEN taken[k]
                                ELSE stdin_buffer[(k - 1) % STDIN_BUFSIZE]
  <2>1. IsTaken(taken, p_rpos)
    BY <1>2 DEF IsTaken
  <2>. QED BY <1>1, <1>4, <2>1, OutElements
<1>. QED BY <1>1, <1>3, <1>5 DEF Out

\* Initially nothing was typed.
LEMMA InitRInv == ASSUME Init PROVE RInv
<1>1. taken = <<>> /\ p_rpos = 0 /\ p_wpos = 0 /\ typed = 0 /\ overwritten = {}
  BY DEF Init
<1>2. Unread = 0 /\ Line = <<>>
  BY <1>1 DEF Unread, Line
<1>3. taken \o Line = <<>>
  BY <1>1, <1>2
<1>. QED BY <1>1, <1>2, <1>3, StdinAssumption DEF RInv, CharsOnce, IsInjective, ToSet

\* Frame of RInv: the ring and the characters.
LEMMA RFrame == ASSUME RInv, UNCHANGED <<ring, history>> PROVE RInv'
BY DEF RInv, CharsOnce, Line, Unread, ring, history

\* What comes out after a step, from the ring it leaves.
LEMMA OutNext ==
  ASSUME SInv', IsTaken(taken', p_rpos')
  PROVE  /\ Out' \in Seq(Nat) /\ Len(Out') = p_wpos'
         /\ \A k \in 1 .. p_wpos' :
              Out'[k] = IF k <= p_rpos' THEN taken'[k]
                        ELSE stdin_buffer'[(k - 1) % STDIN_BUFSIZE]
<1>1. /\ p_wpos' \in Nat /\ p_rpos' \in 0 .. p_wpos'
      /\ stdin_buffer' \in [Slot -> Nat]
  BY StdinAssumption DEF SInv, TypeOK, Slot
<1>2. PICK w \in Nat, buffer \in [Slot -> Nat] : w = p_wpos' /\ buffer = stdin_buffer'
  BY <1>1
<1>3. PICK r \in 0 .. w : r = p_rpos'
  BY <1>1, <1>2
<1>4. w - r \in Nat /\ r \in Nat
  OBVIOUS
<1>5. PICK t, line : t = taken' /\ line = Line'
  OBVIOUS
<1>6. IsTaken(t, r)
  BY <1>3, <1>5
<1>7. IsLine(line, buffer, r, w - r)
  <2>1. line = [i \in 1 .. w - r |-> buffer[(r + i - 1) % STDIN_BUFSIZE]]
    BY <1>2, <1>3, <1>5 DEF Line, Unread
  <2>. QED BY <1>4, <2>1, RingElements
<1>8. /\ t \o line \in Seq(Nat) /\ Len(t \o line) = w
      /\ \A k \in 1 .. w :
           (t \o line)[k] = IF k <= r THEN t[k] ELSE buffer[(k - 1) % STDIN_BUFSIZE]
  BY <1>6, <1>7, OutElements
<1>9. Out' = t \o line
  BY <1>5 DEF Out
<1>. QED BY <1>2, <1>3, <1>5, <1>8, <1>9

\* What a reader takes comes out as it was in line.
LEMMA TakeStep ==
  ASSUME SInv, RInv, SInv', NEW n \in 0 .. Unread, Take(n) PROVE RInv'
<1>1. /\ taken' = taken \o [i \in 1 .. n |-> stdin_buffer[(p_rpos + i - 1) % STDIN_BUFSIZE]]
      /\ p_rpos' = p_rpos + n
      /\ UNCHANGED <<stdin_buffer, p_wpos, typed, overwritten>>
  BY DEF Take
<1>2. /\ p_wpos \in Nat /\ p_rpos \in 0 .. p_wpos /\ p_wpos <= typed /\ typed \in Nat
      /\ stdin_buffer \in [Slot -> Nat]
      /\ Out \in Seq(Nat) /\ Len(Out) = p_wpos /\ IsInjective(Out)
      /\ ToSet(Out) \subseteq 1 .. typed /\ overwritten \subseteq 1 .. typed
      /\ \A k \in 1 .. p_wpos :
           Out[k] = IF k <= p_rpos THEN taken[k]
                    ELSE stdin_buffer[(k - 1) % STDIN_BUFSIZE]
  BY OutIs
<1>3. taken \in Seq(Nat) /\ Len(taken) = p_rpos
  BY <1>2 DEF RInv
<1>4. PICK r \in 0 .. p_wpos : r = p_rpos + n
  BY <1>2 DEF Unread
<1>5. n \in Nat /\ p_rpos \in Nat /\ r \in Nat /\ p_rpos \in 0 .. r /\ r - p_rpos = n
  BY <1>2, <1>4 DEF Unread
<1>6. IsLine([i \in 1 .. n |-> stdin_buffer[(p_rpos + i - 1) % STDIN_BUFSIZE]],
             stdin_buffer, p_rpos, n)
  BY <1>2, <1>5, RingElements
<1>7. PICK line : /\ line = [i \in 1 .. n |-> stdin_buffer[(p_rpos + i - 1) % STDIN_BUFSIZE]]
                  /\ IsLine(line, stdin_buffer, p_rpos, r - p_rpos)
  BY <1>5, <1>6
<1>8. /\ taken \o line \in Seq(Nat) /\ Len(taken \o line) = r
      /\ \A k \in 1 .. r :
           (taken \o line)[k] = IF k <= p_rpos THEN taken[k]
                                ELSE stdin_buffer[(k - 1) % STDIN_BUFSIZE]
  <2>1. IsLine(line, stdin_buffer, p_rpos, r - p_rpos)
    BY <1>7
  <2>2. IsTaken(taken, p_rpos)
    BY <1>3 DEF IsTaken
  <2>3. r \in Nat /\ p_rpos \in 0 .. r
    BY <1>5
  <2>. QED BY <2>1, <2>2, <2>3, OutElements
<1>9. /\ taken' \in Seq(Nat) /\ Len(taken') = r /\ r = p_rpos'
      /\ \A k \in 1 .. r : taken'[k] = Out[k]
  <2>1. taken' = taken \o line
    BY <1>1, <1>7
  <2>2. \A k \in 1 .. r : k \in 1 .. p_wpos
    BY <1>2, <1>4
  <2>. QED BY <1>1, <1>2, <1>4, <1>8, <2>1, <2>2
<1>10. /\ Out' \in Seq(Nat) /\ Len(Out') = p_wpos'
       /\ \A k \in 1 .. p_wpos' :
            Out'[k] = IF k <= r THEN taken'[k]
                      ELSE stdin_buffer'[(k - 1) % STDIN_BUFSIZE]
  <2>1. IsTaken(taken', p_rpos')
    BY <1>9 DEF IsTaken
  <2>. QED BY <1>9, <2>1, OutNext
<1>11. Out' = Out
  <2>1. ASSUME NEW k \in 1 .. p_wpos PROVE Out'[k] = Out[k]
    <3>1. CASE k <= r
      <4>1. k \in 1 .. r
        BY <1>4, <3>1
      <4>. QED BY <1>1, <1>9, <1>10, <3>1, <4>1
    <3>2. CASE ~(k <= r)
      <4>1. ~(k <= p_rpos)
        BY <1>2, <1>5, <3>2
      <4>2. Out[k] = stdin_buffer[(k - 1) % STDIN_BUFSIZE]
        BY <1>2, <4>1
      <4>3. Out'[k] = stdin_buffer[(k - 1) % STDIN_BUFSIZE]
        BY <1>1, <1>10, <3>2
      <4>. QED BY <4>2, <4>3
    <3>. QED BY <3>1, <3>2
  <2>2. Len(Out') = p_wpos /\ Out' \in Seq(Nat)
    BY <1>1, <1>10
  <2>. QED BY <1>2, <2>1, <2>2, SameElements
<1>12. taken' \in Seq(1 .. typed')
  <2>1. ASSUME NEW k \in 1 .. Len(taken') PROVE taken'[k] \in 1 .. typed'
    <3>1. k \in 1 .. Len(Out) /\ taken'[k] = Out[k]
      BY <1>2, <1>4, <1>9, <2>1
    <3>2. Out[k] \in ToSet(Out)
      BY <1>2, <3>1, InToSet
    <3>. QED BY <1>1, <1>2, <3>1, <3>2
  <2>2. taken' \in Seq(Nat)
    BY <1>9
  <2>3. \A k \in 1 .. Len(taken') : taken'[k] \in 1 .. typed'
    BY <2>1
  <2>. QED BY <2>2, <2>3, Retype
<1>13. CharsOnce'
  <2>1. Unread' <= STDIN_BUFSIZE
    <3>1. Unread <= STDIN_BUFSIZE /\ Unread \in Nat
      BY <1>2 DEF RInv, CharsOnce, Unread
    <3>. QED BY <1>1, <1>2, <1>5, <3>1, StdinAssumption DEF Unread
  <2>. QED BY <1>1, <1>11, <2>1 DEF RInv, CharsOnce, Out
<1>. QED BY <1>9, <1>12, <1>13 DEF RInv

\* The character that is typed goes to the end of the line, or to its head, in
\* the place of the oldest one.
LEMMA KeyChars == ASSUME SInv, RInv, SInv', Key PROVE RInv'
<1>. USE StdinAssumption
<1>. DEFINE c == typed + 1
            N == STDIN_BUFSIZE
<1>1. /\ typed' = c
      /\ stdin_buffer' = [stdin_buffer EXCEPT ![p_wpos % N] = c]
      /\ p_wpos' = p_wpos + Advance
      /\ overwritten' = IF Full THEN overwritten \cup {stdin_buffer[p_wpos % N]}
                        ELSE overwritten
      /\ UNCHANGED <<p_rpos, taken>>
  BY DEF Key
<1>2. /\ p_wpos \in Nat /\ p_rpos \in 0 .. p_wpos /\ p_wpos <= typed /\ typed \in Nat
      /\ stdin_buffer \in [Slot -> Nat]
      /\ Out \in Seq(Nat) /\ Len(Out) = p_wpos /\ IsInjective(Out)
      /\ ToSet(Out) \subseteq 1 .. typed /\ overwritten \subseteq 1 .. typed
      /\ \A k \in 1 .. p_wpos :
           Out[k] = IF k <= p_rpos THEN taken[k]
                    ELSE stdin_buffer[(k - 1) % N]
  BY OutIs
<1>3. taken \in Seq(Nat) /\ Len(taken) = p_rpos /\ taken \in Seq(1 .. typed)
  BY <1>2 DEF RInv
<1>4. /\ ToSet(Out) \cup overwritten = 1 .. typed
      /\ ToSet(Out) \cap overwritten = {}
      /\ p_wpos - p_rpos <= N
      /\ overwritten = {} => \A i \in DOMAIN Out : Out[i] = i
  BY DEF RInv, CharsOnce, Out, Unread
<1>6. /\ Out' \in Seq(Nat) /\ Len(Out') = p_wpos'
      /\ \A k \in 1 .. p_wpos' :
           Out'[k] = IF k <= p_rpos' THEN taken'[k]
                     ELSE stdin_buffer'[(k - 1) % STDIN_BUFSIZE]
  <2>1. IsTaken(taken', p_rpos')
    BY <1>1, <1>3 DEF IsTaken
  <2>. QED BY <2>1, OutNext
<1>7. /\ Out' \in Seq(Nat) /\ Len(Out') = p_wpos'
      /\ \A k \in 1 .. p_wpos' :
           Out'[k] = IF k <= p_rpos THEN taken[k] ELSE stdin_buffer'[(k - 1) % N]
  BY <1>1, <1>6
<1>8. taken' \in Seq(1 .. typed') /\ Len(taken') = p_rpos'
  <2>1. \A k \in 1 .. Len(taken) : taken[k] \in 1 .. c
    <3>1. \A k \in 1 .. Len(taken) : taken[k] \in 1 .. typed
      <4>1. taken \in Seq(1 .. typed)
        BY <1>3
      <4>. QED BY <4>1, OfType
    <3>2. \A x \in 1 .. typed : x \in 1 .. c
      BY <1>2
    <3>. QED BY <3>1, <3>2
  <2>2. taken \in Seq(1 .. c)
    BY <1>3, <2>1, Retype
  <2>. QED BY <1>1, <1>3, <2>2
<1>9. c \notin 1 .. typed /\ 1 .. c = (1 .. typed) \cup {c} /\ c \in Nat
  BY <1>2
<1>10. ASSUME NEW k \in 1 .. p_wpos, k > p_rpos, k - 1 > p_rpos \/ ~Full
       PROVE  stdin_buffer'[(k - 1) % N] = stdin_buffer[(k - 1) % N]
  <2>1. k - 1 \in Nat /\ k - 1 < p_wpos
    BY <1>2, <1>10
  <2>2. p_wpos - (k - 1) < N
    BY <1>2, <1>4, <1>10 DEF Full
  <2>3. (k - 1) % N # p_wpos % N
    BY <1>2, <2>1, <2>2, SlotsApart
  <2>4. (k - 1) % N \in Slot
    BY <2>1, SlotOf
  <2>. QED BY <1>1, <1>2, <2>3, <2>4
<1>11. stdin_buffer'[p_wpos % N] = c
  <2>1. p_wpos % N \in Slot
    BY <1>2, SlotOf
  <2>. QED BY <1>1, <1>2, <2>1
<1>. HIDE DEF c, N
<1>12. CASE ~Full
  <2>1. p_wpos' = p_wpos + 1 /\ overwritten' = overwritten
    BY <1>1, <1>12 DEF Advance
  <2>2. ASSUME NEW k \in 1 .. p_wpos PROVE Out'[k] = Out[k]
    <3>1. k \in 1 .. p_wpos'
      BY <1>2, <2>1
    <3>2. CASE k <= p_rpos
      BY <1>2, <1>7, <3>1, <3>2
    <3>3. CASE ~(k <= p_rpos)
      <4>1. stdin_buffer'[(k - 1) % N] = stdin_buffer[(k - 1) % N]
        BY <1>2, <1>10, <1>12, <3>3
      <4>. QED BY <1>2, <1>7, <3>1, <3>3, <4>1
    <3>. QED BY <3>2, <3>3
  <2>3. Out'[p_wpos + 1] = c
    <3>1. p_wpos + 1 \in 1 .. p_wpos' /\ ~(p_wpos + 1 <= p_rpos) /\ (p_wpos + 1) - 1 = p_wpos
      BY <1>2, <2>1
    <3>. QED BY <1>7, <1>11, <3>1
  <2>4. Out' = Append(Out, c)
    <3>1. /\ Append(Out, c) \in Seq(Nat) /\ Len(Append(Out, c)) = p_wpos + 1
          /\ Append(Out, c)[p_wpos + 1] = c
          /\ \A k \in 1 .. p_wpos : Append(Out, c)[k] = Out[k]
      BY <1>2, <1>9
    <3>2. \A k \in 1 .. p_wpos + 1 : k \in 1 .. p_wpos \/ k = p_wpos + 1
      BY <1>2
    <3>3. Len(Out') = p_wpos + 1 /\ Out' \in Seq(Nat)
      BY <1>7, <2>1
    <3>4. \A k \in 1 .. p_wpos + 1 : Out'[k] = Append(Out, c)[k]
      BY <2>2, <2>3, <3>1, <3>2
    <3>. QED BY <3>1, <3>3, <3>4, SameElements
  <2>5. IsInjective(Out') /\ ToSet(Out') = ToSet(Out) \cup {c}
    <3>1. c \notin ToSet(Out)
      BY <1>2, <1>9
    <3>2. IsInjective(Append(Out, c)) /\ ToSet(Append(Out, c)) = ToSet(Out) \cup {c}
      BY <1>2, <1>9, <3>1, AppendNew
    <3>. QED BY <2>4, <3>2
  <2>6. Unread' <= STDIN_BUFSIZE
    <3>1. p_wpos + 1 - p_rpos <= N
      BY <1>2, <1>4, <1>12 DEF Full, N
    <3>2. Unread' = p_wpos + 1 - p_rpos
      BY <1>1, <1>2, <2>1 DEF Unread
    <3>. QED BY <3>1, <3>2 DEF N
  <2>7. overwritten' = {} => \A i \in DOMAIN Out' : Out'[i] = i
    <3>. SUFFICES ASSUME overwritten = {} PROVE \A i \in 1 .. p_wpos + 1 : Out'[i] = i
      BY <1>7, <2>1
    <3>1. \A i \in 1 .. p_wpos : Out[i] = i
      <4>1. \A i \in DOMAIN Out : Out[i] = i
        BY <1>4
      <4>2. DOMAIN Out = 1 .. Len(Out) /\ Len(Out) = p_wpos
        BY <1>2
      <4>. QED BY <4>1, <4>2
    <3>2. ToSet(Out) = 1 .. typed
      BY <1>4
    <3>3. p_wpos = typed
      <4>1. typed > 0 => typed \in 1 .. p_wpos
        <5>1. typed > 0 => typed \in 1 .. typed
          BY <1>2
        <5>2. typed > 0 => \E i \in 1 .. p_wpos : Out[i] = typed
          BY <1>2, <3>2, <5>1, InToSet
        <5>. QED BY <3>1, <5>2
      <4>. QED BY <1>2, <4>1
    <3>4. \A k \in 1 .. p_wpos + 1 : k \in 1 .. p_wpos \/ k = p_wpos + 1
      BY <1>2
    <3>. QED BY <2>2, <2>3, <3>1, <3>3, <3>4 DEF c
  <2>8. CharsOnce'
    <3>1. ToSet(Out') \cup overwritten' = 1 .. typed' /\ ToSet(Out') \cap overwritten' = {}
      BY <1>1, <1>2, <1>4, <1>9, <2>1, <2>5
    <3>. QED BY <2>5, <2>6, <2>7, <3>1 DEF CharsOnce, Out
  <2>. QED BY <1>8, <2>8 DEF RInv
<1>13. CASE Full
  <2>1. p_wpos' = p_wpos /\ overwritten' = overwritten \cup {stdin_buffer[p_wpos % N]}
    BY <1>1, <1>2, <1>13 DEF Advance
  <2>2. PICK i \in 1 .. p_wpos : i = p_rpos + 1
    BY <1>2, <1>13 DEF Full
  <2>3. (i - 1) % N = p_wpos % N
    <3>1. p_rpos \in Nat /\ p_wpos = p_rpos + N /\ i - 1 = p_rpos /\ N \in Nat \ {0}
      BY <1>2, <1>13, <2>2 DEF Full, N
    <3>2. (p_rpos + N) % N = p_rpos % N
      BY <3>1, SlotAgain
    <3>. QED BY <3>1, <3>2
  <2>4. ~(i <= p_rpos)
    BY <1>2, <2>2
  <2>5. Out[i] = stdin_buffer[p_wpos % N] /\ Out'[i] = c
    BY <1>2, <1>7, <1>11, <2>1, <2>3, <2>4
  <2>6. \A k \in 1 .. p_wpos : k # i => Out'[k] = Out[k]
    <3>. SUFFICES ASSUME NEW k \in 1 .. p_wpos, k # i PROVE Out'[k] = Out[k]
      OBVIOUS
    <3>1. CASE k <= p_rpos
      BY <1>2, <1>7, <2>1, <3>1
    <3>2. CASE ~(k <= p_rpos)
      <4>1. k > p_rpos /\ k - 1 > p_rpos
        BY <1>2, <2>2, <3>2
      <4>2. stdin_buffer'[(k - 1) % N] = stdin_buffer[(k - 1) % N]
        BY <1>10, <4>1
      <4>. QED BY <1>2, <1>7, <2>1, <3>2, <4>2
    <3>. QED BY <3>1, <3>2
  <2>7. IsInjective(Out') /\ ToSet(Out') = (ToSet(Out) \ {Out[i]}) \cup {c}
    <3>1. c \notin ToSet(Out)
      BY <1>2, <1>9
    <3>2. Out' \in Seq(Nat) /\ Len(Out') = Len(Out) /\ i \in 1 .. Len(Out)
      BY <1>2, <1>7, <2>1
    <3>3. \A k \in 1 .. Len(Out) : k # i => Out'[k] = Out[k]
      BY <1>2, <2>6
    <3>4. PICK o \in Seq(Nat) : o = Out
      BY <1>2
    <3>5. PICK q \in Seq(Nat) : q = Out'
      BY <3>2
    <3>6. /\ IsInjective(o) /\ i \in 1 .. Len(o) /\ c \notin ToSet(o) /\ Len(q) = Len(o)
          /\ q[i] = c /\ \A k \in 1 .. Len(o) : k # i => q[k] = o[k]
      BY <1>2, <2>5, <3>1, <3>2, <3>3, <3>4, <3>5
    <3>7. IsInjective(q) /\ ToSet(q) = (ToSet(o) \ {o[i]}) \cup {c}
      BY <3>6, ReplaceNew
    <3>. QED BY <3>4, <3>5, <3>7
  <2>8. Out[i] \in ToSet(Out)
    BY <1>2, InToSet
  <2>9. ToSet(Out') \cup overwritten' = 1 .. typed' /\ ToSet(Out') \cap overwritten' = {}
    BY <1>1, <1>2, <1>4, <1>9, <2>1, <2>5, <2>7, <2>8
  <2>10. overwritten' # {} /\ Unread' <= STDIN_BUFSIZE
    BY <1>1, <1>4, <2>1 DEF Unread, N
  <2>11. CharsOnce'
    BY <2>7, <2>9, <2>10 DEF CharsOnce, Out
  <2>. QED BY <1>8, <2>11 DEF RInv
<1>. QED BY <1>12, <1>13

\* A step that reads, or one that types, or one that does neither.
LEMMA NextRInv == SInv /\ RInv /\ [Next]_vars => RInv'
<1>. SUFFICES ASSUME SInv, RInv, [Next]_vars PROVE RInv'
  OBVIOUS
<1>1. SInv' /\ Unread \in Nat
  BY NextSInv DEF SInv, TypeOK, Unread
<1>2. ASSUME NEW p \in Proc, NEW n \in Nat, NEW rest, ReadLoop(p, n, rest) PROVE RInv'
  <2>1. CASE Unread >= n /\ Take(n)
    BY <1>1, <2>1, TakeStep
  <2>2. CASE Take(Unread)
    BY <1>1, <2>2, TakeStep
  <2>. QED BY <1>2, <2>1, <2>2 DEF ReadLoop, ReadAll, ReadSome
<1>3. ASSUME NEW p \in Proc, NEW n \in 1 .. MaxRead, Read(p, n) PROVE RInv'
  <2>1. n \in Nat /\ ReadLoop(p, n, wait_queue)
    BY <1>3, StdinAssumption DEF Read
  <2>. QED BY <1>2, <2>1
<1>4. ASSUME NEW p \in Proc, ReadAgain(p) PROVE RInv'
  <2>1. want[p] \in Nat
    BY StdinAssumption DEF SInv, TypeOK
  <2>2. CASE wakeup_flags[p] = "WT_KBD"
    <3>1. PICK rest : ReadLoop(p, want[p], rest)
      BY <1>4, <2>2 DEF ReadAgain
    <3>. QED BY <1>2, <2>1, <3>1
  <2>3. CASE wakeup_flags[p] # "WT_KBD"
    <3>1. UNCHANGED <<ring, history>>
      BY <1>4, <2>3 DEF ReadAgain
    <3>. QED BY <3>1, RFrame
  <2>. QED BY <2>2, <2>3
<1>5. CASE Key
  BY <1>1, <1>5, KeyChars
<1>6. CASE IdleLoop \/ Schedule \/ Tick \/ TickEnd \/ NoKey \/ WakeReader
  <2>1. UNCHANGED <<ring, history>>
    BY <1>6 DEF IdleLoop, Schedule, Tick, TickEnd, NoKey, WakeReader
  <2>. QED BY <2>1, RFrame
<1>7. ASSUME NEW p \in Proc, NEW q \in Proc, TrapTail(p) \/ Kill(p, q) PROVE RInv'
  <2>1. UNCHANGED <<ring, history>>
    BY <1>7 DEF TrapTail, Kill
  <2>. QED BY <2>1, RFrame
<1>8. CASE UNCHANGED vars
  <2>1. UNCHANGED <<ring, history>>
    BY <1>8 DEF vars
  <2>. QED BY <2>1, RFrame
<1>. QED BY <1>3, <1>4, <1>5, <1>6, <1>7, <1>8 DEF Next, KernelStep, Interrupt

\* Every character is read once, by one reader, waits in the ring, or was
\* overwritten in a full one (dev_stdin.c:19-66), whatever the size of the ring.
THEOREM EveryCharacterOnce == Spec => []CharsOnce
<1>1. Init => SInv /\ RInv
  BY InitSInv, InitRInv
<1>2. SInv /\ RInv /\ [Next]_vars => SInv' /\ RInv'
  BY NextSInv, NextRInv
<1>3. RInv => CharsOnce
  BY DEF RInv
<1>. QED BY <1>1, <1>2, <1>3, PTL DEF Spec
=============================================================================
