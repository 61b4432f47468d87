---------------------------- MODULE ProcTreeProofs ----------------------------
(***************************************************************************)
(* get_pid gives no pid twice, for every MAX_PID and MAX_PROCESS, whatever *)
(* order processes are made and reaped in, and ProcTree, which adds the    *)
(* process tree and the callers, uses it as GetPid says. The pointers of   *)
(* the tree make lists of the children, which every operation repairs, and *)
(* the tree they make behaves as FamilySpec says.                          *)
(***************************************************************************)
EXTENDS ProcTree, Integers, TLAPS, FiniteSetTheorems, WellFoundedInduction

-----------------------------------------------------------------------------
(* What the sequence operators of the model return.                        *)

\* An element of the set of a sequence has a place in it.
LEMMA InToSet ==
  ASSUME NEW S, NEW q \in Seq(S), NEW e
  PROVE  e \in ToSet(q) <=> \E i \in 1 .. Len(q) : q[i] = e
BY DEF ToSet

\* The head of a queue without duplicates leaves it for good.
LEMMA TailInjective ==
  ASSUME NEW S, NEW q \in Seq(S), q # <<>>, IsInjective(q)
  PROVE  /\ Head(q) \in S /\ Head(q) \in ToSet(q)
         /\ Tail(q) \in Seq(S)
         /\ IsInjective(Tail(q))
         /\ ToSet(Tail(q)) = ToSet(q) \ {Head(q)}
<1>1. Head(q) \in S /\ Head(q) = q[1] /\ Len(q) \in Nat \ {0} /\ Tail(q) \in Seq(S)
  OBVIOUS
<1>2. Len(Tail(q)) = Len(q) - 1 /\ \A i \in 1 .. Len(q) - 1 : Tail(q)[i] = q[i + 1]
  OBVIOUS
<1>3. IsInjective(Tail(q))
  BY <1>1, <1>2 DEF IsInjective
<1>4. ToSet(Tail(q)) \subseteq ToSet(q) \ {Head(q)}
  BY <1>1, <1>2 DEF IsInjective, ToSet
<1>5. ASSUME NEW x \in ToSet(q) \ {Head(q)} PROVE x \in ToSet(Tail(q))
  <2>1. PICK i \in 1 .. Len(q) : q[i] = x
    BY DEF ToSet
  <2>2. i # 1
    BY <2>1, <1>1
  <2>3. i - 1 \in 1 .. Len(Tail(q)) /\ Tail(q)[i - 1] = x
    BY <1>1, <1>2, <2>1, <2>2
  <2>. QED BY <1>1, <2>3, InToSet
<1>. QED BY <1>1, <1>3, <1>4, <1>5 DEF ToSet

\* The elements of a concatenation.
LEMMA ConcatElements ==
  ASSUME NEW S, NEW a \in Seq(S), NEW b \in Seq(S)
  PROVE  /\ a \o b \in Seq(S)
         /\ Len(a \o b) = Len(a) + Len(b)
         /\ \A j \in 1 .. Len(a) + Len(b) :
              (a \o b)[j] = IF j <= Len(a) THEN a[j] ELSE b[j - Len(a)]
OBVIOUS

\* RemoveAt closes the gap at i and leaves the order of the others.
LEMMA RemoveAtElements ==
  ASSUME NEW S, NEW q \in Seq(S), NEW i \in 1 .. Len(q)
  PROVE  /\ RemoveAt(q, i) \in Seq(S)
         /\ Len(RemoveAt(q, i)) = Len(q) - 1
         /\ \A j \in 1 .. Len(q) - 1 :
              RemoveAt(q, i)[j] = IF j < i THEN q[j] ELSE q[j + 1]
<1>. DEFINE a == SubSeq(q, 1, i - 1)
            b == SubSeq(q, i + 1, Len(q))
<1>1. a \in Seq(S) /\ Len(a) = i - 1 /\ \A j \in 1 .. i - 1 : a[j] = q[j]
  OBVIOUS
<1>2. /\ b \in Seq(S) /\ Len(b) = Len(q) - i
      /\ \A j \in 1 .. Len(q) - i : b[j] = q[j + i]
  OBVIOUS
<1>. HIDE DEF a, b
<1>3. /\ a \o b \in Seq(S) /\ Len(a \o b) = Len(a) + Len(b)
      /\ \A j \in 1 .. Len(a) + Len(b) :
           (a \o b)[j] = IF j <= Len(a) THEN a[j] ELSE b[j - Len(a)]
  BY <1>1, <1>2, ConcatElements
<1>4. ASSUME NEW j \in 1 .. Len(q) - 1
      PROVE  (a \o b)[j] = IF j < i THEN q[j] ELSE q[j + 1]
  <2>1. CASE j < i
    BY <1>1, <1>2, <1>3, <2>1
  <2>2. CASE ~ (j < i)
    <3>1. j - Len(a) \in 1 .. Len(q) - i /\ (j - Len(a)) + i = j + 1
      BY <1>1, <2>2
    <3>2. (a \o b)[j] = b[j - Len(a)]
      BY <1>1, <1>2, <1>3, <2>2
    <3>3. b[j - Len(a)] = q[j + 1]
      BY <1>2, <3>1
    <3>. QED BY <2>2, <3>2, <3>3
  <2>. QED BY <2>1, <2>2
<1>5. RemoveAt(q, i) = a \o b
  BY DEF RemoveAt, a, b
<1>6. Len(a \o b) = Len(q) - 1
  BY <1>1, <1>2, <1>3
<1>. QED BY <1>3, <1>4, <1>5, <1>6

\* What leaves a queue without duplicates is gone, and only that.
LEMMA RemoveAtExact ==
  ASSUME NEW S, NEW q \in Seq(S), NEW i \in 1 .. Len(q), IsInjective(q)
  PROVE  /\ RemoveAt(q, i) \in Seq(S)
         /\ IsInjective(RemoveAt(q, i))
         /\ ToSet(RemoveAt(q, i)) = ToSet(q) \ {q[i]}
<1>. DEFINE r == RemoveAt(q, i)
<1>1. i \in 1 .. Len(q) /\ Len(q) \in Nat
  OBVIOUS
<1>2. /\ r \in Seq(S) /\ Len(r) = Len(q) - 1
      /\ \A j \in 1 .. Len(q) - 1 : r[j] = IF j < i THEN q[j] ELSE q[j + 1]
  BY RemoveAtElements
<1>. HIDE DEF r
<1>3. IsInjective(r)
  <2>. SUFFICES ASSUME NEW j \in 1 .. Len(q) - 1, NEW k \in 1 .. Len(q) - 1, r[j] = r[k]
                PROVE  j = k
    BY <1>1, <1>2 DEF IsInjective
  <2>. DEFINE from(m) == IF m < i THEN m ELSE m + 1
  <2>1. ASSUME NEW m \in 1 .. Len(q) - 1
        PROVE  from(m) \in 1 .. Len(q) /\ r[m] = q[from(m)]
    <3>1. m \in 1 .. Len(q) /\ m + 1 \in 1 .. Len(q)
      BY <1>1
    <3>2. r[m] = IF m < i THEN q[m] ELSE q[m + 1]
      BY <1>2
    <3>. QED BY <3>1, <3>2
  <2>2. from(j) = from(k) => j = k
    BY <1>1
  <2>. HIDE DEF from
  <2>3. \A m, n \in 1 .. Len(q) : q[m] = q[n] => m = n
    BY DEF IsInjective
  <2>. QED BY <2>1, <2>2, <2>3
<1>4. ToSet(r) \subseteq ToSet(q) \ {q[i]}
  <2>. SUFFICES ASSUME NEW j \in 1 .. Len(r) PROVE r[j] \in ToSet(q) /\ r[j] # q[i]
    BY <1>2 DEF ToSet
  <2>1. PICK k \in 1 .. Len(q) : r[j] = q[k] /\ k # i
    BY <1>1, <1>2
  <2>. QED BY <1>1, <2>1 DEF IsInjective, ToSet
<1>5. ASSUME NEW x \in ToSet(q) \ {q[i]} PROVE x \in ToSet(r)
  <2>1. PICK k \in 1 .. Len(q) : q[k] = x
    BY DEF ToSet
  <2>2. k # i
    BY <1>1, <2>1
  <2>3. PICK j \in 1 .. Len(r) : r[j] = x
    <3>1. CASE k < i
      BY <1>1, <1>2, <2>1, <3>1
    <3>2. CASE k > i
      <4>1. k - 1 \in 1 .. Len(r) /\ ~(k - 1 < i) /\ (k - 1) + 1 = k
        BY <1>1, <1>2, <3>2
      <4>2. r[k - 1] = x
        BY <1>2, <2>1, <4>1
      <4>. QED BY <4>1, <4>2
    <3>. QED BY <1>1, <2>2, <3>1, <3>2
  <2>. QED BY <1>2, <2>3, InToSet
<1>. QED BY <1>2, <1>3, <1>4, <1>5 DEF r

\* Nothing is removed of what is not there.
LEMMA RemoveFirstAbsent ==
  ASSUME NEW S, NEW q \in Seq(S), NEW e, e \notin ToSet(q)
  PROVE  RemoveFirst(q, e) = q
BY DEF RemoveFirst, ToSet

\* ... and what is there is removed once.
LEMMA RemoveFirstIndex ==
  ASSUME NEW S, NEW q \in Seq(S), IsInjective(q), NEW e \in ToSet(q)
  PROVE  \E i \in 1 .. Len(q) : q[i] = e /\ RemoveFirst(q, e) = RemoveAt(q, i)
<1>. DEFINE I == {i \in 1 .. Len(q) : q[i] = e}
<1>1. PICK k \in 1 .. Len(q) : q[k] = e
  BY InToSet
<1>2. I = {k}
  BY <1>1 DEF IsInjective
<1>3. (CHOOSE x \in I : \A y \in I : x =< y) = k
  BY <1>1, <1>2
<1>4. SelectInSeq(q, LAMBDA v : v = e) = k
  BY <1>2, <1>3 DEF SelectInSeq, Min
<1>. QED BY <1>1, <1>4 DEF RemoveFirst

\* A queue without duplicates, after a member that may have left it leaves it.
LEMMA RemoveFirstExact ==
  ASSUME NEW S, NEW q \in Seq(S), NEW e, IsInjective(q)
  PROVE  /\ RemoveFirst(q, e) \in Seq(S)
         /\ IsInjective(RemoveFirst(q, e))
         /\ ToSet(RemoveFirst(q, e)) = ToSet(q) \ {e}
<1>1. CASE e \in ToSet(q)
  <2>1. PICK i \in 1 .. Len(q) : q[i] = e /\ RemoveFirst(q, e) = RemoveAt(q, i)
    BY <1>1, RemoveFirstIndex
  <2>. QED BY <2>1, RemoveAtExact
<1>2. CASE e \notin ToSet(q)
  BY <1>2, RemoveFirstAbsent
<1>. QED BY <1>1, <1>2

\* A newcomer is put in front.
LEMMA ConsNew ==
  ASSUME NEW S, NEW q \in Seq(S), NEW e \in S, IsInjective(q), e \notin ToSet(q)
  PROVE  /\ <<e>> \o q \in Seq(S) /\ Len(<<e>> \o q) = Len(q) + 1
         /\ IsInjective(<<e>> \o q)
         /\ ToSet(<<e>> \o q) = ToSet(q) \cup {e}
         /\ \A j \in 1 .. Len(q) + 1 : (<<e>> \o q)[j] = IF j = 1 THEN e ELSE q[j - 1]
<1>. DEFINE r == <<e>> \o q
<1>1. /\ Len(q) \in Nat /\ r \in Seq(S) /\ Len(r) = Len(q) + 1
      /\ \A j \in 1 .. Len(q) + 1 : r[j] = IF j = 1 THEN e ELSE q[j - 1]
  OBVIOUS
<1>. HIDE DEF r
<1>2. \A j \in 1 .. Len(q) : q[j] # e /\ q[j] \in ToSet(q)
  BY InToSet
<1>3. IsInjective(r)
  <2>. SUFFICES ASSUME NEW i \in 1 .. Len(q) + 1, NEW j \in 1 .. Len(q) + 1,
                       r[i] = r[j], i < j
                PROVE  FALSE
    BY <1>1 DEF IsInjective
  <2>1. j - 1 \in 1 .. Len(q) /\ r[j] = q[j - 1]
    BY <1>1
  <2>2. CASE i = 1
    BY <1>1, <1>2, <2>1, <2>2
  <2>3. CASE i # 1
    <3>1. i - 1 \in 1 .. Len(q) /\ r[i] = q[i - 1] /\ i - 1 # j - 1
      BY <1>1, <2>3
    <3>. QED BY <2>1, <3>1 DEF IsInjective
  <2>. QED BY <2>2, <2>3
<1>4. ToSet(r) \subseteq ToSet(q) \cup {e}
  <2>. SUFFICES ASSUME NEW j \in 1 .. Len(r) PROVE r[j] \in ToSet(q) \cup {e}
    BY <1>1 DEF ToSet
  <2>1. CASE j = 1
    BY <1>1, <2>1
  <2>2. CASE j # 1
    <3>1. j - 1 \in 1 .. Len(q) /\ r[j] = q[j - 1]
      BY <1>1, <2>2
    <3>. QED BY <1>2, <3>1
  <2>. QED BY <2>1, <2>2
<1>5. ASSUME NEW x \in ToSet(q) PROVE x \in ToSet(r)
  <2>1. PICK k \in 1 .. Len(q) : q[k] = x
    BY DEF ToSet
  <2>2. k + 1 \in 1 .. Len(r) /\ r[k + 1] = x
    BY <1>1, <2>1
  <2>. QED BY <1>1, <2>2, InToSet
<1>6. e \in ToSet(r)
  <2>1. 1 \in 1 .. Len(r) /\ r[1] = e
    BY <1>1
  <2>. QED BY <1>1, <2>1, InToSet
<1>. QED BY <1>1, <1>3, <1>4, <1>5, <1>6 DEF r

-----------------------------------------------------------------------------

\* The elements of the process list are its pids.
LEMMA UsedElements ==
  ASSUME NEW q \in Seq(Pid), NEW p
  PROVE  p \in ToSet(q) <=> \E i \in 1 .. Len(q) : q[i] = p
BY InToSet

\* The invariant holds before the first process is made.
LEMMA PidInit == Init => PidInv
<1>. SUFFICES ASSUME Init PROVE PidInv
  OBVIOUS
<1>1. TypeOK /\ nr_process <= MAX_PROCESS
  BY PidAssumption DEF Init, TypeOK, Scanned
<1>2. PidsUnique /\ SafeWindow /\ ScanSound /\ InitprocFirst
  BY DEF Init, PidsUnique, SafeWindow, ScanSound, InitprocFirst, IsInjective, Used, ToSet
<1>. QED BY <1>1, <1>2 DEF PidInv

\* get_pid takes the next pid at once, or begins a scan that has passed nothing.
LEMMA EnterStep == ASSUME PidInv, Enter PROVE PidInv'
<1>. USE PidAssumption DEF PidInv, TypeOK, Pid, Scanned, Enter, NotSafe, NextPid
<1>1. TypeOK' /\ nr_process' <= MAX_PROCESS /\ PidsUnique'
  BY DEF PidsUnique, IsInjective
<1>2. SafeWindow'
  BY DEF SafeWindow
<1>3. InitprocFirst'
  BY DEF InitprocFirst, InitprocPid, Used, ToSet
<1>4. last_pid' \in Pid /\ last_pid' < next_safe' /\ nr_process' < MAX_PROCESS
  BY DEF Pid
<1>5. ASSUME NEW i \in 1 .. le' - 1
      PROVE  /\ proc_list[i] # last_pid'
             /\ ~(last_pid' < proc_list[i] /\ proc_list[i] < next_safe')
  <2>1. /\ i \in 1 .. Len(proc_list) /\ proc_list[i] \in Pid
        /\ last_pid' = last_pid + 1 /\ last_pid + 1 < next_safe /\ next_safe' = next_safe
    BY <1>5
  <2>2. ~(last_pid < proc_list[i] /\ proc_list[i] < next_safe)
    BY <2>1, UsedElements DEF SafeWindow, Used
  <2>. QED BY <2>1, <2>2
<1>6. ScanSound'
  BY <1>4, <1>5 DEF ScanSound
<1>. QED BY <1>1, <1>2, <1>3, <1>6

\* A collision moves the candidate within the window, or starts over.
LEMMA CollideStep == ASSUME PidInv, Collide PROVE PidInv'
<1>. USE PidAssumption DEF PidInv, TypeOK, Pid, Scanned, Scanning, Collide, NotSafe, NextPid
<1>1. le \in 1 .. Len(proc_list) /\ proc_list # <<>>
  OBVIOUS
<1>2. TypeOK' /\ nr_process' <= MAX_PROCESS /\ PidsUnique'
  BY <1>1 DEF PidsUnique, IsInjective, ScanSound
<1>3. SafeWindow' /\ InitprocFirst'
  BY <1>1 DEF SafeWindow, InitprocFirst, Used
<1>4. CASE last_pid + 1 >= next_safe
  BY <1>1, <1>2, <1>3, <1>4 DEF ScanSound
<1>5. CASE last_pid + 1 < next_safe
  <2>1. /\ last_pid' = last_pid + 1 /\ le' = le + 1 /\ UNCHANGED <<proc_list, next_safe, nr_process>>
        /\ last_pid' \in Pid /\ last_pid' < next_safe
    BY <1>1, <1>5
  <2>2. ASSUME NEW i \in 1 .. le
        PROVE  /\ proc_list[i] # last_pid + 1
               /\ ~(last_pid + 1 < proc_list[i] /\ proc_list[i] < next_safe)
    <3>1. proc_list[i] \in Nat
      BY <1>1
    <3>2. CASE i = le
      BY <3>1, <3>2
    <3>3. CASE i # le
      <4>1. i \in 1 .. le - 1 /\ le # 0
        BY <1>1, <3>3
      <4>2. proc_list[i] # last_pid /\ ~(last_pid < proc_list[i] /\ proc_list[i] < next_safe)
        BY <4>1 DEF ScanSound
      <4>3. proc_list[i] # last_pid + 1
        BY <1>5, <3>1, <4>2
      <4>. QED BY <3>1, <4>2, <4>3
    <3>. QED BY <3>2, <3>3
  <2>3. ScanSound'
    BY <1>1, <2>1, <2>2 DEF ScanSound
  <2>. QED BY <1>2, <1>3, <2>3
<1>. QED BY <1>4, <1>5

\* An element that is passed bounds the window from above where it must.
LEMMA PassStep == ASSUME PidInv, Pass PROVE PidInv'
<1>. USE PidAssumption DEF PidInv, TypeOK, Pid, Scanned, Scanning, Pass
<1>1. le \in 1 .. Len(proc_list) /\ proc_list # <<>> /\ proc_list[le] \in Pid
  OBVIOUS
<1>2. TypeOK' /\ nr_process' <= MAX_PROCESS /\ PidsUnique'
  BY <1>1 DEF PidsUnique, IsInjective, ScanSound
<1>3. SafeWindow' /\ InitprocFirst'
  BY <1>1 DEF SafeWindow, InitprocFirst, Used
<1>4. ScanSound'
  BY <1>1 DEF ScanSound
<1>. QED BY <1>2, <1>3, <1>4

\* After the scan nobody on the list has the candidate.
LEMMA CandidateFree ==
  ASSUME PidInv, le = Scanned
  PROVE  /\ last_pid \in Pid /\ last_pid \notin Used
         /\ \A p \in Used : ~(last_pid < p /\ p < next_safe)
<1>1. le # 0 /\ le - 1 = Len(proc_list)
  BY DEF PidInv, TypeOK, Scanned
<1>. QED BY <1>1, UsedElements DEF PidInv, TypeOK, ScanSound, Used

\* The list and its pids when the new process is linked in.
LEMMA ReturnLinks ==
  ASSUME PidInv, Return
  PROVE  /\ proc_list' \in Seq(Pid) /\ Len(proc_list') = Len(proc_list) + 1
         /\ Used' = Used \cup {last_pid}
         /\ IsInjective(proc_list')
<1>. DEFINE q == proc_list
            r == <<last_pid>> \o q
<1>1. /\ q \in Seq(Pid) /\ last_pid \in Pid /\ r = proc_list' /\ IsInjective(q)
      /\ \A i \in 1 .. Len(q) : q[i] # last_pid
  BY CandidateFree, UsedElements DEF PidInv, TypeOK, Return, PidsUnique, Used
<1>2. <<last_pid>> \in Seq(Pid) /\ Len(<<last_pid>>) = 1 /\ <<last_pid>>[1] = last_pid
  BY <1>1
<1>3. /\ r \in Seq(Pid) /\ Len(r) = Len(q) + 1
      /\ \A j \in 1 .. Len(q) + 1 : r[j] = IF j <= 1 THEN last_pid ELSE q[j - 1]
  <2>. HIDE DEF q
  <2>1. /\ r \in Seq(Pid) /\ Len(r) = 1 + Len(q)
        /\ \A j \in 1 .. 1 + Len(q) : r[j] = IF j <= 1 THEN <<last_pid>>[j] ELSE q[j - 1]
    BY <1>1, <1>2, ConcatElements
  <2>. QED BY <1>1, <1>2, <2>1
<1>. HIDE DEF q, r
<1>4. r[1] = last_pid /\ \A i \in 1 .. Len(q) : r[i + 1] = q[i]
  BY <1>1, <1>3
<1>5. ToSet(r) = ToSet(q) \cup {last_pid}
  <2>1. ASSUME NEW p PROVE p \in ToSet(r) <=> p \in ToSet(q) \/ p = last_pid
    <3>1. ASSUME NEW i \in 1 .. Len(r), r[i] = p PROVE p = last_pid \/ \E j \in 1 .. Len(q) : q[j] = p
      BY <1>1, <1>3, <3>1
    <3>2. 1 \in 1 .. Len(r) /\ \A i \in 1 .. Len(q) : i + 1 \in 1 .. Len(r)
      BY <1>1, <1>3
    <3>. QED BY <1>1, <1>3, <1>4, <3>1, <3>2, UsedElements
  <2>. QED BY <2>1
<1>6. IsInjective(r)
  <2>1. ASSUME NEW i \in 1 .. Len(r), NEW j \in 1 .. Len(r), r[i] = r[j] PROVE i = j
    <3>1. /\ i # 1 => i - 1 \in 1 .. Len(q) /\ r[i] = q[i - 1]
          /\ j # 1 => j - 1 \in 1 .. Len(q) /\ r[j] = q[j - 1]
      BY <1>1, <1>3
    <3>2. CASE i # 1 /\ j # 1
      <4>1. i - 1 = j - 1
        BY <1>1, <2>1, <3>1, <3>2 DEF IsInjective
      <4>. QED BY <4>1
    <3>3. CASE i = 1 \/ j = 1
      BY <1>1, <1>4, <2>1, <3>1, <3>3
    <3>. QED BY <3>2, <3>3
  <2>. QED BY <1>1, <1>3, <2>1 DEF IsInjective
<1>. QED BY <1>1, <1>3, <1>5, <1>6 DEF Used, q

\* The return of get_pid with an identifier outside the table, and the entry of
\* the process into the table, keep the invariant (proc.c:199-205, 475).
LEMMA ReturnStep == ASSUME PidInv, Return PROVE PidInv'
<1>1. /\ Used' = Used \cup {last_pid} /\ proc_list' \in Seq(Pid)
      /\ Len(proc_list') = Len(proc_list) + 1 /\ IsInjective(proc_list')
  BY ReturnLinks
<1>2. /\ nr_process' = nr_process + 1 /\ le' = 0
      /\ UNCHANGED <<last_pid, next_safe>> /\ le = Scanned
  BY DEF Return
<1>3. le # 0 /\ Len(proc_list) \in Nat
  BY <1>2 DEF PidInv, TypeOK, Scanned
<1>4. TypeOK' /\ nr_process' <= MAX_PROCESS
  BY <1>1, <1>2, <1>3, PidAssumption DEF PidInv, TypeOK, Scanned, ScanSound
<1>5. PidsUnique' /\ ScanSound'
  BY <1>1, <1>2 DEF PidsUnique, ScanSound
<1>6. SafeWindow'
  BY <1>1, <1>2, CandidateFree DEF SafeWindow, PidInv, TypeOK
<1>7. InitprocFirst'
  BY <1>1, <1>2, <1>3 DEF PidInv, InitprocFirst
<1>. QED BY <1>4, <1>5, <1>6, <1>7 DEF PidInv

\* The list and its pids when a process is taken from it.
LEMMA ReapUnlinks ==
  ASSUME PidInv, NEW i \in DOMAIN proc_list, Reap(i)
  PROVE  /\ proc_list' \in Seq(Pid) /\ Len(proc_list') = Len(proc_list) - 1
         /\ Used' = Used \ {proc_list[i]}
         /\ IsInjective(proc_list')
<1>. DEFINE q == proc_list
            r == RemoveAt(q, i)
<1>1. /\ q \in Seq(Pid) /\ i \in 1 .. Len(q) /\ r = proc_list' /\ IsInjective(q)
  BY DEF PidInv, TypeOK, Reap, PidsUnique
<1>. HIDE DEF q
<1>2. /\ r \in Seq(Pid) /\ Len(r) = Len(q) - 1
      /\ \A j \in 1 .. Len(q) - 1 : r[j] = IF j < i THEN q[j] ELSE q[j + 1]
  BY <1>1, RemoveAtElements
<1>. HIDE DEF r
<1>3. ToSet(r) = ToSet(q) \ {q[i]}
  <2>1. ASSUME NEW p, p \in ToSet(r) PROVE p \in ToSet(q) /\ p # q[i]
    <3>1. PICK j \in 1 .. Len(r) : r[j] = p
      BY <1>2, <2>1, UsedElements
    <3>2. PICK k \in 1 .. Len(q) : q[k] = p /\ k # i
      BY <1>1, <1>2, <3>1
    <3>. QED BY <1>1, <3>2, UsedElements DEF IsInjective
  <2>2. ASSUME NEW p \in ToSet(q), p # q[i] PROVE p \in ToSet(r)
    <3>1. PICK k \in 1 .. Len(q) : q[k] = p /\ k # i
      BY <1>1, <2>2, UsedElements
    <3>2. \E j \in 1 .. Len(r) : r[j] = p
      <4>1. CASE k < i
        BY <1>1, <1>2, <3>1, <4>1
      <4>2. CASE k > i
        <5>1. k - 1 \in 1 .. Len(r) /\ r[k - 1] = q[(k - 1) + 1] /\ (k - 1) + 1 = k
          BY <1>1, <1>2, <4>2
        <5>. QED BY <3>1, <5>1
      <4>. QED BY <1>1, <3>1, <4>1, <4>2
    <3>. QED BY <1>2, <3>2, UsedElements
  <2>. QED BY <2>1, <2>2
<1>4. IsInjective(r)
  <2>1. ASSUME NEW j \in 1 .. Len(r), NEW k \in 1 .. Len(r), r[j] = r[k] PROVE j = k
    <3>. DEFINE at(n) == IF n < i THEN n ELSE n + 1
    <3>1. at(j) \in 1 .. Len(q) /\ at(k) \in 1 .. Len(q) /\ q[at(j)] = q[at(k)]
      BY <1>1, <1>2, <2>1
    <3>2. at(j) = at(k)
      <4>. HIDE DEF at
      <4>. QED BY <1>1, <3>1 DEF IsInjective
    <3>. QED BY <1>1, <1>2, <3>2
  <2>. QED BY <1>2, <2>1 DEF IsInjective
<1>. QED BY <1>1, <1>2, <1>3, <1>4 DEF Used, q

\* do_wait's removal of a process from the table keeps the invariant: the window
\* of safe pids only becomes more careful than it needs to be (proc.c:746-747).
LEMMA ReapStep == ASSUME PidInv, NEW i \in DOMAIN proc_list, Reap(i) PROVE PidInv'
<1>1. /\ proc_list' \in Seq(Pid) /\ Len(proc_list') = Len(proc_list) - 1
      /\ Used' = Used \ {proc_list[i]} /\ IsInjective(proc_list')
  BY ReapUnlinks
<1>2. /\ le = 0 /\ proc_list[i] # InitprocPid /\ nr_process' = nr_process - 1
      /\ UNCHANGED <<last_pid, next_safe, le>> /\ i \in 1 .. Len(proc_list)
  BY DEF Reap, PidInv, TypeOK
<1>3. TypeOK' /\ nr_process' <= MAX_PROCESS
  BY <1>1, <1>2, PidAssumption DEF PidInv, TypeOK, Scanned
<1>4. PidsUnique' /\ ScanSound' /\ SafeWindow'
  BY <1>1, <1>2 DEF PidInv, PidsUnique, ScanSound, SafeWindow
<1>5. InitprocPid \in Used'
  <2>1. proc_list # <<>>
    BY <1>2 DEF PidInv, TypeOK
  <2>. QED BY <1>1, <1>2, <2>1 DEF PidInv, InitprocFirst
<1>6. proc_list' # <<>>
  BY <1>1, <1>5, UsedElements DEF Used
<1>7. InitprocFirst'
  BY <1>5, <1>6 DEF InitprocFirst
<1>. QED BY <1>3, <1>4, <1>7 DEF PidInv

\* The invariant of get_pid is inductive.
LEMMA PidNext == PidInv /\ [Next]_pidVars => PidInv'
<1>. SUFFICES ASSUME PidInv, [Next]_pidVars PROVE PidInv'
  OBVIOUS
<1>1. CASE Enter
  BY <1>1, EnterStep
<1>2. CASE Step
  BY <1>2, CollideStep, PassStep, ReturnStep DEF Step
<1>3. CASE \E i \in DOMAIN proc_list : Reap(i)
  BY <1>3, ReapStep
<1>4. CASE UNCHANGED pidVars
  BY <1>4 DEF pidVars, PidInv, TypeOK, PidsUnique, SafeWindow, ScanSound,
              InitprocFirst, Used, Scanned
<1>. QED BY <1>1, <1>2, <1>3, <1>4 DEF Next

\* No two processes ever have one pid, for every MAX_PID above MAX_PROCESS.
THEOREM PidsInvariant == Spec => []PidInv
<1>1. Init => PidInv
  BY PidInit
<1>2. PidInv /\ [Next]_pidVars => PidInv'
  BY PidNext
<1>. QED BY <1>1, <1>2, PTL DEF Spec

\* A step of get_pid or do_wait allocates, releases or stutters.
LEMMA PidStepMaps ==
  ASSUME PidInv, [Next]_pidVars
  PROVE  [PidAlloc!Next]_<<Used, nr_process>>
<1>1. CASE Enter \/ Collide \/ Pass \/ UNCHANGED pidVars
  BY <1>1 DEF Enter, Collide, Pass, pidVars, Used
<1>2. CASE Return
  <2>1. PidAlloc!Alloc(last_pid) /\ last_pid \in Pid
    BY <1>2, CandidateFree, ReturnLinks DEF Return, PidAlloc!Alloc
  <2>. QED BY <2>1 DEF PidAlloc!Next, Pid
<1>3. CASE \E i \in DOMAIN proc_list : Reap(i)
  <2>1. PICK i \in DOMAIN proc_list : Reap(i)
    BY <1>3
  <2>2. proc_list[i] \in Pid /\ proc_list[i] \in Used
    BY UsedElements DEF PidInv, TypeOK, Used
  <2>3. PidAlloc!Release(proc_list[i])
    BY <2>1, <2>2, ReapUnlinks DEF Reap, PidAlloc!Release
  <2>. QED BY <2>2, <2>3 DEF PidAlloc!Next, Pid
<1>. QED BY <1>1, <1>2, <1>3 DEF Next, Step

\* get_pid implements the abstract allocator of PidSpec.
THEOREM PidsImplement == Spec => ImplementsPidSpec
<1>1. Init => PidAlloc!Init
  BY DEF Init, PidAlloc!Init, Used, ToSet
<1>2. PidInv /\ [Next]_pidVars => [PidAlloc!Next]_<<Used, nr_process>>
  BY PidStepMaps
<1>. QED BY <1>1, <1>2, PidsInvariant, PTL
     DEF Spec, ImplementsPidSpec, PidAlloc!Spec, PidAlloc!pidSpecVars

\* Every step of ProcTree is a step of GetPid to the process list, or none.
LEMMA TreeUsesGetPid == [TreeNext]_vars => [Next]_pidVars
<1>. SUFFICES ASSUME TreeNext \/ UNCHANGED vars PROVE Next \/ UNCHANGED pidVars
  OBVIOUS
<1>1. CASE Busy
  BY <1>1 DEF Busy, GetPidLoop, SetLinks, MoveChild, ExitEnd, Next, Step, pidVars
<1>2. CASE \E p \in Pid \cup {IdleprocPid} : DoFork(p) \/ DoExit(p)
  BY <1>2 DEF DoFork, DoExit, Next, pidVars
<1>3. CASE \E p, c \in Pid : DoWait(p, c)
  BY <1>3 DEF DoWait, Next
<1>4. CASE UNCHANGED vars
  BY <1>4 DEF vars
<1>. QED BY <1>1, <1>2, <1>3, <1>4 DEF TreeNext

\* The process table with its pointers, do_fork, do_exit and do_wait behaves
\* as GetPid says.
THEOREM TreeRefinesGetPid == TreeSpec => Spec
<1>1. TreeInit => Init
  BY DEF TreeInit
<1>. QED BY <1>1, TreeUsesGetPid, PTL DEF TreeSpec, Spec

\* In the process table too the pids differ at all times.
THEOREM TreePids == TreeSpec => []PidInv /\ ImplementsPidSpec
BY TreeRefinesGetPid, PidsInvariant, PidsImplement, PTL

-----------------------------------------------------------------------------
(***************************************************************************)
(* Lists made of pointers: what set_links, remove_links and do_exit do to  *)
(* the one list they touch, whoever's it is.                               *)
(***************************************************************************)

\* The i-th element of a list, the null pointer where the list has none.
At(s, i) == IF i \in 1 .. Len(s) THEN s[i] ELSE Nil

\* s is the list of the members of S that the pointers first, o and y make. The
\* way back is known from the member at from on.
IsList(s, S, first, o, y, from) ==
  /\ s \in Seq(Pid) /\ IsInjective(s) /\ ToSet(s) = S
  /\ first = At(s, 1)
  /\ \A i \in 1 .. Len(s) : o[s[i]] = At(s, i + 1)
  /\ \A i \in from .. Len(s) : y[s[i]] = At(s, i - 1)

LEMMA PidNotNil == \A c \in Pid : c # Nil
BY PidAssumption, TreeAssumption DEF Pid

\* A process without children has the empty list.
LEMMA EmptyList ==
  ASSUME NEW o, NEW y, NEW from \in {1, 2}
  PROVE  IsList(<<>>, {}, Nil, o, y, from)
BY DEF IsList, At, ToSet, IsInjective

\* What happens to other processes leaves a list as it is.
LEMMA SameList ==
  ASSUME NEW s, NEW S, NEW first, NEW o, NEW y, NEW from \in {1, 2}, IsList(s, S, first, o, y, from),
         NEW o2, NEW y2, \A c \in S : o2[c] = o[c] /\ y2[c] = y[c]
  PROVE  IsList(s, S, first, o2, y2, from)
<1>1. \A i \in 1 .. Len(s) : s[i] \in S
  BY InToSet DEF IsList
<1>2. \A i \in from .. Len(s) : i \in 1 .. Len(s)
  OBVIOUS
<1>3. \A i \in 1 .. Len(s) : o2[s[i]] = o[s[i]] /\ y2[s[i]] = y[s[i]]
  BY <1>1
<1>4. \A i \in 1 .. Len(s) : o2[s[i]] = At(s, i + 1)
  BY <1>3 DEF IsList
<1>5. \A i \in from .. Len(s) : y2[s[i]] = At(s, i - 1)
  BY <1>2, <1>3 DEF IsList
<1>. QED BY <1>4, <1>5 DEF IsList

\* A list whose way back is known is a list in any case.
LEMMA LessKnown ==
  ASSUME NEW s, NEW S, NEW first, NEW o, NEW y, IsList(s, S, first, o, y, 1), NEW from \in {1, 2}
  PROVE  IsList(s, S, first, o, y, from)
BY DEF IsList

\* The list is empty exactly when its first pointer is null.
LEMMA FirstOfList ==
  ASSUME NEW s, NEW S, NEW first, NEW o, NEW y, NEW from \in {1, 2}, IsList(s, S, first, o, y, from)
  PROVE  /\ first = Nil <=> s = <<>>
         /\ first = Nil <=> S = {}
         /\ first # Nil => first \in S /\ first = s[1] /\ 1 \in 1 .. Len(s)
<1>1. s \in Seq(Pid) /\ first = At(s, 1) /\ S = ToSet(s)
  BY DEF IsList
<1>2. CASE s = <<>>
  BY <1>1, <1>2 DEF At, ToSet
<1>3. CASE s # <<>>
  <2>1. 1 \in 1 .. Len(s) /\ s[1] \in Pid
    BY <1>1, <1>3
  <2>2. first = s[1] /\ first # Nil
    BY <1>1, <2>1, PidNotNil DEF At
  <2>3. first \in S
    BY <1>1, <2>1, <2>2, InToSet
  <2>. QED BY <1>3, <2>1, <2>2, <2>3
<1>. QED BY <1>2, <1>3

\* Where a member of the list is, what its pointers say.
LEMMA Member ==
  ASSUME NEW s, NEW S, NEW first, NEW o, NEW y, IsList(s, S, first, o, y, 1),
         NEW i \in 1 .. Len(s)
  PROVE  /\ s[i] \in S /\ s[i] \in Pid
         /\ IF i < Len(s) THEN o[s[i]] = s[i + 1] /\ o[s[i]] # Nil ELSE o[s[i]] = Nil
         /\ IF i > 1 THEN y[s[i]] = s[i - 1] /\ y[s[i]] # Nil ELSE y[s[i]] = Nil
         /\ i = 1 => first = s[i]
<1>1. s \in Seq(Pid) /\ Len(s) \in Nat
  BY DEF IsList
<1>2. s[i] \in S /\ s[i] \in Pid
  BY <1>1, InToSet DEF IsList
<1>3. o[s[i]] = At(s, i + 1) /\ y[s[i]] = At(s, i - 1) /\ first = At(s, 1)
  BY DEF IsList
<1>4. IF i < Len(s) THEN o[s[i]] = s[i + 1] /\ o[s[i]] # Nil ELSE o[s[i]] = Nil
  <2>1. i < Len(s) => i + 1 \in 1 .. Len(s) /\ s[i + 1] \in Pid
    BY <1>1
  <2>2. i >= Len(s) => i + 1 \notin 1 .. Len(s)
    BY <1>1
  <2>. QED BY <1>1, <1>3, <2>1, <2>2, PidNotNil DEF At
<1>5. IF i > 1 THEN y[s[i]] = s[i - 1] /\ y[s[i]] # Nil ELSE y[s[i]] = Nil
  <2>1. i > 1 => i - 1 \in 1 .. Len(s) /\ s[i - 1] \in Pid
    BY <1>1
  <2>2. i <= 1 => i - 1 \notin 1 .. Len(s)
    BY <1>1
  <2>. QED BY <1>1, <1>3, <2>1, <2>2, PidNotNil DEF At
<1>. QED BY <1>2, <1>3, <1>4, <1>5 DEF At

\* set_links puts a new first member before the others.
LEMMA ListCons ==
  ASSUME NEW s, NEW S, NEW first, NEW o, NEW y, IsList(s, S, first, o, y, 1),
         NEW c \in Pid, c \notin S,
         NEW o2, NEW y2, o2[c] = first, y2[c] = Nil,
         \A x \in S : o2[x] = o[x] /\ y2[x] = IF x = first THEN c ELSE y[x]
  PROVE  IsList(<<c>> \o s, S \cup {c}, c, o2, y2, 1)
<1>. DEFINE r == <<c>> \o s
<1>1. s \in Seq(Pid) /\ IsInjective(s) /\ ToSet(s) = S /\ Len(s) \in Nat /\ first = At(s, 1)
  BY DEF IsList
<1>2. /\ r \in Seq(Pid) /\ Len(r) = Len(s) + 1 /\ IsInjective(r) /\ ToSet(r) = S \cup {c}
      /\ \A j \in 1 .. Len(s) + 1 : r[j] = IF j = 1 THEN c ELSE s[j - 1]
  BY <1>1, ConsNew
<1>. HIDE DEF r
<1>3. c = At(r, 1) /\ \A i \in 1 .. Len(s) + 1 : At(r, i + 1) = At(s, i)
  BY <1>1, <1>2 DEF At
<1>4. ASSUME NEW i \in 1 .. Len(r) PROVE o2[r[i]] = At(r, i + 1) /\ y2[r[i]] = At(r, i - 1)
  <2>1. CASE i = 1
    <3>1. r[i] = c /\ At(r, i + 1) = At(s, 1) /\ At(r, i - 1) = Nil
      BY <1>1, <1>2, <1>3, <2>1 DEF At
    <3>. QED BY <1>1, <3>1
  <2>2. CASE i > 1
    <3>1. /\ i - 1 \in 1 .. Len(s) /\ r[i] = s[i - 1] /\ At(r, i + 1) = At(s, (i - 1) + 1)
      BY <1>1, <1>2, <1>3, <2>2
    <3>2. s[i - 1] \in S /\ o[s[i - 1]] = At(s, (i - 1) + 1) /\ y[s[i - 1]] = At(s, (i - 1) - 1)
      BY <1>1, <3>1, InToSet DEF IsList
    <3>3. CASE i = 2
      <4>1. s[i - 1] = first
        BY <1>1, <3>1, <3>3 DEF At
      <4>2. At(r, i - 1) = c
        BY <1>3, <3>3
      <4>. QED BY <3>1, <3>2, <4>1, <4>2
    <3>4. CASE i > 2
      <4>1. s[i - 1] # s[1] /\ first = s[1]
        BY <1>1, <3>1, <3>4 DEF At, IsInjective
      <4>2. (i - 1) - 1 \in 1 .. Len(s) + 1 /\ ((i - 1) - 1) + 1 = i - 1
        BY <3>1, <3>4
      <4>3. At(r, i - 1) = At(s, (i - 1) - 1)
        BY <1>3, <4>2
      <4>. QED BY <3>1, <3>2, <4>1, <4>3
    <3>. QED BY <2>2, <3>3, <3>4
  <2>. QED BY <2>1, <2>2
<1>. QED BY <1>2, <1>3, <1>4 DEF IsList, r

\* do_exit takes the first member from the list.
LEMMA ListTail ==
  ASSUME NEW s, NEW S, NEW first, NEW o, NEW y, IsList(s, S, first, o, y, 2),
         first # Nil,
         NEW o2, NEW y2, \A x \in S \ {first} : o2[x] = o[x] /\ y2[x] = y[x]
  PROVE  IsList(Tail(s), S \ {first}, o[first], o2, y2, 2)
<1>. DEFINE r == Tail(s)
<1>1. s \in Seq(Pid) /\ IsInjective(s) /\ ToSet(s) = S /\ Len(s) \in Nat /\ first = At(s, 1)
  BY DEF IsList
<1>2. s # <<>> /\ first = s[1] /\ 1 \in 1 .. Len(s)
  BY FirstOfList
<1>3. /\ r \in Seq(Pid) /\ IsInjective(r) /\ ToSet(r) = S \ {first}
      /\ Len(r) = Len(s) - 1 /\ \A i \in 1 .. Len(s) - 1 : r[i] = s[i + 1]
  BY <1>1, <1>2, TailInjective
<1>. HIDE DEF r
<1>4. \A i \in 1 .. Len(s) : At(r, i) = At(s, i + 1)
  BY <1>1, <1>3 DEF At
<1>5. o[first] = At(r, 1)
  BY <1>2, <1>4 DEF IsList
<1>6. ASSUME NEW i \in 1 .. Len(r)
      PROVE  o2[r[i]] = At(r, i + 1) /\ (i > 1 => y2[r[i]] = At(r, i - 1))
  <2>1. i + 1 \in 1 .. Len(s) /\ r[i] = s[i + 1]
    BY <1>1, <1>3
  <2>2. o[r[i]] = At(s, (i + 1) + 1) /\ (i > 1 => y[r[i]] = At(s, (i + 1) - 1))
    BY <2>1 DEF IsList
  <2>3. r[i] \in S \ {first}
    BY <1>3, InToSet
  <2>4. At(r, i + 1) = At(s, (i + 1) + 1)
    BY <1>4, <2>1
  <2>5. i > 1 => At(r, i - 1) = At(s, (i + 1) - 1)
    <3>1. i > 1 => i - 1 \in 1 .. Len(s) /\ (i - 1) + 1 = (i + 1) - 1
      BY <2>1
    <3>. QED BY <1>4, <3>1
  <2>. QED BY <2>2, <2>3, <2>4, <2>5
<1>. QED BY <1>3, <1>5, <1>6 DEF IsList, r

\* The neighbours of c point past it.
PointPast(S, c, o, y, o2, y2) ==
  \A x \in S \ {c} :
    /\ o2[x] = IF x = y[c] THEN o[c] ELSE o[x]
    /\ y2[x] = IF x = o[c] THEN y[c] ELSE y[x]

\* remove_links repairs the pointers on both sides of the member it takes.
LEMMA ListRemove ==
  ASSUME NEW s, NEW S, NEW first, NEW o, NEW y, IsList(s, S, first, o, y, 1),
         NEW c \in S, NEW o2, NEW y2, PointPast(S, c, o, y, o2, y2)
  PROVE  \E r : IsList(r, S \ {c}, IF y[c] = Nil THEN o[c] ELSE first, o2, y2, 1)
<1>1. /\ s \in Seq(Pid) /\ IsInjective(s) /\ ToSet(s) = S /\ Len(s) \in Nat
      /\ first = At(s, 1)
      /\ \A x \in S \ {c} : o2[x] = IF x = y[c] THEN o[c] ELSE o[x]
      /\ \A x \in S \ {c} : y2[x] = IF x = o[c] THEN y[c] ELSE y[x]
  BY DEF IsList, PointPast
<1>2. PICK k \in 1 .. Len(s) : s[k] = c
  BY <1>1, InToSet
<1>. DEFINE r == RemoveAt(s, k)
<1>3. /\ r \in Seq(Pid) /\ IsInjective(r) /\ ToSet(r) = S \ {c}
  BY <1>1, <1>2, RemoveAtExact
<1>4. /\ Len(r) = Len(s) - 1
      /\ \A j \in 1 .. Len(s) - 1 : r[j] = IF j < k THEN s[j] ELSE s[j + 1]
  BY <1>1, <1>2, RemoveAtElements
<1>. HIDE DEF r
<1>5. /\ o[c] = At(s, k + 1) /\ y[c] = At(s, k - 1) /\ (k = 1 <=> y[c] = Nil)
  <2>1. o[s[k]] = At(s, k + 1) /\ y[s[k]] = At(s, k - 1)
    BY DEF IsList
  <2>2. IF k > 1 THEN y[s[k]] # Nil ELSE y[s[k]] = Nil
    BY Member
  <2>. QED BY <1>1, <1>2, <2>1, <2>2
<1>6. /\ \A j \in 0 .. k - 1 : At(r, j) = At(s, j)
      /\ \A j \in k .. Len(s) : At(r, j) = At(s, j + 1)
  BY <1>1, <1>2, <1>4 DEF At
<1>7. (IF y[c] = Nil THEN o[c] ELSE first) = At(r, 1)
  BY <1>1, <1>2, <1>5, <1>6
<1>8. ASSUME NEW i \in 1 .. Len(s), NEW j \in 1 .. Len(s), s[i] = s[j] PROVE i = j
  BY <1>1, <1>8 DEF IsInjective
<1>9. ASSUME NEW i \in 1 .. Len(r) PROVE o2[r[i]] = At(r, i + 1)
  <2>1. r[i] \in S \ {c} /\ i \in 1 .. Len(s) - 1
    BY <1>1, <1>3, <1>4, InToSet
  <2>2. CASE i < k - 1
    <3>1. r[i] = s[i] /\ At(r, i + 1) = At(s, i + 1) /\ o[s[i]] = At(s, i + 1)
      BY <1>1, <1>2, <1>4, <1>6, <2>1, <2>2 DEF IsList
    <3>2. s[i] # s[k - 1] /\ y[c] = s[k - 1]
      BY <1>1, <1>2, <1>5, <1>8, <2>1, <2>2 DEF At
    <3>. QED BY <1>1, <2>1, <3>1, <3>2
  <2>3. CASE i = k - 1
    <3>1. r[i] = s[i] /\ y[c] = s[i]
      BY <1>1, <1>2, <1>4, <1>5, <2>1, <2>3 DEF At
    <3>2. At(r, i + 1) = At(s, k + 1)
      BY <1>1, <1>2, <1>6, <2>1, <2>3
    <3>. QED BY <1>1, <1>5, <2>1, <3>1, <3>2
  <2>4. CASE i >= k
    <3>1. i + 1 \in 1 .. Len(s) /\ r[i] = s[i + 1]
      BY <1>1, <1>2, <1>4, <2>1, <2>4
    <3>2. At(r, i + 1) = At(s, (i + 1) + 1) /\ o[s[i + 1]] = At(s, (i + 1) + 1)
      <4>1. i + 1 \in k .. Len(s)
        BY <1>2, <2>4, <3>1
      <4>. QED BY <1>6, <3>1, <4>1 DEF IsList
    <3>3. r[i] # y[c]
      <4>1. CASE k = 1
        <5>1. s[i + 1] \in Pid
          BY <1>1, <3>1
        <5>. QED BY <1>5, <3>1, <4>1, <5>1, PidNotNil
      <4>2. CASE k > 1
        <5>1. k - 1 \in 1 .. Len(s) /\ y[c] = s[k - 1] /\ k - 1 # i + 1
          BY <1>2, <1>5, <2>4, <3>1, <4>2 DEF At
        <5>. QED BY <1>8, <3>1, <5>1
      <4>. QED BY <1>2, <4>1, <4>2
    <3>. QED BY <1>1, <2>1, <3>1, <3>2, <3>3
  <2>. QED BY <1>2, <2>1, <2>2, <2>3, <2>4
<1>10. ASSUME NEW i \in 1 .. Len(r) PROVE y2[r[i]] = At(r, i - 1)
  <2>1. r[i] \in S \ {c} /\ i \in 1 .. Len(s) - 1
    BY <1>1, <1>3, <1>4, InToSet
  <2>2. CASE i < k
    <3>1. r[i] = s[i] /\ At(r, i - 1) = At(s, i - 1) /\ y[s[i]] = At(s, i - 1)
      BY <1>1, <1>2, <1>4, <1>6, <2>1, <2>2 DEF IsList
    <3>2. r[i] # o[c]
      <4>1. CASE k = Len(s)
        <5>1. s[i] \in Pid /\ o[c] = Nil
          BY <1>1, <1>2, <1>5, <2>1, <4>1 DEF At
        <5>. QED BY <3>1, <5>1, PidNotNil
      <4>2. CASE k < Len(s)
        <5>1. k + 1 \in 1 .. Len(s) /\ o[c] = s[k + 1] /\ i \in 1 .. Len(s) /\ i # k + 1
          BY <1>1, <1>2, <1>5, <2>1, <2>2, <4>2 DEF At
        <5>. QED BY <1>8, <3>1, <5>1
      <4>. QED BY <1>1, <1>2, <4>1, <4>2
    <3>. QED BY <1>1, <2>1, <3>1, <3>2
  <2>3. CASE i = k
    <3>1. r[i] = s[k + 1] /\ o[c] = s[k + 1]
      BY <1>1, <1>2, <1>4, <1>5, <2>1, <2>3 DEF At
    <3>2. At(r, i - 1) = At(s, k - 1)
      BY <1>2, <1>6, <2>3
    <3>. QED BY <1>1, <1>5, <2>1, <3>1, <3>2
  <2>4. CASE i > k
    <3>1. /\ i + 1 \in 1 .. Len(s) /\ r[i] = s[i + 1] /\ k + 1 \in 1 .. Len(s)
          /\ i + 1 # k + 1 /\ o[c] = s[k + 1]
      BY <1>1, <1>2, <1>4, <1>5, <2>1, <2>4 DEF At
    <3>2. At(r, i - 1) = At(s, (i - 1) + 1)
      BY <1>1, <1>2, <1>6, <2>1, <2>4
    <3>3. y[s[i + 1]] = At(s, (i + 1) - 1) /\ (i + 1) - 1 = (i - 1) + 1
      BY <3>1 DEF IsList
    <3>4. r[i] # o[c]
      BY <1>8, <3>1
    <3>. QED BY <1>1, <2>1, <3>1, <3>2, <3>3, <3>4
  <2>. QED BY <1>2, <2>1, <2>2, <2>3, <2>4
<1>. QED BY <1>3, <1>7, <1>9, <1>10 DEF IsList

\* A list without repetitions has as many elements as its set.
LEMMA ListLength ==
  ASSUME NEW s \in Seq(Pid), IsInjective(s)
  PROVE  Cardinality(ToSet(s)) = Len(s) /\ Len(s) <= MAX_PID - 1
<1>1. Len(s) \in Nat /\ s \in [1 .. Len(s) -> Pid]
  OBVIOUS
<1>2. s \in Bijection(1 .. Len(s), ToSet(s))
  <2>1. s \in [1 .. Len(s) -> ToSet(s)]
    BY <1>1, InToSet
  <2>2. \A i, j \in 1 .. Len(s) : s[i] = s[j] => i = j
    BY <1>1 DEF IsInjective
  <2>3. \A c \in ToSet(s) : \E i \in 1 .. Len(s) : s[i] = c
    BY <1>1, InToSet
  <2>. QED BY <2>1, <2>2, <2>3 DEF Bijection, Injection, Surjection, IsInjective
<1>3. Cardinality(ToSet(s)) = Len(s)
  BY <1>1, <1>2, FS_CountingElements DEF ExistsBijection
<1>4. IsFiniteSet(Pid) /\ Cardinality(Pid) = MAX_PID - 1
  <2>1. MAX_PID - 1 \in Nat /\ MAX_PID - 1 >= 1 /\ 1 \in Int /\ MAX_PID - 1 \in Int
    BY PidAssumption
  <2>. QED BY <2>1, FS_Interval DEF Pid
<1>5. ToSet(s) \in SUBSET Pid
  BY <1>1, InToSet
<1>6. Cardinality(ToSet(s)) <= MAX_PID - 1
  BY <1>4, <1>5, FS_Subset
<1>. QED BY <1>3, <1>6

\* A set of numbers has a least element.
LEMMA LeastIn ==
  ASSUME NEW T, T \subseteq Nat, T # {}
  PROVE  \E m \in T : \A y \in T : m <= y
<1>. DEFINE R == {ss \in Nat \X Nat : ss[1] < ss[2]}
<1>1. IsWellFoundedOn(R, Nat)
  BY NatLessThanWellFounded DEF OpToRel
<1>. HIDE DEF R
<1>2. PICK x \in T : \A y \in T : <<y, x>> \notin R
  BY <1>1, WFMin
<1>3. \A y \in T : <<y, x>> \in R <=> y < x
  BY DEF R
<1>4. \A y \in T : y \in Nat /\ x \in Nat /\ ~(y < x)
  BY <1>2, <1>3
<1>. QED BY <1>4

\* The walk along optr from cptr meets the elements of the list in their order.
LEMMA ChildAt ==
  ASSUME NEW p, NEW s, NEW S, NEW from \in {1, 2}, IsList(s, S, cptr[p], optr, yptr, from),
         NEW k \in 1 .. MAX_PID
  PROVE  Child(p, k) = At(s, k)
<1>. DEFINE Walk(f) == [i \in 1 .. MAX_PID |->
                          IF i = 1 THEN cptr[p]
                          ELSE IF f[i - 1] = Nil THEN Nil ELSE optr[f[i - 1]]]
            nth == CHOOSE f : f = Walk(f)
            g == [i \in 1 .. MAX_PID |-> At(s, i)]
<1>1. Child(p, k) = nth[k]
  BY DEF Child
<1>2. s \in Seq(Pid) /\ Len(s) \in Nat /\ cptr[p] = At(s, 1) /\ MAX_PID \in Nat
  BY PidAssumption DEF IsList
<1>3. ASSUME NEW i \in 1 .. MAX_PID, i # 1
      PROVE  At(s, i) = IF At(s, i - 1) = Nil THEN Nil ELSE optr[At(s, i - 1)]
  <2>1. CASE i - 1 \in 1 .. Len(s)
    <3>1. At(s, i - 1) = s[i - 1] /\ s[i - 1] \in Pid /\ (i - 1) + 1 = i
      BY <1>2, <2>1 DEF At
    <3>2. optr[s[i - 1]] = At(s, i)
      BY <2>1, <3>1 DEF IsList
    <3>. QED BY <3>1, <3>2, PidNotNil
  <2>2. CASE i - 1 \notin 1 .. Len(s)
    BY <1>2, <1>3, <2>2 DEF At
  <2>. QED BY <2>1, <2>2
<1>4. g = Walk(g)
  <2>1. ASSUME NEW i \in 1 .. MAX_PID
        PROVE  g[i] = IF i = 1 THEN cptr[p]
                      ELSE IF g[i - 1] = Nil THEN Nil ELSE optr[g[i - 1]]
    <3>1. i # 1 => i - 1 \in 1 .. MAX_PID
      BY <1>2
    <3>. QED BY <1>2, <1>3, <3>1
  <2>. QED BY <2>1
<1>. HIDE DEF g
<1>5. nth = Walk(nth)
  BY <1>4
<1>. HIDE DEF nth
<1>6. ASSUME NEW i \in 1 .. MAX_PID
      PROVE  nth[i] = IF i = 1 THEN cptr[p]
                      ELSE IF nth[i - 1] = Nil THEN Nil ELSE optr[nth[i - 1]]
  BY <1>5
<1>7. ASSUME NEW i \in 1 .. MAX_PID, nth[i] # At(s, i) PROVE FALSE
  <2>. DEFINE T == {j \in 1 .. MAX_PID : nth[j] # At(s, j)}
  <2>1. PICK m \in T : \A j \in T : m <= j
    <3>1. T \subseteq Nat /\ T # {}
      BY <1>2, <1>7
    <3>. HIDE DEF T
    <3>. QED BY <3>1, LeastIn
  <2>2. m \in 1 .. MAX_PID /\ nth[m] # At(s, m)
    OBVIOUS
  <2>3. m # 1
    BY <1>2, <1>6, <2>2
  <2>4. m - 1 \in 1 .. MAX_PID /\ m - 1 \notin T
    <3>1. m - 1 \in 1 .. MAX_PID /\ ~(m <= m - 1)
      BY <1>2, <2>2, <2>3
    <3>. HIDE DEF T
    <3>. QED BY <2>1, <3>1
  <2>5. nth[m - 1] = At(s, m - 1)
    BY <2>4
  <2>. QED BY <1>3, <1>6, <2>2, <2>3, <2>5
<1>. QED BY <1>1, <1>7

-----------------------------------------------------------------------------
(***************************************************************************)
(* The process table: every process has a list of its children.            *)
(***************************************************************************)

Procs == Pid \cup {IdleprocPid}

\* The pointers make a list of the children of p. Its first member may have a
\* way back to a child that do_exit moved.
HasList(p) ==
  \E s \in Seq(Pid) :
    IsList(s, Children(p), cptr[p], optr, yptr, IF p = exiting THEN 2 ELSE 1)

Lists == \A p \in Used \cup {IdleprocPid} : HasList(p)

\* A process in do_fork or do_exit is alone at it, do_fork's is alive, and
\* initproc never exits.
Callers ==
  /\ caller = Nil <=> le = 0
  /\ caller # Nil =>
       IF proc_list = <<>> THEN caller = IdleprocPid ELSE caller \in Used \ zombie
  /\ exiting # Nil => le = 0
  /\ InitprocPid \notin zombie

\* The parent of a process is there, and dead only while it hands over.
ParentsLive ==
  \A c \in Used :
    /\ parent[c] \in Used \cup {IdleprocPid}
    /\ parent[c] \in zombie => parent[c] = exiting
    /\ parent[c] = IdleprocPid => c = InitprocPid

\* The inductive invariant of the process table.
TreeInv ==
  /\ PidInv /\ TreeTypeOK /\ HashExact
  /\ Callers /\ ParentsLive /\ Lists

\* The processes there are, as elements of the sets the pointers range over.
LEMMA TreeFacts ==
  ASSUME TreeInv
  PROVE  /\ Used \subseteq Pid /\ IdleprocPid \notin Pid /\ Nil \notin Procs
         /\ Procs \subseteq Ptr /\ Nil \in Ptr /\ InitprocPid \in Pid
         /\ zombie \subseteq Used
         /\ proc_list # <<>> => InitprocPid \in Used
         /\ proc_list = <<>> => Used = {}
<1>1. proc_list \in Seq(Pid)
  BY DEF TreeInv, PidInv, TypeOK
<1>2. Used \subseteq Pid
  BY <1>1, InToSet DEF Used
<1>3. proc_list = <<>> => Used = {}
  BY DEF Used, ToSet
<1>4. InitprocPid \in Pid /\ IdleprocPid \notin Pid /\ Nil \notin Procs
  BY PidAssumption, TreeAssumption DEF Pid, Procs, InitprocPid, IdleprocPid
<1>5. zombie \subseteq Used /\ (proc_list # <<>> => InitprocPid \in Used)
  BY DEF TreeInv, TreeTypeOK, PidInv, InitprocFirst
<1>. QED BY <1>2, <1>3, <1>4, <1>5 DEF Procs, Ptr

\* The pointers after set_links, one by one.
LEMMA LinkChildPoints ==
  ASSUME TreeInv, NEW c \in Pid, NEW p \in Procs, NEW child \in [Procs -> Ptr],
         LinkChild(c, p, child), child[p] # c
  PROVE  /\ parent' \in [Procs -> Ptr] /\ cptr' \in [Procs -> Ptr]
         /\ yptr' \in [Procs -> Ptr] /\ optr' \in [Procs -> Ptr]
         /\ \A x \in Procs :
              /\ parent'[x] = IF x = c THEN p ELSE parent[x]
              /\ optr'[x] = IF x = c THEN child[p] ELSE optr[x]
              /\ yptr'[x] = IF x = child[p] THEN c ELSE IF x = c THEN Nil ELSE yptr[x]
              /\ cptr'[x] = IF x = p THEN c ELSE child[x]
<1>1. /\ parent \in [Procs -> Ptr] /\ yptr \in [Procs -> Ptr] /\ optr \in [Procs -> Ptr]
      /\ c \in Procs /\ child[p] \in Procs \cup {Nil} /\ c \in Ptr /\ p \in Ptr /\ Nil \in Ptr
      /\ Nil \notin Procs
  BY TreeFacts DEF TreeInv, TreeTypeOK, Procs, Ptr
<1>2. parent' = [parent EXCEPT ![c] = p] /\ optr' = [optr EXCEPT ![c] = child[p]]
      /\ cptr' = [child EXCEPT ![p] = c]
  BY DEF LinkChild
<1>3. yptr' \in [Procs -> Ptr] /\ \A x \in Procs :
        yptr'[x] = IF x = child[p] THEN c ELSE IF x = c THEN Nil ELSE yptr[x]
  <2>. DEFINE y == [yptr EXCEPT ![c] = Nil]
  <2>1. y \in [Procs -> Ptr] /\ \A x \in Procs : y[x] = IF x = c THEN Nil ELSE yptr[x]
    BY <1>1
  <2>2. yptr' = Through(y, child[p], c)
    BY DEF LinkChild
  <2>. HIDE DEF y
  <2>3. CASE child[p] = Nil
    <3>1. yptr' = y
      BY <2>2, <2>3 DEF Through
    <3>. QED BY <1>1, <2>1, <2>3, <3>1
  <2>4. CASE child[p] # Nil
    <3>1. yptr' = [y EXCEPT ![child[p]] = c]
      BY <2>2, <2>4 DEF Through
    <3>. QED BY <1>1, <2>1, <2>4, <3>1
  <2>. QED BY <2>3, <2>4
<1>. QED BY <1>1, <1>2, <1>3

\* The list of a process none of whose children is touched.
LEMMA ListStays ==
  ASSUME TreeInv, NEW q \in Used \cup {IdleprocPid},
         Children(q)' = Children(q), cptr'[q] = cptr[q],
         \A x \in Children(q) : optr'[x] = optr[x] /\ yptr'[x] = yptr[x],
         q = exiting' \/ q # exiting
  PROVE  HasList(q)'
<1>1. PICK s \in Seq(Pid) :
        IsList(s, Children(q), cptr[q], optr, yptr, IF q = exiting THEN 2 ELSE 1)
  BY DEF TreeInv, Lists, HasList
<1>2. IsList(s, Children(q), cptr[q], optr', yptr', IF q = exiting THEN 2 ELSE 1)
  BY <1>1, SameList
<1>3. IsList(s, Children(q), cptr[q], optr', yptr', IF q = exiting' THEN 2 ELSE 1)
  <2>1. CASE q # exiting /\ q # exiting'
    BY <1>2, <2>1
  <2>2. CASE q = exiting /\ q = exiting'
    BY <1>2, <2>2
  <2>3. CASE q # exiting /\ q = exiting'
    BY <1>2, <2>3, LessKnown
  <2>. QED BY <2>1, <2>2, <2>3
<1>. QED BY <1>3 DEF HasList

\* The first child of a process is one of its children.
LEMMA FirstChild ==
  ASSUME TreeInv, NEW q \in Used \cup {IdleprocPid}
  PROVE  /\ cptr[q] # Nil => cptr[q] \in Children(q)
         /\ cptr[q] = Nil <=> Children(q) = {}
<1>1. PICK s \in Seq(Pid) :
        IsList(s, Children(q), cptr[q], optr, yptr, IF q = exiting THEN 2 ELSE 1)
  BY DEF TreeInv, Lists, HasList
<1>2. (IF q = exiting THEN 2 ELSE 1) \in {1, 2}
  OBVIOUS
<1>. QED BY <1>1, <1>2, FirstOfList

\* A step changes no list, and do_exit ends with no child left.
KeepsLists ==
  /\ UNCHANGED <<proc_list, links>>
  /\ \/ exiting' = exiting \/ exiting = Nil
     \/ exiting' = Nil /\ cptr[exiting] = Nil

\* Every other step leaves the lists as they are.
LEMMA ListsFrame == ASSUME TreeInv, KeepsLists PROVE Lists'
<1>. USE DEF KeepsLists
<1>1. \A q : Children(q)' = Children(q)
  BY DEF Children, Used, links
<1>2. ASSUME NEW q \in Used \cup {IdleprocPid} PROVE HasList(q)'
  <2>1. CASE q = exiting' \/ q # exiting
    BY <1>1, <2>1, ListStays DEF links
  <2>2. CASE q = exiting /\ q # exiting'
    <3>1. q # Nil /\ cptr'[q] = Nil
      BY <2>2, TreeFacts DEF links, Procs
    <3>2. Children(q)' = {}
      BY <1>1, <3>1, FirstChild DEF links
    <3>3. <<>> \in Seq(Pid) /\ (IF q = exiting' THEN 2 ELSE 1) = 1
      BY <2>2
    <3>4. IsList(<<>>, {}, Nil, optr', yptr', 1)
      BY EmptyList
    <3>5. IsList(<<>>, Children(q)', cptr'[q], optr', yptr', IF q = exiting' THEN 2 ELSE 1)
      BY <3>1, <3>2, <3>3, <3>4
    <3>. QED BY <3>3, <3>5 DEF HasList
  <2>. QED BY <2>1, <2>2
<1>. QED BY <1>2 DEF Lists, Used, links

\* do_fork puts its process first among the children of the caller.
LEMMA SetLinksLists == ASSUME TreeInv, SetLinks PROVE Lists' /\ TreeTypeOK'
<1>. DEFINE c == last_pid
            p == caller
            child == [cptr EXCEPT ![c] = Nil]
<1>1. /\ c \in Pid /\ c \notin Used /\ Used' = Used \cup {c} /\ exiting' = exiting
      /\ proc_list' \in Seq(Pid)
  BY CandidateFree, ReturnLinks DEF SetLinks, Return, TreeInv
<1>2. p \in Used \cup {IdleprocPid} /\ p \in Procs /\ exiting = Nil /\ p # c
  BY <1>1, TreeFacts DEF SetLinks, Return, Scanned, TreeInv, Callers, PidInv, TypeOK, Procs
<1>3. /\ child \in [Procs -> Ptr] /\ child[p] = cptr[p]
      /\ \A x \in Procs : child[x] = IF x = c THEN Nil ELSE cptr[x]
  BY <1>1, <1>2, TreeFacts DEF TreeInv, TreeTypeOK, Procs
<1>. HIDE DEF child
<1>4. /\ cptr[p] # Nil => cptr[p] \in Children(p)
      /\ cptr[p] # c
  BY <1>1, <1>2, FirstChild, TreeFacts DEF Children, Procs
<1>5. /\ parent' \in [Procs -> Ptr] /\ cptr' \in [Procs -> Ptr]
      /\ yptr' \in [Procs -> Ptr] /\ optr' \in [Procs -> Ptr]
      /\ \A x \in Procs :
           /\ parent'[x] = IF x = c THEN p ELSE parent[x]
           /\ optr'[x] = IF x = c THEN cptr[p] ELSE optr[x]
           /\ yptr'[x] = IF x = cptr[p] THEN c ELSE IF x = c THEN Nil ELSE yptr[x]
           /\ cptr'[x] = IF x = p THEN c ELSE child[x]
  <2>1. LinkChild(c, p, child)
    BY DEF SetLinks, child
  <2>. HIDE DEF c, p
  <2>. QED BY <1>1, <1>2, <1>3, <1>4, <2>1, LinkChildPoints
<1>6. TreeTypeOK'
  <2>1. TypeOK'
    BY ReturnStep DEF SetLinks, TreeInv, PidInv
  <2>2. hash_list' \in [Bucket -> Seq(Pid)]
    <3>1. \A s \in Seq(Pid) : <<c>> \o s \in Seq(Pid)
      BY <1>1
    <3>. QED BY <3>1 DEF SetLinks, TreeInv, TreeTypeOK
  <2>3. zombie' = zombie /\ caller' = Nil
    BY DEF SetLinks
  <2>. QED BY <1>1, <1>5, <2>1, <2>2, <2>3 DEF TreeInv, TreeTypeOK, Procs, Ptr
<1>. HIDE DEF c, p
<1>7. ASSUME NEW q \in Used' \cup {IdleprocPid} PROVE HasList(q)'
  <2>1. q \in Procs /\ Used \subseteq Procs
    BY <1>1, TreeFacts DEF Procs
  <2>2. Children(q)' = {x \in Used \cup {c} : (IF x = c THEN p ELSE parent[x]) = q}
    BY <1>1, <1>5, <2>1 DEF Children, Procs
  <2>3. CASE q = p
    <3>1. Children(q)' = Children(p) \cup {c}
      BY <1>1, <2>2, <2>3 DEF Children
    <3>2. PICK s \in Seq(Pid) : IsList(s, Children(p), cptr[p], optr, yptr, 1)
      BY <1>2, TreeFacts DEF TreeInv, Lists, HasList
    <3>3. IsList(<<c>> \o s, Children(p) \cup {c}, c, optr', yptr', 1)
      <4>1. c \notin Children(p) /\ Children(p) \subseteq Procs /\ c \in Procs
        BY <1>1, <2>1 DEF Children, Procs
      <4>2. optr'[c] = cptr[p] /\ yptr'[c] = Nil
        BY <1>4, <1>5, <4>1
      <4>3. \A x \in Children(p) :
              optr'[x] = optr[x] /\ yptr'[x] = IF x = cptr[p] THEN c ELSE yptr[x]
        BY <1>5, <4>1
      <4>. QED BY <1>1, <3>2, <4>1, <4>2, <4>3, ListCons
    <3>4. cptr'[q] = c /\ <<c>> \o s \in Seq(Pid) /\ (IF q = exiting' THEN 2 ELSE 1) = 1
      BY <1>1, <1>2, <1>5, <2>1, <2>3, TreeFacts
    <3>. QED BY <3>1, <3>3, <3>4 DEF HasList
  <2>4. CASE q = c
    <3>1. Children(q)' = {}
      BY <1>1, <1>2, <2>2, <2>4, TreeFacts DEF TreeInv, ParentsLive
    <3>2. /\ cptr'[q] = Nil /\ <<>> \in Seq(Pid) /\ (IF q = exiting' THEN 2 ELSE 1) = 1
      BY <1>1, <1>2, <1>3, <1>5, <2>1, <2>4, TreeFacts
    <3>3. IsList(<<>>, {}, Nil, optr', yptr', 1)
      BY EmptyList
    <3>. QED BY <3>1, <3>2, <3>3 DEF HasList
  <2>5. CASE q # p /\ q # c
    <3>1. Children(q)' = Children(q)
      BY <1>1, <2>2, <2>5 DEF Children
    <3>2. \A x \in Children(q) : x \in Procs /\ x # c /\ x # cptr[p]
      BY <1>1, <1>4, <2>1, <2>5, TreeFacts DEF Children
    <3>3. \A x \in Children(q) : optr'[x] = optr[x] /\ yptr'[x] = yptr[x]
      BY <1>5, <3>2
    <3>4. cptr'[q] = cptr[q] /\ q \in Used \cup {IdleprocPid}
      BY <1>1, <1>3, <1>5, <2>1, <2>5
    <3>. QED BY <1>1, <3>1, <3>3, <3>4, ListStays
  <2>. QED BY <2>3, <2>4, <2>5
<1>. QED BY <1>6, <1>7 DEF Lists

\* do_exit gives the first child that is left to initproc, as its first.
LEMMA MoveChildLists == ASSUME TreeInv, MoveChild PROVE Lists' /\ TreeTypeOK'
<1>. DEFINE e == exiting
            c == cptr[e]
            p == InitprocPid
            child == [cptr EXCEPT ![e] = optr[c]]
<1>1. e \in Used /\ e # p /\ e # Nil /\ c # Nil
  BY TreeFacts DEF MoveChild, TreeInv, TreeTypeOK, Callers
<1>2. /\ p \in Used /\ Used \subseteq Procs /\ p \in Procs /\ e \in Procs
      /\ UNCHANGED <<proc_list, exiting>> /\ Used' = Used
  BY <1>1, TreeFacts DEF MoveChild, Procs, pidVars, Used
<1>3. c \in Children(e) /\ c \in Used /\ parent[c] = e /\ c \in Pid
  BY <1>1, FirstChild, TreeFacts DEF Children
<1>4. /\ child \in [Procs -> Ptr] /\ child[p] = cptr[p]
      /\ \A x \in Procs : child[x] = IF x = e THEN optr[c] ELSE cptr[x]
  BY <1>1, <1>2, <1>3 DEF TreeInv, TreeTypeOK, Procs
<1>. HIDE DEF child
<1>5. /\ cptr[p] # Nil => cptr[p] \in Children(p)
      /\ cptr[p] # c
  BY <1>1, <1>2, <1>3, FirstChild, TreeFacts DEF Children, Procs
<1>6. /\ parent' \in [Procs -> Ptr] /\ cptr' \in [Procs -> Ptr]
      /\ yptr' \in [Procs -> Ptr] /\ optr' \in [Procs -> Ptr]
      /\ \A x \in Procs :
           /\ parent'[x] = IF x = c THEN p ELSE parent[x]
           /\ optr'[x] = IF x = c THEN cptr[p] ELSE optr[x]
           /\ yptr'[x] = IF x = cptr[p] THEN c ELSE IF x = c THEN Nil ELSE yptr[x]
           /\ cptr'[x] = IF x = p THEN c ELSE child[x]
  <2>1. LinkChild(c, p, child)
    BY DEF MoveChild, child
  <2>. HIDE DEF c, p
  <2>. QED BY <1>2, <1>3, <1>4, <1>5, <2>1, LinkChildPoints
<1>7. TreeTypeOK'
  <2>1. TypeOK' /\ UNCHANGED <<hash_list, zombie, caller, exiting>>
    BY DEF MoveChild, TreeInv, PidInv, TypeOK, pidVars, Scanned
  <2>. QED BY <1>2, <1>6, <2>1 DEF TreeInv, TreeTypeOK, Procs
<1>8. ASSUME NEW q \in Used' \cup {IdleprocPid} PROVE HasList(q)'
  <2>. HIDE DEF c, e, p
  <2>1. q \in Procs /\ q \in Used \cup {IdleprocPid}
    BY <1>2, TreeFacts DEF Procs
  <2>2. Children(q)' = {x \in Used : (IF x = c THEN p ELSE parent[x]) = q}
    BY <1>2, <1>6, <2>1 DEF Children
  <2>3. CASE q = p
    <3>1. Children(q)' = Children(p) \cup {c}
      BY <1>3, <2>2, <2>3 DEF Children
    <3>2. PICK s \in Seq(Pid) : IsList(s, Children(p), cptr[p], optr, yptr, 1)
      BY <1>1, <1>2 DEF TreeInv, Lists, HasList, e
    <3>3. IsList(<<c>> \o s, Children(p) \cup {c}, c, optr', yptr', 1)
      <4>1. c \notin Children(p) /\ Children(p) \subseteq Procs /\ c \in Procs
        BY <1>1, <1>2, <1>3 DEF Children
      <4>2. optr'[c] = cptr[p] /\ yptr'[c] = Nil
        BY <1>5, <1>6, <4>1
      <4>3. \A x \in Children(p) :
              optr'[x] = optr[x] /\ yptr'[x] = IF x = cptr[p] THEN c ELSE yptr[x]
        BY <1>6, <4>1
      <4>. QED BY <1>3, <3>2, <4>1, <4>2, <4>3, ListCons
    <3>4. cptr'[q] = c /\ <<c>> \o s \in Seq(Pid) /\ (IF q = exiting' THEN 2 ELSE 1) = 1
      BY <1>1, <1>2, <1>3, <1>6, <2>1, <2>3 DEF e
    <3>. QED BY <3>1, <3>3, <3>4 DEF HasList
  <2>4. CASE q = e
    <3>1. Children(q)' = Children(e) \ {c}
      BY <1>1, <1>3, <2>2, <2>4 DEF Children
    <3>2. PICK s \in Seq(Pid) : IsList(s, Children(e), c, optr, yptr, 2)
      BY <1>1 DEF TreeInv, Lists, HasList, e, c
    <3>3. IsList(Tail(s), Children(e) \ {c}, optr[c], optr', yptr', 2)
      <4>1. \A x \in Children(e) \ {c} : x \in Procs /\ x # cptr[p]
        BY <1>1, <1>2, <1>5, TreeFacts DEF Children, Procs
      <4>2. \A x \in Children(e) \ {c} : optr'[x] = optr[x] /\ yptr'[x] = yptr[x]
        BY <1>6, <4>1
      <4>. QED BY <1>1, <3>2, <4>2, ListTail
    <3>4. /\ cptr'[q] = optr[c] /\ Tail(s) \in Seq(Pid)
          /\ (IF q = exiting' THEN 2 ELSE 1) = 2
      <4>1. Tail(s) \in Seq(Pid)
        BY <3>3 DEF IsList
      <4>. QED BY <1>1, <1>2, <1>4, <1>6, <2>1, <2>4, <4>1 DEF e
    <3>. QED BY <3>1, <3>3, <3>4 DEF HasList
  <2>5. CASE q # p /\ q # e
    <3>1. Children(q)' = Children(q)
      BY <1>3, <2>2, <2>5 DEF Children
    <3>2. \A x \in Children(q) : x \in Procs /\ x # c /\ x # cptr[p]
      BY <1>2, <1>3, <1>5, <2>1, <2>5, TreeFacts DEF Children, Procs
    <3>3. \A x \in Children(q) : optr'[x] = optr[x] /\ yptr'[x] = yptr[x]
      BY <1>6, <3>2
    <3>4. cptr'[q] = cptr[q]
      BY <1>4, <1>6, <2>1, <2>5
    <3>. QED BY <1>2, <2>1, <2>5, <3>1, <3>3, <3>4, ListStays DEF e
  <2>. QED BY <2>3, <2>4, <2>5
<1>. QED BY <1>7, <1>8 DEF Lists

\* do_wait finds a zombie that is a child of the caller.
LEMMA WaitFindsChild ==
  ASSUME TreeInv, NEW p \in Used, NEW c \in Pid, FindAny(p, c) \/ FindOne(p, c)
  PROVE  c \in zombie /\ c \in Used /\ parent[c] = p
<1>1. CASE FindOne(p, c)
  BY <1>1, TreeFacts DEF FindOne
<1>2. CASE FindAny(p, c)
  <2>1. PICK k \in 1 .. MAX_PID - 1 : Child(p, k) = c /\ c \in zombie
    BY <1>2 DEF FindAny
  <2>2. PICK s \in Seq(Pid) :
          IsList(s, Children(p), cptr[p], optr, yptr, IF p = exiting THEN 2 ELSE 1)
    BY DEF TreeInv, Lists, HasList
  <2>3. (IF p = exiting THEN 2 ELSE 1) \in {1, 2} /\ k \in 1 .. MAX_PID
    BY <2>1, PidAssumption
  <2>4. c = At(s, k)
    BY <2>1, <2>2, <2>3, ChildAt
  <2>5. c \in ToSet(s)
    <3>1. k \in 1 .. Len(s) /\ s[k] = c
      BY <2>4, PidNotNil DEF At
    <3>. QED BY <3>1, InToSet
  <2>. QED BY <2>1, <2>2, <2>5 DEF IsList, Children
<1>. QED BY <1>1, <1>2

\* What do_wait takes away: a dead child without children of its own.
LEMMA WaitFacts ==
  ASSUME TreeInv, NEW p \in Pid, NEW c \in Pid, DoWait(p, c)
  PROVE  /\ exiting = Nil /\ exiting' = Nil /\ caller' = caller /\ zombie' = zombie \ {c}
         /\ p \in Used \ zombie /\ c \in zombie /\ c \in Used /\ p # c /\ parent[c] = p
         /\ Used' = Used \ {c} /\ proc_list' \in Seq(Pid) /\ c # InitprocPid
         /\ proc_list # <<>> /\ proc_list' # <<>> /\ le = 0 /\ le' = 0
         /\ PidInv'
         /\ \A q \in Used : parent[q] # c
<1>1. PICK i \in DOMAIN proc_list : proc_list[i] = c /\ Reap(i)
  BY DEF DoWait
<1>2. /\ exiting = Nil /\ exiting' = Nil /\ caller' = caller /\ zombie' = zombie \ {c}
      /\ p \in Used \ zombie
  BY DEF DoWait
<1>3. c \in zombie /\ c \in Used /\ p # c /\ parent[c] = p
  BY <1>2, WaitFindsChild DEF DoWait
<1>4. Used' = Used \ {c} /\ proc_list' \in Seq(Pid) /\ PidInv'
  BY <1>1, ReapUnlinks, ReapStep DEF TreeInv
<1>5. c # InitprocPid /\ le = 0 /\ le' = 0 /\ proc_list # <<>>
  BY <1>1, <1>3, TreeFacts DEF Reap
<1>6. proc_list' # <<>>
  BY <1>2, <1>3, <1>4 DEF Used, ToSet
<1>7. \A q \in Used : parent[q] # c
  BY <1>2, <1>3, TreeFacts DEF TreeInv, ParentsLive, Procs
<1>. QED BY <1>2, <1>3, <1>4, <1>5, <1>6, <1>7

\* A child's neighbours on the list are other children of the same parent.
LEMMA Neighbours ==
  ASSUME NEW s, NEW S, NEW first, NEW o, NEW y, IsList(s, S, first, o, y, 1), NEW c \in S
  PROVE  /\ o[c] = Nil \/ o[c] \in S \ {c}
         /\ y[c] = Nil \/ y[c] \in S \ {c}
         /\ y[c] = Nil \/ y[c] # o[c]
<1>1. s \in Seq(Pid) /\ IsInjective(s) /\ ToSet(s) = S /\ Len(s) \in Nat
  BY DEF IsList
<1>2. PICK i \in 1 .. Len(s) : s[i] = c
  BY <1>1, InToSet
<1>3. \A j \in 1 .. Len(s) : s[j] \in S /\ \A k \in 1 .. Len(s) : s[j] = s[k] => j = k
  BY <1>1, InToSet DEF IsInjective
<1>4. IF i < Len(s) THEN o[c] = s[i + 1] /\ i + 1 \in 1 .. Len(s) ELSE o[c] = Nil
  BY <1>1, <1>2, Member
<1>5. IF i > 1 THEN y[c] = s[i - 1] /\ i - 1 \in 1 .. Len(s) /\ y[c] # Nil ELSE y[c] = Nil
  BY <1>1, <1>2, Member
<1>. QED BY <1>1, <1>2, <1>3, <1>4, <1>5

\* The pointers after remove_links, one by one.
LEMMA RemoveLinksPoints ==
  ASSUME TreeInv, NEW c \in Pid, remove_links(c),
         optr[c] = Nil \/ optr[c] \in Procs \ {c},
         yptr[c] = Nil \/ yptr[c] \in Procs \ {c},
         parent[c] \in Procs
  PROVE  /\ parent' \in [Procs -> Ptr] /\ cptr' \in [Procs -> Ptr]
         /\ yptr' \in [Procs -> Ptr] /\ optr' \in [Procs -> Ptr]
         /\ \A x \in Procs \ {c} :
              /\ parent'[x] = parent[x]
              /\ optr'[x] = IF x = yptr[c] THEN optr[c] ELSE optr[x]
              /\ yptr'[x] = IF x = optr[c] THEN yptr[c] ELSE yptr[x]
         /\ \A x \in Procs :
              cptr'[x] = IF yptr[c] = Nil /\ x = parent[c] THEN optr[c] ELSE cptr[x]
<1>1. /\ parent \in [Procs -> Ptr] /\ yptr \in [Procs -> Ptr] /\ optr \in [Procs -> Ptr]
      /\ cptr \in [Procs -> Ptr] /\ c \in Procs /\ Nil \notin Procs /\ Nil \in Ptr
      /\ optr[c] \in Ptr /\ yptr[c] \in Ptr
  BY TreeFacts DEF TreeInv, TreeTypeOK, Procs, Ptr
<1>2. parent' = [parent EXCEPT ![c] = Nil]
      /\ cptr' = IF yptr[c] = Nil THEN [cptr EXCEPT ![parent[c]] = optr[c]] ELSE cptr
  BY DEF remove_links
<1>3. /\ optr' \in [Procs -> Ptr]
      /\ \A x \in Procs \ {c} : optr'[x] = IF x = yptr[c] THEN optr[c] ELSE optr[x]
  <2>1. optr' = [Through(optr, yptr[c], optr[c]) EXCEPT ![c] = Nil]
    BY DEF remove_links
  <2>2. CASE yptr[c] = Nil
    BY <1>1, <2>1, <2>2 DEF Through
  <2>3. CASE yptr[c] # Nil
    <3>1. optr' = [[optr EXCEPT ![yptr[c]] = optr[c]] EXCEPT ![c] = Nil]
      BY <2>1, <2>3 DEF Through
    <3>. QED BY <1>1, <2>3, <3>1
  <2>. QED BY <2>2, <2>3
<1>4. /\ yptr' \in [Procs -> Ptr]
      /\ \A x \in Procs \ {c} : yptr'[x] = IF x = optr[c] THEN yptr[c] ELSE yptr[x]
  <2>1. yptr' = [Through(yptr, optr[c], yptr[c]) EXCEPT ![c] = Nil]
    BY DEF remove_links
  <2>2. CASE optr[c] = Nil
    BY <1>1, <2>1, <2>2 DEF Through
  <2>3. CASE optr[c] # Nil
    <3>1. yptr' = [[yptr EXCEPT ![optr[c]] = yptr[c]] EXCEPT ![c] = Nil]
      BY <2>1, <2>3 DEF Through
    <3>. QED BY <1>1, <2>3, <3>1
  <2>. QED BY <2>2, <2>3
<1>5. /\ cptr' \in [Procs -> Ptr]
      /\ \A x \in Procs :
           cptr'[x] = IF yptr[c] = Nil /\ x = parent[c] THEN optr[c] ELSE cptr[x]
  BY <1>1, <1>2
<1>. QED BY <1>1, <1>2, <1>3, <1>4, <1>5

\* do_wait takes its zombie from the list of its parent.
LEMMA DoWaitLists ==
  ASSUME TreeInv, NEW p \in Pid, NEW c \in Pid, DoWait(p, c)
  PROVE  /\ Lists' /\ parent' \in [Procs -> Ptr] /\ cptr' \in [Procs -> Ptr]
         /\ yptr' \in [Procs -> Ptr] /\ optr' \in [Procs -> Ptr]
         /\ \A x \in Procs \ {c} : parent'[x] = parent[x]
<1>1. /\ exiting = Nil /\ exiting' = Nil /\ p \in Used /\ c \in Used /\ p # c
      /\ parent[c] = p /\ Used' = Used \ {c} /\ \A q \in Used : parent[q] # c
  BY WaitFacts
<1>2. PICK s \in Seq(Pid) : IsList(s, Children(p), cptr[p], optr, yptr, 1)
  <2>1. (IF p = exiting THEN 2 ELSE 1) = 1
    BY <1>1, TreeFacts DEF Procs
  <2>. QED BY <1>1, <2>1 DEF TreeInv, Lists, HasList
<1>3. c \in Children(p) /\ Children(p) \subseteq Used /\ Used \subseteq Procs
      /\ p \in Procs
  BY <1>1, TreeFacts DEF Children, Procs
<1>4. /\ optr[c] = Nil \/ optr[c] \in Children(p) \ {c}
      /\ yptr[c] = Nil \/ yptr[c] \in Children(p) \ {c}
  BY <1>2, <1>3, Neighbours
<1>5. /\ parent' \in [Procs -> Ptr] /\ cptr' \in [Procs -> Ptr]
      /\ yptr' \in [Procs -> Ptr] /\ optr' \in [Procs -> Ptr]
      /\ \A x \in Procs \ {c} :
           /\ parent'[x] = parent[x]
           /\ optr'[x] = IF x = yptr[c] THEN optr[c] ELSE optr[x]
           /\ yptr'[x] = IF x = optr[c] THEN yptr[c] ELSE yptr[x]
      /\ \A x \in Procs :
           cptr'[x] = IF yptr[c] = Nil /\ x = parent[c] THEN optr[c] ELSE cptr[x]
  <2>1. remove_links(c)
    BY DEF DoWait
  <2>2. optr[c] = Nil \/ optr[c] \in Procs \ {c}
    BY <1>3, <1>4
  <2>3. yptr[c] = Nil \/ yptr[c] \in Procs \ {c}
    BY <1>3, <1>4
  <2>. QED BY <1>1, <1>3, <2>1, <2>2, <2>3, RemoveLinksPoints
<1>6. ASSUME NEW q \in Used' \cup {IdleprocPid} PROVE HasList(q)'
  <2>1. q \in Procs /\ q \in Used \cup {IdleprocPid} /\ q # c
    BY <1>1, <1>3, TreeFacts DEF Procs
  <2>2. Children(q)' = Children(q) \ {c}
    BY <1>1, <1>3, <1>5 DEF Children
  <2>3. CASE q = p
    <3>1. \E r : IsList(r, Children(p) \ {c}, IF yptr[c] = Nil THEN optr[c] ELSE cptr[p],
                        optr', yptr', 1)
      <4>1. PointPast(Children(p), c, optr, yptr, optr', yptr')
        BY <1>3, <1>5 DEF PointPast
      <4>. QED BY <1>2, <1>3, <4>1, ListRemove
    <3>2. PICK r : IsList(r, Children(p) \ {c}, IF yptr[c] = Nil THEN optr[c] ELSE cptr[p],
                          optr', yptr', 1)
      BY <3>1
    <3>3. r \in Seq(Pid) /\ (IF q = exiting' THEN 2 ELSE 1) = 1
      BY <1>1, <2>1, <3>2, TreeFacts DEF IsList
    <3>4. cptr'[q] = IF yptr[c] = Nil THEN optr[c] ELSE cptr[p]
      BY <1>1, <1>3, <1>5, <2>3
    <3>5. IsList(r, Children(q)', cptr'[q], optr', yptr', IF q = exiting' THEN 2 ELSE 1)
      BY <2>2, <2>3, <3>2, <3>3, <3>4
    <3>. QED BY <3>3, <3>5 DEF HasList
  <2>4. CASE q # p
    <3>1. Children(q)' = Children(q) /\ \A x \in Children(q) : x \notin Children(p) /\ x \in Procs
      BY <1>1, <1>3, <2>2, <2>4 DEF Children
    <3>2. \A x \in Children(q) : x # c /\ x # optr[c] /\ x # yptr[c]
      BY <1>3, <1>4, <3>1, TreeFacts
    <3>3. \A x \in Children(q) : optr'[x] = optr[x] /\ yptr'[x] = yptr[x]
      BY <1>5, <3>1, <3>2
    <3>4. cptr'[q] = cptr[q] /\ q # exiting
      BY <1>1, <1>5, <2>1, <2>4, TreeFacts
    <3>. QED BY <2>1, <3>1, <3>3, <3>4, ListStays
  <2>. QED BY <2>3, <2>4
<1>. QED BY <1>5, <1>6 DEF Lists

\* The invariant holds before proc_init.
LEMMA TreeStart == TreeInit => TreeInv
<1>. SUFFICES ASSUME TreeInit PROVE TreeInv
  OBVIOUS
<1>1. PidInv /\ Used = {} /\ le = 0 /\ proc_list = <<>>
  BY PidInit DEF TreeInit, Init, Used, ToSet
<1>2. TreeTypeOK
  BY <1>1 DEF TreeInit, TreeTypeOK, NoLinks, Ptr, PidInv
<1>3. HashExact
  BY <1>1 DEF TreeInit, HashExact, ToSet, IsInjective
<1>4. Callers /\ ParentsLive
  BY <1>1 DEF TreeInit, Callers, ParentsLive
<1>5. Lists
  <2>. SUFFICES ASSUME NEW p \in Used \cup {IdleprocPid} PROVE HasList(p)
    BY DEF Lists
  <2>1. p = IdleprocPid /\ Children(p) = {} /\ cptr[p] = Nil /\ p # exiting
    BY <1>1, TreeAssumption, PidAssumption DEF Children, TreeInit, NoLinks, IdleprocPid
  <2>2. <<>> \in Seq(Pid) /\ (IF p = exiting THEN 2 ELSE 1) = 1
    BY <2>1
  <2>3. IsList(<<>>, {}, Nil, optr, yptr, 1)
    BY EmptyList
  <2>. QED BY <2>1, <2>2, <2>3 DEF HasList
<1>. QED BY <1>1, <1>2, <1>3, <1>4, <1>5 DEF TreeInv

\* get_pid takes the fork of the caller, and no pointer changes.
LEMMA DoForkTree == ASSUME TreeInv, NEW p \in Procs, DoFork(p) PROVE TreeInv'
<1>1. /\ exiting = Nil /\ MayFork(p) /\ Enter /\ caller' = p
      /\ UNCHANGED <<proc_list, links, hash_list, zombie, exiting>>
  BY DEF DoFork, Enter
<1>2. PidInv' /\ TypeOK'
  BY <1>1, EnterStep DEF TreeInv, PidInv
<1>3. /\ Used' = Used /\ le' # 0 /\ p # Nil
  <2>1. le' # 0
    BY <1>1 DEF Enter, Scanned, TreeInv, PidInv, TypeOK
  <2>. QED BY <1>1, <2>1, TreeFacts DEF Used
<1>4. TreeTypeOK' /\ HashExact'
  BY <1>1, <1>2, <1>3, TreeFacts DEF TreeInv, TreeTypeOK, HashExact, links
<1>5. Callers' /\ ParentsLive'
  BY <1>1, <1>3 DEF TreeInv, Callers, ParentsLive, MayFork, links
<1>6. Lists'
  BY <1>1, ListsFrame DEF KeepsLists
<1>. QED BY <1>2, <1>4, <1>5, <1>6 DEF TreeInv

\* The scan of get_pid sees the list and leaves everything else.
LEMMA GetPidLoopTree == ASSUME TreeInv, GetPidLoop PROVE TreeInv'
<1>1. UNCHANGED <<proc_list, links, hash_list, zombie, caller, exiting>>
  BY DEF GetPidLoop, Collide, Pass, treeVars
<1>2. PidInv' /\ TypeOK'
  BY CollideStep, PassStep DEF GetPidLoop, TreeInv, PidInv
<1>3. Used' = Used /\ le # 0 /\ le' # 0
  BY <1>1 DEF Used, GetPidLoop, Collide, Pass, Scanning, TreeInv, PidInv, TypeOK, Scanned
<1>4. TreeTypeOK' /\ HashExact'
  BY <1>1, <1>2, <1>3 DEF TreeInv, TreeTypeOK, HashExact, links
<1>5. Callers' /\ ParentsLive'
  BY <1>1, <1>3 DEF TreeInv, Callers, ParentsLive, links
<1>6. Lists'
  BY <1>1, ListsFrame DEF KeepsLists
<1>. QED BY <1>2, <1>4, <1>5, <1>6 DEF TreeInv

\* hash_proc puts the new pid in its bucket, first.
LEMMA SetLinksHash == ASSUME TreeInv, SetLinks PROVE HashExact'
<1>1. /\ last_pid \in Pid /\ last_pid \notin Used /\ Used' = Used \cup {last_pid}
  BY CandidateFree, ReturnLinks DEF SetLinks, Return, TreeInv
<1>2. PICK c \in Pid : c = last_pid
  BY <1>1
<1>3. /\ hash_list \in [Bucket -> Seq(Pid)] /\ pid_hashfn[c] \in Bucket
      /\ hash_list' = [hash_list EXCEPT ![pid_hashfn[c]] = <<c>> \o @]
  BY <1>2, TreeAssumption DEF SetLinks, TreeInv, TreeTypeOK
<1>4. ASSUME NEW b \in Bucket
      PROVE  /\ ToSet(hash_list'[b]) = {p \in Used \cup {c} : pid_hashfn[p] = b}
             /\ IsInjective(hash_list'[b])
  <2>1. /\ ToSet(hash_list[b]) = {p \in Used : pid_hashfn[p] = b}
        /\ IsInjective(hash_list[b]) /\ hash_list[b] \in Seq(Pid)
    BY <1>3 DEF TreeInv, HashExact
  <2>2. CASE b = pid_hashfn[c]
    <3>1. hash_list'[b] = <<c>> \o hash_list[b] /\ c \notin ToSet(hash_list[b])
      BY <1>1, <1>2, <1>3, <2>1, <2>2
    <3>2. /\ IsInjective(<<c>> \o hash_list[b])
          /\ ToSet(<<c>> \o hash_list[b]) = ToSet(hash_list[b]) \cup {c}
      BY <2>1, <3>1, ConsNew
    <3>. QED BY <2>1, <2>2, <3>1, <3>2
  <2>3. CASE b # pid_hashfn[c]
    BY <1>3, <2>1, <2>3
  <2>. QED BY <2>2, <2>3
<1>. QED BY <1>1, <1>2, <1>4 DEF HashExact

\* do_fork returns with a new process in the table.
LEMMA SetLinksTree == ASSUME TreeInv, SetLinks PROVE TreeInv'
<1>1. /\ last_pid \in Pid /\ last_pid \notin Used /\ Used' = Used \cup {last_pid}
      /\ proc_list' # <<>> /\ le' = 0 /\ caller' = Nil
      /\ UNCHANGED <<zombie, exiting>>
  <2>1. Len(proc_list') = Len(proc_list) + 1 /\ Len(proc_list) \in Nat
    BY ReturnLinks DEF SetLinks, TreeInv, PidInv, TypeOK
  <2>. QED BY <2>1, CandidateFree, ReturnLinks DEF SetLinks, Return, TreeInv
<1>2. PidInv'
  BY ReturnStep DEF SetLinks, TreeInv
<1>3. Lists' /\ TreeTypeOK'
  BY SetLinksLists
<1>4. exiting = Nil /\ caller \in Used \cup {IdleprocPid} /\ caller \notin zombie
      /\ (caller = IdleprocPid => last_pid = InitprocPid)
  BY TreeFacts DEF SetLinks, Return, Scanned, TreeInv, Callers, PidInv, TypeOK, InitprocFirst
<1>5. Callers'
  BY <1>1, <1>4, TreeFacts DEF TreeInv, Callers
<1>6. \A x \in Used : parent'[x] = parent[x]
  BY <1>1, TreeFacts DEF SetLinks, LinkChild, TreeInv, TreeTypeOK
<1>7. parent'[last_pid] = caller
  BY <1>1 DEF SetLinks, LinkChild, TreeInv, TreeTypeOK
<1>8. ParentsLive'
  BY <1>1, <1>4, <1>6, <1>7 DEF TreeInv, ParentsLive
<1>. QED BY <1>2, <1>3, <1>5, <1>8, SetLinksHash DEF TreeInv

\* do_exit makes a zombie and begins with its children.
LEMMA DoExitTree == ASSUME TreeInv, NEW p \in Procs, DoExit(p) PROVE TreeInv'
<1>1. /\ le = 0 /\ exiting = Nil /\ p \in Used \ (zombie \cup {InitprocPid})
      /\ zombie' = zombie \cup {p} /\ exiting' = p
      /\ UNCHANGED <<pidVars, proc_list, le, links, hash_list, caller>>
  BY DEF DoExit, pidVars
<1>2. PidInv' /\ Used' = Used /\ TypeOK'
  BY <1>1 DEF TreeInv, PidInv, TypeOK, PidsUnique, SafeWindow, ScanSound, InitprocFirst,
              Used, Scanned, pidVars
<1>3. TreeTypeOK' /\ HashExact'
  BY <1>1, <1>2 DEF TreeInv, TreeTypeOK, HashExact, links
<1>4. Callers'
  BY <1>1, <1>2 DEF TreeInv, Callers
<1>5. ParentsLive'
  BY <1>1, <1>2, TreeFacts DEF TreeInv, ParentsLive, links, Procs
<1>6. Lists'
  BY <1>1, ListsFrame DEF KeepsLists
<1>. QED BY <1>2, <1>3, <1>4, <1>5, <1>6 DEF TreeInv

\* do_exit moves one child.
LEMMA MoveChildTree == ASSUME TreeInv, MoveChild PROVE TreeInv'
<1>1. /\ UNCHANGED <<pidVars, proc_list, le, hash_list, zombie, caller, exiting>>
      /\ exiting # Nil /\ cptr[exiting] # Nil
  BY DEF MoveChild, pidVars
<1>2. PidInv' /\ Used' = Used
  BY <1>1 DEF TreeInv, PidInv, TypeOK, PidsUnique, SafeWindow, ScanSound, InitprocFirst,
              Used, Scanned, pidVars
<1>3. Lists' /\ TreeTypeOK'
  BY MoveChildLists
<1>4. HashExact' /\ Callers'
  BY <1>1, <1>2 DEF TreeInv, HashExact, Callers
<1>5. /\ exiting \in Used /\ InitprocPid \in Used /\ InitprocPid \notin zombie
      /\ InitprocPid # IdleprocPid
  BY <1>1, TreeFacts DEF TreeInv, TreeTypeOK, Callers
<1>6. parent' = [parent EXCEPT ![cptr[exiting]] = InitprocPid]
  BY DEF MoveChild, LinkChild
<1>7. \A x \in Used : parent'[x] = IF x = cptr[exiting] THEN InitprocPid ELSE parent[x]
  BY <1>6, TreeFacts DEF TreeInv, TreeTypeOK
<1>8. ParentsLive'
  BY <1>1, <1>2, <1>5, <1>7 DEF TreeInv, ParentsLive
<1>. QED BY <1>2, <1>3, <1>4, <1>8 DEF TreeInv

\* do_exit has no child left to hand over.
LEMMA ExitEndTree == ASSUME TreeInv, ExitEnd PROVE TreeInv'
<1>1. /\ UNCHANGED <<pidVars, proc_list, le, links, hash_list, zombie, caller>>
      /\ exiting' = Nil /\ exiting # Nil /\ cptr[exiting] = Nil
  BY DEF ExitEnd, pidVars
<1>2. PidInv' /\ Used' = Used /\ TypeOK'
  BY <1>1 DEF TreeInv, PidInv, TypeOK, PidsUnique, SafeWindow, ScanSound, InitprocFirst,
              Used, Scanned, pidVars
<1>3. TreeTypeOK' /\ HashExact' /\ Callers'
  BY <1>1, <1>2 DEF TreeInv, TreeTypeOK, HashExact, Callers, links
<1>4. Children(exiting) = {}
  <2>1. exiting \in Used
    BY <1>1 DEF TreeInv, TreeTypeOK
  <2>. QED BY <1>1, <2>1, FirstChild
<1>5. ParentsLive'
  BY <1>1, <1>2, <1>4 DEF TreeInv, ParentsLive, links, Children
<1>6. Lists'
  BY <1>1, ListsFrame DEF KeepsLists
<1>. QED BY <1>2, <1>3, <1>5, <1>6 DEF TreeInv

\* unhash_proc takes the pid from its bucket.
LEMMA DoWaitHash ==
  ASSUME TreeInv, NEW p \in Pid, NEW c \in Pid, DoWait(p, c)
  PROVE  HashExact' /\ hash_list' \in [Bucket -> Seq(Pid)]
<1>1. Used' = Used \ {c}
  BY WaitFacts
<1>2. /\ hash_list \in [Bucket -> Seq(Pid)] /\ pid_hashfn[c] \in Bucket
      /\ hash_list' = [hash_list EXCEPT ![pid_hashfn[c]] = RemoveFirst(@, c)]
  BY TreeAssumption DEF DoWait, unhash_proc, TreeInv, TreeTypeOK
<1>3. ASSUME NEW b \in Bucket
      PROVE  /\ hash_list'[b] \in Seq(Pid)
             /\ ToSet(hash_list'[b]) = {q \in Used \ {c} : pid_hashfn[q] = b}
             /\ IsInjective(hash_list'[b])
  <2>1. /\ ToSet(hash_list[b]) = {q \in Used : pid_hashfn[q] = b}
        /\ IsInjective(hash_list[b]) /\ hash_list[b] \in Seq(Pid)
    BY <1>2 DEF TreeInv, HashExact
  <2>2. CASE b = pid_hashfn[c]
    <3>1. hash_list'[b] = RemoveFirst(hash_list[b], c)
      BY <1>2, <2>2
    <3>2. /\ RemoveFirst(hash_list[b], c) \in Seq(Pid)
          /\ IsInjective(RemoveFirst(hash_list[b], c))
          /\ ToSet(RemoveFirst(hash_list[b], c)) = ToSet(hash_list[b]) \ {c}
      BY <2>1, RemoveFirstExact
    <3>. QED BY <2>1, <3>1, <3>2
  <2>3. CASE b # pid_hashfn[c]
    BY <1>2, <2>1, <2>3
  <2>. QED BY <2>2, <2>3
<1>4. HashExact'
  BY <1>1, <1>3 DEF HashExact
<1>5. hash_list' \in [Bucket -> Seq(Pid)]
  BY <1>2, <1>3
<1>. QED BY <1>4, <1>5

\* do_wait frees the zombie.
LEMMA DoWaitTree ==
  ASSUME TreeInv, NEW p \in Pid, NEW c \in Pid, DoWait(p, c)
  PROVE  TreeInv'
<1>1. /\ exiting = Nil /\ exiting' = Nil /\ caller' = caller /\ zombie' = zombie \ {c}
      /\ c \in zombie /\ c \in Used /\ Used' = Used \ {c} /\ c # InitprocPid
      /\ proc_list # <<>> /\ proc_list' # <<>> /\ le = 0 /\ le' = 0 /\ PidInv'
      /\ \A q \in Used : parent[q] # c
  BY WaitFacts
<1>2. /\ Lists' /\ parent' \in [Procs -> Ptr] /\ cptr' \in [Procs -> Ptr]
      /\ yptr' \in [Procs -> Ptr] /\ optr' \in [Procs -> Ptr]
      /\ \A x \in Procs \ {c} : parent'[x] = parent[x]
  BY DoWaitLists
<1>3. HashExact' /\ hash_list' \in [Bucket -> Seq(Pid)]
  BY DoWaitHash
<1>4. TreeTypeOK'
  BY <1>1, <1>2, <1>3 DEF TreeInv, TreeTypeOK, Procs, PidInv
<1>5. Callers'
  BY <1>1 DEF TreeInv, Callers
<1>6. ParentsLive'
  <2>1. \A x \in Used : x \in Procs
    BY TreeFacts DEF Procs
  <2>. QED BY <1>1, <1>2, <2>1 DEF TreeInv, ParentsLive
<1>. QED BY <1>1, <1>2, <1>3, <1>4, <1>5, <1>6 DEF TreeInv

\* Nothing happens.
LEMMA TreeStutter == ASSUME TreeInv, UNCHANGED vars PROVE TreeInv'
<1>1. UNCHANGED <<pidVars, proc_list, le, links, hash_list, zombie, caller, exiting>>
  BY DEF vars, treeVars, pidVars
<1>2. PidInv' /\ Used' = Used /\ TypeOK'
  BY <1>1 DEF TreeInv, PidInv, TypeOK, PidsUnique, SafeWindow, ScanSound, InitprocFirst,
              Used, Scanned, pidVars
<1>3. TreeTypeOK' /\ HashExact' /\ Callers' /\ ParentsLive'
  BY <1>1, <1>2 DEF TreeInv, TreeTypeOK, HashExact, Callers, ParentsLive, links
<1>4. Lists'
  BY <1>1, ListsFrame DEF KeepsLists
<1>. QED BY <1>2, <1>3, <1>4 DEF TreeInv

\* The invariant of the process table is inductive.
LEMMA TreeInductive == TreeInv /\ [TreeNext]_vars => TreeInv'
<1>. SUFFICES ASSUME TreeInv, [TreeNext]_vars PROVE TreeInv'
  OBVIOUS
<1>1. CASE Busy
  BY <1>1, GetPidLoopTree, SetLinksTree, MoveChildTree, ExitEndTree DEF Busy
<1>2. CASE \E p \in Pid \cup {IdleprocPid} : DoFork(p) \/ DoExit(p)
  BY <1>2, DoForkTree, DoExitTree DEF Procs
<1>3. CASE \E p, c \in Pid : DoWait(p, c)
  BY <1>3, DoWaitTree
<1>4. CASE UNCHANGED vars
  BY <1>4, TreeStutter
<1>. QED BY <1>1, <1>2, <1>3, <1>4 DEF TreeNext

\* With the lists the pointers agree.
LEMMA TreeInvLists == TreeInv => ListsExact
<1>. SUFFICES ASSUME TreeInv PROVE ListsExact
  OBVIOUS
<1>1. ASSUME NEW p \in Used \cup {IdleprocPid}
      PROVE  /\ {Child(p, k) : k \in 1 .. Cardinality(Children(p))} = Children(p)
             /\ Child(p, Cardinality(Children(p)) + 1) = Nil
  <2>1. PICK s \in Seq(Pid) :
          IsList(s, Children(p), cptr[p], optr, yptr, IF p = exiting THEN 2 ELSE 1)
    BY DEF TreeInv, Lists, HasList
  <2>2. (IF p = exiting THEN 2 ELSE 1) \in {1, 2}
    OBVIOUS
  <2>3. ToSet(s) = Children(p) /\ IsInjective(s)
    BY <2>1 DEF IsList
  <2>4. /\ Cardinality(Children(p)) = Len(s) /\ Len(s) <= MAX_PID - 1 /\ Len(s) \in Nat
        /\ MAX_PID \in Nat
    BY <2>3, ListLength, PidAssumption
  <2>5. \A k \in 1 .. MAX_PID : Child(p, k) = At(s, k)
    BY <2>1, <2>2, ChildAt
  <2>6. Child(p, Cardinality(Children(p)) + 1) = Nil
    <3>1. Len(s) + 1 \in 1 .. MAX_PID /\ Len(s) + 1 \notin 1 .. Len(s)
      BY <2>4
    <3>. QED BY <2>4, <2>5, <3>1 DEF At
  <2>7. \A k \in 1 .. Len(s) : Child(p, k) = s[k]
    <3>1. \A k \in 1 .. Len(s) : k \in 1 .. MAX_PID
      BY <2>4
    <3>. QED BY <2>5, <3>1 DEF At
  <2>8. ASSUME NEW c
        PROVE  c \in Children(p) <=> \E k \in 1 .. Len(s) : Child(p, k) = c
    BY <2>3, <2>7, InToSet
  <2>. QED BY <2>4, <2>6, <2>8
<1>2. ChildListExact
  BY <1>1 DEF ChildListExact
<1>3. ASSUME NEW c \in Used, parent[c] # exiting
      PROVE  IF yptr[c] = Nil THEN cptr[parent[c]] = c
             ELSE parent[yptr[c]] = parent[c] /\ optr[yptr[c]] = c
  <2>1. parent[c] \in Used \cup {IdleprocPid} /\ c \in Children(parent[c])
    BY DEF TreeInv, ParentsLive, Children
  <2>2. PICK s \in Seq(Pid) :
          IsList(s, Children(parent[c]), cptr[parent[c]], optr, yptr, 1)
    BY <1>3, <2>1 DEF TreeInv, Lists, HasList
  <2>3. PICK i \in 1 .. Len(s) : s[i] = c
    BY <2>1, <2>2, InToSet DEF IsList
  <2>4. CASE i = 1
    BY <2>2, <2>3, <2>4, Member
  <2>5. CASE i > 1
    <3>1. yptr[c] = s[i - 1] /\ yptr[c] # Nil
      BY <2>2, <2>3, <2>5, Member
    <3>2. i - 1 \in 1 .. Len(s) /\ i - 1 < Len(s) /\ (i - 1) + 1 = i
      BY <2>5
    <3>3. optr[s[i - 1]] = s[i] /\ s[i - 1] \in Children(parent[c])
      BY <2>2, <3>2, Member
    <3>. QED BY <2>3, <3>1, <3>3 DEF Children
  <2>. QED BY <2>4, <2>5
<1>4. YptrExact
  BY <1>3 DEF YptrExact
<1>. QED BY <1>2, <1>4 DEF ListsExact, TreeInv

\* The pointers of the process table agree with each other at all times, for
\* every MAX_PID above MAX_PROCESS and every hash (proc.c set_links,
\* remove_links, hash_proc, unhash_proc, do_exit's loop).
THEOREM TreeLists == TreeSpec => []ListsExact
<1>1. TreeInit => TreeInv
  BY TreeStart
<1>2. TreeInv /\ [TreeNext]_vars => TreeInv'
  BY TreeInductive
<1>3. TreeInv => ListsExact
  BY TreeInvLists
<1>. QED BY <1>1, <1>2, <1>3, PTL DEF TreeSpec

-----------------------------------------------------------------------------
(***************************************************************************)
(* The process table implements FamilySpec.                                *)
(***************************************************************************)

\* Outside do_exit's loop the parent is the one the pointer says.
LEMMA ParentSeen ==
  ASSUME TreeInv, exiting = Nil
  PROVE  ParentOf = [x \in Used |-> parent[x]]
<1>1. \A x \in Used : parent[x] # exiting
  BY TreeFacts DEF TreeInv, ParentsLive, Procs
<1>. QED BY <1>1 DEF ParentOf

\* A step that leaves what others see of the family.
LEMMA FamilyStutter ==
  ASSUME Used' = Used, zombie' = zombie,
         \A x \in Used : (IF parent'[x] = exiting' THEN InitprocPid ELSE parent'[x])
                         = (IF parent[x] = exiting THEN InitprocPid ELSE parent[x])
  PROVE  UNCHANGED <<ParentOf, zombie>>
BY DEF ParentOf

\* do_exit hands its children over one by one, and nobody sees it.
LEMMA MoveChildMaps == ASSUME TreeInv, MoveChild PROVE UNCHANGED <<ParentOf, zombie>>
<1>1. /\ UNCHANGED <<proc_list, zombie, exiting>> /\ exiting # Nil /\ cptr[exiting] # Nil
  BY DEF MoveChild, pidVars
<1>2. /\ exiting \in Used /\ Used' = Used /\ InitprocPid \notin zombie /\ exiting \in zombie
  BY <1>1, TreeFacts DEF TreeInv, TreeTypeOK, Callers, Used
<1>3. cptr[exiting] \in Used /\ parent[cptr[exiting]] = exiting
  BY <1>1, <1>2, FirstChild DEF Children
<1>4. parent' = [parent EXCEPT ![cptr[exiting]] = InitprocPid]
  BY DEF MoveChild, LinkChild
<1>5. \A x \in Used : parent'[x] = IF x = cptr[exiting] THEN InitprocPid ELSE parent[x]
  BY <1>4, TreeFacts DEF TreeInv, TreeTypeOK
<1>. QED BY <1>1, <1>2, <1>3, <1>5, FamilyStutter

\* do_fork makes a process that its parent waits for.
LEMMA SetLinksMaps == ASSUME TreeInv, SetLinks PROVE Family!Fork(caller, last_pid)
<1>1. /\ last_pid \in Pid /\ last_pid \notin Used /\ Used' = Used \cup {last_pid}
      /\ zombie' = zombie /\ exiting' = exiting
  BY CandidateFree, ReturnLinks DEF SetLinks, Return, TreeInv
<1>2. /\ exiting = Nil
      /\ caller \in Used \ zombie \/ (caller = IdleprocPid /\ last_pid = InitprocPid)
  BY TreeFacts DEF SetLinks, Return, Scanned, TreeInv, Callers, PidInv, TypeOK, InitprocFirst
<1>3. \A x \in Used : parent'[x] = parent[x]
  BY <1>1, TreeFacts DEF SetLinks, LinkChild, TreeInv, TreeTypeOK
<1>4. parent'[last_pid] = caller
  BY <1>1 DEF SetLinks, LinkChild, TreeInv, TreeTypeOK
<1>5. TreeInv'
  BY SetLinksTree
<1>6. ParentOf = [x \in Used |-> parent[x]] /\ DOMAIN ParentOf = Used
  BY <1>2, ParentSeen
<1>7. \A x \in Used : parent[x] # Nil
  BY TreeFacts DEF TreeInv, ParentsLive, Procs
<1>8. ParentOf' = [x \in Used \cup {last_pid} |-> parent'[x]]
  BY <1>1, <1>2, <1>3, <1>4, <1>7, TreeFacts DEF ParentOf, Procs
<1>9. ParentOf' = [x \in Used \cup {last_pid} |->
                     IF x = last_pid THEN caller ELSE ParentOf[x]]
  BY <1>3, <1>4, <1>6, <1>8
<1>. QED BY <1>1, <1>2, <1>6, <1>9 DEF Family!Fork, Family!Proc

\* do_exit's first step is the whole exit to the others.
LEMMA DoExitMaps ==
  ASSUME TreeInv, NEW p \in Procs, DoExit(p)
  PROVE  Family!Exit(p)
<1>1. /\ exiting = Nil /\ p \in Used \ (zombie \cup {InitprocPid})
      /\ zombie' = zombie \cup {p} /\ exiting' = p /\ Used' = Used /\ parent' = parent
  BY DEF DoExit, pidVars, Used, links
<1>2. ParentOf = [x \in Used |-> parent[x]] /\ DOMAIN ParentOf = Used
  BY <1>1, ParentSeen
<1>3. ParentOf' = [x \in Used |-> IF parent[x] = p THEN InitprocPid ELSE parent[x]]
  BY <1>1 DEF ParentOf
<1>4. ParentOf' = [x \in Used |-> IF ParentOf[x] = p THEN InitprocPid ELSE ParentOf[x]]
  BY <1>2, <1>3
<1>. QED BY <1>1, <1>2, <1>4 DEF Family!Exit, Family!Proc

\* do_wait reaps a zombie of its own.
LEMMA DoWaitMaps ==
  ASSUME TreeInv, NEW p \in Pid, NEW c \in Pid, DoWait(p, c)
  PROVE  Family!Reap(p, c)
<1>1. /\ exiting = Nil /\ exiting' = Nil /\ zombie' = zombie \ {c} /\ p \in Used \ zombie
      /\ c \in zombie /\ c \in Used /\ parent[c] = p /\ Used' = Used \ {c}
  BY WaitFacts
<1>2. \A x \in Procs \ {c} : parent'[x] = parent[x]
  BY DoWaitLists
<1>3. ParentOf = [x \in Used |-> parent[x]] /\ DOMAIN ParentOf = Used
  BY <1>1, ParentSeen
<1>4. \A x \in Used \ {c} : parent[x] # Nil /\ parent'[x] = parent[x]
  BY <1>2, TreeFacts DEF TreeInv, ParentsLive, Procs
<1>5. ParentOf' = [x \in Used \ {c} |-> parent[x]]
  BY <1>1, <1>4 DEF ParentOf
<1>6. ParentOf' = [x \in Used \ {c} |-> ParentOf[x]]
  BY <1>3, <1>5
<1>. QED BY <1>1, <1>3, <1>6 DEF Family!Reap, Family!Proc

\* Every step of the process table is a step of the family or none.
LEMMA FamilyStep ==
  ASSUME TreeInv, [TreeNext]_vars
  PROVE  [Family!Next]_<<ParentOf, zombie>>
<1>1. CASE Busy
  <2>1. CASE GetPidLoop
    BY <2>1, FamilyStutter DEF GetPidLoop, Collide, Pass, treeVars, links, Used
  <2>2. CASE SetLinks
    <3>1. last_pid \in Pid /\ caller \in Procs
      BY <2>2, CandidateFree, TreeFacts
         DEF SetLinks, Return, TreeInv, Callers, Procs, PidInv, TypeOK, Scanned
    <3>. QED BY <2>2, <3>1, SetLinksMaps DEF Family!Next, Procs
  <2>3. CASE MoveChild
    BY <2>3, MoveChildMaps
  <2>4. CASE ExitEnd
    <3>1. /\ UNCHANGED <<proc_list, parent, zombie>> /\ exiting' = Nil
          /\ exiting # Nil /\ cptr[exiting] = Nil
      BY <2>4 DEF ExitEnd, pidVars, links
    <3>2. Children(exiting) = {}
      <4>1. exiting \in Used
        BY <3>1 DEF TreeInv, TreeTypeOK
      <4>. QED BY <3>1, <4>1, FirstChild
    <3>3. Used' = Used /\ \A x \in Used : parent[x] # Nil /\ parent[x] # exiting
      BY <3>1, <3>2, TreeFacts DEF Children, TreeInv, ParentsLive, Procs, Used
    <3>. QED BY <3>1, <3>3, FamilyStutter
  <2>. QED BY <1>1, <2>1, <2>2, <2>3, <2>4 DEF Busy
<1>2. CASE \E p \in Procs : DoFork(p) \/ DoExit(p)
  <2>1. PICK p \in Procs : DoFork(p) \/ DoExit(p)
    BY <1>2
  <2>2. CASE DoFork(p)
    BY <2>2, FamilyStutter DEF DoFork, Enter, links, Used
  <2>3. CASE DoExit(p)
    BY <2>3, DoExitMaps DEF Family!Next, Procs
  <2>. QED BY <2>1, <2>2, <2>3
<1>3. CASE \E p, c \in Pid : DoWait(p, c)
  BY <1>3, DoWaitMaps DEF Family!Next
<1>4. CASE UNCHANGED vars
  BY <1>4, FamilyStutter DEF vars, treeVars, links, pidVars, Used
<1>. QED BY <1>1, <1>2, <1>3, <1>4 DEF TreeNext, Procs

\* The process table implements the family: a process is waited for by one
\* living process at all times, and reaped by it alone, however do_exit's loop,
\* forks and waits come together (proc.c do_fork, do_exit, do_wait).
THEOREM TreeImplementsFamily == TreeSpec => ImplementsFamilySpec
<1>1. TreeInit => Family!Init
  BY DEF TreeInit, Init, Family!Init, ParentOf, Used, ToSet
<1>2. TreeInit => TreeInv
  BY TreeStart
<1>3. TreeInv /\ [TreeNext]_vars => TreeInv'
  BY TreeInductive
<1>4. TreeInv /\ [TreeNext]_vars => [Family!Next]_<<ParentOf, zombie>>
  BY FamilyStep
<1>. QED BY <1>1, <1>2, <1>3, <1>4, PTL
     DEF TreeSpec, ImplementsFamilySpec, Family!Spec, Family!familyVars
=============================================================================
