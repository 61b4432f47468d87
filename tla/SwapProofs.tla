------------------------------ MODULE SwapProofs ------------------------------
(***************************************************************************)
(* Page replacement is right for any number of frames, pages and slots:    *)
(* the list of swappable pages is exact, every victim is the one its       *)
(* manager stands for, a search goes wrong only where StopsOnly says, and  *)
(* a page holds what was last written to it. All four follow from one      *)
(* inductive invariant, SwapInv.                                           *)
(***************************************************************************)
EXTENDS Swap, Integers, TLAPS, FiniteSetTheorems, WellFoundedInduction

-----------------------------------------------------------------------------
(* What the sequence operators of the model return.                        *)

\* An element of the set of a sequence has a place in it.
LEMMA InToSet ==
  ASSUME NEW S, NEW q \in Seq(S), NEW e
  PROVE  e \in ToSet(q) <=> \E i \in 1 .. Len(q) : q[i] = e
BY DEF ToSet

\* A queue without duplicates stays so when a newcomer joins at the tail.
LEMMA AppendNew ==
  ASSUME NEW S, NEW q \in Seq(S), NEW e \in S, IsInjective(q), e \notin ToSet(q)
  PROVE  /\ Append(q, e) \in Seq(S)
         /\ IsInjective(Append(q, e))
         /\ ToSet(Append(q, e)) = ToSet(q) \cup {e}
         /\ Append(q, e) # <<>>
<1>1. /\ Append(q, e) \in Seq(S) /\ Len(q) \in Nat /\ Len(Append(q, e)) = Len(q) + 1
      /\ Append(q, e)[Len(q) + 1] = e
      /\ \A i \in 1 .. Len(q) : Append(q, e)[i] = q[i]
  OBVIOUS
<1>2. \A i \in 1 .. Len(q) : q[i] # e
  BY InToSet
<1>3. IsInjective(Append(q, e))
  BY <1>1, <1>2 DEF IsInjective
<1>4. ToSet(Append(q, e)) = ToSet(q) \cup {e}
  BY <1>1 DEF ToSet
<1>5. Append(q, e) # <<>>
  BY <1>1
<1>. QED BY <1>1, <1>3, <1>4, <1>5

\* The elements of a concatenation.
LEMMA ConcatElements ==
  ASSUME NEW S, NEW a \in Seq(S), NEW b \in Seq(S)
  PROVE  /\ a \o b \in Seq(S)
         /\ Len(a \o b) = Len(a) + Len(b)
         /\ \A j \in 1 .. Len(a) + Len(b) :
              (a \o b)[j] = IF j <= Len(a) THEN a[j] ELSE b[j - Len(a)]
OBVIOUS

\* r is q with e put at i, and the order of the others left.
InsertedAt(S, q, i, e, r) ==
  /\ r \in Seq(S) /\ Len(r) = Len(q) + 1
  /\ \A j \in 1 .. i - 1 : r[j] = q[j]
  /\ r[i] = e
  /\ \A j \in i + 1 .. Len(q) + 1 : r[j] = q[j - 1]

\* InsertAt makes room at i and leaves the order of the others.
LEMMA InsertAtElements ==
  ASSUME NEW S, NEW q \in Seq(S), NEW i \in 1 .. Len(q) + 1, NEW e \in S
  PROVE  InsertedAt(S, q, i, e, InsertAt(q, i, e))
<1>. DEFINE a == SubSeq(q, 1, i - 1)
            b == SubSeq(q, i, Len(q))
            ae == a \o <<e>>
<1>1. a \in Seq(S) /\ Len(a) = i - 1 /\ \A j \in 1 .. i - 1 : a[j] = q[j]
  OBVIOUS
<1>2. /\ b \in Seq(S) /\ Len(b) = Len(q) - i + 1
      /\ \A j \in 1 .. Len(q) - i + 1 : b[j] = q[j + i - 1]
  OBVIOUS
<1>. HIDE DEF a, b
<1>3. /\ ae \in Seq(S) /\ Len(ae) = i
      /\ \A j \in 1 .. i : ae[j] = IF j < i THEN q[j] ELSE e
  BY <1>1
<1>. HIDE DEF ae
<1>4. /\ ae \o b \in Seq(S) /\ Len(ae \o b) = Len(q) + 1
      /\ \A j \in 1 .. Len(q) + 1 : (ae \o b)[j] = IF j <= i THEN ae[j] ELSE b[j - i]
  BY <1>2, <1>3, ConcatElements
<1>5. InsertAt(q, i, e) = ae \o b
  BY DEF InsertAt, a, b, ae
<1>6. ASSUME NEW j \in 1 .. i - 1 PROVE (ae \o b)[j] = q[j]
  BY <1>3, <1>4
<1>7. (ae \o b)[i] = e
  BY <1>3, <1>4
<1>8. ASSUME NEW j \in i + 1 .. Len(q) + 1 PROVE (ae \o b)[j] = q[j - 1]
  <2>1. j \in 1 .. Len(q) + 1 /\ j > i /\ j - i \in 1 .. Len(q) - i + 1 /\ (j - i) + i - 1 = j - 1
    OBVIOUS
  <2>2. (ae \o b)[j] = b[j - i]
    BY <1>4, <2>1
  <2>3. b[j - i] = q[(j - i) + i - 1]
    BY <1>2, <2>1
  <2>. QED BY <2>1, <2>2, <2>3
<1>. QED BY <1>4, <1>5, <1>6, <1>7, <1>8 DEF InsertedAt

\* RemoveAt closes the gap at i and leaves the order of the others.
LEMMA RemoveAtElements ==
  ASSUME NEW S, NEW q \in Seq(S), NEW i \in 1 .. Len(q)
  PROVE  /\ RemoveAt(q, i) \in Seq(S)
         /\ Len(RemoveAt(q, i)) = Len(q) - 1
         /\ \A j \in 1 .. Len(q) - 1 :
              RemoveAt(q, i)[j] = IF j < i THEN q[j] ELSE q[j + 1]
<1>. DEFINE a == SubSeq(q, 1, i - 1)
            b == SubSeq(q, i + 1, Len(q))
<1>1. a \in Seq(S) /\ Len(a) = i - 1 /\ \A j \in 1 .. i - 1 : a[j] = q[j]
  OBVIOUS
<1>2. /\ b \in Seq(S) /\ Len(b) = Len(q) - i
      /\ \A j \in 1 .. Len(q) - i : b[j] = q[j + i]
  OBVIOUS
<1>. HIDE DEF a, b
<1>3. /\ a \o b \in Seq(S) /\ Len(a \o b) = Len(a) + Len(b)
      /\ \A j \in 1 .. Len(a) + Len(b) :
           (a \o b)[j] = IF j <= Len(a) THEN a[j] ELSE b[j - Len(a)]
  BY <1>1, <1>2, ConcatElements
<1>4. ASSUME NEW j \in 1 .. Len(q) - 1
      PROVE  (a \o b)[j] = IF j < i THEN q[j] ELSE q[j + 1]
  <2>1. CASE j < i
    BY <1>1, <1>2, <1>3, <2>1
  <2>2. CASE ~ (j < i)
    <3>1. j - Len(a) \in 1 .. Len(q) - i /\ (j - Len(a)) + i = j + 1
      BY <1>1, <2>2
    <3>2. (a \o b)[j] = b[j - Len(a)]
      BY <1>1, <1>2, <1>3, <2>2
    <3>3. b[j - Len(a)] = q[j + 1]
      BY <1>2, <3>1
    <3>. QED BY <2>2, <3>2, <3>3
  <2>. QED BY <2>1, <2>2
<1>5. RemoveAt(q, i) = a \o b
  BY DEF RemoveAt, a, b
<1>6. Len(a \o b) = Len(q) - 1
  BY <1>1, <1>2, <1>3
<1>. QED BY <1>3, <1>4, <1>5, <1>6

\* What leaves a queue without duplicates is gone, and only that.
LEMMA RemoveAtExact ==
  ASSUME NEW S, NEW q \in Seq(S), NEW i \in 1 .. Len(q), IsInjective(q)
  PROVE  /\ RemoveAt(q, i) \in Seq(S)
         /\ IsInjective(RemoveAt(q, i))
         /\ ToSet(RemoveAt(q, i)) = ToSet(q) \ {q[i]}
<1>. DEFINE r == RemoveAt(q, i)
<1>1. i \in 1 .. Len(q) /\ Len(q) \in Nat
  OBVIOUS
<1>2. /\ r \in Seq(S) /\ Len(r) = Len(q) - 1
      /\ \A j \in 1 .. Len(q) - 1 : r[j] = IF j < i THEN q[j] ELSE q[j + 1]
  BY RemoveAtElements
<1>. HIDE DEF r
<1>3. IsInjective(r)
  <2>. SUFFICES ASSUME NEW j \in 1 .. Len(q) - 1, NEW k \in 1 .. Len(q) - 1, r[j] = r[k]
                PROVE  j = k
    BY <1>1, <1>2 DEF IsInjective
  <2>. DEFINE from(m) == IF m < i THEN m ELSE m + 1
  <2>1. ASSUME NEW m \in 1 .. Len(q) - 1
        PROVE  from(m) \in 1 .. Len(q) /\ r[m] = q[from(m)]
    <3>1. m \in 1 .. Len(q) /\ m + 1 \in 1 .. Len(q)
      BY <1>1
    <3>2. r[m] = IF m < i THEN q[m] ELSE q[m + 1]
      BY <1>2
    <3>. QED BY <3>1, <3>2
  <2>2. from(j) = from(k) => j = k
    BY <1>1
  <2>. HIDE DEF from
  <2>3. \A m, n \in 1 .. Len(q) : q[m] = q[n] => m = n
    BY DEF IsInjective
  <2>. QED BY <2>1, <2>2, <2>3
<1>4. ToSet(r) \subseteq ToSet(q) \ {q[i]}
  <2>. SUFFICES ASSUME NEW j \in 1 .. Len(r) PROVE r[j] \in ToSet(q) /\ r[j] # q[i]
    BY <1>2 DEF ToSet
  <2>1. PICK k \in 1 .. Len(q) : r[j] = q[k] /\ k # i
    BY <1>1, <1>2
  <2>. QED BY <1>1, <2>1 DEF IsInjective, ToSet
<1>5. ASSUME NEW x \in ToSet(q) \ {q[i]} PROVE x \in ToSet(r)
  <2>1. PICK k \in 1 .. Len(q) : q[k] = x
    BY DEF ToSet
  <2>2. k # i
    BY <1>1, <2>1
  <2>3. PICK j \in 1 .. Len(r) : r[j] = x
    <3>1. CASE k < i
      BY <1>1, <1>2, <2>1, <3>1
    <3>2. CASE k > i
      <4>1. k - 1 \in 1 .. Len(r) /\ ~(k - 1 < i) /\ (k - 1) + 1 = k
        BY <1>1, <1>2, <3>2
      <4>2. r[k - 1] = x
        BY <1>2, <2>1, <4>1
      <4>. QED BY <4>1, <4>2
    <3>. QED BY <1>1, <2>2, <3>1, <3>2
  <2>. QED BY <1>2, <2>3, InToSet
<1>. QED BY <1>2, <1>3, <1>4, <1>5 DEF r

\* Front takes the last link away.
LEMMA FrontRemoves ==
  ASSUME NEW S, NEW q \in Seq(S), q # <<>>, IsInjective(q)
  PROVE  /\ Front(q) \in Seq(S) /\ Len(Front(q)) = Len(q) - 1
         /\ Last(q) \in S /\ Last(q) = q[Len(q)] /\ Last(q) \in ToSet(q)
         /\ IsInjective(Front(q))
         /\ ToSet(Front(q)) = ToSet(q) \ {Last(q)}
         /\ \A j \in 1 .. Len(q) - 1 : Front(q)[j] = q[j]
<1>. DEFINE r == Front(q)
<1>1. /\ Len(q) \in Nat \ {0} /\ r \in Seq(S) /\ Len(r) = Len(q) - 1
      /\ \A j \in 1 .. Len(q) - 1 : r[j] = q[j]
  <2>1. Len(q) \in Nat \ {0}
    OBVIOUS
  <2>2. ASSUME NEW m \in 0 .. Len(q)
        PROVE  /\ SubSeq(q, 1, m) \in Seq(S) /\ Len(SubSeq(q, 1, m)) = m
               /\ \A j \in 1 .. m : SubSeq(q, 1, m)[j] = q[j]
    OBVIOUS
  <2>3. Len(q) - 1 \in 0 .. Len(q)
    BY <2>1
  <2>. QED BY <2>1, <2>2, <2>3 DEF Front
<1>2. Last(q) = q[Len(q)] /\ Last(q) \in S
  BY <1>1 DEF Last
<1>. HIDE DEF r
<1>3. Last(q) \in ToSet(q)
  BY <1>1, <1>2, InToSet
<1>4. IsInjective(r)
  BY <1>1 DEF IsInjective
<1>5. ToSet(r) \subseteq ToSet(q) \ {Last(q)}
  BY <1>1, <1>2 DEF IsInjective, ToSet
<1>6. ASSUME NEW x \in ToSet(q) \ {Last(q)} PROVE x \in ToSet(r)
  <2>1. PICK k \in 1 .. Len(q) : q[k] = x
    BY DEF ToSet
  <2>2. k # Len(q)
    BY <1>2, <2>1
  <2>. QED BY <1>1, <2>1, <2>2, InToSet
<1>. QED BY <1>1, <1>2, <1>3, <1>4, <1>5, <1>6 DEF r

\* A newcomer is put in front.
LEMMA ConsNew ==
  ASSUME NEW S, NEW q \in Seq(S), NEW e \in S, IsInjective(q), e \notin ToSet(q)
  PROVE  /\ <<e>> \o q \in Seq(S) /\ Len(<<e>> \o q) = Len(q) + 1
         /\ IsInjective(<<e>> \o q)
         /\ ToSet(<<e>> \o q) = ToSet(q) \cup {e}
         /\ \A j \in 1 .. Len(q) + 1 : (<<e>> \o q)[j] = IF j = 1 THEN e ELSE q[j - 1]
<1>. DEFINE r == <<e>> \o q
<1>1. /\ Len(q) \in Nat /\ r \in Seq(S) /\ Len(r) = Len(q) + 1
      /\ \A j \in 1 .. Len(q) + 1 : r[j] = IF j = 1 THEN e ELSE q[j - 1]
  OBVIOUS
<1>. HIDE DEF r
<1>2. \A j \in 1 .. Len(q) : q[j] # e /\ q[j] \in ToSet(q)
  BY InToSet
<1>3. IsInjective(r)
  <2>. SUFFICES ASSUME NEW i \in 1 .. Len(q) + 1, NEW j \in 1 .. Len(q) + 1,
                       r[i] = r[j], i < j
                PROVE  FALSE
    BY <1>1 DEF IsInjective
  <2>1. j - 1 \in 1 .. Len(q) /\ r[j] = q[j - 1]
    BY <1>1
  <2>2. CASE i = 1
    BY <1>1, <1>2, <2>1, <2>2
  <2>3. CASE i # 1
    <3>1. i - 1 \in 1 .. Len(q) /\ r[i] = q[i - 1] /\ i - 1 # j - 1
      BY <1>1, <2>3
    <3>. QED BY <2>1, <3>1 DEF IsInjective
  <2>. QED BY <2>2, <2>3
<1>4. ToSet(r) \subseteq ToSet(q) \cup {e}
  <2>. SUFFICES ASSUME NEW j \in 1 .. Len(r) PROVE r[j] \in ToSet(q) \cup {e}
    BY <1>1 DEF ToSet
  <2>1. CASE j = 1
    BY <1>1, <2>1
  <2>2. CASE j # 1
    <3>1. j - 1 \in 1 .. Len(q) /\ r[j] = q[j - 1]
      BY <1>1, <2>2
    <3>. QED BY <1>2, <3>1
  <2>. QED BY <2>1, <2>2
<1>5. ASSUME NEW x \in ToSet(q) PROVE x \in ToSet(r)
  <2>1. PICK k \in 1 .. Len(q) : q[k] = x
    BY DEF ToSet
  <2>2. k + 1 \in 1 .. Len(r) /\ r[k + 1] = x
    BY <1>1, <2>1
  <2>. QED BY <1>1, <2>2, InToSet
<1>6. e \in ToSet(r)
  <2>1. 1 \in 1 .. Len(r) /\ r[1] = e
    BY <1>1
  <2>. QED BY <1>1, <2>1, InToSet
<1>. QED BY <1>1, <1>3, <1>4, <1>5, <1>6 DEF r

\* A newcomer is put at i, and the links from there on make room.
LEMMA InsertNew ==
  ASSUME NEW S, NEW q \in Seq(S), NEW e \in S, IsInjective(q), e \notin ToSet(q),
         NEW i \in 1 .. Len(q) + 1, i <= Len(q)
  PROVE  /\ InsertAt(q, i, e) \in Seq(S) /\ Len(InsertAt(q, i, e)) = Len(q) + 1
         /\ IsInjective(InsertAt(q, i, e))
         /\ ToSet(InsertAt(q, i, e)) = ToSet(q) \cup {e}
         /\ InsertAt(q, i, e)[i] = e /\ InsertAt(q, i, e)[i + 1] = q[i]
<1>0. InsertedAt(S, q, i, e, InsertAt(q, i, e))
  BY InsertAtElements
<1>. DEFINE r == InsertAt(q, i, e)
            at(j) == IF j < i THEN j ELSE j - 1
<1>1. /\ Len(q) \in Nat /\ r \in Seq(S) /\ Len(r) = Len(q) + 1
      /\ r[i] = e
      /\ \A j \in 1 .. i - 1 : r[j] = q[j]
      /\ \A j \in i + 1 .. Len(q) + 1 : r[j] = q[j - 1]
  BY <1>0 DEF InsertedAt
<1>. HIDE DEF r
<1>2. \A j \in 1 .. Len(q) : q[j] # e /\ q[j] \in ToSet(q)
  BY InToSet
<1>3. \A j \in 1 .. Len(r) : j # i => at(j) \in 1 .. Len(q) /\ r[j] = q[at(j)]
  BY <1>1
<1>4. \A j, k \in 1 .. Len(r) : j # i /\ k # i /\ at(j) = at(k) => j = k
  BY <1>1
<1>. HIDE DEF at
<1>5. IsInjective(r)
  <2>. SUFFICES ASSUME NEW j \in 1 .. Len(r), NEW k \in 1 .. Len(r), r[j] = r[k], j # k
                PROVE  FALSE
    BY <1>1 DEF IsInjective
  <2>1. j # i /\ k # i
    BY <1>1, <1>2, <1>3
  <2>2. at(j) = at(k)
    BY <1>3, <2>1 DEF IsInjective
  <2>. QED BY <1>4, <2>1, <2>2
<1>6. ToSet(r) \subseteq ToSet(q) \cup {e}
  <2>. SUFFICES ASSUME NEW j \in 1 .. Len(r) PROVE r[j] \in ToSet(q) \cup {e}
    BY <1>1 DEF ToSet
  <2>. QED BY <1>1, <1>2, <1>3
<1>7. ASSUME NEW x \in ToSet(q) PROVE x \in ToSet(r)
  <2>1. PICK k \in 1 .. Len(q) : q[k] = x
    BY DEF ToSet
  <2>2. CASE k < i
    <3>1. k \in 1 .. i - 1 /\ k \in 1 .. Len(r)
      BY <1>1, <2>2
    <3>2. r[k] = x
      BY <1>1, <2>1, <3>1
    <3>. QED BY <1>1, <3>1, <3>2, InToSet
  <2>3. CASE k >= i
    <3>1. k + 1 \in i + 1 .. Len(q) + 1 /\ k + 1 \in 1 .. Len(r) /\ (k + 1) - 1 = k
      BY <1>1, <2>3
    <3>2. r[k + 1] = x
      BY <1>1, <2>1, <3>1
    <3>. QED BY <1>1, <3>1, <3>2, InToSet
  <2>. QED BY <2>2, <2>3
<1>8. e \in ToSet(r)
  BY <1>1, InToSet
<1>9. r[i + 1] = q[i]
  <2>1. i + 1 \in i + 1 .. Len(q) + 1 /\ (i + 1) - 1 = i
    BY <1>1
  <2>. QED BY <1>1, <2>1
<1>. QED BY <1>1, <1>5, <1>6, <1>7, <1>8, <1>9 DEF r

-----------------------------------------------------------------------------

TypeOK ==
  /\ manager \in {"fifo", "clock", "lru"}
  /\ pte \in [Page -> [kind : {"none", "frame", "swap"}, at : Nat]]
  /\ free \subseteq Frame
  /\ mem \in [Frame -> Value] /\ disk \in [Slot -> Value]
  /\ list \in Seq(Frame) /\ hand \in Link /\ visited \in [Link -> {0, 1}]
  /\ pra_vaddr \in [Frame -> Nat]
  /\ lru_use \in [Counted -> 1 .. UNUSED]
  /\ op \in {Idle} \cup [pc : {"alloc", "swap_out"}, page : Page, victim : Frame \cup {NULL}]
  /\ halt \in {"no", "wild", "spin"}
  /\ arrived \in Seq(Page)
  /\ uses \in [Counted -> 0 .. UNUSED]

\* The frame that is being swapped out.
Going == IF op.pc = "swap_out" THEN {op.victim} ELSE {}

\* The frames in use are on the list, once, or being swapped out.
Listed ==
  /\ IsInjective(list)
  /\ ToSet(list) \cap Going = {} /\ ToSet(list) \cup Going = Frame \ free

\* Page table and struct Page agree on where a page is.
Placed ==
  /\ \A f \in Frame \ free :
       pra_vaddr[f] \in Page /\ pte[pra_vaddr[f]] = Entry("frame", f)
  /\ \A pg \in Page :
       /\ pte[pg].kind = "frame" => pte[pg].at \in Frame \ free /\ pra_vaddr[pte[pg].at] = pg
       /\ pte[pg].kind = "swap" => pte[pg].at = pg + 1
       /\ pte[pg].kind = "none" => pte[pg] = NoEntry

Faulting == op.pc # "idle" => ~Resident(op.page)

\* The hand leaves the head at the first turn of the first search, and never
\* comes back to it.
HandRests ==
  /\ hand \in ToSet(list) \cup {HEAD}
  /\ manager # "clock" => hand = HEAD
  /\ manager = "clock" /\ hand = HEAD =>
       op.pc # "swap_out" /\ \A pg \in Page : pte[pg].kind # "swap"

\* The history: the resident pages, in order.
History ==
  /\ IsInjective(arrived)
  /\ ToSet(arrived) = {pg \in Page : Resident(pg)}

\* The list of FIFO is the history backwards, but for the victim.
FifoOrder ==
  manager = "fifo" =>
    LET n == Len(list)
        d == IF op.pc = "swap_out" THEN 1 ELSE 0
    IN /\ Len(arrived) = n + d
       /\ \A i \in 1 .. n : arrived[i + d] = pra_vaddr[list[n + 1 - i]]
       /\ d = 1 => arrived[1] = pra_vaddr[op.victim]

\* The page that is being swapped out.
Leaving == {pra_vaddr[f] : f \in Going}

\* A count is right while it can be, of a page in memory or not, and UNUSED once
\* the page is on its way out.
CountsTrue ==
  manager = "lru" =>
    \A pg \in Counted :
      IF pg \in Leaving THEN lru_use[pg] = UNUSED
      ELSE /\ uses[pg] = 0 => lru_use[pg] = UNUSED
           /\ uses[pg] \in 1 .. UNUSED - 1 => lru_use[pg] = uses[pg]

\* The place the clock looks at after k, of n.
NextPlace(k, n) == IF k + 1 < n THEN k + 1 ELSE 1

\* The page that came in last, at k, is met by the search only after the page
\* that comes next to it, which is then left unvisited for the second turn.
NewestSpared ==
  manager = "clock" /\ op.pc # "swap_out" /\ free = {} /\ Len(list) >= 3 =>
    \A k \in 1 .. Len(list) - 1 :
      pra_vaddr[list[k]] = arrived[Len(arrived)] =>
        LET next == list[NextPlace(k, Len(list))]
        IN IF visited[list[k]] = 1 THEN ClockLook = next \/ visited[next] = 0
           ELSE ClockLook = next /\ visited[next] = 0

SwapInv ==
  /\ TypeOK
  /\ Listed
  /\ Placed
  /\ Faulting
  /\ HandRests
  /\ History
  /\ FifoOrder
  /\ CountsTrue
  /\ NewestSpared
  /\ VictimPolicy
  /\ StopsOnly
-----------------------------------------------------------------------------
(* The list operators of the model, and the least element of a set.        *)

LEMMA IndexFinds ==
  ASSUME NEW S, NEW q \in Seq(S), NEW e \in ToSet(q)
  PROVE  Index(q, e) \in 1 .. Len(q) /\ q[Index(q, e)] = e
<1>1. \E j \in DOMAIN q : q[j] = e
  BY DEF ToSet
<1>. QED BY <1>1 DEF Index

\* list_del leaves the other links as they were.
LEMMA WithoutRemoves ==
  ASSUME NEW S, NEW q \in Seq(S), NEW e \in ToSet(q), IsInjective(q)
  PROVE  /\ Without(q, e) \in Seq(S)
         /\ Len(Without(q, e)) = Len(q) - 1
         /\ IsInjective(Without(q, e))
         /\ ToSet(Without(q, e)) = ToSet(q) \ {e}
         /\ \A j \in 1 .. Len(q) - 1 :
              Without(q, e)[j] = IF j < Index(q, e) THEN q[j] ELSE q[j + 1]
<1>1. Index(q, e) \in 1 .. Len(q) /\ q[Index(q, e)] = e
  BY IndexFinds
<1>. QED BY <1>1, RemoveAtExact, RemoveAtElements DEF Without

\* A list without duplicates is as long as its set is large.
LEMMA InjectiveLength ==
  ASSUME NEW S, NEW q \in Seq(S), IsInjective(q)
  PROVE  IsFiniteSet(ToSet(q)) /\ Cardinality(ToSet(q)) = Len(q)
<1>1. Len(q) \in Nat /\ q \in [1 .. Len(q) -> ToSet(q)]
  BY DEF ToSet
<1>2. q \in Bijection(1 .. Len(q), ToSet(q))
  BY <1>1 DEF Bijection, Injection, Surjection, IsInjective, ToSet
<1>3. IsFiniteSet(1 .. Len(q)) /\ Cardinality(1 .. Len(q)) = Len(q)
  BY <1>1, FS_Interval
<1>. QED BY <1>2, <1>3, FS_Bijection DEF ExistsBijection

\* A set of numbers has a least element.
LEMMA Least ==
  ASSUME NEW T, T \subseteq Nat, T # {}
  PROVE  \E x \in T : \A y \in T : x <= y
<1>. DEFINE R == {ss \in Nat \X Nat : ss[1] < ss[2]}
<1>1. OpToRel(<, Nat) = R
  BY DEF OpToRel
<1>2. IsWellFoundedOn(R, Nat)
  BY <1>1, NatLessThanWellFounded
<1>. HIDE DEF R
<1>3. PICK x \in T : \A y \in T : <<y, x>> \notin R
  BY <1>2, WFMin
<1>4. \A y \in T : <<y, x>> \in R <=> y < x
  BY DEF R
<1>5. \A y \in T : y \in Nat /\ x \in Nat /\ ~(y < x)
  BY <1>3, <1>4
<1>6. \A y \in T : x <= y
  BY <1>5
<1>. QED BY <1>6
-----------------------------------------------------------------------------
(* What several actions need.                                              *)

LEMMA SameLook ==
  ASSUME UNCHANGED <<list, hand>>
  PROVE  ClockLook' = ClockLook /\ \A l : NextLink(l)' = NextLink(l)
BY DEF ClockLook, NextLink, Index

LEMMA PageCounted == Page \subseteq Counted /\ Counted \subseteq Nat
<1>1. NUSE \in Nat /\ NPage \in Nat /\ NPage < NUSE
  BY SwapAssumption
<1>. QED BY <1>1 DEF Page, Counted

\* When no frame is free, outside swap_out, all of them are on the list.
LEMMA FullList ==
  ASSUME TypeOK, Listed, free = {}, op.pc # "swap_out"
  PROVE  ToSet(list) = Frame /\ Len(list) = NFrame /\ Len(list) >= 2
<1>1. ToSet(list) = Frame
  BY DEF Listed, Going
<1>2. Cardinality(Frame) = NFrame
  BY SwapAssumption, FS_Interval DEF Frame
<1>3. Len(list) = NFrame
  BY <1>1, <1>2, InjectiveLength DEF TypeOK, Listed
<1>. QED BY <1>1, <1>3, SwapAssumption

\* What a step that leaves memory, list and history alone keeps: all of the
\* invariant that does not look at the counts, if a page fault only begins.
LEMMA KeepsPlaces ==
  ASSUME SwapInv, op.pc = "idle", op'.pc \in {"idle", "alloc"},
         UNCHANGED <<manager, pte, free, lists, pra_vaddr, arrived>>
  PROVE  Listed' /\ Placed' /\ HandRests' /\ FifoOrder' /\ NewestSpared'
<1>1. UNCHANGED <<list, hand, visited>>
  BY DEF lists
<1>2. Going = {} /\ Going' = {}
  BY DEF Going
<1>3. Listed'
  BY <1>1, <1>2 DEF SwapInv, Listed
<1>4. Placed'
  BY <1>1 DEF SwapInv, Placed
<1>5. HandRests'
  BY <1>1 DEF SwapInv, HandRests
<1>6. FifoOrder'
  BY <1>1 DEF SwapInv, FifoOrder
<1>7. NewestSpared'
  BY <1>1, SameLook DEF SwapInv, NewestSpared
<1>. QED BY <1>3, <1>4, <1>5, <1>6, <1>7

LEMMA FaultStep ==
  ASSUME SwapInv, NEW pg \in Page, Fault(pg)
  PROVE  SwapInv'
<1>1. /\ op.pc = "idle" /\ halt = "no" /\ ~Resident(pg)
      /\ op' = [pc |-> "alloc", page |-> pg, victim |-> NULL]
      /\ UNCHANGED <<manager, pte, free, mem, disk, lists, pra_vaddr, lru_use, halt, arrived, uses>>
      /\ UNCHANGED <<list, hand, visited>>
  BY DEF Fault, At, Running, Idle, history, lists
<1>2. Going = {} /\ Going' = {}
  BY <1>1 DEF Going
<1>3. TypeOK'
  BY <1>1 DEF SwapInv, TypeOK
<1>4. Listed' /\ Placed' /\ HandRests' /\ FifoOrder' /\ NewestSpared'
  BY <1>1, KeepsPlaces
<1>5. Faulting' /\ History'
  BY <1>1 DEF SwapInv, Faulting, History, Resident
<1>6. CountsTrue'
  BY <1>1, <1>2 DEF SwapInv, CountsTrue, Leaving
<1>7. VictimPolicy' /\ StopsOnly'
  BY <1>1 DEF VictimPolicy, StopsOnly
<1>. QED BY <1>3, <1>4, <1>5, <1>6, <1>7 DEF SwapInv

LEMMA WriteStep ==
  ASSUME SwapInv, NEW pg \in Page, NEW v \in Value, Write(pg, v)
  PROVE  SwapInv'
<1>1. /\ op.pc = "idle" /\ halt = "no" /\ Resident(pg)
      /\ mem' = [mem EXCEPT ![FrameOf(pg)] = v]
      /\ UNCHANGED <<manager, pte, free, disk, lists, pra_vaddr, lru_use, op, halt, arrived, uses>>
      /\ UNCHANGED <<list, hand, visited>>
  BY DEF Write, At, Running, Idle, history, lists
<1>2. Going = {} /\ Going' = {}
  BY <1>1 DEF Going
<1>3. TypeOK'
  BY <1>1 DEF SwapInv, TypeOK
<1>4. Listed' /\ Placed' /\ HandRests' /\ FifoOrder' /\ NewestSpared'
  BY <1>1, KeepsPlaces
<1>5. Faulting' /\ History'
  BY <1>1 DEF SwapInv, Faulting, History, Resident
<1>6. CountsTrue'
  BY <1>1, <1>2 DEF SwapInv, CountsTrue, Leaving
<1>7. VictimPolicy' /\ StopsOnly'
  BY <1>1 DEF VictimPolicy, StopsOnly
<1>. QED BY <1>3, <1>4, <1>5, <1>6, <1>7 DEF SwapInv

LEMMA PageUseStep ==
  ASSUME SwapInv, NEW pg \in Counted, PageUse(pg)
  PROVE  SwapInv'
<1>1. /\ op.pc = "idle" /\ halt = "no"
      /\ lru_use' = [lru_use EXCEPT ![pg] = IF @ = UNUSED THEN 1 ELSE @ + 1]
      /\ uses' = [uses EXCEPT ![pg] = IF @ = UNUSED THEN @ ELSE @ + 1]
      /\ UNCHANGED <<manager, pte, free, mem, disk, lists, pra_vaddr, op, halt, arrived>>
      /\ UNCHANGED <<list, hand, visited>>
  BY DEF PageUse, At, Running, Idle, lists
<1>2. Going = {} /\ Going' = {}
  BY <1>1 DEF Going
<1>3. TypeOK'
  <2>1. lru_use' \in [Counted -> 1 .. UNUSED] /\ uses' \in [Counted -> 0 .. UNUSED]
    BY <1>1, SwapAssumption DEF SwapInv, TypeOK
  <2>. QED BY <1>1, <2>1 DEF SwapInv, TypeOK
<1>4. Listed' /\ Placed' /\ HandRests' /\ FifoOrder' /\ NewestSpared'
  BY <1>1, KeepsPlaces
<1>5. Faulting' /\ History'
  BY <1>1 DEF SwapInv, TypeOK, Faulting, History, Resident
<1>6. CountsTrue'
  <2>1. Leaving = {} /\ Leaving' = {}
    BY <1>2 DEF Leaving
  <2>2. /\ lru_use'[pg] = (IF lru_use[pg] = UNUSED THEN 1 ELSE lru_use[pg] + 1)
        /\ uses'[pg] = (IF uses[pg] = UNUSED THEN UNUSED ELSE uses[pg] + 1)
        /\ lru_use[pg] \in 1 .. UNUSED /\ uses[pg] \in 0 .. UNUSED
        /\ \A q \in Counted : q # pg => lru_use'[q] = lru_use[q] /\ uses'[q] = uses[q]
    BY <1>1 DEF SwapInv, TypeOK
  <2>. QED BY <1>1, <2>1, <2>2, SwapAssumption DEF SwapInv, CountsTrue
<1>7. VictimPolicy' /\ StopsOnly'
  BY <1>1 DEF VictimPolicy, StopsOnly
<1>. QED BY <1>3, <1>4, <1>5, <1>6, <1>7 DEF SwapInv
-----------------------------------------------------------------------------
(* MapPage.                                                                *)

\* Where the managers put a page that has come in.
LEMMA MapSwappable ==
  ASSUME TypeOK, Listed, HandRests, op.pc # "swap_out", NEW f \in free, map_swappable(f)
  PROVE  /\ list' \in Seq(Frame) /\ IsInjective(list') /\ Len(list') = Len(list) + 1
         /\ ToSet(list') = ToSet(list) \cup {f}
         /\ hand' = hand /\ visited' \in [Link -> {0, 1}]
         /\ manager # "clock" =>
              \A j \in 1 .. Len(list) + 1 : list'[j] = IF j = 1 THEN f ELSE list[j - 1]
         /\ manager = "clock" =>
              /\ visited'[f] = 1
              /\ hand = HEAD => list'[Len(list')] = f
              /\ hand # HEAD => \E i \in 1 .. Len(list') - 1 : list'[i] = f /\ list'[i + 1] = hand
<1>1. /\ f \in Frame /\ f \notin ToSet(list) /\ list \in Seq(Frame) /\ IsInjective(list)
      /\ Len(list) \in Nat
  BY DEF TypeOK, Listed
<1>2. CASE manager # "clock"
  <2>1. list' = <<f>> \o list /\ UNCHANGED <<hand, visited>>
    BY <1>2 DEF map_swappable
  <2>. QED BY <1>1, <1>2, <2>1, ConsNew DEF TypeOK
<1>3. CASE manager = "clock"
  <2>1. /\ list' = InsertBefore(f, hand) /\ hand' = hand
        /\ visited' = [visited EXCEPT ![f] = 1]
    BY <1>3 DEF map_swappable
  <2>2. visited' \in [Link -> {0, 1}] /\ visited'[f] = 1
    BY <1>1, <2>1 DEF TypeOK, Link
  <2>3. CASE hand = HEAD
    <3>1. list' = Append(list, f)
      BY <2>1, <2>3 DEF InsertBefore
    <3>2. list'[Len(list')] = f /\ Len(list') = Len(list) + 1
      BY <1>1, <3>1
    <3>3. /\ list' \in Seq(Frame) /\ IsInjective(list')
          /\ ToSet(list') = ToSet(list) \cup {f}
      BY <1>1, <3>1, AppendNew
    <3>. QED BY <1>3, <2>1, <2>2, <2>3, <3>2, <3>3
  <2>4. CASE hand # HEAD
    <3>. DEFINE i == Index(list, hand)
    <3>1. i \in 1 .. Len(list) /\ list[i] = hand
      BY <1>1, <2>4, IndexFinds DEF HandRests
    <3>2. list' = InsertAt(list, i, f)
      BY <2>1, <2>4 DEF InsertBefore
    <3>. HIDE DEF i
    <3>3. i \in 1 .. Len(list) + 1 /\ i <= Len(list)
      BY <1>1, <3>1
    <3>4. /\ list' \in Seq(Frame) /\ Len(list') = Len(list) + 1
          /\ IsInjective(list') /\ ToSet(list') = ToSet(list) \cup {f}
          /\ list'[i] = f /\ list'[i + 1] = hand
      BY <1>1, <3>1, <3>2, <3>3, InsertNew
    <3>5. i \in 1 .. Len(list') - 1
      BY <1>1, <3>1, <3>4
    <3>. QED BY <1>3, <2>1, <2>2, <2>4, <3>4, <3>5
  <2>. QED BY <2>3, <2>4
<1>. QED BY <1>2, <1>3

\* The look of a clock whose hand rests behind the page at k.
LEMMA LookBehind ==
  ASSUME list' \in Seq(Frame), IsInjective(list'), NEW k \in 1 .. Len(list') - 1,
         hand' = list'[k + 1]
  PROVE  ClockLook' = list'[NextPlace(k, Len(list'))]
<1>1. /\ Len(list') \in Nat /\ k + 1 \in 1 .. Len(list') /\ list' # <<>>
      /\ hand' \in Frame /\ hand' \in ToSet(list')
  <2>1. Len(list') \in Nat /\ k + 1 \in 1 .. Len(list') /\ list' # <<>>
    OBVIOUS
  <2>2. list'[k + 1] \in Frame /\ list'[k + 1] \in ToSet(list')
    BY <2>1, InToSet
  <2>. QED BY <2>1, <2>2
<1>2. hand' # HEAD
  BY <1>1, SwapAssumption
<1>3. Index(list', hand') \in 1 .. Len(list') /\ list'[Index(list', hand')] = hand'
  BY <1>1, IndexFinds
<1>4. Index(list', hand') = k + 1
  BY <1>1, <1>3 DEF IsInjective
<1>5. NextLink(hand)' = IF k + 1 = Len(list') THEN HEAD ELSE list'[k + 2]
  BY <1>1, <1>2, <1>4 DEF NextLink
<1>6. NextLink(HEAD)' = list'[1]
  BY <1>1 DEF NextLink
<1>7. k + 1 # Len(list') => list'[k + 2] \in Frame /\ list'[k + 2] # HEAD
  BY <1>1, SwapAssumption
<1>. QED BY <1>1, <1>5, <1>6, <1>7 DEF ClockLook, NextPlace

LEMMA MapPageStep ==
  ASSUME SwapInv, MapPage
  PROVE  SwapInv'
<1>. DEFINE f == CHOOSE g \in free : \A h \in free : g <= h
            pg == op.page
<1>1. /\ op.pc = "alloc" /\ halt = "no" /\ free # {}
      /\ free' = free \ {f}
      /\ mem' = [mem EXCEPT ![f] = IF pte[pg] = NoEntry THEN Junk ELSE disk[pte[pg].at]]
      /\ pte' = [pte EXCEPT ![pg] = Entry("frame", f)]
      /\ map_swappable(f)
      /\ pra_vaddr' = [pra_vaddr EXCEPT ![f] = pg]
      /\ arrived' = Append(arrived, pg)
      /\ op' = Idle
      /\ UNCHANGED <<manager, disk, lru_use, halt, uses>>
  BY DEF MapPage, At, Running, Mapped
<1>2. f \in free /\ f \in Frame /\ f \in Nat
  <2>1. free \subseteq Frame /\ free \subseteq Nat
    BY DEF SwapInv, TypeOK, Frame
  <2>2. \E x \in free : \A y \in free : x <= y
    BY <1>1, <2>1, Least
  <2>. QED BY <2>1, <2>2
<1>. HIDE DEF f
<1>3. pg \in Page /\ ~Resident(pg) /\ pg \in Nat
  BY <1>1 DEF SwapInv, TypeOK, Faulting, Idle, Page
<1>. HIDE DEF pg
<1>4. Going = {} /\ Going' = {} /\ op'.pc = "idle"
  BY <1>1 DEF Going, Idle
<1>5. /\ list' \in Seq(Frame) /\ IsInjective(list') /\ Len(list') = Len(list) + 1
      /\ ToSet(list') = ToSet(list) \cup {f}
      /\ hand' = hand /\ visited' \in [Link -> {0, 1}]
      /\ manager # "clock" =>
           \A j \in 1 .. Len(list) + 1 : list'[j] = IF j = 1 THEN f ELSE list[j - 1]
      /\ manager = "clock" =>
           /\ visited'[f] = 1
           /\ hand = HEAD => list'[Len(list')] = f
           /\ hand # HEAD => \E i \in 1 .. Len(list') - 1 : list'[i] = f /\ list'[i + 1] = hand
  BY <1>1, <1>2, MapSwappable DEF SwapInv
<1>6. /\ list \in Seq(Frame) /\ Len(list) \in Nat
      /\ ToSet(list) = Frame \ free /\ ToSet(list') = Frame \ free'
  BY <1>1, <1>2, <1>4, <1>5 DEF SwapInv, TypeOK, Listed
<1>7. /\ pra_vaddr'[f] = pg /\ \A g \in Frame : g # f => pra_vaddr'[g] = pra_vaddr[g]
      /\ pte'[pg] = Entry("frame", f) /\ \A q \in Page : q # pg => pte'[q] = pte[q]
      /\ \A g \in Frame \ free : pra_vaddr[g] \in Page /\ pra_vaddr[g] # pg /\ g # f
  <2>1. pra_vaddr \in [Frame -> Nat] /\ DOMAIN pte = Page
    BY DEF SwapInv, TypeOK
  <2>2. \A g \in Frame \ free : pra_vaddr[g] \in Page /\ pra_vaddr[g] # pg /\ g # f
    <3>. TAKE g \in Frame \ free
    <3>1. pra_vaddr[g] \in Page /\ pte[pra_vaddr[g]] = Entry("frame", g)
      BY DEF SwapInv, Placed
    <3>2. pte[pra_vaddr[g]].kind = "frame"
      BY <3>1 DEF Entry
    <3>. QED BY <1>2, <1>3, <3>1, <3>2 DEF Resident
  <2>. QED BY <1>1, <1>2, <1>3, <2>1, <2>2
<1>8. /\ arrived' \in Seq(Page) /\ IsInjective(arrived')
      /\ ToSet(arrived') = ToSet(arrived) \cup {pg}
      /\ Len(arrived) \in Nat /\ Len(arrived') = Len(arrived) + 1
      /\ \A i \in 1 .. Len(arrived) : arrived'[i] = arrived[i]
      /\ arrived'[Len(arrived) + 1] = pg
  <2>1. arrived \in Seq(Page) /\ IsInjective(arrived) /\ pg \notin ToSet(arrived)
    BY <1>3 DEF SwapInv, TypeOK, History
  <2>2. /\ Len(arrived) \in Nat /\ Len(arrived') = Len(arrived) + 1
        /\ \A i \in 1 .. Len(arrived) : arrived'[i] = arrived[i]
        /\ arrived'[Len(arrived) + 1] = pg
    BY <1>1, <1>3, <2>1
  <2>. QED BY <1>1, <1>3, <2>1, <2>2, AppendNew
<1>9. TypeOK'
  <2>1. mem' \in [Frame -> Value]
    <3>1. pte[pg] # NoEntry => pte[pg].at \in Slot
      BY <1>3, SwapAssumption DEF SwapInv, TypeOK, Placed, Resident, Slot, Page
    <3>. QED BY <1>1, <3>1, SwapAssumption DEF SwapInv, TypeOK
  <2>2. pte' \in [Page -> [kind : {"none", "frame", "swap"}, at : Nat]]
    BY <1>1, <1>2 DEF SwapInv, TypeOK, Entry
  <2>. QED BY <1>1, <1>2, <1>3, <1>5, <1>8, <2>1, <2>2 DEF SwapInv, TypeOK
<1>10. Listed'
  BY <1>4, <1>5, <1>6 DEF Listed
<1>11. Placed'
  <2>1. ASSUME NEW g \in Frame \ free'
        PROVE  pra_vaddr'[g] \in Page /\ pte'[pra_vaddr'[g]] = Entry("frame", g)
    <3>1. CASE g = f
      BY <1>3, <1>7, <3>1
    <3>2. CASE g # f
      BY <1>1, <1>7, <3>2 DEF SwapInv, Placed
    <3>. QED BY <3>1, <3>2
  <2>2. ASSUME NEW q \in Page
        PROVE  /\ pte'[q].kind = "frame" =>
                    pte'[q].at \in Frame \ free' /\ pra_vaddr'[pte'[q].at] = q
               /\ pte'[q].kind = "swap" => pte'[q].at = q + 1
               /\ pte'[q].kind = "none" => pte'[q] = NoEntry
    <3>1. CASE q = pg
      BY <1>1, <1>2, <1>7, <3>1 DEF Entry
    <3>2. CASE q # pg
      BY <1>1, <1>7, <3>2 DEF SwapInv, Placed
    <3>. QED BY <3>1, <3>2
  <2>. QED BY <2>1, <2>2 DEF Placed
<1>12. Faulting'
  BY <1>4 DEF Faulting
<1>13. HandRests'
  <2>1. \A q \in Page : pte'[q].kind = "swap" => pte[q].kind = "swap"
    BY <1>7 DEF Entry
  <2>. QED BY <1>1, <1>4, <1>5, <2>1 DEF SwapInv, HandRests
<1>14. \A q \in Page : Resident(q)' <=> Resident(q) \/ q = pg
  BY <1>7 DEF Resident, Entry
<1>15. History'
  BY <1>1, <1>3, <1>8, <1>14 DEF SwapInv, History
<1>16. FifoOrder'
  <2>. SUFFICES ASSUME manager = "fifo" 
                PROVE  /\ Len(arrived') = Len(list')
                       /\ \A i \in 1 .. Len(list') :
                            arrived'[i] = pra_vaddr'[list'[Len(list') + 1 - i]]
    BY <1>1, <1>4, <1>5, <1>6 DEF FifoOrder
  <2>1. /\ Len(arrived) = Len(list)
        /\ \A i \in 1 .. Len(list) : arrived[i] = pra_vaddr[list[Len(list) + 1 - i]]
    BY <1>1, <1>6 DEF SwapInv, FifoOrder
  <2>2. ASSUME NEW i \in 1 .. Len(list')
        PROVE  arrived'[i] = pra_vaddr'[list'[Len(list') + 1 - i]]
    <3>1. CASE i = Len(list')
      BY <1>5, <1>6, <1>7, <1>8, <2>1, <3>1
    <3>2. CASE i # Len(list')
      <4>. DEFINE j == Len(list) + 1 - i
      <4>1. /\ i \in 1 .. Len(list) /\ j \in 1 .. Len(list)
            /\ Len(list') + 1 - i = j + 1 /\ j + 1 \in 1 .. Len(list) + 1 /\ j + 1 # 1
            /\ (j + 1) - 1 = j
        BY <1>5, <1>6, <3>2
      <4>. HIDE DEF j
      <4>2. list'[j + 1] = list[j]
        BY <1>5, <4>1
      <4>3. list[j] \in Frame \ free
        BY <1>6, <4>1, InToSet
      <4>4. arrived[i] = pra_vaddr[list[j]]
        BY <2>1, <4>1 DEF j
      <4>5. arrived'[i] = arrived[i]
        BY <1>8, <2>1, <4>1
      <4>6. pra_vaddr'[list[j]] = pra_vaddr[list[j]]
        BY <1>7, <4>3
      <4>. QED BY <4>1, <4>2, <4>4, <4>5, <4>6
    <3>. QED BY <3>1, <3>2
  <2>. QED BY <1>5, <1>8, <2>1, <2>2
<1>17. CountsTrue'
  BY <1>1, <1>4 DEF SwapInv, CountsTrue, Leaving
<1>18. NewestSpared'
  <2>. SUFFICES ASSUME manager = "clock",
                       NEW k \in 1 .. Len(list') - 1,
                       pra_vaddr'[list'[k]] = arrived'[Len(arrived')]
                PROVE  visited'[list'[k]] = 1 /\ ClockLook' = list'[NextPlace(k, Len(list'))]
    BY <1>1 DEF NewestSpared
  <2>1. list'[k] = f
    <3>1. list'[k] \in Frame \ free'
      BY <1>5, <1>6, InToSet
    <3>. QED BY <1>1, <1>7, <1>8, <3>1
  <2>2. hand # HEAD
    BY <1>5, <1>6, <2>1 DEF IsInjective
  <2>3. PICK i \in 1 .. Len(list') - 1 : list'[i] = f /\ list'[i + 1] = hand
    BY <1>5, <2>2
  <2>4. i = k
    <3>1. i \in DOMAIN list' /\ k \in DOMAIN list'
      BY <1>5, <1>6
    <3>. QED BY <1>5, <2>1, <2>3, <3>1 DEF IsInjective
  <2>5. ClockLook' = list'[NextPlace(k, Len(list'))]
    BY <1>5, <2>3, <2>4, LookBehind
  <2>. QED BY <1>5, <2>1, <2>5
<1>19. VictimPolicy' /\ StopsOnly'
  BY <1>1, <1>4 DEF VictimPolicy, StopsOnly
<1>. QED BY <1>9, <1>10, <1>11, <1>12, <1>13, <1>15, <1>16, <1>17, <1>18, <1>19 DEF SwapInv
-----------------------------------------------------------------------------
(* swap_out.                                                               *)

LEMMA SwapOutStep ==
  ASSUME SwapInv, SwapOut
  PROVE  SwapInv'
<1>. DEFINE f == op.victim
            v == pra_vaddr[f]
<1>1. /\ op.pc = "swap_out" /\ halt = "no"
      /\ disk' = [disk EXCEPT ![v + 1] = mem[f]]
      /\ pte' = [pte EXCEPT ![v] = Entry("swap", v + 1)]
      /\ free' = free \cup {f} /\ mem' = [mem EXCEPT ![f] = Junk]
      /\ arrived' = Without(arrived, v)
      /\ uses' = [uses EXCEPT ![v] = 0]
      /\ op' = [op EXCEPT !.pc = "alloc"]
      /\ UNCHANGED <<manager, list, hand, visited, pra_vaddr, lru_use, halt>>
  BY DEF SwapOut, At, Running, SwapEntry, lists
<1>2. /\ f \in Frame \ free /\ Going = {f} /\ ToSet(list) = (Frame \ free) \ {f}
  BY <1>1 DEF SwapInv, Listed, Going
<1>3. /\ v \in Page /\ v \in Nat /\ v + 1 \in Slot /\ v + 1 \in Nat
      /\ pte[v].kind = "frame" /\ pte[v].at = f
      /\ \A g \in Frame \ free : g # f => pra_vaddr[g] \in Page /\ pra_vaddr[g] # v
      /\ \A q \in Page : q # v /\ pte[q].kind = "frame" => pte[q].at # f
  <2>1. v \in Page /\ v \in Nat /\ v + 1 \in Slot /\ v + 1 \in Nat
    BY <1>2, SwapAssumption DEF SwapInv, Placed, Page, Slot
  <2>2. pte[v].kind = "frame" /\ pte[v].at = f
    <3>1. pte[v] = Entry("frame", f)
      BY <1>2 DEF SwapInv, Placed
    <3>. QED BY <3>1 DEF Entry
  <2>3. ASSUME NEW g \in Frame \ free, g # f
        PROVE  pra_vaddr[g] \in Page /\ pra_vaddr[g] # v
    <3>1. pra_vaddr[g] \in Page /\ pte[pra_vaddr[g]] = Entry("frame", g)
      BY DEF SwapInv, Placed
    <3>2. pte[pra_vaddr[g]].at = g
      BY <3>1 DEF Entry
    <3>. QED BY <2>2, <2>3, <3>1, <3>2
  <2>4. \A q \in Page : q # v /\ pte[q].kind = "frame" => pte[q].at # f
    BY DEF SwapInv, Placed
  <2>. QED BY <2>1, <2>2, <2>3, <2>4
<1>4. /\ op'.pc = "alloc" /\ op'.page = op.page /\ op.page \in Page /\ Going' = {}
      /\ op' \in [pc : {"alloc", "swap_out"}, page : Page, victim : Frame \cup {NULL}]
  <2>1. op \in [pc : {"alloc", "swap_out"}, page : Page, victim : Frame \cup {NULL}]
    BY <1>1 DEF SwapInv, TypeOK, Idle
  <2>. QED BY <1>1, <2>1 DEF Going
<1>. HIDE DEF f, v
<1>5. /\ pte'[v] = Entry("swap", v + 1) /\ \A q \in Page : q # v => pte'[q] = pte[q]
      /\ pte'[v].kind = "swap"
  BY <1>1, <1>3 DEF SwapInv, TypeOK, Entry
<1>6. \A q \in Page : Resident(q)' <=> Resident(q) /\ q # v
  BY <1>5 DEF Resident
<1>7. /\ arrived' \in Seq(Page) /\ IsInjective(arrived')
      /\ ToSet(arrived') = ToSet(arrived) \ {v}
      /\ Len(arrived) \in Nat /\ Len(arrived') = Len(arrived) - 1
      /\ v \in ToSet(arrived)
      /\ \A j \in 1 .. Len(arrived) - 1 :
           arrived'[j] = IF j < Index(arrived, v) THEN arrived[j] ELSE arrived[j + 1]
  <2>1. arrived \in Seq(Page) /\ IsInjective(arrived) /\ Len(arrived) \in Nat
    BY DEF SwapInv, TypeOK, History
  <2>2. v \in ToSet(arrived)
    BY <1>3 DEF SwapInv, History, Resident
  <2>. QED BY <1>1, <2>1, <2>2, WithoutRemoves
<1>8. TypeOK'
  <2>1. pte' \in [Page -> [kind : {"none", "frame", "swap"}, at : Nat]]
    BY <1>1, <1>3 DEF SwapInv, TypeOK, Entry
  <2>2. /\ free' \subseteq Frame /\ mem' \in [Frame -> Value]
        /\ disk' \in [Slot -> Value] /\ uses' \in [Counted -> 0 .. UNUSED]
    BY <1>1, <1>2, <1>3, SwapAssumption, PageCounted DEF SwapInv, TypeOK
  <2>. QED BY <1>1, <1>4, <1>7, <2>1, <2>2 DEF SwapInv, TypeOK
<1>9. Listed'
  BY <1>1, <1>2, <1>4 DEF SwapInv, Listed
<1>10. Placed'
  <2>1. ASSUME NEW g \in Frame \ free'
        PROVE  pra_vaddr'[g] \in Page /\ pte'[pra_vaddr'[g]] = Entry("frame", g)
    <3>1. g \in Frame \ free /\ g # f
      BY <1>1
    <3>. QED BY <1>1, <1>3, <1>5, <3>1 DEF SwapInv, Placed
  <2>2. ASSUME NEW q \in Page
        PROVE  /\ pte'[q].kind = "frame" =>
                    pte'[q].at \in Frame \ free' /\ pra_vaddr'[pte'[q].at] = q
               /\ pte'[q].kind = "swap" => pte'[q].at = q + 1
               /\ pte'[q].kind = "none" => pte'[q] = NoEntry
    <3>1. CASE q = v
      BY <1>5, <3>1 DEF Entry
    <3>2. CASE q # v
      BY <1>1, <1>3, <1>5, <3>2 DEF SwapInv, Placed
    <3>. QED BY <3>1, <3>2
  <2>. QED BY <2>1, <2>2 DEF Placed
<1>11. Faulting'
  BY <1>1, <1>4, <1>6 DEF SwapInv, Faulting
<1>12. HandRests'
  BY <1>1 DEF SwapInv, HandRests
<1>13. History'
  BY <1>6, <1>7 DEF SwapInv, History
<1>14. FifoOrder'
  <2>. SUFFICES ASSUME manager = "fifo" PROVE FifoOrder'
    BY <1>1 DEF FifoOrder
  <2>1. /\ Len(arrived) = Len(list) + 1 /\ arrived[1] = v
        /\ \A i \in 1 .. Len(list) : arrived[i + 1] = pra_vaddr[list[Len(list) + 1 - i]]
    BY <1>1 DEF SwapInv, FifoOrder, f, v
  <2>2. Index(arrived, v) = 1
    <3>1. Index(arrived, v) \in 1 .. Len(arrived) /\ arrived[Index(arrived, v)] = v
      BY <1>7, IndexFinds DEF SwapInv, TypeOK
    <3>2. 1 \in DOMAIN arrived /\ Index(arrived, v) \in DOMAIN arrived
      BY <3>1 DEF SwapInv, TypeOK
    <3>. QED BY <2>1, <3>1, <3>2 DEF SwapInv, History, IsInjective
  <2>3. Len(list) \in Nat
    BY DEF SwapInv, TypeOK
  <2>4. ASSUME NEW i \in 1 .. Len(list)
        PROVE  arrived'[i + 0] = pra_vaddr[list[Len(list) + 1 - i]]
    <3>1. i \in 1 .. Len(arrived) - 1 /\ ~(i < 1) /\ i + 0 = i
      BY <2>1, <2>3
    <3>. QED BY <1>7, <2>1, <2>2, <3>1
  <2>5. Len(arrived') = Len(list) + 0
    BY <1>7, <2>1, <2>3
  <2>. QED BY <1>1, <1>4, <2>4, <2>5 DEF FifoOrder
<1>15. CountsTrue'
  <2>1. Leaving = {v} /\ Leaving' = {}
    BY <1>2, <1>4 DEF Leaving, v
  <2>. SUFFICES ASSUME manager = "lru", NEW q \in Counted
                PROVE  /\ uses'[q] = 0 => lru_use[q] = UNUSED
                       /\ uses'[q] \in 1 .. UNUSED - 1 => lru_use[q] = uses'[q]
    BY <1>1, <2>1 DEF CountsTrue
  <2>2. CASE q = v
    <3>1. uses'[q] = 0 /\ lru_use[q] = UNUSED
      BY <1>1, <2>1, <2>2 DEF SwapInv, TypeOK, CountsTrue
    <3>. QED BY <3>1
  <2>3. CASE q # v
    <3>1. uses'[q] = uses[q]
      BY <1>1, <2>3 DEF SwapInv, TypeOK
    <3>. QED BY <2>1, <2>3, <3>1 DEF SwapInv, CountsTrue
  <2>. QED BY <2>2, <2>3
<1>16. NewestSpared'
  BY <1>1 DEF NewestSpared
<1>17. VictimPolicy' /\ StopsOnly'
  BY <1>1, <1>4 DEF VictimPolicy, StopsOnly
<1>. QED BY <1>8, <1>9, <1>10, <1>11, <1>12, <1>13, <1>14, <1>15, <1>16, <1>17 DEF SwapInv
-----------------------------------------------------------------------------
(* The three searches.                                                     *)

\* What is left to show of a search that found victim: the list without it,
\* the hand, the orders of the managers and the policy.
LEMMA VictimKeeps ==
  ASSUME SwapInv, At("alloc"), free = {}, NEW f \in ToSet(list),
         op' = [op EXCEPT !.pc = "swap_out", !.victim = f],
         UNCHANGED <<manager, pte, free, mem, disk, pra_vaddr, halt, arrived, uses>>,
         list' \in Seq(Frame), IsInjective(list'), ToSet(list') = ToSet(list) \ {f},
         hand' \in Link, visited' \in [Link -> {0, 1}], lru_use' \in [Counted -> 1 .. UNUSED]
  PROVE  /\ TypeOK' /\ Listed' /\ Placed' /\ Faulting' /\ History' /\ NewestSpared'
         /\ StopsOnly'
         /\ op'.pc = "swap_out" /\ op'.victim = f /\ Going' = {f} /\ Going = {}
         /\ f \in Frame /\ f \notin free
<1>1. op.pc = "alloc" /\ halt = "no" /\ Going = {}
  BY DEF At, Running, Going
<1>2. op \in [pc : {"alloc", "swap_out"}, page : Page, victim : Frame \cup {NULL}]
  BY <1>1 DEF SwapInv, TypeOK, Idle
<1>3. f \in Frame /\ f \notin free /\ ToSet(list) = Frame \ free
  BY <1>1 DEF SwapInv, Listed
<1>4. /\ op'.pc = "swap_out" /\ op'.victim = f /\ op'.page = op.page /\ Going' = {f}
      /\ op' \in [pc : {"alloc", "swap_out"}, page : Page, victim : Frame \cup {NULL}]
  BY <1>2, <1>3 DEF Going
<1>5. TypeOK'
  BY <1>4 DEF SwapInv, TypeOK
<1>6. Listed'
  BY <1>3, <1>4 DEF Listed
<1>7. Placed'
  BY DEF SwapInv, Placed
<1>8. Faulting' /\ History'
  BY <1>1, <1>4 DEF SwapInv, Faulting, History, Resident
<1>9. NewestSpared' /\ StopsOnly'
  BY <1>1, <1>4 DEF NewestSpared, StopsOnly
<1>. QED BY <1>1, <1>3, <1>4, <1>5, <1>6, <1>7, <1>8, <1>9

LEMMA FifoStep ==
  ASSUME SwapInv, ChooseVictim, manager = "fifo"
  PROVE  SwapInv'
<1>. DEFINE f == Last(list)
<1>1. /\ At("alloc") /\ free = {} /\ op.pc = "alloc"
      /\ op' = [op EXCEPT !.pc = "swap_out", !.victim = f] /\ list' = Front(list)
      /\ UNCHANGED <<manager, pte, free, mem, disk, pra_vaddr, halt, arrived, uses>>
      /\ UNCHANGED <<hand, visited, lru_use>>
  BY DEF ChooseVictim, FifoVictim, Victim, At, history
<1>2. list \in Seq(Frame) /\ IsInjective(list) /\ Len(list) \in Nat /\ Len(list) >= 2
  BY <1>1, FullList DEF SwapInv, TypeOK, Listed
<1>3. list # <<>>
  BY <1>2
<1>4. /\ list' \in Seq(Frame) /\ Len(list') = Len(list) - 1
      /\ f = list[Len(list)] /\ f \in ToSet(list)
      /\ IsInjective(list') /\ ToSet(list') = ToSet(list) \ {f}
      /\ \A j \in 1 .. Len(list) - 1 : list'[j] = list[j]
  BY <1>1, <1>2, <1>3, FrontRemoves
<1>. HIDE DEF f
<1>5. hand' \in Link /\ visited' \in [Link -> {0, 1}] /\ lru_use' \in [Counted -> 1 .. UNUSED]
  BY <1>1 DEF SwapInv, TypeOK
<1>6. /\ TypeOK' /\ Listed' /\ Placed' /\ Faulting' /\ History' /\ NewestSpared'
      /\ StopsOnly' /\ op'.pc = "swap_out" /\ op'.victim = f
  BY <1>1, <1>4, <1>5, VictimKeeps
<1>7. HandRests'
  BY <1>1 DEF SwapInv, HandRests
<1>8. /\ Len(arrived) = Len(list)
      /\ \A i \in 1 .. Len(list) : arrived[i] = pra_vaddr[list[Len(list) + 1 - i]]
  BY <1>1, <1>2 DEF SwapInv, FifoOrder
<1>9. arrived[1] = pra_vaddr[f] /\ arrived # <<>>
  BY <1>2, <1>4, <1>8
<1>10. FifoOrder'
  <2>1. ASSUME NEW i \in 1 .. Len(list')
        PROVE  arrived[i + 1] = pra_vaddr[list'[Len(list') + 1 - i]]
    <3>1. /\ i + 1 \in 1 .. Len(list) /\ Len(list) + 1 - (i + 1) = Len(list') + 1 - i
          /\ Len(list') + 1 - i \in 1 .. Len(list) - 1
      BY <1>2, <1>4
    <3>2. arrived[i + 1] = pra_vaddr[list[Len(list') + 1 - i]]
      BY <1>8, <3>1
    <3>. QED BY <1>4, <3>1, <3>2
  <2>2. Len(arrived) = Len(list') + 1
    BY <1>2, <1>4, <1>8
  <2>. QED BY <1>1, <1>6, <1>9, <2>1, <2>2 DEF FifoOrder
<1>11. CountsTrue'
  BY <1>1 DEF CountsTrue
<1>12. VictimPolicy'
  <2>1. Head(arrived) = arrived[1]
    BY <1>9 DEF SwapInv, TypeOK
  <2>. QED BY <1>1, <1>6, <1>9, <2>1 DEF VictimPolicy
<1>. QED BY <1>6, <1>7, <1>10, <1>11, <1>12 DEF SwapInv
\* _lru_swap_out_victim's first loop: the least count, where any is below UNUSED.
LEMMA MinIndex ==
  ASSUME TypeOK, \E pg \in Counted : lru_use[pg] # UNUSED
  PROVE  min_index \in Counted /\ \A q \in Counted : lru_use[min_index] <= lru_use[q]
<1>. DEFINE Counts == {lru_use[q] : q \in Counted}
<1>1. /\ Counts \subseteq Nat /\ Counts # {} /\ Counted \subseteq Nat
      /\ \A q \in Counted : lru_use[q] \in Nat
  <2>1. Counted \subseteq Nat /\ 1 .. UNUSED \subseteq Nat
    BY SwapAssumption, PageCounted
  <2>. QED BY <2>1 DEF TypeOK
<1>2. PICK least \in Counts : \A y \in Counts : least <= y
  BY <1>1, Least
<1>. DEFINE Those == {q \in Counted : lru_use[q] = least}
<1>3. Those \subseteq Nat /\ Those # {}
  BY <1>1, <1>2
<1>4. PICK pg \in Those : \A q \in Those : pg <= q
  BY <1>3, Least
<1>. DEFINE Best(x) == \A q \in Counted :
              lru_use[x] < lru_use[q] \/ (lru_use[x] = lru_use[q] /\ x <= q)
<1>5. pg \in Counted /\ Best(pg)
  <2>1. pg \in Counted /\ lru_use[pg] = least /\ \A q \in Counted : lru_use[pg] <= lru_use[q]
    BY <1>2, <1>4
  <2>2. \A q \in Counted : lru_use[q] = lru_use[pg] => pg <= q
    BY <1>4, <2>1
  <2>3. ASSUME NEW q \in Counted
        PROVE  lru_use[pg] < lru_use[q] \/ (lru_use[pg] = lru_use[q] /\ pg <= q)
    <3>. DEFINE m == lru_use[pg]
                n == lru_use[q]
    <3>1. m \in Nat /\ n \in Nat /\ m <= n
      BY <1>1, <2>1
    <3>2. m = n => pg <= q
      BY <2>2
    <3>. HIDE DEF m, n
    <3>3. m < n \/ (m = n /\ pg <= q)
      BY <3>1, <3>2
    <3>. QED BY <3>3 DEF m, n
  <2>. QED BY <2>1, <2>3
<1>6. min_index = CHOOSE x \in Counted : Best(x)
  BY DEF min_index
<1>7. min_index \in Counted /\ Best(min_index)
  BY <1>5, <1>6
<1>. QED BY <1>1, <1>7

\* If a resident page has a count that can be trusted, the page that is searched
\* for has one that is no greater; if it is in memory, its frame is on the list.
LEMMA LeastIsTrusted ==
  ASSUME SwapInv, manager = "lru", op.pc = "alloc",
         NEW pg \in ToSet(arrived), uses[pg] \in 1 .. UNUSED - 1
  PROVE  /\ min_index \in Counted /\ lru_use[min_index] <= uses[pg]
         /\ uses[min_index] # 0
         /\ uses[min_index] = UNUSED \/ uses[min_index] = lru_use[min_index]
         /\ min_index \in ToSet(arrived) =>
              \E f \in ToSet(list) : pra_vaddr[f] = min_index
<1>1. pg \in Page /\ pg \in Counted /\ Going = {} /\ Leaving = {}
  BY PageCounted DEF SwapInv, History, Going, Leaving
<1>2. lru_use[pg] = uses[pg] /\ lru_use[pg] \in Nat /\ lru_use[pg] < UNUSED
  BY <1>1, SwapAssumption DEF SwapInv, CountsTrue
<1>3. min_index \in Counted /\ lru_use[min_index] <= lru_use[pg]
  BY <1>1, <1>2, SwapAssumption, MinIndex DEF SwapInv
<1>4. lru_use[min_index] # UNUSED
  BY <1>2, <1>3, SwapAssumption DEF SwapInv, TypeOK
<1>5. /\ uses[min_index] # 0
      /\ uses[min_index] = UNUSED \/ uses[min_index] = lru_use[min_index]
  <2>1. uses[min_index] \in 0 .. UNUSED
    BY <1>3 DEF SwapInv, TypeOK
  <2>. QED BY <1>1, <1>3, <1>4, <2>1, SwapAssumption DEF SwapInv, CountsTrue
<1>6. ASSUME min_index \in ToSet(arrived)
      PROVE  \E f \in ToSet(list) : pra_vaddr[f] = min_index
  <2>1. min_index \in Page /\ Resident(min_index)
    BY <1>6 DEF SwapInv, History
  <2>2. pte[min_index].at \in ToSet(list) /\ pra_vaddr[pte[min_index].at] = min_index
    BY <1>1, <2>1 DEF SwapInv, Placed, Listed, Resident
  <2>. QED BY <2>2
<1>. QED BY <1>2, <1>3, <1>5, <1>6

LEMMA LruStep ==
  ASSUME SwapInv, ChooseVictim, manager = "lru"
  PROVE  SwapInv'
<1>1. /\ At("alloc") /\ free = {} /\ op.pc = "alloc" /\ halt = "no"
      /\ UNCHANGED <<manager, pte, free, mem, disk, pra_vaddr, arrived, uses>>
      /\ UNCHANGED <<hand, visited>>
      /\ LruVictim
  BY DEF ChooseVictim, At, Running, history
<1>2. list \in Seq(Frame) /\ IsInjective(list) /\ Going = {}
  BY <1>1 DEF SwapInv, TypeOK, Listed, Going
<1>3. CASE \E f \in ToSet(list) : pra_vaddr[f] = min_index
  <2>. DEFINE f == CHOOSE g \in ToSet(list) : pra_vaddr[g] = min_index
  <2>1. f \in ToSet(list) /\ pra_vaddr[f] = min_index
    BY <1>3
  <2>2. /\ op' = [op EXCEPT !.pc = "swap_out", !.victim = f] /\ list' = Without(list, f)
        /\ lru_use' = [lru_use EXCEPT ![min_index] = UNUSED] /\ halt' = halt
    BY <1>1, <1>3 DEF LruVictim, Victim
  <2>. HIDE DEF f
  <2>3. /\ list' \in Seq(Frame) /\ IsInjective(list') /\ ToSet(list') = ToSet(list) \ {f}
    BY <1>2, <2>1, <2>2, WithoutRemoves
  <2>4. /\ hand' \in Link /\ visited' \in [Link -> {0, 1}]
        /\ lru_use' \in [Counted -> 1 .. UNUSED]
    <3>1. UNUSED \in 1 .. UNUSED
      BY SwapAssumption
    <3>2. lru_use' \in [Counted -> 1 .. UNUSED]
      BY <2>2, <3>1 DEF SwapInv, TypeOK
    <3>. QED BY <1>1, <3>2 DEF SwapInv, TypeOK
  <2>5. /\ TypeOK' /\ Listed' /\ Placed' /\ Faulting' /\ History' /\ NewestSpared'
        /\ StopsOnly' /\ op'.pc = "swap_out" /\ op'.victim = f /\ Going' = {f}
        /\ f \in Frame /\ f \notin free
    BY <1>1, <2>1, <2>2, <2>3, <2>4, VictimKeeps
  <2>6. HandRests'
    BY <1>1 DEF SwapInv, HandRests
  <2>7. FifoOrder'
    BY <1>1 DEF FifoOrder
  <2>8. min_index \in Page /\ pte[min_index] = Entry("frame", f) /\ min_index \in Counted
    BY <2>1, <2>5, PageCounted DEF SwapInv, Placed
  <2>9. Resident(min_index) /\ pte[min_index].at = f
    BY <2>8 DEF Entry, Resident
  <2>10. CountsTrue'
    <3>1. Leaving = {} /\ Leaving' = {min_index}
      BY <1>1, <1>2, <2>1, <2>5 DEF Leaving
    <3>. SUFFICES ASSUME NEW q \in Counted
                  PROVE  IF q = min_index THEN lru_use'[q] = UNUSED
                         ELSE /\ uses[q] = 0 => lru_use'[q] = UNUSED
                              /\ uses[q] \in 1 .. UNUSED - 1 => lru_use'[q] = uses[q]
      BY <1>1, <3>1 DEF CountsTrue
    <3>2. lru_use'[q] = IF q = min_index THEN UNUSED ELSE lru_use[q]
      BY <2>2 DEF SwapInv, TypeOK
    <3>. QED BY <1>1, <3>1, <3>2 DEF SwapInv, CountsTrue
  <2>11. VictimPolicy'
    <3>. SUFFICES ASSUME \A pg \in ToSet(arrived) : uses[pg] \in 1 .. UNUSED - 1,
                         NEW pg \in ToSet(arrived)
                  PROVE  uses[min_index] <= uses[pg]
      BY <1>1, <2>1, <2>5 DEF VictimPolicy
    <3>1. /\ lru_use[min_index] <= uses[pg]
          /\ uses[min_index] = UNUSED \/ uses[min_index] = lru_use[min_index]
      BY <1>1, LeastIsTrusted
    <3>2. min_index \in ToSet(arrived)
      BY <2>8, <2>9 DEF SwapInv, History
    <3>3. uses[min_index] \in 1 .. UNUSED - 1
      BY <3>2
    <3>4. uses[min_index] # UNUSED
      BY <3>3, SwapAssumption
    <3>. QED BY <3>1, <3>4
  <2>. QED BY <2>5, <2>6, <2>7, <2>10, <2>11 DEF SwapInv
<1>4. CASE ~\E f \in ToSet(list) : pra_vaddr[f] = min_index
  <2>1. halt' \in {"spin", "wild"} /\ UNCHANGED <<op, list, lru_use>>
    BY <1>1, <1>4 DEF LruVictim
  <2>2. TypeOK' /\ Listed' /\ Placed'
    BY <1>1, <2>1 DEF SwapInv, TypeOK, Listed, Placed, Going
  <2>3. Faulting' /\ HandRests' /\ History'
    BY <1>1, <2>1 DEF SwapInv, Faulting, HandRests, History, Resident
  <2>4. FifoOrder' /\ NewestSpared'
    BY <1>1 DEF FifoOrder, NewestSpared
  <2>5. CountsTrue'
    BY <1>1, <2>1 DEF SwapInv, CountsTrue, Leaving, Going
  <2>6. VictimPolicy'
    BY <1>1, <2>1 DEF VictimPolicy
  <2>7. StopsOnly'
    <3>1. CASE \A pg \in ToSet(arrived) : uses[pg] \notin 1 .. UNUSED - 1
      <4>1. \A pg \in ToSet(arrived) : uses[pg] \in 0 .. UNUSED
        BY PageCounted DEF SwapInv, TypeOK, History
      <4>2. \A pg \in ToSet(arrived) : uses[pg] \in {0, UNUSED}
        BY <3>1, <4>1, SwapAssumption
      <4>. QED BY <1>1, <4>2 DEF StopsOnly
    <3>2. CASE \E pg \in ToSet(arrived) : uses[pg] \in 1 .. UNUSED - 1
      <4>1. /\ min_index \in Counted \ ToSet(arrived) /\ uses[min_index] # 0
            /\ uses[min_index] = UNUSED \/ uses[min_index] = lru_use[min_index]
        BY <1>1, <1>4, <3>2, LeastIsTrusted
      <4>2. ASSUME NEW pg \in ToSet(arrived), uses[min_index] # UNUSED
            PROVE  uses[pg] = 0 \/ uses[min_index] <= uses[pg]
        <5>1. CASE uses[pg] \in 1 .. UNUSED - 1
          BY <1>1, <4>1, <4>2, <5>1, LeastIsTrusted
        <5>2. CASE uses[pg] \notin 1 .. UNUSED - 1
          <6>1. uses[pg] \in 0 .. UNUSED /\ uses[min_index] \in 0 .. UNUSED
            BY <4>1, PageCounted DEF SwapInv, TypeOK, History
          <6>. QED BY <5>2, <6>1, SwapAssumption
        <5>. QED BY <5>1, <5>2
      <4>3. uses[min_index] = UNUSED
              \/ \A pg \in ToSet(arrived) : uses[pg] = 0 \/ uses[min_index] <= uses[pg]
        BY <4>2
      <4>. QED BY <1>1, <4>1, <4>3 DEF StopsOnly
    <3>. QED BY <3>1, <3>2
  <2>. QED BY <2>2, <2>3, <2>4, <2>5, <2>6, <2>7 DEF SwapInv
<1>. QED BY <1>3, <1>4
\* Where a turn of the clock looks, and where it goes on: never at the last page,
\* and at the head only while the hand rests there.
LEMMA ClockPlace ==
  ASSUME SwapInv, free = {}, op.pc = "alloc"
  PROVE  \E j \in 0 .. Len(list) - 1 :
           /\ j = 0 => ClockLook = HEAD /\ hand = HEAD
           /\ j > 0 => ClockLook = list[j] /\ list[j] \in ToSet(list)
           /\ NextLink(ClockLook) = list[j + 1] /\ list[j + 1] \in ToSet(list)
<1>1. /\ list \in Seq(Frame) /\ IsInjective(list) /\ Len(list) \in Nat /\ Len(list) >= 2
      /\ hand \in ToSet(list) \cup {HEAD}
  BY FullList DEF SwapInv, TypeOK, Listed, HandRests
<1>2. /\ \A i \in 1 .. Len(list) : list[i] \in ToSet(list) /\ list[i] # HEAD
      /\ list # <<>> /\ Head(list) = list[1]
  <2>1. \A i \in 1 .. Len(list) : list[i] \in ToSet(list) /\ list[i] \in Frame
    BY <1>1, InToSet
  <2>2. list # <<>> /\ Head(list) = list[1]
    BY <1>1
  <2>. QED BY <2>1, <2>2, SwapAssumption
<1>3. ASSUME NEW i \in 1 .. Len(list)
      PROVE  NextLink(list[i]) = IF i = Len(list) THEN HEAD ELSE list[i + 1]
  <2>1. Index(list, list[i]) \in 1 .. Len(list) /\ list[Index(list, list[i])] = list[i]
    BY <1>1, <1>2, IndexFinds
  <2>2. i \in DOMAIN list /\ Index(list, list[i]) \in DOMAIN list
    BY <1>1, <2>1
  <2>3. Index(list, list[i]) = i
    BY <1>1, <2>1, <2>2 DEF IsInjective
  <2>. QED BY <1>2, <2>3 DEF NextLink
<1>4. NextLink(HEAD) = list[1]
  BY <1>2 DEF NextLink
<1>5. 1 \in 1 .. Len(list) /\ 2 \in 1 .. Len(list) /\ 1 \in 0 .. Len(list) - 1
      /\ 0 \in 0 .. Len(list) - 1 /\ 1 # Len(list)
  <2>. DEFINE n == Len(list)
  <2>1. n \in Nat /\ n >= 2
    BY <1>1
  <2>. HIDE DEF n
  <2>2. /\ 1 \in 1 .. n /\ 2 \in 1 .. n /\ 1 \in 0 .. n - 1
        /\ 0 \in 0 .. n - 1 /\ 1 # n
    BY <2>1
  <2>. QED BY <2>2 DEF n
<1>6. CASE hand = HEAD
  <2>1. ClockLook = HEAD
    BY <1>2, <1>4, <1>5, <1>6 DEF ClockLook
  <2>2. NextLink(ClockLook) = list[0 + 1] /\ list[0 + 1] \in ToSet(list)
    BY <1>2, <1>4, <1>5, <2>1
  <2>. QED BY <1>5, <1>6, <2>1, <2>2
<1>7. CASE hand # HEAD
  <2>1. PICK i \in 1 .. Len(list) : hand = list[i]
    BY <1>1, <1>7 DEF ToSet
  <2>2. CASE i = Len(list)
    <3>1. ClockLook = list[1]
      BY <1>3, <1>4, <2>1, <2>2 DEF ClockLook
    <3>2. NextLink(ClockLook) = list[1 + 1] /\ list[1 + 1] \in ToSet(list)
      BY <1>2, <1>3, <1>5, <3>1
    <3>. QED BY <1>2, <1>5, <3>1, <3>2
  <2>3. CASE i # Len(list)
    <3>1. i \in 0 .. Len(list) - 1 /\ i + 1 \in 1 .. Len(list) /\ i > 0
      BY <1>1, <2>3
    <3>2. NextLink(hand) = list[i + 1] /\ list[i + 1] # HEAD /\ list[i + 1] \in ToSet(list)
      BY <1>2, <1>3, <2>1, <2>3, <3>1
    <3>3. ClockLook = list[i]
      BY <2>1, <3>2 DEF ClockLook
    <3>. QED BY <1>2, <2>1, <3>1, <3>2, <3>3
  <2>. QED BY <2>2, <2>3
<1>. QED BY <1>6, <1>7

LEMMA ClockStep ==
  ASSUME SwapInv, ChooseVictim, manager = "clock"
  PROVE  SwapInv'
<1>1. /\ At("alloc") /\ free = {} /\ op.pc = "alloc" /\ halt = "no"
      /\ UNCHANGED <<manager, pte, free, mem, disk, pra_vaddr, arrived, uses, lru_use>>
      /\ ClockTurn
  BY DEF ChooseVictim, At, Running, history
<1>2. /\ list \in Seq(Frame) /\ IsInjective(list) /\ Len(list) \in Nat /\ Len(list) = NFrame
      /\ Len(list) >= 2 /\ visited \in [Link -> {0, 1}]
      /\ \A a, b \in 1 .. Len(list) : list[a] = list[b] => a = b
  <2>1. list \in Seq(Frame) /\ IsInjective(list) /\ visited \in [Link -> {0, 1}]
    BY DEF SwapInv, TypeOK, Listed
  <2>2. Len(list) \in Nat /\ Len(list) = NFrame /\ Len(list) >= 2
    BY <1>1, <2>1, FullList DEF SwapInv
  <2>3. DOMAIN list = 1 .. Len(list)
    BY <2>1
  <2>. QED BY <2>1, <2>2, <2>3 DEF IsInjective
<1>3. PICK j \in 0 .. Len(list) - 1 :
           /\ j = 0 => ClockLook = HEAD /\ hand = HEAD
           /\ j > 0 => ClockLook = list[j] /\ list[j] \in ToSet(list)
           /\ NextLink(ClockLook) = list[j + 1] /\ list[j + 1] \in ToSet(list)
  BY <1>1, ClockPlace
<1>4. \A i \in 1 .. Len(list) : list[i] \in Frame /\ list[i] # HEAD /\ list[i] \in Link
  BY <1>2, SwapAssumption DEF Link
<1>5. ClockLook \in Link /\ list[j + 1] \in Link /\ list[j + 1] # HEAD
  <2>1. j + 1 \in 1 .. Len(list) /\ (j > 0 => j \in 1 .. Len(list)) /\ (j > 0 \/ j = 0)
    BY <1>2
  <2>. QED BY <1>3, <1>4, <2>1 DEF Link
<1>6. CountsTrue' /\ FifoOrder'
  BY <1>1 DEF CountsTrue, FifoOrder
<1>7. CASE visited[ClockLook] = 1
  <2>1. /\ visited' = [visited EXCEPT ![ClockLook] = 0] /\ hand' = list[j + 1]
        /\ UNCHANGED <<list, op, halt>>
    BY <1>1, <1>3, <1>7 DEF ClockTurn
  <2>2. TypeOK' /\ Listed' /\ Placed'
    BY <1>1, <1>5, <2>1 DEF SwapInv, TypeOK, Listed, Placed, Going
  <2>3. Faulting' /\ HandRests' /\ History'
    BY <1>1, <1>3, <1>5, <2>1 DEF SwapInv, Faulting, HandRests, History, Resident
  <2>4. VictimPolicy' /\ StopsOnly'
    BY <1>1, <2>1 DEF VictimPolicy, StopsOnly
  <2>5. NewestSpared'
    <3>. DEFINE next(k) == list[NextPlace(k, Len(list))]
    <3>. SUFFICES ASSUME Len(list) >= 3, NEW k \in 1 .. Len(list) - 1,
                         pra_vaddr[list[k]] = arrived[Len(arrived)]
                  PROVE  IF visited'[list[k]] = 1 THEN ClockLook' = next(k) \/ visited'[next(k)] = 0
                         ELSE ClockLook' = next(k) /\ visited'[next(k)] = 0
      BY <1>1, <2>1 DEF NewestSpared
    <3>1. IF visited[list[k]] = 1 THEN ClockLook = next(k) \/ visited[next(k)] = 0
          ELSE ClockLook = next(k) /\ visited[next(k)] = 0
      BY <1>1 DEF SwapInv, NewestSpared
    <3>2. /\ NextPlace(k, Len(list)) \in 1 .. Len(list) - 1 /\ NextPlace(k, Len(list)) # k
          /\ k \in 1 .. Len(list)
      BY <1>2 DEF NextPlace
    <3>3. /\ next(k) \in Link /\ next(k) # HEAD /\ list[k] \in Link /\ list[k] # HEAD
          /\ next(k) # list[k]
      BY <1>2, <1>4, <3>2
    <3>4. /\ visited'[ClockLook] = 0
          /\ \A l \in Link : l # ClockLook => visited'[l] = visited[l]
      BY <1>2, <1>5, <2>1
    <3>5. j > 0 => ClockLook' = next(j)
      <4>. SUFFICES ASSUME j > 0 PROVE ClockLook' = next(j)
        OBVIOUS
      <4>1. j \in 1 .. Len(list) - 1
        OBVIOUS
      <4>. QED BY <1>2, <2>1, <4>1, LookBehind
    <3>6. CASE j = k
      <4>1. ClockLook = list[k] /\ ClockLook' = next(k)
        BY <1>3, <3>5, <3>6
      <4>. QED BY <1>7, <3>1, <3>3, <3>4, <4>1
    <3>7. CASE j # k
      <4>1. ClockLook # list[k]
        BY <1>2, <1>3, <3>2, <3>3, <3>7
      <4>. QED BY <1>7, <3>1, <3>3, <3>4, <4>1
    <3>. QED BY <3>6, <3>7
  <2>. QED BY <1>6, <2>2, <2>3, <2>4, <2>5 DEF SwapInv
<1>8. CASE visited[ClockLook] # 1 /\ ClockLook = HEAD
  <2>1. halt' = "wild" /\ UNCHANGED <<list, hand, visited, op>>
    BY <1>1, <1>8 DEF ClockTurn
  <2>2. j = 0 /\ hand = HEAD
    BY <1>2, <1>3, <1>4, <1>8
  <2>3. TypeOK' /\ Listed' /\ Placed'
    BY <1>1, <2>1 DEF SwapInv, TypeOK, Listed, Placed, Going
  <2>4. Faulting' /\ HandRests' /\ History'
    BY <1>1, <2>1 DEF SwapInv, Faulting, HandRests, History, Resident
  <2>5. VictimPolicy'
    BY <1>1, <2>1 DEF VictimPolicy
  <2>6. StopsOnly'
    <3>1. \A pg \in Page : pte[pg] = NoEntry \/ pte[pg].kind = "frame"
      BY <1>1, <2>2 DEF SwapInv, TypeOK, HandRests, Placed
    <3>. QED BY <1>1, <3>1 DEF StopsOnly, Resident
  <2>7. NewestSpared'
    BY <1>1, <2>1, SameLook DEF SwapInv, NewestSpared
  <2>. QED BY <1>6, <2>3, <2>4, <2>5, <2>6, <2>7 DEF SwapInv
<1>9. CASE visited[ClockLook] # 1 /\ ClockLook # HEAD
  <2>. DEFINE f == ClockLook
  <2>1. /\ op' = [op EXCEPT !.pc = "swap_out", !.victim = f] /\ list' = Without(list, f)
        /\ hand' = list[j + 1] /\ UNCHANGED <<visited, halt>>
    BY <1>1, <1>3, <1>9 DEF ClockTurn, Victim
  <2>2. j \in 1 .. Len(list) - 1 /\ f = list[j] /\ f \in ToSet(list)
    BY <1>2, <1>3, <1>9
  <2>. HIDE DEF f
  <2>3. /\ list' \in Seq(Frame) /\ IsInjective(list') /\ ToSet(list') = ToSet(list) \ {f}
    BY <1>2, <2>1, <2>2, WithoutRemoves
  <2>4. /\ hand' \in Link /\ visited' \in [Link -> {0, 1}]
        /\ lru_use' \in [Counted -> 1 .. UNUSED]
    BY <1>1, <1>5, <2>1 DEF SwapInv, TypeOK
  <2>5. UNCHANGED <<manager, pte, free, mem, disk, pra_vaddr, halt, arrived, uses>>
    BY <1>1, <2>1
  <2>6. /\ TypeOK' /\ Listed' /\ Placed' /\ Faulting' /\ History' /\ NewestSpared'
        /\ StopsOnly' /\ op'.pc = "swap_out" /\ op'.victim = f
    BY <1>1, <2>1, <2>2, <2>3, <2>4, <2>5, VictimKeeps
  <2>7. HandRests'
    <3>1. list[j + 1] # f
      BY <1>2, <2>2
    <3>. QED BY <1>1, <1>3, <1>5, <2>1, <2>3, <3>1 DEF HandRests
  <2>8. VictimPolicy'
    <3>. SUFFICES ASSUME NFrame >= 3, pra_vaddr[f] = Last(arrived) PROVE FALSE
      BY <1>1, <2>6 DEF VictimPolicy
    <3>1. visited[list[j]] # 1 /\ pra_vaddr[list[j]] = arrived[Len(arrived)]
      BY <1>9, <2>2 DEF Last, f
    <3>2. ClockLook = list[NextPlace(j, Len(list))]
      BY <1>1, <1>2, <2>2, <3>1 DEF SwapInv, NewestSpared
    <3>3. /\ NextPlace(j, Len(list)) \in 1 .. Len(list) /\ NextPlace(j, Len(list)) # j
          /\ j \in 1 .. Len(list)
      BY <1>2, <2>2 DEF NextPlace
    <3>. QED BY <1>2, <2>2, <3>2, <3>3 DEF f
  <2>. QED BY <1>6, <2>6, <2>7, <2>8 DEF SwapInv
<1>. QED BY <1>7, <1>8, <1>9
-----------------------------------------------------------------------------
(* What the client sees of its pages.                                      *)

Seen(pg) ==
  IF pte[pg] = NoEntry THEN NULL
  ELSE IF Resident(pg) THEN mem[FrameOf(pg)] ELSE disk[pte[pg].at]

LEMMA ViewSeen ==
  View = [s \in {"check"} |-> [pg \in Page |-> Seen(pg)]]
BY DEF View, Seen

LEMMA ViewSeenPrime ==
  View' = [s \in {"check"} |-> [pg \in Page |-> Seen(pg)']]
BY DEF View, Seen

\* No page changes.
LEMMA NothingSeen ==
  ASSUME asked' = NULL, \A q \in Page : Seen(q)' = Seen(q)
  PROVE  M!Next
<1>1. View' = View
  BY ViewSeen, ViewSeenPrime
<1>. QED BY <1>1 DEF M!Next, M!Hide

\* One page changes: it is brought in, or the client writes it.
LEMMA OneSeen ==
  ASSUME NEW pg \in Page, NEW v \in Value, Seen(pg)' = v,
         \A q \in Page \ {pg} : Seen(q)' = Seen(q),
         \/ Seen(pg) = NULL /\ asked' = NULL
         \/ Seen(pg) # NULL /\ asked' = <<"check", pg, v>>
  PROVE  M!Next
<1>. DEFINE was == View["check"]
            now == View'["check"]
<1>1. was = [q \in Page |-> Seen(q)] /\ now = [q \in Page |-> Seen(q)']
  BY ViewSeen, ViewSeenPrime
<1>. HIDE DEF was, now
<1>2. was[pg] = Seen(pg) /\ now = [was EXCEPT ![pg] = v]
  BY <1>1
<1>3. M!OnlyOf("check")
  BY DEF M!OnlyOf
<1>4. CASE Seen(pg) = NULL /\ asked' = NULL
  <2>1. M!Touch("check")
    BY <1>2, <1>4 DEF M!Touch, was, now
  <2>. QED BY <1>3, <1>4, <2>1 DEF M!Bring, M!Next
<1>5. CASE Seen(pg) # NULL /\ asked' = <<"check", pg, v>>
  <2>1. M!Write("check", pg, v)
    BY <1>2, <1>3, <1>5 DEF M!Write, was, now
  <2>. QED BY <2>1 DEF M!Next
<1>. QED BY <1>4, <1>5

LEMMA MapPageSeen ==
  ASSUME SwapInv, MapPage, asked' = NULL
  PROVE  M!Next
<1>. DEFINE g == CHOOSE h \in free : \A i \in free : h <= i
<1>1. PICK pg \in Page : pg = op.page /\ ~Resident(pg)
  BY DEF MapPage, At, SwapInv, TypeOK, Faulting, Idle
<1>2. free # {} /\ free \subseteq Frame /\ free \subseteq Nat
  BY DEF MapPage, SwapInv, TypeOK, Frame
<1>3. PICK f \in free : f = g /\ f \in Frame
  BY <1>2, Least
<1>4. /\ mem' = [mem EXCEPT ![f] = IF pte[pg] = NoEntry THEN Junk ELSE disk[pte[pg].at]]
      /\ pte' = [pte EXCEPT ![pg] = Entry("frame", f)]
      /\ disk' = disk
  BY <1>1, <1>3 DEF MapPage
<1>. HIDE DEF g
<1>5. /\ mem \in [Frame -> Value] /\ disk \in [Slot -> Value]
      /\ pte \in [Page -> [kind : {"none", "frame", "swap"}, at : Nat]]
  BY DEF SwapInv, TypeOK
<1>6. pte'[pg] = Entry("frame", f) /\ \A q \in Page \ {pg} : pte'[q] = pte[q]
  BY <1>1, <1>4, <1>5
<1>7. Seen(pg)' = mem'[f]
  <2>1. pte'[pg].kind = "frame" /\ pte'[pg].at = f /\ pte'[pg] # NoEntry
    BY <1>6 DEF Entry, NoEntry
  <2>. QED BY <2>1 DEF Seen, Resident, FrameOf
<1>8. mem'[f] = IF pte[pg] = NoEntry THEN Junk ELSE Seen(pg)
  BY <1>1, <1>3, <1>4, <1>5 DEF Seen
<1>9. ASSUME NEW q \in Page \ {pg} PROVE Seen(q)' = Seen(q)
  <2>1. Resident(q) => pte[q].at \in Frame /\ pte[q].at # f
    BY <1>3 DEF SwapInv, Placed, Resident
  <2>2. Resident(q) => mem'[pte[q].at] = mem[pte[q].at]
    BY <1>4, <1>5, <2>1
  <2>. QED BY <1>4, <1>6, <2>2 DEF Seen, Resident, FrameOf
<1>10. CASE pte[pg] = NoEntry
  <2>1. Seen(pg) = NULL /\ Seen(pg)' = Junk /\ Junk \in Value
    BY <1>7, <1>8, <1>10, SwapAssumption DEF Seen
  <2>. QED BY <1>9, <2>1, OneSeen
<1>11. CASE pte[pg] # NoEntry
  <2>1. Seen(pg)' = Seen(pg)
    BY <1>7, <1>8, <1>11
  <2>. QED BY <1>9, <2>1, NothingSeen
<1>. QED BY <1>10, <1>11

LEMMA SwapOutSeen ==
  ASSUME SwapInv, SwapOut, asked' = NULL
  PROVE  M!Next
<1>1. PICK f \in Frame \ free : f = op.victim
  BY DEF SwapOut, At, SwapInv, Listed, Going
<1>2. PICK v \in Page : v = pra_vaddr[f] /\ pte[v] = Entry("frame", f)
  BY <1>1 DEF SwapInv, Placed
<1>3. /\ disk' = [disk EXCEPT ![v + 1] = mem[f]]
      /\ pte' = [pte EXCEPT ![v] = Entry("swap", v + 1)]
      /\ mem' = [mem EXCEPT ![f] = Junk]
  BY <1>1, <1>2 DEF SwapOut, SwapEntry
<1>4. /\ mem \in [Frame -> Value] /\ disk \in [Slot -> Value] /\ v + 1 \in Slot
      /\ pte \in [Page -> [kind : {"none", "frame", "swap"}, at : Nat]]
  <2>1. v + 1 \in Slot
    BY SwapAssumption DEF Page, Slot
  <2>. QED BY <2>1 DEF SwapInv, TypeOK
<1>5. Seen(v)' = Seen(v)
  <2>1. pte[v].kind = "frame" /\ pte[v].at = f /\ pte[v] # NoEntry
    BY <1>2 DEF Entry, NoEntry
  <2>2. pte'[v] = Entry("swap", v + 1)
    BY <1>2, <1>3, <1>4
  <2>3. pte'[v].kind = "swap" /\ pte'[v].at = v + 1 /\ pte'[v] # NoEntry
    BY <2>2 DEF Entry, NoEntry
  <2>4. disk'[v + 1] = mem[f]
    BY <1>3, <1>4
  <2>. QED BY <2>1, <2>3, <2>4 DEF Seen, Resident, FrameOf
<1>6. ASSUME NEW q \in Page, q # v PROVE Seen(q)' = Seen(q)
  <2>1. pte'[q] = pte[q]
    BY <1>3, <1>4, <1>6
  <2>2. CASE pte[q].kind = "frame"
    <3>1. pte[q].at \in Frame /\ pra_vaddr[pte[q].at] = q
      BY <2>2 DEF SwapInv, Placed
    <3>2. pte[q].at # f
      BY <1>2, <1>6, <3>1
    <3>3. mem'[pte[q].at] = mem[pte[q].at]
      BY <1>3, <1>4, <3>1, <3>2
    <3>. QED BY <2>1, <2>2, <3>3 DEF Seen, Resident, FrameOf
  <2>3. CASE pte[q].kind = "swap"
    <3>1. pte[q].at = q + 1 /\ q + 1 \in Slot /\ q + 1 # v + 1
      BY <1>2, <1>6, <2>3, SwapAssumption DEF SwapInv, Placed, Page, Slot
    <3>2. disk'[pte[q].at] = disk[pte[q].at]
      BY <1>3, <1>4, <3>1
    <3>. QED BY <2>1, <2>3, <3>2 DEF Seen, Resident
  <2>4. CASE pte[q].kind = "none"
    <3>1. pte[q] = NoEntry
      BY <2>4 DEF SwapInv, Placed
    <3>. QED BY <2>1, <3>1 DEF Seen
  <2>. QED BY <1>4, <2>2, <2>3, <2>4
<1>. QED BY <1>5, <1>6, NothingSeen

LEMMA WriteSeen ==
  ASSUME SwapInv, NEW pg \in Page, NEW x \in Value, Write(pg, x),
         asked' = <<"check", pg, x>>
  PROVE  M!Next
<1>1. /\ Resident(pg) /\ UNCHANGED <<pte, disk>>
      /\ mem' = [mem EXCEPT ![pte[pg].at] = x]
  BY DEF Write, FrameOf
<1>2. pte[pg].at \in Frame /\ mem \in [Frame -> Value] /\ pte[pg] # NoEntry
  BY <1>1 DEF SwapInv, TypeOK, Placed, Resident, NoEntry, Entry
<1>3. Seen(pg)' = x /\ Seen(pg) # NULL
  <2>1. Seen(pg) = mem[pte[pg].at] /\ Seen(pg)' = x
    BY <1>1, <1>2 DEF Seen, Resident, FrameOf
  <2>. QED BY <1>2, <2>1, SwapAssumption
<1>4. ASSUME NEW q \in Page \ {pg} PROVE Seen(q)' = Seen(q)
  <2>1. Resident(q) => pte[q].at \in Frame /\ pte[q].at # pte[pg].at
    BY <1>1 DEF SwapInv, Placed, Resident
  <2>2. Resident(q) => mem'[pte[q].at] = mem[pte[q].at]
    BY <1>1, <1>2, <2>1
  <2>. QED BY <1>1, <2>2 DEF Seen, Resident, FrameOf
<1>. QED BY <1>3, <1>4, OneSeen

LEMMA StepSeen ==
  ASSUME SwapInv, [Next]_vars
  PROVE  [M!Next]_<<View, asked>>
<1>1. CASE UNCHANGED <<pte, mem, disk>> /\ asked' = NULL
  <2>1. \A q \in Page : Seen(q)' = Seen(q)
    BY <1>1 DEF Seen, Resident, FrameOf
  <2>. QED BY <1>1, <2>1, NothingSeen
<1>2. CASE KernelStep
  <2>1. CASE ChooseVictim
    BY <1>1, <1>2, <2>1 DEF ChooseVictim, KernelStep
  <2>2. CASE SwapOut
    BY <1>2, <2>2, SwapOutSeen DEF KernelStep
  <2>3. CASE MapPage
    BY <1>2, <2>3, MapPageSeen DEF KernelStep
  <2>. QED BY <1>2, <2>1, <2>2, <2>3 DEF KernelStep
<1>3. CASE ((\E pg \in Page : Fault(pg)) \/ \E pg \in Used : PageUse(pg)) /\ asked' = NULL
  BY <1>1, <1>3 DEF Fault, PageUse
<1>4. CASE \E pg \in Written, v \in Value : Write(pg, v) /\ asked' = <<"check", pg, v>>
  BY <1>4, WriteSeen, SwapAssumption
<1>5. CASE UNCHANGED vars
  BY <1>5 DEF vars, View, Resident, FrameOf
<1>. QED BY <1>2, <1>3, <1>4, <1>5 DEF Next
-----------------------------------------------------------------------------
(* The theorems.                                                           *)

LEMMA SwapInit ==
  ASSUME Init
  PROVE  SwapInv
<1>1. /\ manager \in {"fifo", "clock", "lru"}
      /\ pte = [pg \in Page |-> NoEntry]
      /\ free = Frame
      /\ mem = [f \in Frame |-> Junk] /\ disk = [s \in Slot |-> Junk]
      /\ list = <<>> /\ hand = HEAD
      /\ pra_vaddr = [f \in Frame |-> 0]
      /\ lru_use = [pg \in Counted |-> UNUSED]
      /\ op = Idle /\ halt = "no"
      /\ arrived = <<>> /\ uses = [pg \in Counted |-> 0]
  BY DEF Init
<1>2. visited \in [Link -> {0, 1}]
  BY DEF Init
<1>3. ToSet(list) = {} /\ IsInjective(list) /\ ToSet(arrived) = {} /\ IsInjective(arrived)
      /\ Len(list) = 0 /\ Len(arrived) = 0
      /\ list \in Seq(Frame) /\ arrived \in Seq(Page)
  BY <1>1 DEF ToSet, IsInjective
<1>4. op.pc = "idle" /\ Going = {}
  BY <1>1 DEF Idle, Going
<1>5. \A pg \in Page : pte[pg] = NoEntry /\ pte[pg].kind = "none"
  BY <1>1 DEF NoEntry, Entry
<1>6. TypeOK
  <2>1. UNUSED \in 1 .. UNUSED /\ 0 \in 0 .. UNUSED /\ Junk \in Value
    BY SwapAssumption
  <2>2. NoEntry \in [kind : {"none", "frame", "swap"}, at : Nat]
    BY DEF NoEntry, Entry
  <2>. QED BY <1>1, <1>2, <1>3, <2>1, <2>2 DEF TypeOK, Link
<1>7. Listed /\ Placed
  BY <1>1, <1>3, <1>4, <1>5 DEF Listed, Placed
<1>8. Faulting /\ HandRests /\ History
  BY <1>1, <1>3, <1>4, <1>5 DEF Faulting, HandRests, History, Resident
<1>9. FifoOrder
  BY <1>3, <1>4 DEF FifoOrder
<1>10. CountsTrue
  BY <1>1, <1>4 DEF CountsTrue, Leaving
<1>11. NewestSpared /\ VictimPolicy /\ StopsOnly
  BY <1>1, <1>3, <1>4 DEF NewestSpared, VictimPolicy, StopsOnly
<1>. QED BY <1>6, <1>7, <1>8, <1>9, <1>10, <1>11 DEF SwapInv

LEMMA SwapStutter ==
  ASSUME SwapInv, UNCHANGED vars
  PROVE  SwapInv'
<1>1. /\ UNCHANGED <<manager, pte, free, mem, disk, pra_vaddr, lru_use, op, halt, arrived, uses>>
      /\ UNCHANGED <<list, hand, visited>>
  BY DEF vars, lists, history
<1>2. TypeOK' /\ Listed' /\ Placed'
  BY <1>1 DEF SwapInv, TypeOK, Listed, Placed, Going
<1>3. Faulting' /\ HandRests' /\ History'
  BY <1>1 DEF SwapInv, Faulting, HandRests, History, Resident
<1>4. FifoOrder' /\ CountsTrue' /\ NewestSpared'
  BY <1>1, SameLook DEF SwapInv, FifoOrder, CountsTrue, NewestSpared, Leaving, Going
<1>5. VictimPolicy' /\ StopsOnly'
  BY <1>1 DEF SwapInv, VictimPolicy, StopsOnly, Resident
<1>. QED BY <1>2, <1>3, <1>4, <1>5 DEF SwapInv

LEMMA SwapNext ==
  ASSUME SwapInv, [Next]_vars
  PROVE  SwapInv'
<1>1. CASE ChooseVictim
  <2>1. manager \in {"fifo", "clock", "lru"}
    BY DEF SwapInv, TypeOK
  <2>. QED BY <1>1, <2>1, FifoStep, ClockStep, LruStep
<1>2. CASE SwapOut
  BY <1>2, SwapOutStep
<1>3. CASE MapPage
  BY <1>3, MapPageStep
<1>4. CASE (\E pg \in Page : Fault(pg)) \/ \E pg \in Used : PageUse(pg)
  BY <1>4, FaultStep, PageUseStep, SwapAssumption
<1>5. CASE \E pg \in Written, v \in Value : Write(pg, v)
  BY <1>5, WriteStep, SwapAssumption
<1>6. CASE UNCHANGED vars
  BY <1>6, SwapStutter
<1>. QED BY <1>1, <1>2, <1>3, <1>4, <1>5, <1>6 DEF Next, KernelStep

\* The inductive invariant holds of every run of lab3's page replacement.
THEOREM SwapSafe == Spec => []SwapInv
<1>1. Init => SwapInv
  BY SwapInit
<1>2. SwapInv /\ [Next]_vars => SwapInv'
  BY SwapNext
<1>. QED BY <1>1, <1>2, PTL DEF Spec

\* The managers' list is exactly the frames in use, each knowing its page, with
\* any number of frames and pages. (map_swappable, swap_out, do_pgfault)
THEOREM ListIsExact == Spec => []ListExact
<1>1. SwapInv => ListExact
  <2>. SUFFICES ASSUME SwapInv PROVE ListExact
    OBVIOUS
  <2>1. Len(list) = Cardinality(ToSet(list))
    BY InjectiveLength DEF SwapInv, TypeOK, Listed
  <2>. QED BY <2>1 DEF SwapInv, Listed, Placed, HandRests, ListExact, Going
<1>. QED BY <1>1, SwapSafe, PTL

\* FIFO, the clock and "LRU" choose the victim they stand for. (the three
\* swap_out_victim)
THEOREM VictimIsRight == Spec => []VictimPolicy
<1>1. SwapInv => VictimPolicy
  BY DEF SwapInv
<1>. QED BY <1>1, SwapSafe, PTL

\* The head of the list is taken for a page, and a search goes on for ever, only
\* in the cases StopsOnly names: the clock's first search, counts that are all
\* unused or used up, and the count of a page that is not in memory.
\* (_clock_swap_out_victim, _lru_swap_out_victim, _page_use)
THEOREM SearchesStop == Spec => []StopsOnly
<1>1. SwapInv => StopsOnly
  BY DEF SwapInv
<1>. QED BY <1>1, SwapSafe, PTL

\* A page holds what the client last wrote to it, through any number of swaps,
\* with any number of frames and pages and whichever manager: but for the first
\* touch of a page, only the client's writes change what it sees. (do_pgfault,
\* swap_out, swap_in)
THEOREM SwapImplementsMem == Spec => ImplementsMemSpec
<1>1. Init => M!Init
  <2>. SUFFICES ASSUME Init PROVE M!Init
    OBVIOUS
  <2>1. \A pg \in Page : Seen(pg) = NULL
    BY DEF Init, Seen
  <2>2. View = [s \in {"check"} |-> [pg \in Page |-> NULL]]
    BY <2>1, ViewSeen
  <2>. QED BY <2>2 DEF Init, M!Init, M!NoMemory
<1>2. SwapInv /\ [Next]_vars => [M!Next]_<<View, asked>>
  BY StepSeen
<1>. QED BY <1>1, <1>2, SwapSafe, PTL DEF Spec, ImplementsMemSpec, M!Spec
=============================================================================
