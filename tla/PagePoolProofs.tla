---------------------------- MODULE PagePoolProofs ----------------------------
(***************************************************************************)
(* The free list of PagePool is exact, and alloc_pages finds what its      *)
(* policy says, under both allocators and for any number of pages, until   *)
(* a block is freed above all others and linked twice. As the list is      *)
(* sorted, its links are determined by the set of its blocks, so that the  *)
(* proof needs neither sequences nor induction along the pointers.         *)
(***************************************************************************)
EXTENDS PagePool, FiniteSetTheorems, WellFoundedInduction, TLAPS

\* The blocks on the list: a block that is being inserted is not on it yet.
Listed == IF op = "insert" THEN flag \ {base} ELSE flag

\* y follows x in S when it is sorted by address.
IsSucc(S, x, y) ==
  IF y = Head THEN \A c \in S : c <= x
  ELSE y \in S /\ x < y /\ \A c \in S : c <= x \/ y <= c

\* The links make one circle of Head and the blocks of S in their order.
Linked(S, nx, pv) ==
  \A x \in S \cup {Head} :
    /\ IsSucc(S, x, nx[x]) /\ pv[nx[x]] = x
    /\ pv[x] \in S \cup {Head} /\ nx[pv[x]] = x

Circle(S, nx, pv) ==
  S \subseteq Page /\ nx \in [Node -> Node] /\ pv \in [Node -> Node] /\ Linked(S, nx, pv)

\* Where two blocks may touch: on either side of one that is freed, until it is
\* merged with that neighbour.
Merging(b, c) ==
  \/ op \in {"insert", "merge_prev"} /\ base \in {b, c}
  \/ op = "merge_next" /\ b = base

InBlock(p, b) == b <= p /\ p < b + property[b]

Sizes == \A b \in flag : property[b] >= 1 /\ b + property[b] <= NPage

Apart ==
  \A b, c \in flag : b < c =>
    b + property[b] <= c /\ (b + property[b] = c => Merging(b, c))

\* A page is in use or in a block.
Cover == \A p \in Page : p \in used <=> \A b \in flag : ~InBlock(p, b)

Counted == nr_free = Cardinality(Page \ used)

\* page is what the policy takes of the blocks up to an address.
Best(upto) ==
  IF page = NoPage THEN \A b \in flag : b <= upto => property[b] < n
  ELSE /\ page \in flag /\ page <= upto /\ property[page] >= n
       /\ \A b \in flag : b <= upto /\ property[b] >= n =>
            IF pmm_manager = "default" THEN page <= b
            ELSE property[page] < property[b] \/ (property[page] = property[b] /\ page <= b)

\* What the operation that runs relies on.
Working ==
  /\ op \in {"search", "take"} => n >= 1
  /\ op = "search" => /\ le \in flag \cup {Head} /\ Best(le)
                      /\ pmm_manager = "default" => page = NoPage
  /\ op = "take" => Best(NPage)
  /\ op \in {"insert", "merge_prev", "merge_next"} => base \in flag
  /\ op = "insert" => le \in Listed \cup {Head} /\ le < base /\ next[le] # Head

PoolShape ==
  /\ TypeOK /\ Linked(Listed, next, prev)
  /\ Sizes /\ Apart /\ Cover /\ Counted /\ Working

\* The inductive invariant of PagePool.
PoolInv == ~doubled => PoolShape

-----------------------------------------------------------------------------
(* Numbers and sets.                                                       *)

LEMMA PoolNumbers ==
  /\ NPage \in Nat /\ NPage > 0 /\ Head \in Int /\ Head = -1 /\ Head \notin Page
  /\ NoPage \notin Page /\ NoPage # Head /\ Page \subseteq Nat /\ \A p \in Page : Head < p
  /\ Node = Page \cup {Head} /\ Node \subseteq Int
BY PoolAssumption DEF Page, Head, Node

LEMMA PagesFinite ==
  ASSUME NEW S \in SUBSET Page
  PROVE  IsFiniteSet(S) /\ Cardinality(S) \in Nat /\ Cardinality(S) <= NPage
<1>1. IsFiniteSet(Page) /\ Cardinality(Page) = NPage
  <2>1. 0 \in Int /\ NPage - 1 \in Int /\ 0 <= NPage - 1 + 1 /\ (NPage - 1) - 0 + 1 = NPage
    BY PoolNumbers
  <2>2. IsFiniteSet(0 .. NPage - 1) /\ (~(0 > NPage - 1) => Cardinality(0 .. NPage - 1) = NPage)
    BY <2>1, FS_Interval
  <2>. QED BY <2>2, PoolNumbers DEF Page
<1>2. IsFiniteSet(S) /\ Cardinality(S) <= Cardinality(Page)
  BY <1>1, FS_Subset
<1>. QED BY <1>1, <1>2, FS_CardinalityType

\* The pages of a block of k pages.
LEMMA RunCard ==
  ASSUME NEW b \in Nat, NEW k \in Nat, k >= 1
  PROVE  Cardinality(b .. b + k - 1) = k
<1>1. b \in Int /\ b + k - 1 \in Int /\ ~(b > b + k - 1) /\ (b + k - 1) - b + 1 = k
  OBVIOUS
<1>. QED BY <1>1, FS_Interval

\* Two sets of pages that are apart.
LEMMA ApartCard ==
  ASSUME NEW S \in SUBSET Page, NEW T \in SUBSET Page, S \cap T = {}
  PROVE  Cardinality(S \cup T) = Cardinality(S) + Cardinality(T)
<1>1. IsFiniteSet(S) /\ IsFiniteSet(T) /\ Cardinality(S) \in Nat /\ Cardinality(T) \in Nat
  BY PagesFinite
<1>2. Cardinality(S \cup T) = Cardinality(S) + Cardinality(T) - Cardinality(S \cap T)
  BY <1>1, FS_Union
<1>3. Cardinality(S \cap T) = 0
  BY FS_EmptySet
<1>. QED BY <1>1, <1>2, <1>3

\* A set of numbers has a lowest one.
LEMMA LowestOf ==
  ASSUME NEW S \in SUBSET Nat, S # {}
  PROVE  \E b \in S : \A c \in S : b <= c
<1>. DEFINE R == {ss \in Nat \X Nat : ss[1] < ss[2]}
<1>1. IsWellFoundedOn(R, Nat)
  BY NatLessThanWellFounded DEF OpToRel
<1>. HIDE DEF R
<1>2. PICK x \in S : \A y \in S : <<y, x>> \notin R
  BY <1>1, WFMin
<1>3. \A y \in S : <<y, x>> \in R <=> y < x
  BY DEF R
<1>4. \A y \in S : y \in Nat /\ x \in Nat /\ ~(y < x)
  BY <1>2, <1>3
<1>. QED BY <1>4

-----------------------------------------------------------------------------
(* The links.                                                              *)

\* list_add of x between two neighbours.
LEMMA LinkIn ==
  ASSUME NEW S, NEW nx, NEW pv, Circle(S, nx, pv), NEW x \in Page, x \notin S,
         NEW at \in S \cup {Head}, at < x, nx[at] = Head \/ x < nx[at]
  PROVE  Circle(S \cup {x}, [nx EXCEPT ![at] = x, ![x] = nx[at]],
                [pv EXCEPT ![nx[at]] = x, ![x] = at])
<1>. PICK nx1, pv1 : /\ nx1 = [nx EXCEPT ![at] = x, ![x] = nx[at]]
                     /\ pv1 = [pv EXCEPT ![nx[at]] = x, ![x] = at]
  OBVIOUS
<1>. S \subseteq Page /\ nx \in [Node -> Node] /\ pv \in [Node -> Node] /\ Linked(S, nx, pv)
  BY DEF Circle
<1>1. PICK succ : succ = nx[at]
  OBVIOUS
<1>2. /\ succ \in S \cup {Head} /\ pv[succ] = at /\ IsSucc(S, at, succ)
      /\ x \notin S \cup {Head} /\ x \in Node /\ at \in Node /\ succ \in Node
      /\ x # at /\ x # succ /\ x \in Int /\ at \in Int /\ succ \in Int /\ Head < x
  BY <1>1, PoolNumbers DEF Linked, IsSucc
<1>3. /\ nx1 \in [Node -> Node] /\ pv1 \in [Node -> Node]
      /\ \A y \in Node : nx1[y] = IF y = x THEN succ ELSE IF y = at THEN x ELSE nx[y]
      /\ \A y \in Node : pv1[y] = IF y = x THEN at ELSE IF y = succ THEN x ELSE pv[y]
  BY <1>1, <1>2
<1>4. \A c \in S : c \in Int /\ c \in Node /\ c # x /\ c # Head
  BY PoolNumbers
<1>5. ASSUME NEW y \in S \cup {x} \cup {Head}
      PROVE  IsSucc(S \cup {x}, y, nx1[y])
  <2>1. y \in Int /\ y \in Node /\ Head \in Int
    BY <1>2, <1>4, PoolNumbers
  <2>2. CASE y = x
    <3>1. nx1[y] = succ
      BY <1>2, <1>3, <2>2
    <3>. QED BY <1>1, <1>2, <1>4, <2>2, <3>1 DEF IsSucc
  <2>3. CASE y = at
    <3>1. nx1[y] = x /\ x # Head
      BY <1>2, <1>3, <2>3
    <3>. QED BY <1>1, <1>2, <1>4, <2>3, <3>1 DEF IsSucc
  <2>4. CASE y # x /\ y # at
    <3>1. nx1[y] = nx[y] /\ IsSucc(S, y, nx[y]) /\ nx[y] \in Int
      BY <1>3, <2>1, <2>4, PoolNumbers DEF Linked
    <3>2. CASE nx[y] = Head
      <4>1. \A c \in S : c <= y
        BY <3>1, <3>2 DEF IsSucc
      <4>2. at < y /\ y \in S
        <5>1. y # Head \/ S = {}
          BY <2>1, <4>1, <1>4, PoolNumbers
        <5>2. at = Head => y # Head
          BY <2>4
        <5>3. S = {} => at = Head /\ y = Head
          BY <2>4
        <5>4. y \in S
          BY <2>4, <5>1, <5>3
        <5>. QED BY <1>2, <1>4, <2>1, <2>4, <4>1, <5>4, PoolNumbers
      <4>3. x < y
        BY <1>1, <1>2, <2>1, <4>2 DEF IsSucc
      <4>. QED BY <1>2, <2>1, <3>1, <3>2, <4>1, <4>3 DEF IsSucc
    <3>3. CASE nx[y] # Head
      <4>1. nx[y] \in S /\ y < nx[y] /\ \A c \in S : c <= y \/ nx[y] <= c
        BY <3>1, <3>3 DEF IsSucc
      <4>2. x <= y \/ nx[y] <= x
        <5>1. CASE y < at
          <6>1. at \in S
            BY <1>4, <2>1, <2>4, <5>1, PoolNumbers
          <6>. QED BY <1>2, <2>1, <3>1, <4>1, <5>1, <6>1
        <5>2. CASE at < y
          <6>1. y \in S
            BY <1>2, <1>4, <2>1, <2>4, <5>2, PoolNumbers
          <6>. QED BY <1>1, <1>2, <2>1, <5>2, <6>1 DEF IsSucc
        <5>. QED BY <1>2, <2>1, <2>4, <5>1, <5>2
      <4>. QED BY <3>1, <3>3, <4>1, <4>2 DEF IsSucc
    <3>. QED BY <3>2, <3>3
  <2>. QED BY <2>2, <2>3, <2>4
<1>6. ASSUME NEW y \in S \cup {x} \cup {Head}
      PROVE  /\ pv1[nx1[y]] = y
             /\ pv1[y] \in S \cup {x} \cup {Head} /\ nx1[pv1[y]] = y
  <2>1. y \in Node
    BY <1>2, <1>4, PoolNumbers
  <2>2. CASE y = x
    BY <1>1, <1>2, <1>3, <2>1, <2>2
  <2>3. CASE y # x
    <3>1. /\ nx[y] \in S \cup {Head} /\ pv[nx[y]] = y /\ pv[y] \in S \cup {Head} /\ nx[pv[y]] = y
      BY <2>3 DEF Linked, IsSucc
    <3>2. nx[y] \in Node /\ pv[y] \in Node /\ nx[y] # x /\ pv[y] # x
      BY <1>2, <1>4, <3>1, PoolNumbers
    <3>3. /\ (nx[y] = succ <=> y = at) /\ (pv[y] = at <=> y = succ)
      BY <1>1, <1>2, <3>1
    <3>4. pv1[nx1[y]] = y
      <4>1. CASE y = at
        BY <1>2, <1>3, <2>1, <2>3, <4>1
      <4>2. CASE y # at
        <5>1. nx1[y] = nx[y] /\ nx[y] # succ
          BY <1>3, <2>1, <2>3, <3>3, <4>2
        <5>2. pv1[nx[y]] = pv[nx[y]]
          BY <1>3, <3>2, <5>1
        <5>. QED BY <3>1, <5>1, <5>2
      <4>. QED BY <4>1, <4>2
    <3>5. pv1[y] \in S \cup {x} \cup {Head} /\ nx1[pv1[y]] = y
      <4>1. CASE y = succ
        BY <1>2, <1>3, <2>1, <2>3, <4>1
      <4>2. CASE y # succ
        <5>1. pv1[y] = pv[y] /\ pv[y] # at
          BY <1>3, <2>1, <2>3, <3>3, <4>2
        <5>2. nx1[pv[y]] = nx[pv[y]]
          BY <1>3, <3>2, <5>1
        <5>. QED BY <3>1, <5>1, <5>2
      <4>. QED BY <4>1, <4>2
    <3>. QED BY <3>4, <3>5
  <2>. QED BY <2>2, <2>3
<1>7. Linked(S \cup {x}, nx1, pv1)
  BY <1>5, <1>6 DEF Linked
<1>8. Circle(S \cup {x}, nx1, pv1)
  BY <1>3, <1>7 DEF Circle
<1>. QED BY <1>8

\* list_del of x.
LEMMA LinkOut ==
  ASSUME NEW S, NEW nx, NEW pv, Circle(S, nx, pv), NEW x \in S
  PROVE  Circle(S \ {x}, [nx EXCEPT ![pv[x]] = nx[x]], [pv EXCEPT ![nx[x]] = pv[x]])
<1>. PICK nx1, pv1 : /\ nx1 = [nx EXCEPT ![pv[x]] = nx[x]]
                     /\ pv1 = [pv EXCEPT ![nx[x]] = pv[x]]
  OBVIOUS
<1>. S \subseteq Page /\ nx \in [Node -> Node] /\ pv \in [Node -> Node] /\ Linked(S, nx, pv)
  BY DEF Circle
<1>1. PICK at, succ : at = pv[x] /\ succ = nx[x]
  OBVIOUS
<1>4. \A c \in S : c \in Int /\ c \in Node /\ c # Head
  BY PoolNumbers
<1>2. /\ succ \in S \cup {Head} /\ at \in S \cup {Head} /\ pv[succ] = x /\ nx[at] = x
      /\ IsSucc(S, x, succ) /\ IsSucc(S, at, x)
      /\ x \in Node /\ at \in Node /\ succ \in Node /\ x \in Int /\ at \in Int /\ succ \in Int
      /\ x # Head /\ at # x /\ succ # x
  <2>1. x \in S \cup {Head} /\ x # Head /\ x \in Int /\ x \in Node
    BY <1>4
  <2>2. /\ IsSucc(S, x, succ) /\ pv[succ] = x /\ at \in S \cup {Head} /\ nx[at] = x
    BY <1>1, <2>1 DEF Linked
  <2>3. IsSucc(S, at, x)
    BY <2>2 DEF Linked
  <2>4. succ \in S \cup {Head}
    BY <2>2 DEF IsSucc
  <2>5. at \in Int /\ succ \in Int /\ at \in Node /\ succ \in Node
    BY <1>4, <2>2, <2>4, PoolNumbers
  <2>6. at < x
    BY <2>1, <2>3 DEF IsSucc
  <2>7. succ # x
    BY <2>1, <2>2 DEF IsSucc
  <2>. QED BY <2>1, <2>2, <2>3, <2>4, <2>5, <2>6, <2>7
<1>3. /\ nx1 \in [Node -> Node] /\ pv1 \in [Node -> Node]
      /\ \A y \in Node : nx1[y] = IF y = at THEN succ ELSE nx[y]
      /\ \A y \in Node : pv1[y] = IF y = succ THEN at ELSE pv[y]
  BY <1>1, <1>2
<1>5. ASSUME NEW y \in (S \ {x}) \cup {Head}
      PROVE  IsSucc(S \ {x}, y, nx1[y])
  <2>1. y \in Int /\ y \in Node
    BY <1>4, PoolNumbers
  <2>2. CASE y = at
    BY <1>2, <1>3, <1>4, <2>1, <2>2 DEF IsSucc
  <2>3. CASE y # at
    <3>1. nx1[y] = nx[y] /\ IsSucc(S, y, nx[y]) /\ pv[nx[y]] = y
      BY <1>3, <2>1, <2>3 DEF Linked
    <3>2. nx[y] # x
      BY <1>1, <2>3, <3>1
    <3>. QED BY <3>1, <3>2 DEF IsSucc
  <2>. QED BY <2>2, <2>3
<1>6. ASSUME NEW y \in (S \ {x}) \cup {Head}
      PROVE  /\ pv1[nx1[y]] = y
             /\ pv1[y] \in (S \ {x}) \cup {Head} /\ nx1[pv1[y]] = y
  <2>1. y \in Node /\ y # x
    BY <1>2, <1>4, PoolNumbers
  <2>2. /\ nx[y] \in S \cup {Head} /\ pv[nx[y]] = y /\ pv[y] \in S \cup {Head} /\ nx[pv[y]] = y
    BY DEF Linked, IsSucc
  <2>3. nx[y] \in Node /\ pv[y] \in Node
    BY <1>4, <2>2, PoolNumbers
  <2>4. /\ (nx[y] = x <=> y = at) /\ (pv[y] = x <=> y = succ)
        /\ (nx[y] = succ => y = x) /\ (pv[y] = at => y = x)
    BY <1>1, <1>2, <2>2
  <2>. QED BY <1>2, <1>3, <2>1, <2>2, <2>3, <2>4
<1>. QED BY <1>3, <1>5, <1>6 DEF Linked, Circle

-----------------------------------------------------------------------------
(* What the invariant says of one block and of one link.                   *)

LEMMA BlockNumbers ==
  ASSUME PoolShape, NEW b \in flag
  PROVE  /\ b \in Page /\ b \in Nat /\ property[b] \in Nat /\ property[b] >= 1
         /\ b + property[b] <= NPage /\ NPage \in Nat /\ b \notin used /\ b # Head
<1>1. b \in Page /\ b \in Nat /\ property[b] \in Nat /\ NPage \in Nat /\ b # Head
  BY PoolNumbers DEF PoolShape, TypeOK
<1>2. property[b] >= 1 /\ b + property[b] <= NPage
  BY DEF PoolShape, Sizes
<1>3. InBlock(b, b)
  BY <1>1, <1>2 DEF InBlock
<1>. QED BY <1>1, <1>2, <1>3 DEF PoolShape, Cover

LEMMA LinkNumbers ==
  ASSUME PoolShape, NEW x \in Listed \cup {Head}
  PROVE  /\ x \in Node /\ x \in Int /\ next[x] \in Listed \cup {Head}
         /\ prev[x] \in Listed \cup {Head} /\ next[x] \in Int /\ prev[x] \in Int
         /\ prev[next[x]] = x /\ next[prev[x]] = x /\ IsSucc(Listed, x, next[x])
         /\ Listed \subseteq flag /\ Listed \subseteq Page
         /\ x # Head => prev[x] < x /\ \A c \in Listed : c <= prev[x] \/ x <= c
<1>1. Listed \subseteq flag /\ Listed \subseteq Page /\ x \in Node
  BY PoolNumbers DEF PoolShape, TypeOK, Listed
<1>2. /\ IsSucc(Listed, x, next[x]) /\ prev[next[x]] = x /\ prev[x] \in Listed \cup {Head}
      /\ next[prev[x]] = x /\ IsSucc(Listed, prev[x], next[prev[x]])
  BY DEF PoolShape, Linked
<1>3. next[x] \in Listed \cup {Head}
  BY <1>2 DEF IsSucc
<1>4. x \in Int /\ next[x] \in Int /\ prev[x] \in Int
  BY <1>1, <1>2, <1>3, PoolNumbers
<1>5. x # Head => prev[x] < x /\ \A c \in Listed : c <= prev[x] \/ x <= c
  BY <1>2 DEF IsSucc
<1>. QED BY <1>1, <1>2, <1>3, <1>4, <1>5

\* The number of free pages after a run of pages is taken or given back.
LEMMA RunTaken ==
  ASSUME PoolShape, NEW b \in Nat, NEW k \in Nat, k >= 1,
         b .. b + k - 1 \subseteq Page \ used, used' = used \cup (b .. b + k - 1),
         nr_free' = nr_free - k
  PROVE  nr_free' = Cardinality(Page \ used') /\ nr_free' \in 0 .. NPage
<1>. DEFINE S == Page \ used'
            T == b .. b + k - 1
<1>1. S \subseteq Page /\ T \subseteq Page /\ S \cap T = {} /\ S \cup T = Page \ used
  OBVIOUS
<1>2. Cardinality(T) = k
  BY RunCard
<1>3. Cardinality(S) \in Nat /\ Cardinality(S) <= NPage
  BY <1>1, PagesFinite
<1>. HIDE DEF S, T
<1>4. Cardinality(Page \ used) = Cardinality(S) + k
  BY <1>1, <1>2, ApartCard
<1>5. nr_free = Cardinality(S) + k
  BY <1>4 DEF PoolShape, Counted
<1>6. PICK m : m = Cardinality(S)
  OBVIOUS
<1>7. nr_free' = m /\ m \in 0 .. NPage
  BY <1>3, <1>5, <1>6, PoolNumbers
<1>. QED BY <1>6, <1>7 DEF S

LEMMA RunFreed ==
  ASSUME PoolShape, NEW b \in Nat, NEW k \in Nat, k >= 1,
         b .. b + k - 1 \subseteq used, used' = used \ (b .. b + k - 1),
         nr_free' = nr_free + k
  PROVE  nr_free' = Cardinality(Page \ used') /\ nr_free' \in 0 .. NPage
<1>. DEFINE S == Page \ used
            T == b .. b + k - 1
<1>1. S \subseteq Page /\ T \subseteq Page /\ S \cap T = {} /\ S \cup T = Page \ used'
  BY DEF PoolShape, TypeOK
<1>2. Cardinality(T) = k
  BY RunCard
<1>3. Cardinality(S) \in Nat /\ Cardinality(S \cup T) \in Nat /\ Cardinality(S \cup T) <= NPage
  BY <1>1, PagesFinite
<1>4. nr_free = Cardinality(S)
  BY DEF PoolShape, Counted
<1>. HIDE DEF S, T
<1>5. Cardinality(S \cup T) = Cardinality(S) + k
  BY <1>1, <1>2, ApartCard
<1>6. PICK m : m = Cardinality(S \cup T)
  OBVIOUS
<1>7. nr_free' = m /\ m \in 0 .. NPage
  BY <1>3, <1>4, <1>5, <1>6, PoolNumbers
<1>. QED BY <1>1, <1>6, <1>7

-----------------------------------------------------------------------------
(* alloc_pages.                                                            *)

LEMMA AllocCallStep == ASSUME PoolShape, NEW k \in 1 .. NPage, AllocCall(k) PROVE PoolShape'
<1>1. /\ op = "idle" /\ op' = "search" /\ n' = k /\ le' = Head /\ page' = NoPage
      /\ UNCHANGED <<pmm_manager, next, prev, property, flag, nr_free, used, base, doubled>>
  BY DEF AllocCall, links, marks
<1>2. TypeOK'
  BY <1>1, PoolNumbers DEF PoolShape, TypeOK
<1>3. Linked(Listed, next, prev)'
  BY <1>1 DEF PoolShape, Linked, Listed, IsSucc
<1>4. Sizes' /\ Apart' /\ Cover' /\ Counted'
  BY <1>1 DEF PoolShape, Sizes, Apart, Merging, Cover, InBlock, Counted
<1>5. \A b \in flag : ~(b <= Head)
  BY BlockNumbers, PoolNumbers
<1>6. Working'
  BY <1>1, <1>5, PoolNumbers DEF Working, Best
<1>. QED BY <1>2, <1>3, <1>4, <1>6 DEF PoolShape

LEMMA SearchStepStep == ASSUME PoolShape, SearchStep PROVE PoolShape'
<1>0. PICK x : x = next[le]
  OBVIOUS
<1>1. /\ op = "search" /\ x # Head /\ le' = x
      /\ page' = IF Better(le') THEN le' ELSE page
      /\ op' = IF pmm_manager = "default" /\ Fits(le') THEN "take" ELSE op
      /\ UNCHANGED <<pmm_manager, next, prev, property, flag, nr_free, used, base, n, doubled>>
  BY <1>0 DEF SearchStep, links, marks
<1>2. /\ Listed = flag /\ le \in flag \cup {Head} /\ x \in flag /\ le \in Int
      /\ \A c \in flag : c <= le \/ x <= c
  BY <1>0, <1>1, LinkNumbers DEF PoolShape, Working, Listed, IsSucc
<1>3. /\ x \in Page /\ x \in Nat /\ x # Head /\ x <= NPage /\ n \in Nat /\ n >= 1
      /\ property[x] \in Nat /\ NoPage \notin Page /\ x # NoPage
  BY <1>1, <1>2, BlockNumbers, PoolNumbers DEF PoolShape, Working, TypeOK
<1>4. \A b \in flag : b \in Nat /\ property[b] \in Nat /\ b <= NPage
  BY BlockNumbers
<1>5. \A b \in flag : b <= x => b <= le \/ b = x
  BY <1>2, <1>3, <1>4
<1>6. Best(le) /\ (pmm_manager = "default" => page = NoPage)
  BY <1>1 DEF PoolShape, Working
<1>7. TypeOK'
  BY <1>1, <1>3, PoolNumbers DEF PoolShape, TypeOK
<1>8. Linked(Listed, next, prev)'
  BY <1>1 DEF PoolShape, Linked, Listed, IsSucc
<1>9. Sizes' /\ Apart' /\ Cover' /\ Counted'
  BY <1>1 DEF PoolShape, Sizes, Apart, Merging, Cover, InBlock, Counted
<1>10. Working'
  <2>1. CASE pmm_manager = "default" /\ property[x] >= n
    <3>1. page = NoPage /\ page' = x /\ op' = "take"
      BY <1>1, <1>6, <2>1 DEF Better, Fits
    <3>2. \A b \in flag : property[b] >= n => x <= b
      BY <1>2, <1>3, <1>4, <1>6, <3>1 DEF Best
    <3>. QED BY <1>1, <1>2, <1>3, <2>1, <3>1, <3>2 DEF Working, Best
  <2>2. CASE pmm_manager = "default" /\ ~(property[x] >= n)
    <3>1. page = NoPage /\ page' = NoPage /\ op' = "search"
      BY <1>1, <1>6, <2>2 DEF Better, Fits
    <3>2. \A b \in flag : b <= x => property[b] < n
      BY <1>3, <1>4, <1>5, <1>6, <2>2, <3>1 DEF Best
    <3>. QED BY <1>1, <1>2, <1>3, <3>1, <3>2 DEF Working, Best
  <2>3. CASE pmm_manager # "default"
    <3>1. op' = "search" /\ page' = IF Better(x) THEN x ELSE page
      BY <1>1, <2>3
    <3>2. CASE property[x] >= n /\ page = NoPage
      <4>1. page' = x
        BY <3>1, <3>2 DEF Better, Fits
      <4>2. \A b \in flag : b <= x /\ property[b] >= n => b = x
        BY <1>3, <1>4, <1>5, <1>6, <3>2 DEF Best
      <4>3. /\ x <= x /\ property[x] >= n
            /\ \A b \in flag : b <= x /\ property[b] >= n =>
                 property[x] < property[b] \/ (property[x] = property[b] /\ x <= b)
        BY <1>3, <3>2, <4>2
      <4>4. Best(x)'
        BY <1>1, <1>2, <1>3, <2>3, <4>1, <4>3 DEF Best
      <4>. QED BY <1>1, <1>2, <1>3, <2>3, <3>1, <4>4 DEF Working
    <3>3. CASE page # NoPage
      <4>1. /\ page \in flag /\ page <= le /\ property[page] >= n /\ page \in Nat
            /\ property[page] \in Nat
            /\ \A b \in flag : b <= le /\ property[b] >= n =>
                 property[page] < property[b] \/ (property[page] = property[b] /\ page <= b)
        BY <1>4, <1>6, <2>3, <3>3 DEF Best
      <4>2. le < x /\ page <= x
        BY <1>0, <1>1, <1>2, <1>3, <4>1, LinkNumbers DEF IsSucc
      <4>3. CASE property[x] >= n /\ property[x] < property[page]
        <5>1. page' = x
          BY <3>1, <3>3, <4>3 DEF Better, Fits
        <5>2. \A b \in flag : b <= x /\ property[b] >= n =>
                property[x] < property[b] \/ (property[x] = property[b] /\ x <= b)
          BY <1>3, <1>4, <1>5, <4>1, <4>3
        <5>3. x <= x
          BY <1>3
        <5>4. Best(x)'
          BY <1>1, <1>2, <1>3, <2>3, <4>3, <5>1, <5>2, <5>3 DEF Best
        <5>. QED BY <1>1, <1>2, <1>3, <2>3, <3>1, <5>4 DEF Working
      <4>4. CASE ~(property[x] >= n /\ property[x] < property[page])
        <5>1. page' = page
          BY <3>1, <3>3, <4>4 DEF Better, Fits
        <5>2. \A b \in flag : b <= x /\ property[b] >= n =>
                property[page] < property[b] \/ (property[page] = property[b] /\ page <= b)
          BY <1>3, <1>4, <1>5, <4>1, <4>2, <4>4
        <5>3. Best(x)'
          BY <1>1, <2>3, <3>3, <4>1, <4>2, <5>1, <5>2 DEF Best
        <5>. QED BY <1>1, <1>2, <1>3, <2>3, <3>1, <5>3 DEF Working
      <4>. QED BY <4>3, <4>4
    <3>4. CASE ~(property[x] >= n) /\ page = NoPage
      <4>1. page' = NoPage
        BY <3>1, <3>4 DEF Better, Fits
      <4>2. \A b \in flag : b <= x => property[b] < n
        BY <1>3, <1>4, <1>5, <1>6, <3>4 DEF Best
      <4>3. Best(x)'
        BY <1>1, <4>1, <4>2 DEF Best
      <4>. QED BY <1>1, <1>2, <1>3, <2>3, <3>1, <4>3 DEF Working
    <3>. QED BY <3>2, <3>3, <3>4
  <2>. QED BY <2>1, <2>2, <2>3
<1>. QED BY <1>7, <1>8, <1>9, <1>10 DEF PoolShape

LEMMA SearchEndStep == ASSUME PoolShape, SearchEnd PROVE PoolShape'
<1>1. /\ op = "search" /\ next[le] = Head /\ op' = "take"
      /\ UNCHANGED <<pmm_manager, next, prev, property, flag, nr_free, used, le, base, n, page, doubled>>
  BY DEF SearchEnd, links, marks, args
<1>2. \A b \in flag : b <= le
  BY <1>1, LinkNumbers DEF PoolShape, Working, Listed, IsSucc
<1>3. Best(le) /\ \A b \in flag : b <= NPage
  BY <1>1, BlockNumbers DEF PoolShape, Working
<1>4. TypeOK'
  BY <1>1 DEF PoolShape, TypeOK
<1>5. Linked(Listed, next, prev)'
  BY <1>1 DEF PoolShape, Linked, Listed, IsSucc
<1>6. Sizes' /\ Apart' /\ Cover' /\ Counted'
  BY <1>1 DEF PoolShape, Sizes, Apart, Merging, Cover, InBlock, Counted
<1>7. Best(NPage)
  BY <1>2, <1>3 DEF Best
<1>8. Working'
  BY <1>1, <1>7 DEF PoolShape, Working, Best
<1>. QED BY <1>4, <1>5, <1>6, <1>8 DEF PoolShape

LEMMA AllocFailsStep == ASSUME PoolShape, AllocFails PROVE PoolShape'
<1>1. /\ op = "take" /\ op' = "idle" /\ le' = Head /\ base' = 0 /\ n' = 0 /\ page' = NoPage
      /\ UNCHANGED <<pmm_manager, next, prev, property, flag, nr_free, used, doubled>>
  BY DEF AllocFails, links, marks, Done
<1>2. 0 \in Page /\ 0 \in 0 .. NPage /\ Head \in Node
  BY PoolNumbers DEF Page
<1>3. TypeOK'
  BY <1>1, <1>2 DEF PoolShape, TypeOK
<1>4. Linked(Listed, next, prev)'
  BY <1>1 DEF PoolShape, Linked, Listed, IsSucc
<1>5. Sizes' /\ Apart' /\ Cover' /\ Counted'
  BY <1>1 DEF PoolShape, Sizes, Apart, Merging, Cover, InBlock, Counted
<1>6. Working'
  BY <1>1 DEF Working
<1>. QED BY <1>3, <1>4, <1>5, <1>6 DEF PoolShape

\* Between two operations no two blocks touch.
LEMMA Gaps ==
  ASSUME PoolShape, op \notin {"insert", "merge_prev", "merge_next"},
         NEW b \in flag, NEW c \in flag, b < c
  PROVE  b + property[b] < c
<1>1. b + property[b] <= c /\ b + property[b] # c
  BY DEF PoolShape, Apart, Merging
<1>2. b \in Nat /\ c \in Nat /\ property[b] \in Nat
  BY BlockNumbers
<1>. QED BY <1>1, <1>2

\* The rest of the block takes its place on the list.
LEMMA TakeStep == ASSUME PoolShape, Take PROVE PoolShape'
<1>1. PICK x, k, rest : x = page /\ k = n /\ rest = x + k
  OBVIOUS
<1>2. /\ op = "take" /\ x # NoPage /\ nr_free' = nr_free - k /\ used' = used \cup (x .. x + k - 1)
      /\ op' = "idle" /\ le' = Head /\ base' = 0 /\ n' = 0 /\ page' = NoPage
      /\ UNCHANGED <<pmm_manager, doubled>>
  BY <1>1 DEF Take, Done
<1>3. /\ x \in flag /\ k \in Nat /\ k >= 1 /\ property[x] >= k
  BY <1>1, <1>2 DEF PoolShape, Working, Best, TypeOK
<1>4. /\ x \in Page /\ x \in Nat /\ property[x] \in Nat /\ x + property[x] <= NPage /\ x # Head
      /\ NPage \in Nat
  BY <1>3, BlockNumbers
<1>5. /\ \A b \in flag : b \in Page /\ b \in Nat /\ property[b] \in Nat /\ property[b] >= 1
      /\ \A b, c \in flag : b < c => b + property[b] < c
  BY <1>2, BlockNumbers, Gaps
<1>6. \A p \in Page : p \in used <=> \A b \in flag : ~(b <= p /\ p < b + property[b])
  BY DEF PoolShape, Cover, InBlock
<1>7. x .. x + k - 1 \subseteq Page \ used
  <2>1. ASSUME NEW q \in x .. x + k - 1 PROVE q \in Page /\ x <= q /\ q < x + property[x]
    BY <1>3, <1>4 DEF Page
  <2>. QED BY <1>3, <1>6, <2>1
<1>8. nr_free' = Cardinality(Page \ used') /\ nr_free' \in 0 .. NPage
  BY <1>2, <1>3, <1>4, <1>7, RunTaken
<1>9. /\ Listed = flag /\ Circle(flag, next, prev) /\ flag \subseteq Page
      /\ next \in [Node -> Node] /\ prev \in [Node -> Node]
      /\ property \in [Page -> 0 .. NPage] /\ used \subseteq Page
  BY <1>2 DEF Listed, PoolShape, TypeOK, Circle
<1>10. PICK nx, pv : /\ nx = [next EXCEPT ![prev[x]] = next[x]]
                     /\ pv = [prev EXCEPT ![next[x]] = prev[x]]
  OBVIOUS
<1>11. Circle(flag \ {x}, nx, pv)
  BY <1>3, <1>9, <1>10, LinkOut
<1>12. CASE property[x] > k
  <2>1. /\ property' = [property EXCEPT ![rest] = property[x] - k]
        /\ flag' = (flag \cup {rest}) \ {x}
        /\ ListAdd(nx, pv, rest, prev[x], nx[prev[x]])
    BY <1>1, <1>10, <1>12 DEF Take, AfterDel
  <2>2. /\ rest \in Page /\ rest \in Nat /\ x < rest /\ rest < x + property[x]
        /\ rest + (property[x] - k) = x + property[x] /\ property[x] - k \in 0 .. NPage
        /\ property[x] - k >= 1
    BY <1>1, <1>3, <1>4, <1>12 DEF Page
  <2>3. rest \notin flag /\ flag' = (flag \ {x}) \cup {rest}
    <3>1. rest \notin flag
      BY <1>3, <1>4, <1>5, <2>2
    <3>. QED BY <2>1, <2>2, <3>1, <1>4
  <2>4. Linked(flag', next', prev') /\ next' \in [Node -> Node] /\ prev' \in [Node -> Node]
    <3>1. PICK at : at = prev[x]
      OBVIOUS
    <3>2. /\ at \in (flag \ {x}) \cup {Head} /\ at < x /\ at \in Int /\ next[x] \in flag \cup {Head}
          /\ nx[at] = next[x] /\ (next[x] # Head => x < next[x])
      <4>1. /\ at \in flag \cup {Head} /\ at < x /\ at \in Int /\ next[x] \in flag \cup {Head}
            /\ IsSucc(flag, x, next[x])
        BY <1>3, <1>4, <1>9, <3>1, LinkNumbers
      <4>2. nx[at] = next[x]
        BY <1>9, <1>10, <3>1, <4>1, PoolNumbers
      <4>. QED BY <1>4, <4>1, <4>2 DEF IsSucc
    <3>3. at < rest /\ (nx[at] = Head \/ rest < nx[at])
      <4>1. next[x] # Head => x + property[x] < next[x] /\ next[x] \in Nat
        BY <1>3, <1>5, <3>2
      <4>2. at < rest
        BY <1>4, <2>2, <3>2
      <4>. QED BY <1>4, <2>2, <3>2, <4>1, <4>2
    <3>4. /\ next' = [nx EXCEPT ![at] = rest, ![rest] = nx[at]]
          /\ prev' = [pv EXCEPT ![nx[at]] = rest, ![rest] = at]
      BY <2>1, <3>1 DEF ListAdd
    <3>5. PICK S : S = flag \ {x}
      OBVIOUS
    <3>6. rest \notin S /\ at \in S \cup {Head} /\ Circle(S, nx, pv)
      BY <1>11, <2>3, <3>2, <3>5
    <3>7. Circle(S \cup {rest}, [nx EXCEPT ![at] = rest, ![rest] = nx[at]],
                 [pv EXCEPT ![nx[at]] = rest, ![rest] = at])
      BY <2>2, <3>2, <3>3, <3>6, LinkIn
    <3>8. Circle(S \cup {rest}, next', prev')
      BY <3>4, <3>7
    <3>9. S \cup {rest} = flag'
      BY <2>3, <3>5
    <3>. QED BY <3>8, <3>9 DEF Circle
  <2>5. \A b \in Page : property'[b] = IF b = rest THEN property[x] - k ELSE property[b]
    BY <1>9, <2>1
  <2>6. /\ \A b \in flag' : b = rest \/ (b \in flag /\ b # x /\ b # rest /\ property'[b] = property[b])
        /\ property'[rest] = property[x] - k
    BY <1>5, <2>2, <2>3, <2>5
  <2>7. TypeOK'
    <3>1. 0 \in Page /\ 0 \in 0 .. NPage /\ Head \in Node
      BY PoolNumbers DEF Page
    <3>2. property' \in [Page -> 0 .. NPage]
      BY <1>9, <2>1, <2>2
    <3>3. flag' \subseteq Page /\ used' \subseteq Page
      BY <1>2, <1>7, <1>9, <2>2, <2>3
    <3>. QED BY <1>2, <1>8, <2>4, <3>1, <3>2, <3>3 DEF PoolShape, TypeOK
  <2>8. Sizes'
    <3>1. ASSUME NEW b \in flag' PROVE property'[b] >= 1 /\ b + property'[b] <= NPage
      BY <1>4, <2>2, <2>6, BlockNumbers
    <3>. QED BY <3>1 DEF Sizes
  <2>9. Apart'
    <3>1. ASSUME NEW b \in flag', NEW c \in flag', b < c
          PROVE  b + property'[b] < c /\ b \in Nat /\ c \in Nat /\ property'[b] \in Nat
      <4>1. CASE b = rest
        <5>1. c \in flag /\ c # x /\ c \in Nat
          BY <1>5, <2>2, <2>6, <3>1, <4>1
        <5>2. x < c
          BY <1>4, <2>2, <3>1, <4>1, <5>1
        <5>. QED BY <1>3, <1>4, <1>5, <2>2, <2>6, <4>1, <5>1, <5>2
      <4>2. CASE b # rest /\ c = rest
        <5>1. b \in flag /\ b # x /\ b \in Nat /\ property'[b] = property[b] /\ property[b] \in Nat
              /\ property[b] >= 1
          BY <1>5, <2>6, <4>2
        <5>2. b < x
          <6>1. ~(x < b)
            BY <1>3, <1>4, <1>5, <2>2, <3>1, <4>2, <5>1
          <6>. QED BY <1>4, <5>1, <6>1
        <5>. QED BY <1>3, <1>4, <1>5, <2>2, <4>2, <5>1, <5>2
      <4>3. CASE b # rest /\ c # rest
        BY <1>5, <2>6, <3>1, <4>3
      <4>. QED BY <4>1, <4>2, <4>3
    <3>2. \A b, c \in flag' : b < c => b + property'[b] <= c /\ b + property'[b] # c
      BY <3>1
    <3>. QED BY <3>2 DEF Apart
  <2>10. Cover'
    <3>1. ASSUME NEW p \in Page
          PROVE  p \in used' <=> \A b \in flag' : ~(b <= p /\ p < b + property'[b])
      <4>1. p \in Nat /\ (p \in used' <=> p \in used \/ (x <= p /\ p < rest))
        BY <1>1, <1>2, <1>3, <1>4, PoolNumbers
      <4>2. x <= p /\ p < x + property[x] <=> (x <= p /\ p < rest) \/ (rest <= p /\ p < x + property[x])
        BY <1>4, <2>2, <4>1
      <4>3. (\A b \in flag' : ~(b <= p /\ p < b + property'[b]))
            <=> /\ ~(rest <= p /\ p < x + property[x])
                /\ \A b \in flag : b # x => ~(b <= p /\ p < b + property[b])
        BY <2>2, <2>3, <2>6
      <4>4. x <= p /\ p < rest => /\ ~(rest <= p /\ p < x + property[x])
                                  /\ \A b \in flag : b # x => ~(b <= p /\ p < b + property[b])
        BY <1>3, <1>4, <1>5, <2>2, <4>1
      <4>. QED BY <1>3, <1>6, <4>1, <4>2, <4>3, <4>4
    <3>. QED BY <3>1 DEF Cover, InBlock
  <2>11. Linked(Listed, next, prev)'
    BY <1>2, <2>4 DEF Listed, Linked, IsSucc
  <2>. QED BY <1>2, <1>8, <2>7, <2>8, <2>9, <2>10, <2>11 DEF PoolShape, Counted, Working
<1>13. CASE ~(property[x] > k)
  <2>1. /\ property' = property /\ flag' = flag \ {x} /\ next' = nx /\ prev' = pv
    BY <1>1, <1>10, <1>13 DEF Take, ListDel, AfterDel
  <2>2. property[x] = k
    BY <1>3, <1>4, <1>13
  <2>3. TypeOK'
    <3>1. 0 \in Page /\ 0 \in 0 .. NPage /\ Head \in Node
      BY PoolNumbers DEF Page
    <3>2. flag' \subseteq Page /\ used' \subseteq Page
      BY <1>2, <1>7, <1>9, <2>1
    <3>. QED BY <1>2, <1>8, <1>11, <2>1, <3>1, <3>2 DEF PoolShape, TypeOK, Circle
  <2>4. Sizes' /\ Apart'
    <3>1. \A b \in flag' : property[b] >= 1 /\ b + property[b] <= NPage
      BY <2>1, BlockNumbers
    <3>2. \A b, c \in flag' : b < c => b + property[b] <= c /\ b + property[b] # c
      BY <1>5, <2>1
    <3>. QED BY <2>1, <3>1, <3>2 DEF Sizes, Apart
  <2>5. Cover'
    <3>1. ASSUME NEW p \in Page
          PROVE  p \in used' <=> \A b \in flag' : ~(b <= p /\ p < b + property[b])
      <4>1. p \in Nat /\ (p \in used' <=> p \in used \/ (x <= p /\ p < x + property[x]))
        BY <1>2, <1>3, <1>4, <2>2, PoolNumbers
      <4>2. x <= p /\ p < x + property[x]
              => \A b \in flag : b # x => ~(b <= p /\ p < b + property[b])
        BY <1>3, <1>4, <1>5, <4>1
      <4>. QED BY <1>3, <1>6, <2>1, <4>1, <4>2
    <3>. QED BY <2>1, <3>1 DEF Cover, InBlock
  <2>6. Linked(Listed, next, prev)'
    BY <1>2, <1>11, <2>1 DEF Listed, Linked, IsSucc, Circle
  <2>. QED BY <1>2, <1>8, <2>3, <2>4, <2>5, <2>6 DEF PoolShape, Counted, Working
<1>. QED BY <1>3, <1>4, <1>12, <1>13

-----------------------------------------------------------------------------
(* free_pages.                                                             *)

LEMMA FreeCallStep ==
  ASSUME PoolShape, NEW b \in Page, NEW k \in 1 .. NPage - b, FreeCall(b, k)
  PROVE  PoolShape'
<1>1. /\ op = "idle" /\ b .. b + k - 1 \subseteq used /\ used' = used \ (b .. b + k - 1)
      /\ base' = b /\ property' = [property EXCEPT ![b] = k]
      /\ flag' = (flag \ (b .. b + k - 1)) \cup {b} /\ nr_free' = nr_free + k /\ le' = Head
      /\ IF next[Head] = Head
         THEN op' = "merge_prev" /\ ListAdd(next, prev, b, Head, Head)
         ELSE op' = "insert" /\ next' = next /\ prev' = prev
      /\ UNCHANGED <<pmm_manager, n, page, doubled>>
  BY DEF FreeCall, links
<1>2. /\ b \in Nat /\ k \in Nat /\ k >= 1 /\ b + k <= NPage /\ NPage \in Nat /\ b # Head
      /\ b \in b .. b + k - 1 /\ Head < b
  BY PoolNumbers
<1>3. /\ \A c \in flag : /\ c \in Page /\ c \in Nat /\ property[c] \in Nat /\ property[c] >= 1
                         /\ c \notin used /\ c + property[c] <= NPage
      /\ \A c, d \in flag : c < d => c + property[c] < d
  BY <1>1, BlockNumbers, Gaps
<1>4. \A p \in Page : p \in used <=> \A c \in flag : ~(c <= p /\ p < c + property[c])
  BY DEF PoolShape, Cover, InBlock
<1>5. /\ Circle(flag, next, prev) /\ flag \subseteq Page /\ used \subseteq Page
      /\ property \in [Page -> 0 .. NPage]
  BY <1>1 DEF Listed, PoolShape, TypeOK, Circle
<1>6. flag' = flag \cup {b} /\ b \notin flag
  BY <1>1, <1>2, <1>3
<1>7. nr_free' = Cardinality(Page \ used') /\ nr_free' \in 0 .. NPage
  BY <1>1, <1>2, RunFreed
<1>8. \A c \in Page : property'[c] = IF c = b THEN k ELSE property[c]
  BY <1>1, <1>5
<1>9. ASSUME NEW c \in flag PROVE (c < b /\ c + property[c] <= b) \/ (b < c /\ b + k <= c)
  <2>1. ~(c <= b /\ b < c + property[c])
    BY <1>1, <1>2, <1>4
  <2>2. c \notin b .. b + k - 1
    BY <1>1, <1>3
  <2>. QED BY <1>2, <1>3, <2>1, <2>2
<1>10. TypeOK'
  <2>1. next' \in [Node -> Node] /\ prev' \in [Node -> Node]
    BY <1>1, <1>5, PoolNumbers DEF ListAdd, Circle
  <2>2. property' \in [Page -> 0 .. NPage]
    BY <1>1, <1>2, <1>5
  <2>3. flag' \subseteq Page /\ used' \subseteq Page /\ base' \in Page /\ le' \in Node
    BY <1>1, <1>5, <1>6, PoolNumbers
  <2>. QED BY <1>1, <1>7, <2>1, <2>2, <2>3 DEF PoolShape, TypeOK
<1>11. Sizes'
  <2>1. ASSUME NEW c \in flag' PROVE property'[c] >= 1 /\ c + property'[c] <= NPage
    BY <1>2, <1>3, <1>6, <1>8
  <2>. QED BY <2>1 DEF Sizes
<1>12. Apart'
  <2>1. op' \in {"insert", "merge_prev"} /\ base' = b
    BY <1>1
  <2>2. ASSUME NEW c \in flag', NEW d \in flag', c < d
        PROVE  c + property'[c] <= d /\ (c + property'[c] = d => c = b \/ d = b)
    <3>1. CASE c = b
      BY <1>2, <1>3, <1>6, <1>8, <1>9, <2>2, <3>1
    <3>2. CASE c # b /\ d = b
      BY <1>2, <1>3, <1>6, <1>8, <1>9, <2>2, <3>2
    <3>3. CASE c # b /\ d # b
      <4>1. c \in flag /\ d \in flag /\ property'[c] = property[c] /\ c + property[c] < d
        BY <1>3, <1>6, <1>8, <2>2, <3>3
      <4>. QED BY <1>3, <4>1
    <3>. QED BY <3>1, <3>2, <3>3
  <2>. QED BY <2>1, <2>2 DEF Apart, Merging
<1>13. Cover'
  <2>1. ASSUME NEW p \in Page
        PROVE  p \in used' <=> \A c \in flag' : ~(c <= p /\ p < c + property'[c])
    <3>1. p \in Nat /\ (p \in used' <=> p \in used /\ ~(b <= p /\ p < b + k))
      BY <1>1, <1>2, PoolNumbers
    <3>2. (\A c \in flag' : ~(c <= p /\ p < c + property'[c]))
          <=> /\ ~(b <= p /\ p < b + k)
              /\ \A c \in flag : ~(c <= p /\ p < c + property[c])
      BY <1>3, <1>6, <1>8
    <3>. QED BY <1>4, <3>1, <3>2
  <2>. QED BY <2>1 DEF Cover, InBlock
<1>14. CASE next[Head] = Head
  <2>1. flag = {}
    <3>1. IsSucc(flag, Head, Head)
      BY <1>5, <1>14 DEF Circle, Linked
    <3>. QED BY <1>3, <3>1, PoolNumbers DEF IsSucc
  <2>2. Circle(flag \cup {b}, [next EXCEPT ![Head] = b, ![b] = next[Head]],
               [prev EXCEPT ![next[Head]] = b, ![b] = Head])
    BY <1>2, <1>5, <1>6, <1>14, LinkIn
  <2>3. Circle(flag', next', prev')
    BY <1>1, <1>6, <1>14, <2>2 DEF ListAdd
  <2>4. Linked(Listed, next, prev)'
    BY <1>1, <1>14, <2>3 DEF Listed, Circle, Linked, IsSucc
  <2>5. Working'
    BY <1>1, <1>6, <1>14 DEF Working
  <2>. QED BY <1>7, <1>10, <1>11, <1>12, <1>13, <2>4, <2>5 DEF PoolShape, Counted
<1>15. CASE next[Head] # Head
  <2>1. flag' \ {base'} = flag
    BY <1>1, <1>6
  <2>2. Linked(Listed, next, prev)'
    BY <1>1, <1>5, <1>15, <2>1 DEF Listed, Circle, Linked, IsSucc
  <2>3. Working'
    BY <1>1, <1>2, <1>6, <1>15 DEF Working, Listed
  <2>. QED BY <1>7, <1>10, <1>11, <1>12, <1>13, <2>2, <2>3 DEF PoolShape, Counted
<1>. QED BY <1>14, <1>15

\* The block gets its place before the first one with a greater address.
LEMMA InsertBeforeStep == ASSUME PoolShape, InsertBefore PROVE PoolShape'
<1>1. /\ op = "insert" /\ op' = "merge_prev" /\ next[le] # Head /\ base < next[le]
      /\ ListAdd(next, prev, base, prev[next[le]], next[le])
      /\ UNCHANGED <<pmm_manager, property, flag, nr_free, used, le, base, n, page, doubled>>
  BY DEF InsertBefore, Inserting, marks, args
<1>2. PICK S : S = flag \ {base}
  OBVIOUS
<1>3. /\ base \in flag /\ base \in Page /\ Listed = S /\ le \in S \cup {Head} /\ le < base
      /\ Circle(S, next, prev)
  BY <1>1, <1>2, BlockNumbers DEF PoolShape, Working, Listed, TypeOK, Circle
<1>4. prev[next[le]] = le
  BY <1>3, LinkNumbers
<1>5. Circle(S \cup {base}, [next EXCEPT ![le] = base, ![base] = next[le]],
             [prev EXCEPT ![next[le]] = base, ![base] = le])
  BY <1>1, <1>2, <1>3, LinkIn
<1>6. Circle(flag, next', prev')
  <2>1. S \cup {base} = flag
    BY <1>2, <1>3
  <2>. QED BY <1>1, <1>4, <1>5, <2>1 DEF ListAdd
<1>7. TypeOK'
  BY <1>1, <1>6 DEF PoolShape, TypeOK, Circle
<1>8. Linked(Listed, next, prev)'
  BY <1>1, <1>6 DEF Listed, Circle, Linked, IsSucc
<1>9. Sizes' /\ Apart' /\ Cover' /\ Counted'
  BY <1>1 DEF PoolShape, Sizes, Apart, Merging, Cover, InBlock, Counted
<1>10. Working'
  BY <1>1, <1>3 DEF Working
<1>. QED BY <1>7, <1>8, <1>9, <1>10 DEF PoolShape

LEMMA InsertNextStep == ASSUME PoolShape, InsertNext PROVE PoolShape'
<1>1. /\ op = "insert" /\ op' = op /\ next[le] # Head /\ base >= next[le]
      /\ next[next[le]] # Head /\ le' = next[le]
      /\ UNCHANGED <<pmm_manager, next, prev, property, flag, nr_free, used, base, n, page, doubled>>
  BY DEF InsertNext, Inserting, links, marks
<1>2. /\ base \in flag /\ base \in Nat /\ Listed = flag \ {base} /\ next[le] \in Listed
      /\ next[le] \in Int /\ next[le] \in Node
  BY <1>1, BlockNumbers, LinkNumbers DEF PoolShape, Working, Listed, TypeOK
<1>3. next[le] < base
  BY <1>1, <1>2
<1>4. TypeOK'
  BY <1>1, <1>2 DEF PoolShape, TypeOK
<1>5. Listed' = Listed
  BY <1>1 DEF Listed
<1>6. Linked(Listed, next, prev)'
  BY <1>1, <1>5 DEF PoolShape, Linked, IsSucc
<1>7. Sizes' /\ Apart' /\ Cover' /\ Counted'
  BY <1>1 DEF PoolShape, Sizes, Apart, Merging, Cover, InBlock, Counted
<1>8. Working'
  BY <1>1, <1>2, <1>3, <1>5 DEF Working
<1>. QED BY <1>4, <1>6, <1>7, <1>8 DEF PoolShape

\* The block before takes the freed one in, if they touch.
LEMMA MergePrevStep == ASSUME PoolShape, MergePrev PROVE PoolShape'
<1>1. PICK b, p : b = base /\ p = prev[base]
  OBVIOUS
<1>2. /\ op = "merge_prev" /\ op' = "merge_next"
      /\ IF p # Head /\ p + property[p] = b
         THEN /\ property' = [property EXCEPT ![p] = @ + property[b]]
              /\ flag' = flag \ {b} /\ ListDel(b) /\ base' = p
         ELSE /\ property' = property /\ flag' = flag /\ next' = next /\ prev' = prev
              /\ base' = b
      /\ UNCHANGED <<pmm_manager, nr_free, used, le, n, page, doubled>>
  BY <1>1 DEF MergePrev, links
<1>3. /\ b \in flag /\ b \in Nat /\ property[b] \in Nat /\ property[b] >= 1 /\ b \in Page
      /\ b + property[b] <= NPage /\ b # Head /\ NPage \in Nat
  BY <1>1, <1>2, BlockNumbers DEF PoolShape, Working
<1>4. /\ Listed = flag /\ Circle(flag, next, prev) /\ flag \subseteq Page
      /\ property \in [Page -> 0 .. NPage]
  BY <1>2 DEF PoolShape, TypeOK, Listed, Circle
<1>5. /\ p \in flag \cup {Head} /\ p \in Int /\ p < b /\ \A c \in flag : c <= p \/ b <= c
  BY <1>1, <1>3, <1>4, LinkNumbers
<1>6. \A c \in flag : c \in Nat /\ property[c] \in Nat /\ property[c] >= 1 /\ c + property[c] <= NPage
  BY BlockNumbers
<1>7. \A c, d \in flag : c < d =>
        c + property[c] <= d /\ (c + property[c] = d => c = b \/ d = b)
  BY <1>1, <1>2 DEF PoolShape, Apart, Merging
<1>8. ASSUME NEW c \in flag, c < b PROVE p # Head /\ c <= p /\ (c + property[c] = b => c = p)
  <2>1. c <= p
    BY <1>3, <1>5, <1>6, <1>8
  <2>2. p # Head
    BY <1>6, <2>1, PoolNumbers
  <2>3. c < p => c + property[c] <= p
    BY <1>5, <1>7, <2>2
  <2>. QED BY <1>3, <1>5, <1>6, <2>1, <2>2, <2>3
<1>9. \A q \in Page : q \in used <=> \A c \in flag : ~(c <= q /\ q < c + property[c])
  BY DEF PoolShape, Cover, InBlock
<1>10. CASE p # Head /\ p + property[p] = b
  <2>1. /\ property' = [property EXCEPT ![p] = property[p] + property[b]]
        /\ flag' = flag \ {b} /\ ListDel(b) /\ base' = p
    BY <1>2, <1>10
  <2>2. p \in flag /\ p \in Page /\ p \in Nat /\ property[p] \in Nat /\ p # b /\ p \in flag'
    BY <1>3, <1>4, <1>5, <1>6, <1>10, <2>1
  <2>3. \A c \in Page : property'[c] = IF c = p THEN property[p] + property[b] ELSE property[c]
    BY <1>4, <2>1
  <2>4. \A c \in flag' : /\ c \in flag /\ c # b
                         /\ property'[c] = IF c = p THEN property[p] + property[b] ELSE property[c]
    BY <1>4, <2>1, <2>3
  <2>5. Circle(flag', next', prev')
    <3>1. Circle(flag \ {b}, [next EXCEPT ![prev[b]] = next[b]], [prev EXCEPT ![next[b]] = prev[b]])
      BY <1>3, <1>4, LinkOut
    <3>. QED BY <2>1, <3>1 DEF ListDel, AfterDel
  <2>6. TypeOK'
    <3>1. property[p] + property[b] \in 0 .. NPage
      BY <1>3, <1>10, <2>2
    <3>2. property' \in [Page -> 0 .. NPage]
      BY <1>4, <2>1, <3>1
    <3>3. flag' \subseteq Page /\ base' \in Page
      BY <1>4, <2>1, <2>2
    <3>. QED BY <1>2, <2>5, <3>2, <3>3 DEF PoolShape, TypeOK, Circle
  <2>7. Linked(Listed, next, prev)'
    BY <1>2, <2>5 DEF Listed, Circle, Linked, IsSucc
  <2>8. Sizes'
    <3>1. ASSUME NEW c \in flag' PROVE property'[c] >= 1 /\ c + property'[c] <= NPage
      BY <1>3, <1>6, <1>10, <2>2, <2>4
    <3>. QED BY <3>1 DEF Sizes
  <2>9. Apart'
    <3>1. ASSUME NEW c \in flag', NEW d \in flag', c < d
          PROVE  c + property'[c] <= d /\ (c + property'[c] = d => c = p)
      <4>1. /\ c \in flag /\ d \in flag /\ c # b /\ d # b /\ c \in Nat /\ d \in Nat
            /\ property[c] \in Nat
        BY <1>6, <2>4
      <4>2. CASE c = p
        <5>1. b < d
          BY <1>3, <1>5, <2>2, <3>1, <4>1, <4>2
        <5>2. b + property[b] <= d
          BY <1>3, <1>7, <4>1, <5>1
        <5>. QED BY <1>3, <1>10, <2>2, <2>4, <4>1, <4>2, <5>2
      <4>3. CASE c # p
        BY <1>7, <2>4, <3>1, <4>1, <4>3
      <4>. QED BY <4>2, <4>3
    <3>. QED BY <1>2, <2>1, <3>1 DEF Apart, Merging
  <2>10. Cover'
    <3>1. ASSUME NEW q \in Page
          PROVE  q \in used <=> \A c \in flag' : ~(c <= q /\ q < c + property'[c])
      <4>1. q \in Nat
        BY PoolNumbers
      <4>2. (p <= q /\ q < p + (property[p] + property[b]))
            <=> (p <= q /\ q < p + property[p]) \/ (b <= q /\ q < b + property[b])
        BY <1>3, <1>10, <2>2, <4>1
      <4>3. (\A c \in flag' : ~(c <= q /\ q < c + property'[c]))
            <=> /\ ~(p <= q /\ q < p + (property[p] + property[b]))
                /\ \A c \in flag : c # p /\ c # b => ~(c <= q /\ q < c + property[c])
        BY <2>1, <2>2, <2>4
      <4>. QED BY <1>3, <1>9, <2>2, <4>2, <4>3
    <3>. QED BY <1>2, <3>1 DEF Cover, InBlock
  <2>11. Counted' /\ Working'
    BY <1>2, <2>1, <2>2 DEF PoolShape, Counted, Working
  <2>. QED BY <2>6, <2>7, <2>8, <2>9, <2>10, <2>11 DEF PoolShape
<1>11. CASE ~(p # Head /\ p + property[p] = b)
  <2>1. /\ property' = property /\ flag' = flag /\ next' = next /\ prev' = prev /\ base' = b
    BY <1>2, <1>11
  <2>2. Apart'
    <3>1. ASSUME NEW c \in flag, NEW d \in flag, c < d, c + property[c] = d PROVE c = b
      <4>1. ASSUME d = b, c # b PROVE FALSE
        <5>1. p # Head /\ c = p
          BY <1>8, <3>1, <4>1
        <5>. QED BY <1>11, <3>1, <4>1, <5>1
      <4>. QED BY <1>7, <3>1, <4>1
    <3>. QED BY <1>2, <1>7, <2>1, <3>1 DEF Apart, Merging
  <2>3. TypeOK'
    BY <1>2, <1>3, <2>1 DEF PoolShape, TypeOK
  <2>4. Linked(Listed, next, prev)'
    BY <1>2, <2>1 DEF PoolShape, Linked, Listed, IsSucc
  <2>5. Sizes' /\ Cover' /\ Counted'
    BY <1>2, <2>1 DEF PoolShape, Sizes, Cover, InBlock, Counted
  <2>6. Working'
    BY <1>2, <1>3, <2>1 DEF Working
  <2>. QED BY <2>2, <2>3, <2>4, <2>5, <2>6 DEF PoolShape
<1>. QED BY <1>10, <1>11

\* ... and it takes the block after it in.
LEMMA MergeNextStep == ASSUME PoolShape, MergeNext PROVE PoolShape'
<1>1. PICK b, p : b = base /\ p = next[base]
  OBVIOUS
<1>2. /\ op = "merge_next" /\ op' = "idle" /\ le' = Head /\ base' = 0 /\ n' = 0 /\ page' = NoPage
      /\ IF p # Head /\ b + property[b] = p
         THEN /\ property' = [property EXCEPT ![b] = @ + property[p]]
              /\ flag' = flag \ {p} /\ ListDel(p)
         ELSE /\ property' = property /\ flag' = flag /\ next' = next /\ prev' = prev
      /\ UNCHANGED <<pmm_manager, nr_free, used, doubled>>
  BY <1>1 DEF MergeNext, links, Done
<1>3. /\ b \in flag /\ b \in Nat /\ property[b] \in Nat /\ property[b] >= 1 /\ b \in Page
      /\ b + property[b] <= NPage /\ b # Head /\ NPage \in Nat
  BY <1>1, <1>2, BlockNumbers DEF PoolShape, Working
<1>4. /\ Listed = flag /\ Circle(flag, next, prev) /\ flag \subseteq Page
      /\ property \in [Page -> 0 .. NPage] /\ 0 \in Page /\ 0 \in 0 .. NPage /\ Head \in Node
  BY <1>2, PoolNumbers DEF PoolShape, TypeOK, Listed, Circle, Page
<1>5. \A c \in flag : c \in Nat /\ property[c] \in Nat /\ property[c] >= 1 /\ c + property[c] <= NPage
  BY BlockNumbers
<1>6. /\ p \in flag \cup {Head} /\ p \in Int
      /\ \A c \in flag : c <= b \/ (p # Head /\ p <= c)
      /\ p # Head => b < p
  BY <1>1, <1>3, <1>4, LinkNumbers DEF IsSucc
<1>7. \A c, d \in flag : c < d => c + property[c] <= d /\ (c + property[c] = d => c = b)
  BY <1>1, <1>2 DEF PoolShape, Apart, Merging
<1>8. ASSUME NEW d \in flag, b < d, b + property[b] = d PROVE p # Head /\ d = p
  <2>1. p # Head /\ p <= d
    BY <1>3, <1>5, <1>6, <1>8
  <2>2. p < d => b + property[b] <= p
    BY <1>3, <1>6, <1>7, <2>1
  <2>. QED BY <1>3, <1>5, <1>6, <1>8, <2>1, <2>2
<1>9. \A q \in Page : q \in used <=> \A c \in flag : ~(c <= q /\ q < c + property[c])
  BY DEF PoolShape, Cover, InBlock
<1>10. CASE p # Head /\ b + property[b] = p
  <2>1. /\ property' = [property EXCEPT ![b] = property[b] + property[p]]
        /\ flag' = flag \ {p} /\ ListDel(p)
    BY <1>2, <1>10
  <2>2. /\ p \in flag /\ p \in Page /\ p \in Nat /\ property[p] \in Nat /\ p # b /\ b \in flag'
        /\ p + property[p] <= NPage
    BY <1>3, <1>4, <1>5, <1>6, <1>10, <2>1
  <2>3. \A c \in Page : property'[c] = IF c = b THEN property[b] + property[p] ELSE property[c]
    BY <1>4, <2>1
  <2>4. \A c \in flag' : /\ c \in flag /\ c # p
                         /\ property'[c] = IF c = b THEN property[b] + property[p] ELSE property[c]
    BY <1>4, <2>1, <2>3
  <2>5. Circle(flag', next', prev')
    <3>1. Circle(flag \ {p}, [next EXCEPT ![prev[p]] = next[p]], [prev EXCEPT ![next[p]] = prev[p]])
      BY <1>4, <2>2, LinkOut
    <3>. QED BY <2>1, <3>1 DEF ListDel, AfterDel
  <2>6. TypeOK'
    <3>1. property[b] + property[p] \in 0 .. NPage
      BY <1>3, <1>10, <2>2
    <3>2. property' \in [Page -> 0 .. NPage]
      BY <1>4, <2>1, <3>1
    <3>3. flag' \subseteq Page
      BY <1>4, <2>1
    <3>. QED BY <1>2, <1>4, <2>5, <3>2, <3>3 DEF PoolShape, TypeOK, Circle
  <2>7. Linked(Listed, next, prev)'
    BY <1>2, <2>5 DEF Listed, Circle, Linked, IsSucc
  <2>8. Sizes'
    <3>1. ASSUME NEW c \in flag' PROVE property'[c] >= 1 /\ c + property'[c] <= NPage
      BY <1>3, <1>5, <1>10, <2>2, <2>4
    <3>. QED BY <3>1 DEF Sizes
  <2>9. Apart'
    <3>1. ASSUME NEW c \in flag', NEW d \in flag', c < d
          PROVE  c + property'[c] <= d /\ c + property'[c] # d
      <4>1. /\ c \in flag /\ d \in flag /\ c # p /\ d # p /\ c \in Nat /\ d \in Nat
            /\ property[c] \in Nat
        BY <1>5, <2>4
      <4>2. CASE c = b
        <5>1. p < d
          BY <1>3, <1>6, <2>2, <3>1, <4>1, <4>2
        <5>2. p + property[p] <= d /\ p + property[p] # d
          BY <1>7, <2>2, <4>1, <5>1
        <5>3. property'[c] = property[b] + property[p]
          BY <2>4, <4>2
        <5>. QED BY <1>3, <1>10, <2>2, <4>1, <4>2, <5>2, <5>3
      <4>3. CASE c # b
        BY <1>7, <2>4, <3>1, <4>1, <4>3
      <4>. QED BY <4>2, <4>3
    <3>. QED BY <3>1 DEF Apart
  <2>10. Cover'
    <3>1. ASSUME NEW q \in Page
          PROVE  q \in used <=> \A c \in flag' : ~(c <= q /\ q < c + property'[c])
      <4>1. q \in Nat
        BY PoolNumbers
      <4>2. (b <= q /\ q < b + (property[b] + property[p]))
            <=> (b <= q /\ q < b + property[b]) \/ (p <= q /\ q < p + property[p])
        BY <1>3, <1>10, <2>2, <4>1
      <4>3. (\A c \in flag' : ~(c <= q /\ q < c + property'[c]))
            <=> /\ ~(b <= q /\ q < b + (property[b] + property[p]))
                /\ \A c \in flag : c # b /\ c # p => ~(c <= q /\ q < c + property[c])
        BY <2>1, <2>2, <2>4
      <4>. QED BY <1>3, <1>9, <2>2, <4>2, <4>3
    <3>. QED BY <1>2, <3>1 DEF Cover, InBlock
  <2>11. Counted' /\ Working'
    BY <1>2 DEF PoolShape, Counted, Working
  <2>. QED BY <2>6, <2>7, <2>8, <2>9, <2>10, <2>11 DEF PoolShape
<1>11. CASE ~(p # Head /\ b + property[b] = p)
  <2>1. /\ property' = property /\ flag' = flag /\ next' = next /\ prev' = prev
    BY <1>2, <1>11
  <2>2. Apart'
    <3>1. \A c, d \in flag : c < d => c + property[c] <= d /\ c + property[c] # d
      BY <1>7, <1>8, <1>11
    <3>. QED BY <2>1, <3>1 DEF Apart
  <2>3. TypeOK'
    BY <1>2, <1>4, <2>1 DEF PoolShape, TypeOK
  <2>4. Linked(Listed, next, prev)'
    BY <1>2, <2>1 DEF PoolShape, Linked, Listed, IsSucc
  <2>5. Sizes' /\ Cover' /\ Counted'
    BY <1>2, <2>1 DEF PoolShape, Sizes, Cover, InBlock, Counted
  <2>6. Working'
    BY <1>2 DEF Working
  <2>. QED BY <2>2, <2>3, <2>4, <2>5, <2>6 DEF PoolShape
<1>. QED BY <1>10, <1>11

-----------------------------------------------------------------------------
(* The invariant holds until a block is linked twice.                      *)

LEMMA PoolInit == Init => PoolInv
<1>. SUFFICES ASSUME Init PROVE PoolShape
  BY DEF PoolInv
<1>1. /\ pmm_manager \in {"default", "best_fit"}
      /\ next = [x \in Node |-> IF x = Head THEN 0 ELSE IF x = 0 THEN Head ELSE x]
      /\ prev = next /\ property = [p \in Page |-> IF p = 0 THEN NPage ELSE 0]
      /\ flag = {0} /\ nr_free = NPage /\ used = {} /\ op = "idle"
      /\ le = Head /\ base = 0 /\ n = 0 /\ page = NoPage /\ doubled = FALSE
  BY PoolNumbers DEF Init
<1>2. 0 \in Page /\ 0 \in Node /\ Head \in Node /\ 0 # Head /\ Head < 0 /\ NPage \in 0 .. NPage
      /\ 0 \in 0 .. NPage
  BY PoolNumbers DEF Page
<1>3. TypeOK
  <2>1. next \in [Node -> Node] /\ prev \in [Node -> Node]
    BY <1>1, <1>2
  <2>2. property \in [Page -> 0 .. NPage]
    BY <1>1, <1>2
  <2>. QED BY <1>1, <1>2, <2>1, <2>2 DEF TypeOK
<1>4. Linked(Listed, next, prev)
  <2>1. Listed = {0}
    BY <1>1 DEF Listed
  <2>2. next[Head] = 0 /\ next[0] = Head /\ prev[Head] = 0 /\ prev[0] = Head
    BY <1>1, <1>2
  <2>3. \A c \in {0} : c <= 0 /\ 0 <= c
    OBVIOUS
  <2>. QED BY <1>2, <2>1, <2>2, <2>3 DEF Linked, IsSucc
<1>5. \A b \in flag : b = 0 /\ property[b] = NPage
  BY <1>1, <1>2
<1>6. Sizes /\ Apart
  BY <1>5, PoolNumbers DEF Sizes, Apart
<1>7. Cover
  <2>1. ASSUME NEW p \in Page PROVE 0 <= p /\ p < 0 + NPage
    BY PoolNumbers DEF Page
  <2>. QED BY <1>1, <1>5, <2>1 DEF Cover, InBlock
<1>8. Counted
  <2>1. 0 \in Nat /\ NPage \in Nat /\ NPage >= 1 /\ 0 + NPage - 1 = NPage - 1
    BY PoolNumbers
  <2>2. Cardinality(0 .. 0 + NPage - 1) = NPage
    BY <2>1, RunCard
  <2>3. Page \ used = 0 .. 0 + NPage - 1
    BY <1>1, <2>1 DEF Page
  <2>. QED BY <1>1, <2>2, <2>3 DEF Counted
<1>9. Working
  BY <1>1 DEF Working
<1>. QED BY <1>3, <1>4, <1>6, <1>7, <1>8, <1>9 DEF PoolShape

LEMMA PoolStep == PoolInv /\ [Next]_vars => PoolInv'
<1>. SUFFICES ASSUME PoolInv, [Next]_vars, ~doubled' PROVE PoolShape'
  BY DEF PoolInv
<1>1. ~doubled
  BY DEF Next, Turn, SearchStep, SearchEnd, AllocFails, Take, InsertBefore, InsertLast, InsertNext,
         InsertEnd, MergePrev, MergeNext, AllocCall, FreeCall, vars
<1>2. PoolShape
  BY <1>1 DEF PoolInv
<1>3. CASE SearchStep \/ SearchEnd \/ AllocFails \/ Take
  BY <1>2, <1>3, SearchStepStep, SearchEndStep, AllocFailsStep, TakeStep
<1>4. CASE InsertBefore \/ InsertNext \/ MergePrev \/ MergeNext
  BY <1>2, <1>4, InsertBeforeStep, InsertNextStep, MergePrevStep, MergeNextStep
<1>5. ~InsertLast /\ ~InsertEnd
  BY <1>2 DEF InsertLast, InsertEnd, PoolShape, Working
<1>6. ASSUME NEW k \in 1 .. NPage, AllocCall(k) PROVE PoolShape'
  BY <1>2, <1>6, AllocCallStep
<1>7. ASSUME NEW b \in Page, NEW k \in 1 .. NPage - b, FreeCall(b, k) PROVE PoolShape'
  BY <1>2, <1>7, FreeCallStep
<1>8. CASE UNCHANGED vars
  BY <1>2, <1>8 DEF vars, links, marks, args, PoolShape, TypeOK, Linked, IsSucc, Listed, Sizes, Apart,
     Merging, Cover, InBlock, Counted, Working, Best
<1>. QED BY <1>3, <1>4, <1>5, <1>6, <1>7, <1>8 DEF Next, Turn

LEMMA PoolInvariant == Spec => []PoolInv
<1>. QED BY PoolInit, PoolStep, PTL DEF Spec

-----------------------------------------------------------------------------
(* The walk along the list from its head.                                  *)

\* The place of a block on the list, and the block at a place.
Upward(b) == {c \in flag : c <= b}
Rank(b) == Cardinality(Upward(b))
AtPlace(k, b) == b \in flag /\ Rank(b) = k
Kth(k) == IF \E b : AtPlace(k, b) THEN CHOOSE b : AtPlace(k, b) ELSE Head

LEMMA RankNat == ASSUME PoolShape, NEW b \in flag PROVE Rank(b) \in Nat /\ 1 <= Rank(b) /\ Rank(b) <= NPage
<1>1. Upward(b) \subseteq Page /\ b \in Upward(b)
  BY BlockNumbers DEF Upward, PoolShape, TypeOK
<1>2. IsFiniteSet(Upward(b)) /\ Rank(b) \in Nat /\ Rank(b) <= NPage
  BY <1>1, PagesFinite DEF Rank
<1>3. Rank(b) # 0
  BY <1>1, <1>2, FS_EmptySet DEF Rank
<1>. QED BY <1>2, <1>3

\* A block comes one place after the one before it.
LEMMA RankNext ==
  ASSUME PoolShape, Listed = flag, NEW b \in flag
  PROVE  /\ prev[b] = Head => Rank(b) = 1
         /\ prev[b] # Head => prev[b] \in flag /\ Rank(b) = Rank(prev[b]) + 1
<1>1. PICK a : a = prev[b]
  OBVIOUS
<1>2. /\ b \in Nat /\ b # Head /\ a \in flag \cup {Head} /\ a \in Int /\ a < b
      /\ \A c \in flag : c \in Nat /\ (c <= a \/ b <= c)
  BY <1>1, BlockNumbers, LinkNumbers
<1>3. CASE a = Head
  <2>1. Upward(b) = {b}
    BY <1>2, <1>3, PoolNumbers DEF Upward
  <2>. QED BY <1>1, <1>3, <2>1, FS_Singleton DEF Rank
<1>4. CASE a # Head
  <2>1. Upward(b) = Upward(a) \cup {b} /\ b \notin Upward(a) /\ Upward(a) \subseteq Page
    <3>1. a \in flag /\ ~(b <= a)
      BY <1>2, <1>4
    <3>2. \A c \in flag : c <= b <=> (c <= a \/ c = b)
      BY <1>2, <3>1
    <3>. QED BY <3>1, <3>2 DEF Upward, PoolShape, TypeOK
  <2>2. IsFiniteSet(Upward(a))
    BY <2>1, PagesFinite
  <2>3. Cardinality(Upward(a) \cup {b}) = Cardinality(Upward(a)) + 1
    BY <2>1, <2>2, FS_AddElement
  <2>. QED BY <1>1, <1>2, <1>4, <2>1, <2>3 DEF Rank
<1>. QED BY <1>3, <1>4

\* No two blocks have one place.
LEMMA RankOnce ==
  ASSUME PoolShape, NEW b \in flag, NEW c \in flag, b < c
  PROVE  Rank(b) < Rank(c)
<1>1. b \in Nat /\ c \in Nat /\ \A e \in flag : e \in Nat
  BY BlockNumbers
<1>2. Upward(b) \subseteq Upward(c) /\ c \in Upward(c) /\ c \notin Upward(b) /\ Upward(c) \subseteq Page
  <2>1. c <= c /\ ~(c <= b) /\ \A e \in flag : e <= b => e <= c
    BY <1>1
  <2>. QED BY <2>1 DEF Upward, PoolShape, TypeOK
<1>3. IsFiniteSet(Upward(b)) /\ Upward(b) \cup {c} \subseteq Upward(c) /\ IsFiniteSet(Upward(c))
  BY <1>2, PagesFinite
<1>4. Cardinality(Upward(b) \cup {c}) = Cardinality(Upward(b)) + 1
  BY <1>2, <1>3, FS_AddElement
<1>5. Cardinality(Upward(b) \cup {c}) <= Cardinality(Upward(c))
  BY <1>3, FS_Subset
<1>6. Rank(b) + 1 <= Rank(c)
  BY <1>4, <1>5 DEF Rank
<1>. QED BY <1>6, RankNat

LEMMA KthPlace ==
  ASSUME PoolShape, NEW k
  PROVE  /\ Kth(k) # Head => Kth(k) \in flag /\ Rank(Kth(k)) = k
         /\ \A b \in flag : Rank(b) = k => Kth(k) = b
<1>1. (\E b : AtPlace(k, b)) => AtPlace(k, Kth(k))
  BY DEF Kth
<1>2. ASSUME NEW b \in flag, NEW c \in flag, Rank(b) = Rank(c) PROVE b = c
  <2>1. b \in Nat /\ c \in Nat /\ Rank(b) \in Nat /\ Rank(c) \in Nat
    BY BlockNumbers, RankNat
  <2>2. ~(b < c) /\ ~(c < b)
    BY <1>2, <2>1, RankOnce
  <2>. QED BY <2>1, <2>2
<1>3. Kth(k) # Head => Kth(k) \in flag /\ Rank(Kth(k)) = k
  BY <1>1 DEF Kth, AtPlace
<1>4. ASSUME NEW b \in flag, Rank(b) = k PROVE Kth(k) = b
  <2>1. AtPlace(k, b)
    BY <1>4 DEF AtPlace
  <2>2. AtPlace(k, Kth(k))
    BY <1>1, <2>1
  <2>. QED BY <1>2, <1>4, <2>2 DEF AtPlace
<1>. QED BY <1>3, <1>4

\* The next block is at the next place.
LEMMA KthNext ==
  ASSUME PoolShape, Listed = flag, NEW k \in Nat, k >= 1
  PROVE  Kth(k) = IF k = 1 THEN next[Head] ELSE IF Kth(k - 1) = Head THEN Head ELSE next[Kth(k - 1)]
<1>1. ASSUME NEW x \in flag \cup {Head}, next[x] # Head
      PROVE  next[x] \in flag /\ prev[next[x]] = x
  BY <1>1, LinkNumbers
<1>2. CASE k = 1
  <2>1. CASE next[Head] = Head
    <3>1. flag = {}
      <4>1. \A c \in flag : c <= Head
        BY <2>1, LinkNumbers DEF IsSucc
      <4>. QED BY <4>1, BlockNumbers, PoolNumbers
    <3>. QED BY <1>2, <2>1, <3>1, KthPlace
  <2>2. CASE next[Head] # Head
    <3>1. next[Head] \in flag /\ Rank(next[Head]) = 1
      BY <1>1, <2>2, RankNext
    <3>. QED BY <1>2, <3>1, KthPlace
  <2>. QED BY <2>1, <2>2
<1>3. CASE k # 1
  <2>1. ASSUME NEW b \in flag, Rank(b) = k
        PROVE  Kth(k - 1) # Head /\ next[Kth(k - 1)] = b
    <3>1. prev[b] # Head
      BY <1>3, <2>1, RankNext
    <3>2. prev[b] \in flag /\ Rank(prev[b]) = k - 1
      <4>1. prev[b] \in flag /\ k = Rank(prev[b]) + 1
        BY <2>1, <3>1, RankNext
      <4>. QED BY <4>1, RankNat
    <3>3. Kth(k - 1) = prev[b] /\ next[prev[b]] = b
      BY <3>2, KthPlace, LinkNumbers
    <3>. QED BY <3>1, <3>3
  <2>2. CASE Kth(k - 1) = Head
    BY <1>3, <2>1, <2>2, KthPlace
  <2>3. CASE Kth(k - 1) # Head
    <3>1. Kth(k - 1) \in flag /\ Rank(Kth(k - 1)) = k - 1
      BY <2>3, KthPlace
    <3>2. CASE next[Kth(k - 1)] = Head
      <4>1. \A b \in flag : Rank(b) # k
        BY <2>1, <3>2, BlockNumbers
      <4>. QED BY <1>3, <2>3, <3>2, <4>1, KthPlace
    <3>3. CASE next[Kth(k - 1)] # Head
      <4>1. /\ next[Kth(k - 1)] \in flag /\ prev[next[Kth(k - 1)]] = Kth(k - 1)
        BY <1>1, <3>1, <3>3
      <4>2. Rank(next[Kth(k - 1)]) = (k - 1) + 1
        BY <2>3, <3>1, <4>1, RankNext
      <4>. QED BY <1>3, <2>3, <4>1, <4>2, KthPlace
    <3>. QED BY <3>2, <3>3
  <2>. QED BY <2>2, <2>3
<1>. QED BY <1>2, <1>3

\* The list from its head is the blocks at their places.
LEMMA BlockKth ==
  ASSUME PoolShape, Listed = flag, NEW k \in 1 .. NPage + 1
  PROVE  Block(k) = Kth(k)
<1>. DEFINE Walk(f) == [i \in 1 .. NPage + 1 |->
                          IF i = 1 THEN next[Head]
                          ELSE IF f[i - 1] = Head THEN Head ELSE next[f[i - 1]]]
            nth == CHOOSE f : f = Walk(f)
            g == [i \in 1 .. NPage + 1 |-> Kth(i)]
<1>1. Block(k) = nth[k]
  BY DEF Block
<1>2. NPage \in Nat
  BY PoolNumbers
<1>3. ASSUME NEW i \in 1 .. NPage + 1
      PROVE  Kth(i) = IF i = 1 THEN next[Head]
                      ELSE IF Kth(i - 1) = Head THEN Head ELSE next[Kth(i - 1)]
  <2>1. i \in Nat /\ i >= 1
    BY <1>2
  <2>. QED BY <2>1, KthNext
<1>4. g = Walk(g)
  <2>1. ASSUME NEW i \in 1 .. NPage + 1
        PROVE  g[i] = IF i = 1 THEN next[Head]
                      ELSE IF g[i - 1] = Head THEN Head ELSE next[g[i - 1]]
    <3>1. i # 1 => i - 1 \in 1 .. NPage + 1
      BY <1>2
    <3>. QED BY <1>3, <3>1
  <2>. QED BY <2>1
<1>. HIDE DEF g
<1>5. nth = Walk(nth)
  BY <1>4
<1>. HIDE DEF nth
<1>6. ASSUME NEW i \in 1 .. NPage + 1
      PROVE  nth[i] = IF i = 1 THEN next[Head]
                      ELSE IF nth[i - 1] = Head THEN Head ELSE next[nth[i - 1]]
  BY <1>5
<1>7. ASSUME NEW i \in 1 .. NPage + 1, nth[i] # Kth(i) PROVE FALSE
  <2>. DEFINE T == {j \in 1 .. NPage + 1 : nth[j] # Kth(j)}
  <2>1. PICK m \in T : \A j \in T : m <= j
    <3>1. T \subseteq Nat /\ T # {}
      BY <1>2, <1>7
    <3>. HIDE DEF T
    <3>. QED BY <3>1, LowestOf
  <2>2. m \in 1 .. NPage + 1 /\ nth[m] # Kth(m)
    OBVIOUS
  <2>3. m # 1
    BY <1>3, <1>6, <2>2
  <2>4. m - 1 \in 1 .. NPage + 1 /\ m - 1 \notin T
    <3>1. m - 1 \in 1 .. NPage + 1 /\ ~(m <= m - 1)
      BY <1>2, <2>2, <2>3
    <3>. HIDE DEF T
    <3>. QED BY <2>1, <3>1
  <2>5. nth[m - 1] = Kth(m - 1)
    BY <2>4
  <2>. QED BY <1>3, <1>6, <2>2, <2>3, <2>5
<1>. QED BY <1>1, <1>7

LEMMA BlocksFlag ==
  ASSUME PoolShape, Listed = flag
  PROVE  Blocks = flag /\ Block(NPage + 1) = Head
<1>1. NPage \in Nat /\ \A k \in 1 .. NPage : k \in 1 .. NPage + 1
  BY PoolNumbers
<1>2. ASSUME NEW b \in flag PROVE b \in Blocks
  <2>1. Rank(b) \in 1 .. NPage
    BY <1>1, RankNat
  <2>2. Block(Rank(b)) = b
    BY <1>1, <2>1, BlockKth, KthPlace
  <2>3. b # Head
    BY BlockNumbers
  <2>. QED BY <2>1, <2>2, <2>3 DEF Blocks
<1>3. ASSUME NEW k \in 1 .. NPage, Block(k) # Head PROVE Block(k) \in flag
  BY <1>1, <1>3, BlockKth, KthPlace
<1>4. Block(NPage + 1) = Head
  <2>1. NPage + 1 \in 1 .. NPage + 1 /\ ~(NPage + 1 <= NPage)
    BY <1>1
  <2>2. Kth(NPage + 1) # Head => Rank(Kth(NPage + 1)) <= NPage /\ Rank(Kth(NPage + 1)) = NPage + 1
    BY KthPlace, RankNat
  <2>. QED BY <2>1, <2>2, BlockKth
<1>. QED BY <1>2, <1>3, <1>4 DEF Blocks

\* The pages of the first k blocks.
Upto(k) == {p \in Page : \E b \in flag : Rank(b) <= k /\ InBlock(p, b)}

LEMMA UptoNext ==
  ASSUME PoolShape, Listed = flag, op = "idle", NEW k \in Nat, k >= 1
  PROVE  Cardinality(Upto(k)) = Cardinality(Upto(k - 1)) + IF Kth(k) = Head THEN 0 ELSE property[Kth(k)]
<1>1. \A b \in flag : Rank(b) \in Nat
  BY RankNat
<1>2. Upto(k) \subseteq Page /\ Upto(k - 1) \subseteq Page
  BY DEF Upto
<1>3. CASE Kth(k) = Head
  <2>1. \A b \in flag : Rank(b) # k
    BY <1>3, KthPlace, BlockNumbers
  <2>2. \A b \in flag : Rank(b) <= k <=> Rank(b) <= k - 1
    BY <1>1, <2>1
  <2>3. Upto(k) = Upto(k - 1)
    BY <2>2 DEF Upto
  <2>4. Cardinality(Upto(k - 1)) \in Nat
    BY <1>2, PagesFinite
  <2>. QED BY <1>3, <2>3, <2>4
<1>4. CASE Kth(k) # Head
  <2>1. PICK b : b = Kth(k)
    OBVIOUS
  <2>2. b \in flag /\ Rank(b) = k /\ \A c \in flag : Rank(c) = k => c = b
    BY <1>4, <2>1, KthPlace
  <2>3. \A c \in flag : Rank(c) <= k <=> (Rank(c) <= k - 1 \/ c = b)
    BY <1>1, <2>2
  <2>4. b \in Nat /\ property[b] \in Nat /\ property[b] >= 1 /\ b + property[b] <= NPage /\ NPage \in Nat
    BY <2>2, BlockNumbers
  <2>5. PagesOf(b) \subseteq Page
    BY <2>4 DEF PagesOf, Page
  <2>6. \A p \in Page : p \in PagesOf(b) <=> InBlock(p, b)
    BY <2>4, PoolNumbers DEF PagesOf, InBlock, Page
  <2>7. Upto(k) = Upto(k - 1) \cup PagesOf(b)
    BY <2>2, <2>3, <2>5, <2>6 DEF Upto
  <2>8. Upto(k - 1) \cap PagesOf(b) = {}
    <3>1. ASSUME NEW p \in Page, NEW c \in flag, Rank(c) <= k - 1, InBlock(p, c), InBlock(p, b)
          PROVE  FALSE
      <4>1. c # b
        BY <1>1, <2>2, <3>1
      <4>2. c \in Nat /\ property[c] \in Nat
        BY BlockNumbers
      <4>3. c < b => c + property[c] < b
        BY <2>2, Gaps
      <4>4. b < c => b + property[b] < c
        BY <2>2, Gaps
      <4>. QED BY <2>4, <3>1, <4>1, <4>2, <4>3, <4>4, PoolNumbers DEF InBlock
    <3>. QED BY <2>5, <2>6, <3>1 DEF Upto
  <2>9. Cardinality(PagesOf(b)) = property[b]
    BY <2>4, RunCard DEF PagesOf
  <2>10. Cardinality(Upto(k)) = Cardinality(Upto(k - 1)) + Cardinality(PagesOf(b))
    BY <1>2, <2>5, <2>7, <2>8, ApartCard
  <2>. QED BY <1>4, <2>1, <2>9, <2>10
<1>. QED BY <1>3, <1>4

LEMMA TotalCard ==
  ASSUME PoolShape, Listed = flag, op = "idle"
  PROVE  Total = nr_free
<1>. DEFINE Adds(f) == [k \in 0 .. NPage |->
                          IF k = 0 THEN 0
                          ELSE f[k - 1] + IF Block(k) = Head THEN 0 ELSE property[Block(k)]]
            sum == CHOOSE f : f = Adds(f)
            g == [k \in 0 .. NPage |-> Cardinality(Upto(k))]
<1>1. Total = sum[NPage]
  BY DEF Total
<1>2. NPage \in Nat /\ \A k \in 0 .. NPage : k # 0 => k \in Nat /\ k >= 1 /\ k \in 1 .. NPage + 1
                                                     /\ k - 1 \in 0 .. NPage
  BY PoolNumbers
<1>3. Cardinality(Upto(0)) = 0
  <2>1. \A b \in flag : ~(Rank(b) <= 0)
    BY RankNat
  <2>2. Upto(0) = {}
    BY <2>1 DEF Upto
  <2>. QED BY <2>2, FS_EmptySet
<1>4. ASSUME NEW k \in 0 .. NPage
      PROVE  Cardinality(Upto(k)) =
               IF k = 0 THEN 0
               ELSE Cardinality(Upto(k - 1)) + IF Block(k) = Head THEN 0 ELSE property[Block(k)]
  <2>1. CASE k = 0
    BY <1>3, <2>1
  <2>2. CASE k # 0
    <3>1. k \in Nat /\ k >= 1 /\ Block(k) = Kth(k)
      BY <1>2, <2>2, BlockKth
    <3>. QED BY <2>2, <3>1, UptoNext
  <2>. QED BY <2>1, <2>2
<1>5. g = Adds(g)
  <2>1. ASSUME NEW k \in 0 .. NPage
        PROVE  g[k] = IF k = 0 THEN 0
                      ELSE g[k - 1] + IF Block(k) = Head THEN 0 ELSE property[Block(k)]
    BY <1>2, <1>4
  <2>. QED BY <2>1
<1>. HIDE DEF g
<1>6. sum = Adds(sum)
  BY <1>5
<1>. HIDE DEF sum
<1>7. ASSUME NEW k \in 0 .. NPage
      PROVE  sum[k] = IF k = 0 THEN 0
                      ELSE sum[k - 1] + IF Block(k) = Head THEN 0 ELSE property[Block(k)]
  BY <1>6
<1>8. ASSUME NEW i \in 0 .. NPage, sum[i] # Cardinality(Upto(i)) PROVE FALSE
  <2>. DEFINE T == {j \in 0 .. NPage : sum[j] # Cardinality(Upto(j))}
  <2>1. PICK m \in T : \A j \in T : m <= j
    <3>1. T \subseteq Nat /\ T # {}
      BY <1>2, <1>8
    <3>. HIDE DEF T
    <3>. QED BY <3>1, LowestOf
  <2>2. m \in 0 .. NPage /\ sum[m] # Cardinality(Upto(m))
    OBVIOUS
  <2>3. m # 0
    BY <1>4, <1>7, <2>2
  <2>4. m - 1 \in 0 .. NPage /\ m - 1 \notin T
    <3>1. m - 1 \in 0 .. NPage /\ ~(m <= m - 1)
      BY <1>2, <2>2, <2>3
    <3>. HIDE DEF T
    <3>. QED BY <2>1, <3>1
  <2>5. sum[m - 1] = Cardinality(Upto(m - 1))
    BY <2>4
  <2>. QED BY <1>4, <1>7, <2>2, <2>3, <2>5
<1>9. Upto(NPage) = Page \ used
  <2>1. \A b \in flag : Rank(b) <= NPage
    BY RankNat
  <2>. QED BY <2>1 DEF Upto, PoolShape, Cover
<1>10. NPage \in 0 .. NPage
  BY <1>2
<1>. QED BY <1>1, <1>8, <1>9, <1>10 DEF PoolShape, Counted

LEMMA ShapeExact == ASSUME PoolInv, ~doubled PROVE FreeListExact
<1>1. PoolShape /\ TypeOK
  BY DEF PoolInv, PoolShape
<1>2. ASSUME op = "idle"
      PROVE  /\ Block(NPage + 1) = Head
             /\ \A b \in Blocks :
                  /\ prev[next[b]] = b /\ next[prev[b]] = b
                  /\ next[b] # Head => b + property[b] < next[b]
             /\ FreePages = Page \ used
             /\ Total = nr_free
             /\ flag = Blocks
  <2>1. Listed = flag
    BY <1>2 DEF Listed
  <2>2. Blocks = flag /\ Block(NPage + 1) = Head /\ Total = nr_free
    BY <1>1, <1>2, <2>1, BlocksFlag, TotalCard
  <2>3. ASSUME NEW b \in flag
        PROVE  /\ prev[next[b]] = b /\ next[prev[b]] = b
               /\ next[b] # Head => b + property[b] < next[b]
    <3>1. /\ next[b] \in flag \cup {Head} /\ prev[next[b]] = b /\ next[prev[b]] = b
          /\ IsSucc(flag, b, next[b])
      BY <1>1, <2>1, LinkNumbers
    <3>2. next[b] # Head => b < next[b] /\ next[b] \in flag
      BY <3>1 DEF IsSucc
    <3>3. next[b] # Head => b + property[b] < next[b]
      BY <1>1, <1>2, <3>2, Gaps
    <3>. QED BY <3>1, <3>3
  <2>4. FreePages = Page \ used
    <3>1. ASSUME NEW b \in flag PROVE PagesOf(b) \subseteq Page /\ \A p \in Page : p \in PagesOf(b) <=> InBlock(p, b)
      <4>1. b \in Nat /\ property[b] \in Nat /\ b + property[b] <= NPage /\ NPage \in Nat
        BY <1>1, BlockNumbers
      <4>. QED BY <4>1, PoolNumbers DEF PagesOf, InBlock, Page
    <3>2. \A p \in Page : p \in used <=> \A b \in flag : ~InBlock(p, b)
      BY <1>1 DEF PoolShape, Cover
    <3>. QED BY <2>2, <3>1, <3>2 DEF FreePages
  <2>. QED BY <2>2, <2>3, <2>4
<1>. QED BY <1>1, <1>2 DEF FreeListExact

-----------------------------------------------------------------------------
(* What alloc_pages returns.                                               *)

\* A run of free pages is in one block.
LEMMA RunInBlock ==
  ASSUME PoolShape, op = "take", NEW r \in Nat, NEW k \in Nat, k >= 1, r + k <= NPage,
         (r .. r + k - 1) \cap used = {}
  PROVE  \E b \in flag : b <= r /\ r + k <= b + property[b]
<1>1. NPage \in Nat /\ r \in Page /\ r \in r .. r + k - 1
  BY PoolNumbers DEF Page
<1>2. PICK b \in flag : InBlock(r, b)
  BY <1>1 DEF PoolShape, Cover
<1>3. b \in Nat /\ property[b] \in Nat /\ b <= r /\ r < b + property[b]
  BY <1>2, BlockNumbers DEF InBlock
<1>4. ASSUME ~(r + k <= b + property[b]) PROVE FALSE
  <2>1. PICK e : e = b + property[b]
    OBVIOUS
  <2>2. e \in Page /\ e \in r .. r + k - 1 /\ e \in Nat
    BY <1>1, <1>3, <1>4, <2>1 DEF Page
  <2>3. PICK c \in flag : InBlock(e, c)
    BY <2>2 DEF PoolShape, Cover
  <2>4. c \in Nat /\ property[c] \in Nat /\ c <= e /\ e < c + property[c]
    BY <2>3, BlockNumbers DEF InBlock
  <2>5. c < b => c + property[c] < b
    BY Gaps
  <2>6. b < c => b + property[b] < c
    BY Gaps
  <2>7. c = b => FALSE
    BY <1>3, <2>1, <2>4
  <2>. QED BY <1>3, <2>1, <2>2, <2>4, <2>5, <2>6, <2>7
<1>. QED BY <1>3, <1>4

\* The pages of a block are free, and those before and after it are not.
LEMMA BlockIsRun ==
  ASSUME PoolShape, op = "take", NEW b \in flag
  PROVE  /\ (b .. b + property[b] - 1) \cap used = {}
         /\ b = 0 \/ b - 1 \in used
         /\ b + property[b] = NPage \/ b + property[b] \in used
<1>1. b \in Nat /\ property[b] \in Nat /\ property[b] >= 1 /\ b + property[b] <= NPage /\ NPage \in Nat
  BY BlockNumbers
<1>2. ASSUME NEW p \in b .. b + property[b] - 1 PROVE p \notin used
  <2>1. p \in Page /\ InBlock(p, b)
    BY <1>1 DEF Page, InBlock
  <2>. QED BY <2>1 DEF PoolShape, Cover
<1>3. ASSUME NEW p \in Page, p = b - 1 \/ p = b + property[b], NEW c \in flag, InBlock(p, c) PROVE FALSE
  <2>1. c \in Nat /\ property[c] \in Nat /\ c <= p /\ p < c + property[c] /\ p \in Nat
    BY <1>3, BlockNumbers, PoolNumbers DEF InBlock
  <2>2. c < b => c + property[c] < b
    BY Gaps
  <2>3. b < c => b + property[b] < c
    BY Gaps
  <2>4. c # b
    BY <1>1, <1>3, <2>1
  <2>. QED BY <1>1, <1>3, <2>1, <2>2, <2>3, <2>4
<1>4. ASSUME b # 0 PROVE b - 1 \in used
  <2>1. b - 1 \in Page
    BY <1>1, <1>4 DEF Page
  <2>. QED BY <1>3, <2>1 DEF PoolShape, Cover
<1>5. ASSUME b + property[b] # NPage PROVE b + property[b] \in used
  <2>1. b + property[b] \in Page
    BY <1>1, <1>5 DEF Page
  <2>. QED BY <1>3, <2>1 DEF PoolShape, Cover
<1>. QED BY <1>2, <1>4, <1>5

\* The free runs that cannot be extended are the blocks.
LEMMA BlockMaximal ==
  ASSUME PoolShape, op = "take", NEW b \in flag
  PROVE  <<b, property[b]>> \in MaximalRuns
<1>1. /\ b \in Page /\ b \in Nat /\ property[b] \in Nat /\ property[b] >= 1 /\ b + property[b] <= NPage
      /\ NPage \in Nat
  BY BlockNumbers
<1>2. property[b] \in 1 .. NPage /\ b \in 0 .. NPage - property[b]
  BY <1>1
<1>3. b \in FreeRuns(property[b])
  BY <1>2, BlockIsRun DEF FreeRuns
<1>. QED BY <1>1, <1>2, <1>3, BlockIsRun DEF MaximalRuns

LEMMA MaximalBlock ==
  ASSUME PoolShape, op = "take", NEW r \in MaximalRuns
  PROVE  r[1] \in flag /\ r[2] = property[r[1]]
<1>1. PICK p, k : p = r[1] /\ k = r[2]
  OBVIOUS
<1>2. /\ p \in Page /\ k \in 1 .. NPage /\ p \in FreeRuns(k)
      /\ p = 0 \/ p - 1 \in used
      /\ p + k = NPage \/ p + k \in used
  BY <1>1 DEF MaximalRuns
<1>3. /\ p \in Nat /\ k \in Nat /\ k >= 1 /\ NPage \in Nat /\ p + k <= NPage
      /\ (p .. p + k - 1) \cap used = {}
  BY <1>2, PoolNumbers DEF FreeRuns
<1>4. PICK b \in flag : b <= p /\ p + k <= b + property[b]
  BY <1>3, RunInBlock
<1>5. b \in Nat /\ property[b] \in Nat /\ b + property[b] <= NPage
  BY BlockNumbers
<1>6. \A q \in b .. b + property[b] - 1 : q \notin used
  BY BlockIsRun
<1>7. b = p
  <2>1. b < p => p # 0 /\ p - 1 \in b .. b + property[b] - 1
    BY <1>3, <1>4, <1>5
  <2>2. ~(b < p)
    BY <1>2, <1>6, <2>1
  <2>. QED BY <1>3, <1>4, <1>5, <2>2
<1>8. k = property[b]
  <2>1. p + k < b + property[b] => p + k # NPage /\ p + k \in b .. b + property[b] - 1
    BY <1>3, <1>4, <1>5
  <2>2. ~(p + k < b + property[b])
    BY <1>2, <1>6, <2>1
  <2>. QED BY <1>3, <1>4, <1>5, <1>7, <2>2
<1>. QED BY <1>1, <1>7, <1>8

LEMMA ShapeAnswers == ASSUME PoolInv PROVE AllocAnswers
<1>. SUFFICES ASSUME op = "take", ~doubled
     PROVE  IF page = NoPage THEN FreeRuns(n) = {}
            ELSE CASE pmm_manager = "default" ->
                        page \in FreeRuns(n) /\ \A b \in FreeRuns(n) : page <= b
                   [] pmm_manager = "best_fit" ->
                        \E k \in n .. NPage :
                          /\ <<page, k>> \in MaximalRuns
                          /\ \A r \in MaximalRuns :
                               r[2] >= n => k < r[2] \/ (k = r[2] /\ page <= r[1])
  BY DEF AllocAnswers
<1>1. PoolShape
  BY DEF PoolInv
<1>2. n \in Nat /\ n >= 1 /\ NPage \in Nat /\ pmm_manager \in {"default", "best_fit"}
  BY <1>1, PoolNumbers DEF PoolShape, TypeOK, Working
<1>3. ASSUME NEW r \in FreeRuns(n)
      PROVE  r \in Nat /\ \E b \in flag : b <= r /\ property[b] >= n
  <2>1. r \in Nat /\ r + n <= NPage /\ (r .. r + n - 1) \cap used = {}
    BY <1>2 DEF FreeRuns
  <2>2. PICK b \in flag : b <= r /\ r + n <= b + property[b]
    BY <1>1, <1>2, <2>1, RunInBlock
  <2>3. b \in Nat /\ property[b] \in Nat
    BY <1>1, BlockNumbers
  <2>4. property[b] >= n
    BY <1>2, <2>1, <2>2, <2>3
  <2>. QED BY <2>1, <2>2, <2>4
<1>4. \A b \in flag : b \in Nat /\ property[b] \in Nat /\ b <= NPage
  <2>1. ASSUME NEW b \in flag PROVE b \in Nat /\ property[b] \in Nat /\ b <= NPage
    <3>1. b \in Nat /\ property[b] \in Nat /\ b + property[b] <= NPage
      BY <1>1, BlockNumbers
    <3>. QED BY <1>2, <3>1
  <2>. QED BY <2>1
<1>5. CASE page = NoPage
  <2>1. \A b \in flag : property[b] < n
    BY <1>1, <1>4, <1>5 DEF PoolShape, Working, Best
  <2>2. \A r \in FreeRuns(n) : FALSE
    BY <1>2, <1>3, <1>4, <2>1
  <2>. QED BY <1>5, <2>2
<1>6. CASE page # NoPage
  <2>1. /\ page \in flag /\ property[page] >= n
        /\ \A b \in flag : property[b] >= n =>
             IF pmm_manager = "default" THEN page <= b
             ELSE property[page] < property[b] \/ (property[page] = property[b] /\ page <= b)
    BY <1>1, <1>4, <1>6 DEF PoolShape, Working, Best
  <2>2. /\ page \in Nat /\ property[page] \in Nat /\ page + property[page] <= NPage
    BY <1>1, <2>1, BlockNumbers
  <2>3. CASE pmm_manager = "default"
    <3>1. page \in FreeRuns(n)
      <4>1. page \in 0 .. NPage - n /\ \A p \in page .. page + n - 1 : p \in page .. page + property[page] - 1
        BY <1>2, <2>1, <2>2
      <4>2. (page .. page + property[page] - 1) \cap used = {}
        BY <1>1, <2>1, BlockIsRun
      <4>. QED BY <4>1, <4>2 DEF FreeRuns
    <3>2. ASSUME NEW r \in FreeRuns(n) PROVE page <= r
      <4>1. PICK b \in flag : b <= r /\ property[b] >= n /\ r \in Nat
        BY <1>3
      <4>2. page <= b
        BY <2>1, <2>3, <4>1
      <4>. QED BY <1>4, <2>2, <4>1, <4>2
    <3>. QED BY <1>6, <2>3, <3>1, <3>2
  <2>4. CASE pmm_manager = "best_fit"
    <3>1. property[page] \in n .. NPage
      BY <1>2, <2>1, <2>2
    <3>2. <<page, property[page]>> \in MaximalRuns
      BY <1>1, <2>1, BlockMaximal
    <3>3. ASSUME NEW r \in MaximalRuns, r[2] >= n
          PROVE  property[page] < r[2] \/ (property[page] = r[2] /\ page <= r[1])
      <4>1. r[1] \in flag /\ r[2] = property[r[1]]
        BY <1>1, MaximalBlock
      <4>. QED BY <2>1, <2>4, <3>3, <4>1
    <3>4. pmm_manager # "default"
      BY <2>4
    <3>. QED BY <1>6, <2>4, <3>1, <3>2, <3>3, <3>4
  <2>. QED BY <1>2, <2>3, <2>4
<1>. QED BY <1>5, <1>6

-----------------------------------------------------------------------------
(* What holds in every state, the ones after a block was linked twice too. *)

\* The size of a block never reaches past the last page, what is looked for is
\* there by nr_free, and no page is counted both free and in use.
PoolBounds ==
  /\ TypeOK
  /\ \A p \in Page : p + property[p] <= NPage
  /\ nr_free + Cardinality(used) <= NPage
  /\ op \in {"search", "take"} =>
       n >= 1 /\ n <= nr_free /\ (page # NoPage => property[page] >= n)

LEMMA BoundsNumbers ==
  ASSUME PoolBounds
  PROVE  /\ NPage \in Nat /\ nr_free \in Nat /\ n \in Nat
         /\ IsFiniteSet(used) /\ Cardinality(used) \in Nat
         /\ \A p \in Page : p \in Nat /\ property[p] \in Nat /\ p + property[p] <= NPage /\ p < NPage
  BY PoolNumbers, PagesFinite DEF PoolBounds, TypeOK, Page

\* The links stay links.
LEMMA LinksIn ==
  ASSUME NEW nx \in [Node -> Node], NEW pv \in [Node -> Node], NEW x \in Node, NEW at \in Node,
         NEW succ \in Node, ListAdd(nx, pv, x, at, succ)
  PROVE  next' \in [Node -> Node] /\ prev' \in [Node -> Node]
  BY DEF ListAdd

LEMMA LinksOut ==
  ASSUME TypeOK, NEW x \in Node, ListDel(x)
  PROVE  next' \in [Node -> Node] /\ prev' \in [Node -> Node]
  BY DEF ListDel, AfterDel, TypeOK

LEMMA BoundsInit == Init => PoolBounds
<1>. SUFFICES ASSUME Init PROVE PoolBounds
  OBVIOUS
<1>1. TypeOK /\ ~doubled
  BY PoolInit DEF PoolInv, PoolShape, Init
<1>2. /\ used = {} /\ nr_free = NPage /\ op = "idle"
      /\ \A p \in Page : property[p] = IF p = 0 THEN NPage ELSE 0
  BY DEF Init
<1>3. \A p \in Page : p + property[p] <= NPage
  BY <1>2, PoolNumbers DEF Page
<1>4. Cardinality(used) = 0
  BY <1>2, FS_EmptySet
<1>. QED BY <1>1, <1>2, <1>3, <1>4, PoolNumbers DEF PoolBounds

LEMMA BoundsSearch ==
  ASSUME PoolBounds, SearchStep \/ SearchEnd \/ AllocFails \/ \E k \in 1 .. NPage : AllocCall(k)
  PROVE  PoolBounds'
<1>1. UNCHANGED <<pmm_manager, next, prev, property, flag, nr_free, used, doubled>>
  BY DEF SearchStep, SearchEnd, AllocFails, AllocCall, links, marks
<1>2. /\ op' \in {"idle", "search", "take"} /\ le' \in Node /\ base' \in Page /\ n' \in 0 .. NPage
      /\ page' \in Page \cup {NoPage}
      /\ op' \in {"search", "take"} =>
           n' >= 1 /\ n' <= nr_free /\ (page' # NoPage => property[page'] >= n')
  <2>1. CASE SearchStep
    <3>1. /\ op = "search" /\ next[le] # Head /\ le' = next[le]
          /\ page' = IF Better(le') THEN le' ELSE page
          /\ op' \in {"search", "take"} /\ base' = base /\ n' = n
      BY <2>1 DEF SearchStep
    <3>2. le' \in Page
      BY <3>1 DEF PoolBounds, TypeOK, Node
    <3>3. Better(le') => property[le'] >= n
      BY DEF Better, Fits
    <3>. QED BY <3>1, <3>2, <3>3 DEF PoolBounds, TypeOK, Node
  <2>2. CASE SearchEnd
    BY <2>2 DEF SearchEnd, args, PoolBounds, TypeOK
  <2>3. CASE AllocFails
    BY <2>3, PoolNumbers DEF AllocFails, Done, Page
  <2>4. CASE \E k \in 1 .. NPage : AllocCall(k)
    <3>1. PICK k \in 1 .. NPage : AllocCall(k)
      BY <2>4
    <3>2. /\ op' = "search" /\ le' = Head /\ base' = base /\ n' = k /\ page' = NoPage /\ k <= nr_free
      BY <3>1 DEF AllocCall
    <3>. QED BY <3>2, PoolNumbers DEF PoolBounds, TypeOK
  <2>. QED BY <2>1, <2>2, <2>3, <2>4
<1>3. TypeOK'
  BY <1>1, <1>2 DEF PoolBounds, TypeOK
<1>. QED BY <1>1, <1>2, <1>3 DEF PoolBounds

LEMMA BoundsTake == ASSUME PoolBounds, Take PROVE PoolBounds'
<1>1. PICK x, k, rest : x = page /\ k = n /\ rest = x + k
  OBVIOUS
<1>2. /\ op = "take" /\ x # NoPage /\ nr_free' = nr_free - k /\ used' = used \cup (x .. x + k - 1)
      /\ op' = "idle" /\ le' = Head /\ base' = 0 /\ n' = 0 /\ page' = NoPage
      /\ UNCHANGED <<pmm_manager, doubled>>
  BY <1>1 DEF Take, Done
<1>3. /\ x \in Page /\ k \in Nat /\ k >= 1 /\ k <= nr_free /\ property[x] >= k
      /\ x \in Nat /\ property[x] \in Nat /\ x + property[x] <= NPage /\ NPage \in Nat /\ nr_free \in Nat
      /\ x \in Node
  BY <1>1, <1>2, BoundsNumbers, PoolNumbers DEF PoolBounds, TypeOK
<1>4. x .. x + k - 1 \subseteq Page /\ used \subseteq Page
  BY <1>3 DEF Page, PoolBounds, TypeOK
<1>5. nr_free' \in 0 .. NPage /\ nr_free' + Cardinality(used') <= NPage
  <2>1. /\ IsFiniteSet(used) /\ IsFiniteSet(x .. x + k - 1) /\ IsFiniteSet(used \cap (x .. x + k - 1))
        /\ Cardinality(used) \in Nat /\ Cardinality(used \cap (x .. x + k - 1)) \in Nat
    <3>1. used \cap (x .. x + k - 1) \subseteq Page
      BY <1>4
    <3>. QED BY <1>4, <3>1, PagesFinite
  <2>2. Cardinality(x .. x + k - 1) = k
    BY <1>3, RunCard
  <2>3. Cardinality(used \cup (x .. x + k - 1)) =
          Cardinality(used) + Cardinality(x .. x + k - 1) - Cardinality(used \cap (x .. x + k - 1))
    BY <2>1, FS_Union
  <2>4. PICK m : m = Cardinality(used \cup (x .. x + k - 1))
    OBVIOUS
  <2>5. nr_free - k \in 0 .. NPage /\ (nr_free - k) + m <= NPage
    BY <1>3, <2>1, <2>2, <2>3, <2>4 DEF PoolBounds, TypeOK
  <2>. QED BY <1>2, <2>4, <2>5
<1>6. /\ next' \in [Node -> Node] /\ prev' \in [Node -> Node] /\ property' \in [Page -> 0 .. NPage]
      /\ flag' \subseteq Page /\ \A p \in Page : p + property'[p] <= NPage
  <2>1. PICK nx, pv : /\ nx = AfterDel(next, prev[x], next[x])
                      /\ pv = AfterDel(prev, next[x], prev[x])
    OBVIOUS
  <2>2. /\ nx \in [Node -> Node] /\ pv \in [Node -> Node] /\ prev[x] \in Node
        /\ property \in [Page -> 0 .. NPage] /\ flag \subseteq Page
    BY <1>3, <2>1 DEF AfterDel, PoolBounds, TypeOK
  <2>3. CASE property[x] > k
    <3>1. /\ property' = [property EXCEPT ![rest] = property[x] - k]
          /\ flag' = (flag \cup {rest}) \ {x} /\ ListAdd(nx, pv, rest, prev[x], nx[prev[x]])
      BY <1>1, <2>1, <2>3 DEF Take
    <3>2. /\ rest \in Page /\ rest \in Node /\ property[x] - k \in 0 .. NPage
          /\ rest + (property[x] - k) <= NPage
      BY <1>1, <1>3, <2>3, PoolNumbers DEF Page
    <3>3. nx[prev[x]] \in Node
      BY <2>2
    <3>4. next' \in [Node -> Node] /\ prev' \in [Node -> Node]
      BY <2>2, <3>1, <3>2, <3>3, LinksIn
    <3>5. \A p \in Page : p + property'[p] <= NPage
      BY <2>2, <3>1, <3>2 DEF PoolBounds
    <3>. QED BY <2>2, <3>1, <3>2, <3>4, <3>5
  <2>4. CASE ~(property[x] > k)
    <3>1. property' = property /\ flag' = flag \ {x} /\ ListDel(x)
      BY <1>1, <2>4 DEF Take
    <3>. QED BY <1>3, <2>2, <3>1, LinksOut DEF PoolBounds
  <2>. QED BY <2>3, <2>4
<1>7. TypeOK'
  <2>1. used' \subseteq Page
    BY <1>2, <1>4
  <2>2. Head \in Node /\ 0 \in Page /\ 0 \in 0 .. NPage
    BY PoolNumbers DEF Page
  <2>. QED BY <1>2, <1>5, <1>6, <2>1, <2>2 DEF PoolBounds, TypeOK
<1>. QED BY <1>2, <1>5, <1>6, <1>7 DEF PoolBounds

LEMMA BoundsFree ==
  ASSUME PoolBounds, NEW b \in Page, NEW k \in 1 .. NPage - b, FreeCall(b, k)
  PROVE  PoolBounds'
<1>1. /\ b .. b + k - 1 \subseteq used /\ used' = used \ (b .. b + k - 1) /\ base' = b
      /\ property' = [property EXCEPT ![b] = k] /\ flag' = (flag \ (b .. b + k - 1)) \cup {b}
      /\ nr_free' = nr_free + k /\ le' = Head /\ op' \in {"insert", "merge_prev"}
      /\ UNCHANGED <<pmm_manager, n, page, doubled>>
  BY DEF FreeCall
<1>2. /\ b \in Nat /\ k \in Nat /\ k >= 1 /\ b + k <= NPage /\ NPage \in Nat /\ k \in 0 .. NPage
      /\ b \in Node /\ Head \in Node /\ nr_free \in Nat
  BY BoundsNumbers, PoolNumbers DEF Page
<1>3. nr_free' \in 0 .. NPage /\ nr_free' + Cardinality(used') <= NPage
  <2>1. PICK S, T : S = used \ (b .. b + k - 1) /\ T = b .. b + k - 1
    OBVIOUS
  <2>2. S \subseteq Page /\ T \subseteq Page /\ S \cap T = {} /\ S \cup T = used
    BY <1>1, <2>1 DEF PoolBounds, TypeOK
  <2>3. Cardinality(T) = k
    BY <1>2, <2>1, RunCard
  <2>4. Cardinality(S) \in Nat /\ Cardinality(used) = Cardinality(S) + k
    BY <2>2, <2>3, PagesFinite, ApartCard
  <2>5. PICK m : m = Cardinality(S)
    OBVIOUS
  <2>6. nr_free + k \in 0 .. NPage /\ (nr_free + k) + m <= NPage
    BY <1>2, <2>4, <2>5 DEF PoolBounds
  <2>. QED BY <1>1, <2>1, <2>5, <2>6
<1>4. /\ property' \in [Page -> 0 .. NPage] /\ flag' \subseteq Page /\ used' \subseteq Page
      /\ \A p \in Page : p + property'[p] <= NPage
  BY <1>1, <1>2 DEF PoolBounds, TypeOK
<1>5. next' \in [Node -> Node] /\ prev' \in [Node -> Node]
  <2>1. next \in [Node -> Node] /\ prev \in [Node -> Node]
    BY DEF PoolBounds, TypeOK
  <2>2. ListAdd(next, prev, b, Head, Head) \/ UNCHANGED <<next, prev>>
    BY DEF FreeCall, links
  <2>. QED BY <1>2, <2>1, <2>2, LinksIn
<1>6. TypeOK'
  BY <1>1, <1>2, <1>3, <1>4, <1>5 DEF PoolBounds, TypeOK
<1>. QED BY <1>1, <1>3, <1>4, <1>6 DEF PoolBounds

LEMMA BoundsInsert ==
  ASSUME PoolBounds, InsertBefore \/ InsertLast \/ InsertNext \/ InsertEnd
  PROVE  PoolBounds'
<1>1. /\ UNCHANGED <<pmm_manager, property, flag, nr_free, used, base, n, page>>
      /\ op' \in {"insert", "merge_prev"} /\ doubled' \in BOOLEAN
  BY DEF InsertBefore, InsertLast, InsertNext, InsertEnd, Inserting, marks, args, links, PoolBounds, TypeOK
<1>2. next' \in [Node -> Node] /\ prev' \in [Node -> Node] /\ le' \in Node
  <2>1. /\ next \in [Node -> Node] /\ prev \in [Node -> Node] /\ le \in Node /\ base \in Node /\ Head \in Node
    BY PoolNumbers DEF PoolBounds, TypeOK
  <2>2. next[le] \in Node /\ prev[next[le]] \in Node
    BY <2>1
  <2>3. CASE InsertBefore
    <3>1. ListAdd(next, prev, base, prev[next[le]], next[le]) /\ le' = le
      BY <2>3 DEF InsertBefore, args
    <3>. QED BY <2>1, <2>2, <3>1, LinksIn
  <2>4. CASE InsertLast
    <3>1. ListAdd(next, prev, base, next[le], Head) /\ le' = next[le]
      BY <2>4 DEF InsertLast
    <3>. QED BY <2>1, <2>2, <3>1, LinksIn
  <2>5. CASE InsertNext
    BY <2>1, <2>2, <2>5 DEF InsertNext, links
  <2>6. CASE InsertEnd
    BY <2>1, <2>6 DEF InsertEnd, links, args
  <2>. QED BY <2>3, <2>4, <2>5, <2>6
<1>3. TypeOK'
  BY <1>1, <1>2 DEF PoolBounds, TypeOK
<1>. QED BY <1>1, <1>3 DEF PoolBounds

LEMMA BoundsMerge == ASSUME PoolBounds, MergePrev \/ MergeNext PROVE PoolBounds'
<1>1. /\ next \in [Node -> Node] /\ prev \in [Node -> Node] /\ base \in Page /\ base \in Node
      /\ property \in [Page -> 0 .. NPage] /\ flag \subseteq Page
  BY PoolNumbers DEF PoolBounds, TypeOK
<1>2. \A p \in Page : p \in Nat /\ property[p] \in Nat /\ p + property[p] <= NPage /\ NPage \in Nat
  BY BoundsNumbers
<1>3. ASSUME MergePrev
      PROVE  /\ next' \in [Node -> Node] /\ prev' \in [Node -> Node] /\ property' \in [Page -> 0 .. NPage]
             /\ flag' \subseteq Page /\ base' \in Page
             /\ \A p \in Page : p + property'[p] <= NPage
  <2>1. PICK p : p = prev[base]
    OBVIOUS
  <2>2. CASE p # Head /\ p + property[p] = base
    <3>1. /\ property' = [property EXCEPT ![p] = property[p] + property[base]] /\ flag' = flag \ {base}
          /\ ListDel(base) /\ base' = p
      BY <1>3, <2>1, <2>2 DEF MergePrev
    <3>2. p \in Page
      BY <1>1, <2>1, <2>2 DEF Node
    <3>3. p + (property[p] + property[base]) <= NPage /\ property[p] + property[base] \in 0 .. NPage
      BY <1>1, <1>2, <2>2, <3>2
    <3>4. next' \in [Node -> Node] /\ prev' \in [Node -> Node]
      BY <1>1, <3>1, LinksOut DEF PoolBounds
    <3>. QED BY <1>1, <1>2, <3>1, <3>2, <3>3, <3>4
  <2>3. CASE ~(p # Head /\ p + property[p] = base)
    <3>1. UNCHANGED <<property, flag, next, prev, base>>
      BY <1>3, <2>1, <2>3 DEF MergePrev, links
    <3>. QED BY <1>1, <1>2, <3>1
  <2>. QED BY <2>2, <2>3
<1>4. ASSUME MergeNext
      PROVE  /\ next' \in [Node -> Node] /\ prev' \in [Node -> Node] /\ property' \in [Page -> 0 .. NPage]
             /\ flag' \subseteq Page
             /\ \A p \in Page : p + property'[p] <= NPage
  <2>1. PICK p : p = next[base]
    OBVIOUS
  <2>2. CASE p # Head /\ base + property[base] = p
    <3>1. /\ property' = [property EXCEPT ![base] = property[base] + property[p]] /\ flag' = flag \ {p}
          /\ ListDel(p)
      BY <1>4, <2>1, <2>2 DEF MergeNext
    <3>2. p \in Page /\ p \in Node
      BY <1>1, <2>1, <2>2 DEF Node
    <3>3. base + (property[base] + property[p]) <= NPage /\ property[base] + property[p] \in 0 .. NPage
      BY <1>1, <1>2, <2>2, <3>2
    <3>4. next' \in [Node -> Node] /\ prev' \in [Node -> Node]
      BY <3>1, <3>2, LinksOut DEF PoolBounds
    <3>. QED BY <1>1, <1>2, <3>1, <3>2, <3>3, <3>4
  <2>3. CASE ~(p # Head /\ base + property[base] = p)
    <3>1. UNCHANGED <<property, flag, next, prev>>
      BY <1>4, <2>1, <2>3 DEF MergeNext, links
    <3>. QED BY <1>1, <1>2, <3>1
  <2>. QED BY <2>2, <2>3
<1>5. CASE MergePrev
  <2>1. /\ UNCHANGED <<pmm_manager, nr_free, used, le, n, page, doubled>> /\ op' = "merge_next"
    BY <1>5 DEF MergePrev
  <2>2. TypeOK'
    BY <1>3, <1>5, <2>1 DEF PoolBounds, TypeOK
  <2>. QED BY <1>3, <1>5, <2>1, <2>2 DEF PoolBounds
<1>6. CASE MergeNext
  <2>1. /\ UNCHANGED <<pmm_manager, nr_free, used, doubled>>
        /\ op' = "idle" /\ le' = Head /\ base' = 0 /\ n' = 0 /\ page' = NoPage
    BY <1>6 DEF MergeNext, Done
  <2>2. TypeOK'
    <3>1. Head \in Node /\ 0 \in Page /\ 0 \in 0 .. NPage
      BY PoolNumbers DEF Page
    <3>. QED BY <1>4, <1>6, <2>1, <3>1 DEF PoolBounds, TypeOK
  <2>. QED BY <1>4, <1>6, <2>1, <2>2 DEF PoolBounds
<1>. QED BY <1>5, <1>6

LEMMA BoundsStep == PoolBounds /\ [Next]_vars => PoolBounds'
<1>. SUFFICES ASSUME PoolBounds, [Next]_vars PROVE PoolBounds'
  OBVIOUS
<1>1. CASE SearchStep \/ SearchEnd \/ AllocFails \/ \E k \in 1 .. NPage : AllocCall(k)
  BY <1>1, BoundsSearch
<1>2. CASE Take
  BY <1>2, BoundsTake
<1>3. CASE InsertBefore \/ InsertLast \/ InsertNext \/ InsertEnd
  BY <1>3, BoundsInsert
<1>4. CASE MergePrev \/ MergeNext
  BY <1>4, BoundsMerge
<1>5. ASSUME NEW b \in Page, NEW k \in 1 .. NPage - b, FreeCall(b, k) PROVE PoolBounds'
  BY <1>5, BoundsFree
<1>6. CASE UNCHANGED vars
  BY <1>6 DEF vars, links, marks, args, PoolBounds, TypeOK
<1>. QED BY <1>1, <1>2, <1>3, <1>4, <1>5, <1>6 DEF Next, Turn

-----------------------------------------------------------------------------
\* The free list that default_pmm.c and best_fit_pmm.c keep is exact whenever
\* no operation runs: sorted, merged, linked both ways, with exactly the pages
\* that nobody owns in its blocks and nr_free the sum of their lengths, until a
\* block is freed above all others; and its sizes, links and counts stay in
\* their ranges even after that.
THEOREM FreeListIsExact == Spec => []FreeListExact
<1>1. Init => PoolInv /\ PoolBounds
  BY PoolInit, BoundsInit
<1>2. PoolInv /\ PoolBounds /\ [Next]_vars => PoolInv' /\ PoolBounds'
  BY PoolStep, BoundsStep
<1>3. PoolInv /\ PoolBounds => FreeListExact
  <2>1. ASSUME PoolBounds, doubled PROVE FreeListExact
    BY <2>1 DEF PoolBounds, FreeListExact
  <2>. QED BY <2>1, ShapeExact
<1>. QED BY <1>1, <1>2, <1>3, PTL DEF Spec

\* default_alloc_pages and best_fit_alloc_pages return NULL only when no run of
\* that many free pages exists, first fit the lowest one, and best fit the front
\* of the lowest of the shortest runs that would do.
THEOREM AllocationsAnswer == Spec => []AllocAnswers
<1>1. PoolInv => AllocAnswers
  BY ShapeAnswers
<1>. QED BY <1>1, PoolInvariant, PTL
=============================================================================
