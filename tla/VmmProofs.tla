------------------------------ MODULE VmmProofs ------------------------------
(***************************************************************************)
(* Address spaces are right for any number of processes, frames and table  *)
(* entries: every frame has exactly one use, the areas of an mm are sorted *)
(* and hold all of its pages, an assertion on areas fails only where the   *)
(* model says it may, and what users see of memory is as MemSpec says.     *)
(*                                                                         *)
(* The tables of all mms are seen as trees of places; a frame is at a      *)
(* place, free, lost or in a kernel stack, and each operation on tables    *)
(* adds a place, gives places up or moves a tree. What the steps do to     *)
(* frames is proved for values, what they do to the control state too, and *)
(* the two are put together in an inductive invariant.                     *)
(***************************************************************************)
EXTENDS Vmm, Integers, FiniteSetTheorems, WellFoundedInduction, TLAPS

-----------------------------------------------------------------------------
(* Sequences.                                                              *)

\* The elements of a concatenation.
LEMMA ConcatElements ==
  ASSUME NEW S, NEW a \in Seq(S), NEW b \in Seq(S)
  PROVE  /\ a \o b \in Seq(S)
         /\ Len(a \o b) = Len(a) + Len(b)
         /\ \A j \in 1 .. Len(a) + Len(b) :
              (a \o b)[j] = IF j <= Len(a) THEN a[j] ELSE b[j - Len(a)]
OBVIOUS

\* r is q with e put at i, and the order of the others left.
InsertedAt(S, q, i, e, r) ==
  /\ r \in Seq(S) /\ Len(r) = Len(q) + 1
  /\ \A j \in 1 .. i - 1 : r[j] = q[j]
  /\ r[i] = e
  /\ \A j \in i + 1 .. Len(q) + 1 : r[j] = q[j - 1]

\* InsertAt makes room at i and leaves the order of the others.
LEMMA InsertAtElements ==
  ASSUME NEW S, NEW q \in Seq(S), NEW i \in 1 .. Len(q) + 1, NEW e \in S
  PROVE  InsertedAt(S, q, i, e, InsertAt(q, i, e))
<1>. DEFINE a == SubSeq(q, 1, i - 1)
            b == SubSeq(q, i, Len(q))
            ae == a \o <<e>>
<1>1. a \in Seq(S) /\ Len(a) = i - 1 /\ \A j \in 1 .. i - 1 : a[j] = q[j]
  OBVIOUS
<1>2. /\ b \in Seq(S) /\ Len(b) = Len(q) - i + 1
      /\ \A j \in 1 .. Len(q) - i + 1 : b[j] = q[j + i - 1]
  OBVIOUS
<1>. HIDE DEF a, b
<1>3. /\ ae \in Seq(S) /\ Len(ae) = i
      /\ \A j \in 1 .. i : ae[j] = IF j < i THEN q[j] ELSE e
  BY <1>1
<1>. HIDE DEF ae
<1>4. /\ ae \o b \in Seq(S) /\ Len(ae \o b) = Len(q) + 1
      /\ \A j \in 1 .. Len(q) + 1 : (ae \o b)[j] = IF j <= i THEN ae[j] ELSE b[j - i]
  BY <1>2, <1>3, ConcatElements
<1>5. InsertAt(q, i, e) = ae \o b
  BY DEF InsertAt, a, b, ae
<1>6. ASSUME NEW j \in 1 .. i - 1 PROVE (ae \o b)[j] = q[j]
  BY <1>3, <1>4
<1>7. (ae \o b)[i] = e
  BY <1>3, <1>4
<1>8. ASSUME NEW j \in i + 1 .. Len(q) + 1 PROVE (ae \o b)[j] = q[j - 1]
  <2>1. j \in 1 .. Len(q) + 1 /\ j > i /\ j - i \in 1 .. Len(q) - i + 1 /\ (j - i) + i - 1 = j - 1
    OBVIOUS
  <2>2. (ae \o b)[j] = b[j - i]
    BY <1>4, <2>1
  <2>3. b[j - i] = q[(j - i) + i - 1]
    BY <1>2, <2>1
  <2>. QED BY <2>1, <2>2, <2>3
<1>. QED BY <1>4, <1>5, <1>6, <1>7, <1>8 DEF InsertedAt

-----------------------------------------------------------------------------
(* Addresses.                                                              *)

\* The sizes that follow from NENTRY.
LEMMA TableSizes ==
  /\ NENTRY \in Nat \ {0} /\ NFrame \in Nat /\ KSTACKPAGE \in 1 .. NFrame
  /\ PTSIZE \in Nat \ {0} /\ PDSIZE \in Nat \ {0} /\ USERTOP \in Nat \ {0}
  /\ PTSIZE = NENTRY /\ PDSIZE = NENTRY * NENTRY /\ USERTOP = NENTRY * (NENTRY * NENTRY)
<1>1. NENTRY \in Nat \ {0} /\ NFrame \in Nat /\ KSTACKPAGE \in 1 .. NFrame
  BY VmmAssumption
<1>2. NENTRY * NENTRY \in Nat \ {0}
  BY <1>1
<1>3. NENTRY * (NENTRY * NENTRY) \in Nat \ {0}
  BY <1>1, <1>2
<1>. QED BY <1>1, <1>2, <1>3 DEF PTSIZE, PDSIZE, USERTOP

\* Division with remainder.
LEMMA Quotient ==
  ASSUME NEW n \in Nat \ {0}, NEW a \in Nat
  PROVE  /\ a % n \in 0 .. n - 1 /\ a \div n \in Nat
         /\ a = n * (a \div n) + (a % n)
OBVIOUS

\* A product of three factors.
LEMMA Associates ==
  ASSUME NEW x \in Nat, NEW y \in Nat, NEW z \in Nat PROVE x * (y * z) = (x * y) * z
OBVIOUS

\* A product grows with its factor.
LEMMA Grows == ASSUME NEW m \in Nat, NEW a \in Nat, NEW b \in Nat, a >= b PROVE m * a >= m * b
OBVIOUS

\* Quotient and remainder are the only ones.
LEMMA QuotientUnique ==
  ASSUME NEW n \in Nat \ {0}, NEW a \in Nat, NEW q \in Nat, NEW r \in 0 .. n - 1, a = n * q + r
  PROVE  a \div n = q /\ a % n = r
<1>1. PICK i \in Nat : i = a \div n
  BY Quotient
<1>2. PICK s \in 0 .. n - 1 : s = a % n
  BY Quotient
<1>3. a = n * i + s
  BY <1>1, <1>2, Quotient
<1>4. PICK d \in Int : d = i - q
  OBVIOUS
<1>5. r - s = n * d
  BY <1>3, <1>4
<1>6. d = 0
  BY <1>5
<1>. QED BY <1>1, <1>2, <1>4, <1>5, <1>6

\* The three digits of la to the base n.
Digits(n, la, q, a, b, c) == la = n * q + c /\ q = n * a + b /\ la < n * (n * n)

\* Two divisions by n are one by its square.
LEMMA TwoDivisions ==
  ASSUME NEW n \in Nat \ {0}, NEW la \in Nat, NEW q \in Nat, NEW a \in Nat,
         NEW b \in 0 .. n - 1, NEW c \in 0 .. n - 1,
         Digits(n, la, q, a, b, c)
  PROVE  /\ la \div (n * n) = a /\ a < n
         /\ la = (n * n) * a + (n * b + c)
<1>0. la = n * q + c /\ q = n * a + b /\ la < n * (n * n)
  BY DEF Digits
<1>1. PICK m \in Nat \ {0} : m = n * n
  OBVIOUS
<1>2. PICK r \in Nat : r = n * b + c
  OBVIOUS
<1>3. r \in 0 .. m - 1
  <2>1. n * b <= n * (n - 1) /\ n * (n - 1) = n * n - n
    OBVIOUS
  <2>. QED BY <1>1, <1>2, <2>1
<1>4. n \in Nat /\ n * (n * a) = m * a /\ n * (n * n) = m * n
  BY <1>1, Associates
<1>5. la = m * a + r
  <2>1. n * q = n * (n * a) + n * b
    BY <1>0
  <2>. QED BY <1>0, <1>2, <1>4, <2>1
<1>6. a < n
  <2>1. SUFFICES ASSUME a >= n PROVE FALSE
    OBVIOUS
  <2>2. m * a >= m * n
    BY <1>1, <2>1, <1>4, Grows
  <2>. QED BY <1>0, <1>3, <1>4, <1>5, <2>2
<1>7. la \div m = a
  BY <1>1, <1>3, <1>5, QuotientUnique
<1>. QED BY <1>1, <1>2, <1>5, <1>6, <1>7

\* An address is its three indices.
LEMMA Indices ==
  ASSUME NEW la \in Page
  PROVE  /\ PDX1(la) \in Index /\ PDX0(la) \in Index /\ PTX(la) \in Index
         /\ la = (NENTRY * NENTRY) * PDX1(la) + (NENTRY * PDX0(la) + PTX(la))
         /\ la \div NENTRY = NENTRY * PDX1(la) + PDX0(la)
<1>0. PICK n \in Nat \ {0} : n = NENTRY
  BY TableSizes
<1>1. la \in Nat /\ la < n * (n * n)
  BY <1>0, TableSizes DEF Page
<1>2. PICK q \in Nat, c \in 0 .. n - 1 : q = la \div n /\ c = la % n /\ la = n * q + c
  BY <1>1, Quotient
<1>3. PICK a \in Nat, b \in 0 .. n - 1 : a = q \div n /\ b = q % n /\ q = n * a + b
  BY Quotient
<1>4. /\ la \div (n * n) = a /\ a < n
      /\ la = (n * n) * a + (n * b + c)
  <2>1. Digits(n, la, q, a, b, c)
    BY <1>1, <1>2, <1>3 DEF Digits
  <2>. QED BY <1>1, <2>1, TwoDivisions
<1>5. PTX(la) = c
  BY <1>0, <1>2 DEF PTX
<1>6. PDX0(la) = b
  BY <1>0, <1>2, <1>3 DEF PDX0, PTSIZE
<1>7. PDX1(la) = a
  BY <1>0, <1>4 DEF PDX1, PDSIZE
<1>8. a \in Index /\ b \in Index /\ c \in Index
  BY <1>0, <1>4 DEF Index
<1>9. la \div NENTRY = NENTRY * a + b
  BY <1>0, <1>2, <1>3
<1>10. la = (NENTRY * NENTRY) * a + (NENTRY * b + c)
  BY <1>0, <1>4
<1>. QED BY <1>5, <1>6, <1>7, <1>8, <1>9, <1>10

\* Every three indices are those of an address.
LEMMA IndicesInverse ==
  ASSUME NEW a \in Index, NEW b \in Index, NEW c \in Index
  PROVE  \E la \in Page : /\ PDX1(la) = a /\ PDX0(la) = b /\ PTX(la) = c
                          /\ la = NENTRY * (NENTRY * a + b) + c
<1>. PICK n \in Nat \ {0} : n = NENTRY
  BY TableSizes
<1>1. a \in 0 .. n - 1 /\ b \in 0 .. n - 1 /\ c \in 0 .. n - 1
  BY DEF Index
<1>2. PICK q \in Nat : q = n * a + b
  BY <1>1
<1>3. PICK la \in Nat : la = n * q + c
  BY <1>1, <1>2
<1>4. la < n * (n * n)
  <2>1. n * a <= n * (n - 1) /\ n * (n - 1) = n * n - n
    BY <1>1
  <2>2. q <= n * n - 1
    BY <1>1, <1>2, <2>1
  <2>3. PICK m \in Nat : m = n * n
    OBVIOUS
  <2>4. n * q <= n * (m - 1)
    BY <2>2, <2>3
  <2>5. n * (m - 1) = n * m - n
    BY <2>3
  <2>. QED BY <1>1, <1>3, <2>3, <2>4, <2>5
<1>5. la \in Page
  BY <1>4, TableSizes DEF Page
<1>6. la \div n = q /\ la % n = c
  BY <1>1, <1>3, QuotientUnique
<1>7. q \div n = a /\ q % n = b
  BY <1>1, <1>2, QuotientUnique
<1>8. PTX(la) = c /\ PDX0(la) = b
  BY <1>6, <1>7 DEF PTX, PDX0, PTSIZE
<1>9. PDX1(la) = a
  <2>1. PICK a2 \in Index, b2 \in Index : a2 = PDX1(la) /\ b2 = PDX0(la) /\ la \div n = n * a2 + b2
    BY <1>5, Indices
  <2>2. a2 \in Nat /\ b2 \in 0 .. n - 1
    BY <2>1 DEF Index
  <2>3. q \div n = a2
    BY <1>6, <2>1, <2>2, QuotientUnique
  <2>. QED BY <1>7, <2>1, <2>3
<1>. QED BY <1>2, <1>3, <1>5, <1>8, <1>9

\* Two addresses with the same indices are one.
LEMMA SameIndices ==
  ASSUME NEW la \in Page, NEW lb \in Page,
         PDX1(la) = PDX1(lb), PDX0(la) = PDX0(lb), PTX(la) = PTX(lb)
  PROVE  la = lb
BY Indices

\* The number of page tables an mm may have.
NTable == USERTOP \div PTSIZE

\* There are as many tables as the directories have entries.
LEMMA NTableIs == NTable = NENTRY * NENTRY
<1>1. PICK n \in Nat \ {0} : n = NENTRY
  BY TableSizes
<1>2. PICK k \in Nat : k = n * n
  BY <1>1
<1>3. n * k = n * k + 0 /\ 0 \in 0 .. n - 1 /\ n * k \in Nat
  BY <1>1, <1>2
<1>4. (n * k) \div n = k
  BY <1>3, <1>1, <1>2, QuotientUnique
<1>. QED BY <1>1, <1>2, <1>4, TableSizes DEF NTable

\* The indices of the first page of a table.
LEMMA TableNumber ==
  ASSUME NEW t \in 0 .. NTable - 1
  PROVE  /\ t * PTSIZE \in Page
         /\ PDX1(t * PTSIZE) \in Index /\ PDX0(t * PTSIZE) \in Index
         /\ t = NENTRY * PDX1(t * PTSIZE) + PDX0(t * PTSIZE)
<1>1. PICK n \in Nat \ {0} : n = NENTRY
  BY TableSizes
<1>2. PICK k \in Nat : k = n * n
  BY <1>1
<1>3. NTable = k
  BY <1>1, <1>2, NTableIs
<1>4. PICK la \in Nat : la = t * n
  BY <1>1
<1>5. t \in Nat /\ t <= k - 1
  BY <1>2, <1>3
<1>6. la < n * k
  <2>1. n * t <= n * (k - 1)
    BY <1>1, <1>2, <1>5, Grows
  <2>2. n * (k - 1) = n * k - n
    BY <1>1, <1>2
  <2>3. n * t = t * n
    BY <1>1, <1>5
  <2>. QED BY <1>1, <1>2, <1>4, <2>1, <2>2, <2>3
<1>7. la = t * PTSIZE /\ la \in Page
  BY <1>1, <1>2, <1>4, <1>6, TableSizes DEF Page
<1>8. la \div n = t
  <2>1. la = n * t + 0 /\ 0 \in 0 .. n - 1
    BY <1>1, <1>4, <1>5
  <2>. QED BY <1>1, <1>5, <2>1, QuotientUnique
<1>. QED BY <1>1, <1>7, <1>8, Indices

\* Every two indices are those of a table.
LEMMA TableOf ==
  ASSUME NEW a \in Index, NEW b \in Index
  PROVE  \E t \in 0 .. NTable - 1 :
           t = NENTRY * a + b /\ PDX1(t * PTSIZE) = a /\ PDX0(t * PTSIZE) = b
<1>1. PICK n \in Nat \ {0} : n = NENTRY
  BY TableSizes
<1>2. 0 \in Index /\ a \in Nat /\ b \in Nat
  BY <1>1 DEF Index
<1>3. PICK la \in Page : PDX1(la) = a /\ PDX0(la) = b /\ la = NENTRY * (NENTRY * a + b) + 0
  BY <1>2, IndicesInverse
<1>4. PICK t \in Nat : t = n * a + b
  BY <1>1, <1>2
<1>5. la = t * PTSIZE
  BY <1>1, <1>3, <1>4, TableSizes
<1>6. t < NTable
  <2>1. PICK k \in Nat : k = n * n
    BY <1>1
  <2>2. NTable = k
    BY <1>1, <2>1, NTableIs
  <2>3. n * t < n * k
    BY <1>1, <1>3, <1>4, <2>1, TableSizes DEF Page
  <2>4. t >= k => n * t >= n * k
    BY <1>1, <1>4, <2>1, Grows
  <2>5. n * t \in Nat /\ n * k \in Nat
    BY <1>1, <2>1
  <2>. QED BY <1>4, <2>1, <2>2, <2>3, <2>4, <2>5
<1>7. t \in 0 .. NTable - 1
  BY <1>4, <1>6, TableSizes DEF NTable
<1>. QED BY <1>1, <1>3, <1>4, <1>5, <1>7

-----------------------------------------------------------------------------
(* The places of page tables.                                              *)

\* Where a frame may be: the directory of an mm (lev 0), or the one that the
\* entries a, then b, then c lead to.
Place ==
  {pl \in [lev : 0 .. 3, s : Space, a : Index, b : Index, c : Index] :
     /\ pl.lev = 0 => pl.a = 0
     /\ pl.lev \in {0, 1} => pl.b = 0
     /\ pl.lev # 3 => pl.c = 0}

Root(s) == [lev |-> 0, s |-> s, a |-> 0, b |-> 0, c |-> 0]

\* The place that entry x of the table at pl refers to, and back.
Under(pl, x) ==
  IF pl.lev = 0 THEN [lev |-> 1, s |-> pl.s, a |-> x, b |-> 0, c |-> 0]
  ELSE IF pl.lev = 1 THEN [lev |-> 2, s |-> pl.s, a |-> pl.a, b |-> x, c |-> 0]
  ELSE [lev |-> 3, s |-> pl.s, a |-> pl.a, b |-> pl.b, c |-> x]

Above(pl) ==
  IF pl.lev = 1 THEN Root(pl.s)
  ELSE IF pl.lev = 2 THEN [lev |-> 1, s |-> pl.s, a |-> pl.a, b |-> 0, c |-> 0]
  ELSE [lev |-> 2, s |-> pl.s, a |-> pl.a, b |-> pl.b, c |-> 0]

Key(pl) == IF pl.lev = 1 THEN pl.a ELSE IF pl.lev = 2 THEN pl.b ELSE pl.c

\* The other uses of a frame: free, lost, in the kernel stack of p.
Spare == [lev |-> 5, s |-> New]
Gone  == [lev |-> 6, s |-> New]
StackOf(p) == [lev |-> 4, s |-> p]

\* An index is a natural number.
LEMMA IndexZero == 0 \in Index /\ NENTRY \in Nat \ {0}
BY TableSizes DEF Index

\* Places are trees, one for each mm.
LEMMA Trees ==
  /\ \A s \in Space : Root(s) \in Place /\ Root(s).lev = 0 /\ Root(s).s = s
  /\ \A pl \in Place : pl.lev \in 0 .. 3 /\ pl.s \in Space
  /\ \A pl \in Place : pl.lev = 0 => pl = Root(pl.s)
  /\ \A pl \in Place : pl.lev # 3 => \A x \in Index :
       /\ Under(pl, x) \in Place /\ Under(pl, x).lev # 0 /\ Under(pl, x).s = pl.s
       /\ Above(Under(pl, x)) = pl /\ Key(Under(pl, x)) = x
       /\ pl.lev = 0 => Under(pl, x).lev = 1
       /\ pl.lev = 1 => Under(pl, x).lev = 2
       /\ pl.lev = 2 => Under(pl, x).lev = 3
  /\ \A pl \in Place : pl.lev # 0 =>
       /\ Above(pl) \in Place /\ Above(pl).lev # 3 /\ Above(pl).s = pl.s
       /\ Key(pl) \in Index /\ pl = Under(Above(pl), Key(pl))
       /\ pl.lev = 1 => Above(pl).lev = 0
       /\ pl.lev = 2 => Above(pl).lev = 1
       /\ pl.lev = 3 => Above(pl).lev = 2
<1>. USE IndexZero
<1>1. ASSUME NEW s \in Space PROVE Root(s) \in Place /\ Root(s).lev = 0 /\ Root(s).s = s
  BY DEF Place, Root
<1>2. \A pl \in Place : pl.lev \in 0 .. 3 /\ pl.s \in Space
  BY DEF Place
<1>3. ASSUME NEW pl \in Place, pl.lev = 0 PROVE pl = Root(pl.s)
  BY <1>3 DEF Place, Root
<1>4. ASSUME NEW pl \in Place, pl.lev # 3, NEW x \in Index
      PROVE  /\ Under(pl, x) \in Place /\ Under(pl, x).lev # 0 /\ Under(pl, x).s = pl.s
             /\ Above(Under(pl, x)) = pl /\ Key(Under(pl, x)) = x
             /\ pl.lev = 0 => Under(pl, x).lev = 1
             /\ pl.lev = 1 => Under(pl, x).lev = 2
             /\ pl.lev = 2 => Under(pl, x).lev = 3
  <2>1. CASE pl.lev = 0
    BY <2>1 DEF Place, Under, Above, Key, Root
  <2>2. CASE pl.lev = 1
    BY <2>2 DEF Place, Under, Above, Key, Root
  <2>3. CASE pl.lev = 2
    BY <2>3 DEF Place, Under, Above, Key, Root
  <2>. QED BY <1>2, <1>4, <2>1, <2>2, <2>3
<1>5. ASSUME NEW pl \in Place, pl.lev # 0
      PROVE  /\ Above(pl) \in Place /\ Above(pl).lev # 3 /\ Above(pl).s = pl.s
             /\ Key(pl) \in Index /\ pl = Under(Above(pl), Key(pl))
             /\ pl.lev = 1 => Above(pl).lev = 0
             /\ pl.lev = 2 => Above(pl).lev = 1
             /\ pl.lev = 3 => Above(pl).lev = 2
  <2>1. CASE pl.lev = 1
    BY <2>1 DEF Place, Under, Above, Key, Root
  <2>2. CASE pl.lev = 2
    BY <2>2 DEF Place, Under, Above, Key, Root
  <2>3. CASE pl.lev = 3
    BY <2>3 DEF Place, Under, Above, Key, Root
  <2>. QED BY <1>2, <1>5, <2>1, <2>2, <2>3
<1>. QED BY <1>1, <1>2, <1>3, <1>4, <1>5

\* The other uses are no places, and all different.
LEMMA OtherUses ==
  /\ Spare \notin Place /\ Gone \notin Place /\ Spare # Gone
  /\ \A p \in Proc : StackOf(p) \notin Place /\ StackOf(p) # Spare /\ StackOf(p) # Gone
  /\ \A p, q \in Proc : StackOf(p) = StackOf(q) => p = q
<1>1. Spare.lev = 5 /\ Gone.lev = 6 /\ \A p \in Proc : StackOf(p).lev = 4 /\ StackOf(p).s = p
  BY DEF Spare, Gone, StackOf
<1>2. \A pl \in Place : pl.lev \in 0 .. 3
  BY Trees
<1>. QED BY <1>1, <1>2

-----------------------------------------------------------------------------
(* What every frame is used for.                                           *)

Frame0 == Frame \cup {NoFrame}
Tag == Place \cup {Spare, Gone} \cup {StackOf(p) : p \in Proc}

InStack(ks, p, f) == ks[p] # NoFrame /\ f \in ks[p] .. ks[p] + KSTACKPAGE - 1

\* m, r, fr, ls: what frames hold, their counts, the free and the lost ones;
\* rt, ks: the directory of every mm, the kernel stack of every process.
\* u says what each frame is used for and w which frame is at a place.
Kinds(u, w, m, r, fr, rt, ks, ls) ==
  /\ m \in [Frame -> Table \cup Value] /\ r \in [Frame -> Nat]
  /\ fr \in SUBSET Frame /\ ls \in SUBSET Frame
  /\ rt \in [Space -> Frame0] /\ ks \in [Proc -> Frame0]
  /\ u \in [Frame -> Tag] /\ w \in [Place -> Frame0]
Marks(u, w) ==
  /\ \A pl \in Place : w[pl] # NoFrame => u[w[pl]] = pl
  /\ \A f \in Frame : u[f] \in Place => w[u[f]] = f
Linked(w, m) ==
  \A pl \in Place : pl.lev # 3 =>
    /\ w[pl] = NoFrame => \A x \in Index : w[Under(pl, x)] = NoFrame
    /\ w[pl] # NoFrame =>
         m[w[pl]] \in Table /\ \A x \in Index : m[w[pl]][x] = w[Under(pl, x)]
Pages(w, m) == \A pl \in Place : pl.lev = 3 /\ w[pl] # NoFrame => m[w[pl]] \in Value
Roots(w, rt) == \A s \in Space : w[Root(s)] = rt[s]
Rest(u, fr, ls) == \A f \in Frame : (f \in fr <=> u[f] = Spare) /\ (f \in ls <=> u[f] = Gone)
Stacks(u, ks) ==
  \A p \in Proc :
    /\ ks[p] # NoFrame => ks[p] + KSTACKPAGE - 1 \in Frame
    /\ \A f \in Frame : u[f] = StackOf(p) <=> InStack(ks, p, f)
Refs(u, r) ==
  \A f \in Frame :
    /\ u[f] \in Place => r[f] = IF u[f].lev = 0 THEN 0 ELSE 1
    /\ u[f] \notin Place /\ u[f] # Gone => r[f] = 0

Uses(u, w, m, r, fr, rt, ks, ls) ==
  /\ Kinds(u, w, m, r, fr, rt, ks, ls) /\ Marks(u, w)
  /\ Linked(w, m) /\ Pages(w, m) /\ Roots(w, rt)
  /\ Rest(u, fr, ls) /\ Stacks(u, ks) /\ Refs(u, r)

-----------------------------------------------------------------------------
(* A frame is added at a place, places are given up.                       *)

\* The free frame f goes to the empty place pl, and holds v.
Added(w, m, r, fr, pl, f, v, m2, r2, fr2) ==
  /\ pl \in Place /\ pl.lev # 0 /\ w[pl] = NoFrame /\ w[Above(pl)] # NoFrame
  /\ f \in fr
  /\ IF pl.lev = 3 THEN v \in Value ELSE v = Empty
  /\ m2 \in [Frame -> Table \cup Value] /\ r2 \in [Frame -> Nat]
  /\ m2[f] = v
  /\ m2[w[Above(pl)]] \in Table
  /\ \A x \in Index : m2[w[Above(pl)]][x] = IF x = Key(pl) THEN f ELSE m[w[Above(pl)]][x]
  /\ \A g \in Frame : g # f /\ g # w[Above(pl)] => m2[g] = m[g]
  /\ \A g \in Frame : r2[g] = IF g = f THEN 1 ELSE r[g]
  /\ fr2 = fr \ {f}

\* An empty table has no entry.
LEMMA EmptyTable == Empty \in Table /\ \A x \in Index : Empty[x] = NoFrame
BY DEF Empty, Table

\* Then every frame has a use again.
LEMMA AddUses ==
  ASSUME NEW u, NEW w, NEW m, NEW r, NEW fr, NEW rt, NEW ks, NEW ls,
         Uses(u, w, m, r, fr, rt, ks, ls),
         NEW pl, NEW f, NEW v, NEW m2, NEW r2, NEW fr2,
         Added(w, m, r, fr, pl, f, v, m2, r2, fr2)
  PROVE  \E u2, w2 :
           /\ Uses(u2, w2, m2, r2, fr2, rt, ks, ls)
           /\ w2[pl] = f /\ \A q \in Place : q # pl => w2[q] = w[q]
<1>1. /\ Kinds(u, w, m, r, fr, rt, ks, ls) /\ Marks(u, w)
      /\ Linked(w, m) /\ Pages(w, m) /\ Roots(w, rt)
      /\ Rest(u, fr, ls) /\ Stacks(u, ks) /\ Refs(u, r)
  BY DEF Uses
<1>2. /\ f \in Frame /\ f # NoFrame /\ u[f] = Spare /\ f \in fr
      /\ pl \in Place /\ pl.lev # 0 /\ w[pl] = NoFrame /\ w[Above(pl)] # NoFrame
      /\ Above(pl) \in Place /\ Above(pl).lev # 3 /\ w[Above(pl)] \in Frame
      /\ Key(pl) \in Index /\ pl = Under(Above(pl), Key(pl))
      /\ u[w[Above(pl)]] = Above(pl)
  BY <1>1, Trees DEF Added, Kinds, Rest, Marks, Frame0, Frame, NoFrame
<1>3. PICK u2 : u2 = [u EXCEPT ![f] = pl]
  OBVIOUS
<1>4. PICK w2 : w2 = [w EXCEPT ![pl] = f]
  OBVIOUS
<1>5. /\ u2 \in [Frame -> Tag] /\ w2 \in [Place -> Frame0]
      /\ u2[f] = pl /\ \A g \in Frame : g # f => u2[g] = u[g]
      /\ w2[pl] = f /\ \A q \in Place : q # pl => w2[q] = w[q]
  BY <1>1, <1>2, <1>3, <1>4 DEF Kinds, Tag, Frame0
<1>6. Kinds(u2, w2, m2, r2, fr2, rt, ks, ls)
  BY <1>1, <1>5 DEF Kinds, Added
<1>7. Marks(u2, w2)
  <2>1. ASSUME NEW q \in Place, w2[q] # NoFrame PROVE u2[w2[q]] = q
    BY <1>1, <1>2, <1>5, <2>1, OtherUses DEF Marks, Kinds, Frame0
  <2>2. ASSUME NEW g \in Frame, u2[g] \in Place PROVE w2[u2[g]] = g
    BY <1>1, <1>2, <1>5, <2>2 DEF Marks, NoFrame, Frame
  <2>. QED BY <2>1, <2>2 DEF Marks
<1>8. f # w[Above(pl)]
  BY <1>2, OtherUses
<1>9. \A q \in Place : w[q] # NoFrame => w[q] \in Frame /\ w[q] # f
  BY <1>1, <1>2, OtherUses DEF Marks, Kinds, Frame0
<1>10. Linked(w2, m2)
  <2>1. ASSUME NEW q \in Place, q.lev # 3, w2[q] = NoFrame, NEW x \in Index
        PROVE  w2[Under(q, x)] = NoFrame
    BY <1>1, <1>2, <1>5, <2>1, Trees DEF Linked
  <2>2. ASSUME NEW q \in Place, q.lev # 3, w2[q] # NoFrame
        PROVE  m2[w2[q]] \in Table /\ \A x \in Index : m2[w2[q]][x] = w2[Under(q, x)]
    <3>1. CASE q = pl
      <4>1. m2[w2[q]] = Empty
        BY <1>5, <2>2, <3>1 DEF Added
      <4>2. \A x \in Index : w[Under(q, x)] = NoFrame /\ Under(q, x) # pl
        BY <1>1, <1>2, <2>2, <3>1, Trees DEF Linked
      <4>. QED BY <1>5, <2>2, <4>1, <4>2, EmptyTable, Trees
    <3>2. CASE q = Above(pl)
      <4>1. q # pl
        BY <1>2, <3>2
      <4>2. \A x \in Index : m[w[q]][x] = w[Under(q, x)]
        BY <1>1, <1>2, <2>2, <3>2 DEF Linked
      <4>3. \A x \in Index : Under(q, x) \in Place /\ (Under(q, x) = pl <=> x = Key(pl))
        BY <1>2, <2>2, <3>2, Trees
      <4>. QED BY <1>5, <2>2, <3>2, <4>1, <4>2, <4>3 DEF Added
    <3>3. CASE q # pl /\ q # Above(pl)
      <4>1. w2[q] = w[q] /\ w[q] \in Frame /\ w[q] # f /\ w[q] # w[Above(pl)]
        BY <1>1, <1>2, <1>5, <1>9, <2>2, <3>3 DEF Marks
      <4>2. m2[w[q]] = m[w[q]]
        BY <4>1 DEF Added
      <4>3. \A x \in Index : Under(q, x) \in Place /\ Under(q, x) # pl
        BY <2>2, <3>3, Trees
      <4>. QED BY <1>1, <1>5, <2>2, <4>1, <4>2, <4>3 DEF Linked
    <3>. QED BY <3>1, <3>2, <3>3
  <2>. QED BY <2>1, <2>2 DEF Linked
<1>11. Pages(w2, m2)
  <2>1. ASSUME NEW q \in Place, q.lev = 3, w2[q] # NoFrame PROVE m2[w2[q]] \in Value
    <3>1. CASE q = pl
      BY <1>5, <2>1, <3>1 DEF Added
    <3>2. CASE q # pl
      <4>1. w2[q] = w[q] /\ w[q] \in Frame /\ w[q] # f /\ w[q] # w[Above(pl)]
        BY <1>1, <1>2, <1>5, <1>9, <2>1, <3>2 DEF Marks
      <4>. QED BY <1>1, <2>1, <4>1 DEF Added, Pages
    <3>. QED BY <3>1, <3>2
  <2>. QED BY <2>1 DEF Pages
<1>12. Roots(w2, rt)
  BY <1>1, <1>2, <1>5, Trees DEF Roots
<1>13. Rest(u2, fr2, ls)
  BY <1>1, <1>2, <1>5, OtherUses DEF Rest, Added
<1>14. Stacks(u2, ks)
  <2>1. \A p \in Proc : u2[f] # StackOf(p) /\ u[f] # StackOf(p)
    BY <1>2, <1>5, OtherUses
  <2>. QED BY <1>1, <1>2, <1>5, <2>1 DEF Stacks
<1>15. Refs(u2, r2)
  <2>1. \A g \in Frame : r2[g] = IF g = f THEN 1 ELSE r[g]
    BY DEF Added
  <2>. QED BY <1>1, <1>2, <1>5, <2>1, OtherUses DEF Refs
<1>. QED BY <1>5, <1>6, <1>7, <1>10, <1>11, <1>12, <1>13, <1>14, <1>15 DEF Uses

\* The frames at the places of S are given up: those of fs are free, those
\* of lo lost. S is closed downwards.
Pruned(w, m, r, fr, rt, ls, S, fs, lo, m2, r2, fr2, rt2, ls2) ==
  /\ S \subseteq Place
  /\ \A pl \in S : pl.lev # 3 => \A x \in Index : Under(pl, x) \in S
  /\ \A pl \in S : w[pl] # NoFrame => (w[pl] \in fs <=> w[pl] \notin lo)
  /\ \A f \in fs \cup lo : \E pl \in S : w[pl] = f /\ f # NoFrame
  /\ m2 \in [Frame -> Table \cup Value] /\ r2 \in [Frame -> Nat] /\ rt2 \in [Space -> Frame0]
  /\ \A pl \in Place : w[pl] # NoFrame /\ pl \notin S =>
       IF pl.lev = 3 THEN m2[w[pl]] = m[w[pl]]
       ELSE /\ m2[w[pl]] \in Table
            /\ \A x \in Index :
                 m2[w[pl]][x] = IF Under(pl, x) \in S THEN NoFrame ELSE m[w[pl]][x]
  /\ \A f \in Frame : r2[f] = IF f \in fs THEN 0 ELSE r[f]
  /\ fr2 = fr \cup fs /\ ls2 = ls \cup lo
  /\ \A s \in Space : rt2[s] = IF Root(s) \in S THEN NoFrame ELSE rt[s]

\* Then every frame has a use again.
LEMMA PruneUses ==
  ASSUME NEW u, NEW w, NEW m, NEW r, NEW fr, NEW rt, NEW ks, NEW ls,
         Uses(u, w, m, r, fr, rt, ks, ls),
         NEW S, NEW fs, NEW lo, NEW m2, NEW r2, NEW fr2, NEW rt2, NEW ls2,
         Pruned(w, m, r, fr, rt, ls, S, fs, lo, m2, r2, fr2, rt2, ls2)
  PROVE  \E u2, w2 :
           /\ Uses(u2, w2, m2, r2, fr2, rt2, ks, ls2)
           /\ \A q \in Place : w2[q] = IF q \in S THEN NoFrame ELSE w[q]
<1>1. /\ Kinds(u, w, m, r, fr, rt, ks, ls) /\ Marks(u, w)
      /\ Linked(w, m) /\ Pages(w, m) /\ Roots(w, rt)
      /\ Rest(u, fr, ls) /\ Stacks(u, ks) /\ Refs(u, r)
  BY DEF Uses
<1>2. PICK u2 : u2 = [f \in Frame |-> IF f \in fs THEN Spare ELSE IF f \in lo THEN Gone ELSE u[f]]
  OBVIOUS
<1>3. PICK w2 : w2 = [pl \in Place |-> IF pl \in S THEN NoFrame ELSE w[pl]]
  OBVIOUS
<1>4. /\ u2 \in [Frame -> Tag] /\ w2 \in [Place -> Frame0]
      /\ \A f \in Frame : u2[f] = IF f \in fs THEN Spare ELSE IF f \in lo THEN Gone ELSE u[f]
      /\ \A pl \in Place : w2[pl] = IF pl \in S THEN NoFrame ELSE w[pl]
  BY <1>1, <1>2, <1>3 DEF Kinds, Tag, Frame0
<1>5. \A pl \in Place : w[pl] # NoFrame => w[pl] \in Frame /\ u[w[pl]] = pl
  BY <1>1 DEF Marks, Kinds, Frame0
<1>6. \A f \in fs \cup lo : f \in Frame /\ f # NoFrame /\ u[f] \in S /\ w[u[f]] = f
  BY <1>5 DEF Pruned
<1>7. \A f \in Frame : u[f] \in S => (f \in fs <=> f \notin lo)
  BY <1>1 DEF Pruned, Marks, Frame, NoFrame
<1>8. \A f \in Frame : f \notin fs \cup lo => u[f] \notin S
  BY <1>7
<1>9. Kinds(u2, w2, m2, r2, fr2, rt2, ks, ls2)
  BY <1>1, <1>4, <1>6 DEF Kinds, Pruned
<1>10. Marks(u2, w2)
  <2>1. ASSUME NEW q \in Place, w2[q] # NoFrame PROVE u2[w2[q]] = q
    BY <1>4, <1>5, <1>6, <2>1
  <2>2. ASSUME NEW g \in Frame, u2[g] \in Place PROVE w2[u2[g]] = g
    BY <1>1, <1>4, <1>8, <2>2, OtherUses DEF Marks
  <2>. QED BY <2>1, <2>2 DEF Marks
<1>11. Linked(w2, m2)
  <2>1. ASSUME NEW q \in Place, q.lev # 3, w2[q] = NoFrame, NEW x \in Index
        PROVE  w2[Under(q, x)] = NoFrame
    BY <1>1, <1>4, <2>1, Trees DEF Linked, Pruned
  <2>2. ASSUME NEW q \in Place, q.lev # 3, w2[q] # NoFrame
        PROVE  m2[w2[q]] \in Table /\ \A x \in Index : m2[w2[q]][x] = w2[Under(q, x)]
    <3>1. q \notin S /\ w2[q] = w[q] /\ w[q] # NoFrame
      BY <1>4, <2>2
    <3>2. /\ m2[w[q]] \in Table
          /\ \A x \in Index : m2[w[q]][x] = IF Under(q, x) \in S THEN NoFrame ELSE m[w[q]][x]
      BY <2>2, <3>1 DEF Pruned
    <3>3. \A x \in Index : m[w[q]][x] = w[Under(q, x)] /\ Under(q, x) \in Place
      BY <1>1, <2>2, <3>1, Trees DEF Linked
    <3>. QED BY <1>4, <3>1, <3>2, <3>3
  <2>. QED BY <2>1, <2>2 DEF Linked
<1>12. Pages(w2, m2)
  <2>1. ASSUME NEW q \in Place, q.lev = 3, w2[q] # NoFrame PROVE m2[w2[q]] \in Value
    <3>1. q \notin S /\ w2[q] = w[q] /\ w[q] # NoFrame
      BY <1>4, <2>1
    <3>. QED BY <1>1, <2>1, <3>1 DEF Pruned, Pages
  <2>. QED BY <2>1 DEF Pages
<1>13. Roots(w2, rt2)
  BY <1>1, <1>4, Trees DEF Roots, Pruned
<1>14. Rest(u2, fr2, ls2)
  <2>1. fr2 = fr \cup fs /\ ls2 = ls \cup lo
    BY DEF Pruned
  <2>2. \A f \in Frame : u[f] \in S => u[f] \in Place
    BY DEF Pruned
  <2>3. ASSUME NEW f \in Frame PROVE (f \in fr2 <=> u2[f] = Spare) /\ (f \in ls2 <=> u2[f] = Gone)
    <3>1. CASE u[f] \in S
      BY <1>1, <1>4, <1>7, <2>1, <2>2, <3>1, OtherUses DEF Rest
    <3>2. CASE u[f] \notin S
      <4>1. f \notin fs \cup lo
        BY <1>6, <3>2
      <4>. QED BY <1>1, <1>4, <2>1, <4>1 DEF Rest
    <3>. QED BY <3>1, <3>2
  <2>. QED BY <2>3 DEF Rest
<1>15. Stacks(u2, ks)
  <2>1. ASSUME NEW p \in Proc, NEW f \in Frame PROVE u2[f] = StackOf(p) <=> u[f] = StackOf(p)
    <3>1. f \in fs \cup lo => u[f] \in Place
      BY <1>6 DEF Pruned
    <3>. QED BY <1>4, <3>1, OtherUses
  <2>. QED BY <1>1, <2>1 DEF Stacks
<1>16. Refs(u2, r2)
  <2>1. \A g \in Frame : r2[g] = IF g \in fs THEN 0 ELSE r[g]
    BY DEF Pruned
  <2>. QED BY <1>1, <1>4, <2>1, OtherUses DEF Refs
<1>. QED BY <1>4, <1>9, <1>10, <1>11, <1>12, <1>13, <1>14, <1>15, <1>16 DEF Uses

-----------------------------------------------------------------------------
(* The directory of a new mm, and an mm that becomes another one's.        *)

\* The free frame f is the directory of s.
Rooted(m, r, fr, rt, s, f, m2, fr2, rt2) ==
  /\ s \in Space /\ rt[s] = NoFrame /\ f \in fr
  /\ m2 \in [Frame -> Table \cup Value]
  /\ m2[f] = Empty /\ \A g \in Frame : g # f => m2[g] = m[g]
  /\ fr2 = fr \ {f}
  /\ rt2 \in [Space -> Frame0] /\ rt2[s] = f /\ \A t \in Space : t # s => rt2[t] = rt[t]

\* Then every frame has a use again.
LEMMA RootUses ==
  ASSUME NEW u, NEW w, NEW m, NEW r, NEW fr, NEW rt, NEW ks, NEW ls,
         Uses(u, w, m, r, fr, rt, ks, ls),
         NEW s, NEW f, NEW m2, NEW fr2, NEW rt2,
         Rooted(m, r, fr, rt, s, f, m2, fr2, rt2)
  PROVE  \E u2, w2 :
           /\ Uses(u2, w2, m2, r, fr2, rt2, ks, ls)
           /\ w2[Root(s)] = f /\ \A q \in Place : q # Root(s) => w2[q] = w[q]
<1>1. /\ Kinds(u, w, m, r, fr, rt, ks, ls) /\ Marks(u, w)
      /\ Linked(w, m) /\ Pages(w, m) /\ Roots(w, rt)
      /\ Rest(u, fr, ls) /\ Stacks(u, ks) /\ Refs(u, r)
  BY DEF Uses
<1>2. PICK pl : pl = Root(s)
  OBVIOUS
<1>3. /\ f \in Frame /\ f # NoFrame /\ u[f] = Spare /\ f \in fr /\ r[f] = 0
      /\ pl \in Place /\ pl.lev = 0 /\ w[pl] = NoFrame
  <2>1. f \in Frame /\ f # NoFrame /\ f \in fr /\ u[f] = Spare
    BY <1>1 DEF Rooted, Kinds, Rest, Frame, NoFrame
  <2>2. r[f] = 0
    BY <1>1, <2>1, OtherUses DEF Refs
  <2>. QED BY <1>1, <1>2, <2>1, <2>2, Trees DEF Rooted, Roots
<1>4. PICK u2 : u2 = [u EXCEPT ![f] = pl]
  OBVIOUS
<1>5. PICK w2 : w2 = [w EXCEPT ![pl] = f]
  OBVIOUS
<1>6. /\ u2 \in [Frame -> Tag] /\ w2 \in [Place -> Frame0]
      /\ u2[f] = pl /\ \A g \in Frame : g # f => u2[g] = u[g]
      /\ w2[pl] = f /\ \A q \in Place : q # pl => w2[q] = w[q]
  BY <1>1, <1>3, <1>4, <1>5 DEF Kinds, Tag, Frame0
<1>7. Kinds(u2, w2, m2, r, fr2, rt2, ks, ls)
  BY <1>1, <1>6 DEF Kinds, Rooted
<1>8. Marks(u2, w2)
  <2>1. ASSUME NEW q \in Place, w2[q] # NoFrame PROVE u2[w2[q]] = q
    BY <1>1, <1>3, <1>6, <2>1, OtherUses DEF Marks, Kinds, Frame0
  <2>2. ASSUME NEW g \in Frame, u2[g] \in Place PROVE w2[u2[g]] = g
    BY <1>1, <1>3, <1>6, <2>2 DEF Marks, NoFrame, Frame
  <2>. QED BY <2>1, <2>2 DEF Marks
<1>9. \A q \in Place : w[q] # NoFrame => w[q] \in Frame /\ w[q] # f
  BY <1>1, <1>3, OtherUses DEF Marks, Kinds, Frame0
<1>10. Linked(w2, m2)
  <2>0. \A q \in Place : q.lev # 3 => \A x \in Index : Under(q, x) # pl /\ Under(q, x) \in Place
    BY <1>3, Trees
  <2>1. ASSUME NEW q \in Place, q.lev # 3, w2[q] = NoFrame, NEW x \in Index
        PROVE  w2[Under(q, x)] = NoFrame
    BY <1>1, <1>3, <1>6, <2>0, <2>1 DEF Linked
  <2>2. ASSUME NEW q \in Place, q.lev # 3, w2[q] # NoFrame
        PROVE  m2[w2[q]] \in Table /\ \A x \in Index : m2[w2[q]][x] = w2[Under(q, x)]
    <3>1. CASE q = pl
      BY <1>1, <1>3, <1>6, <2>0, <2>2, <3>1, EmptyTable DEF Linked, Rooted
    <3>2. CASE q # pl
      <4>1. w2[q] = w[q] /\ w[q] \in Frame /\ w[q] # f
        BY <1>6, <1>9, <2>2, <3>2
      <4>2. m2[w[q]] = m[w[q]]
        BY <4>1 DEF Rooted
      <4>. QED BY <1>1, <1>6, <2>0, <2>2, <4>1, <4>2 DEF Linked
    <3>. QED BY <3>1, <3>2
  <2>. QED BY <2>1, <2>2 DEF Linked
<1>11. Pages(w2, m2)
  BY <1>1, <1>3, <1>6, <1>9 DEF Pages, Rooted
<1>12. Roots(w2, rt2)
  <2>1. \A t \in Space : Root(t) = pl => t = s
    BY <1>2, Trees DEF Rooted
  <2>. QED BY <1>1, <1>2, <1>6, <2>1, Trees DEF Roots, Rooted
<1>13. Rest(u2, fr2, ls)
  BY <1>1, <1>3, <1>6, OtherUses DEF Rest, Rooted
<1>14. Stacks(u2, ks)
  <2>1. \A p \in Proc : u2[f] # StackOf(p) /\ u[f] # StackOf(p)
    BY <1>3, <1>6, OtherUses
  <2>. QED BY <1>1, <1>3, <1>6, <2>1 DEF Stacks
<1>15. Refs(u2, r)
  BY <1>1, <1>3, <1>6, OtherUses DEF Refs
<1>. QED BY <1>2, <1>6, <1>7, <1>8, <1>10, <1>11, <1>12, <1>13, <1>14, <1>15 DEF Uses

\* The place that is pl in the other one of two mms.
Moved(p, q, pl) == [pl EXCEPT !.s = IF pl.s = p THEN q ELSE IF pl.s = q THEN p ELSE pl.s]

\* Exchanging two mms keeps the trees.
LEMMA MovedPlaces ==
  ASSUME NEW p \in Space, NEW q \in Space
  PROVE  /\ \A pl \in Place : /\ Moved(p, q, pl) \in Place /\ Moved(p, q, pl).lev = pl.lev
                              /\ Moved(p, q, Moved(p, q, pl)) = pl
                              /\ Moved(p, q, pl).s = IF pl.s = p THEN q ELSE IF pl.s = q THEN p ELSE pl.s
                              /\ pl.s # p /\ pl.s # q => Moved(p, q, pl) = pl
         /\ \A pl \in Place, x \in Index : Moved(p, q, Under(pl, x)) = Under(Moved(p, q, pl), x)
         /\ \A s \in Space : Moved(p, q, Root(s)) = Root(IF s = p THEN q ELSE IF s = q THEN p ELSE s)
<1>1. ASSUME NEW pl \in Place
      PROVE  /\ Moved(p, q, pl) \in Place /\ Moved(p, q, pl).lev = pl.lev
             /\ Moved(p, q, Moved(p, q, pl)) = pl
             /\ Moved(p, q, pl).s = IF pl.s = p THEN q ELSE IF pl.s = q THEN p ELSE pl.s
             /\ pl.s # p /\ pl.s # q => Moved(p, q, pl) = pl
  BY DEF Moved, Place
<1>2. ASSUME NEW pl \in Place, NEW x \in Index
      PROVE  Moved(p, q, Under(pl, x)) = Under(Moved(p, q, pl), x)
  BY DEF Moved, Place, Under
<1>3. ASSUME NEW s \in Space
      PROVE  Moved(p, q, Root(s)) = Root(IF s = p THEN q ELSE IF s = q THEN p ELSE s)
  BY DEF Moved, Root
<1>. QED BY <1>1, <1>2, <1>3

\* The mm of p becomes the one of q.
LEMMA MoveUses ==
  ASSUME NEW u, NEW w, NEW m, NEW r, NEW fr, NEW rt, NEW ks, NEW ls,
         Uses(u, w, m, r, fr, rt, ks, ls),
         NEW p \in Space, NEW q \in Space, rt[q] = NoFrame,
         NEW rt2 \in [Space -> Frame0],
         rt2[p] = IF p = q THEN rt[p] ELSE NoFrame, rt2[q] = rt[p],
         \A s \in Space : s # p /\ s # q => rt2[s] = rt[s]
  PROVE  \E u2, w2 :
           /\ Uses(u2, w2, m, r, fr, rt2, ks, ls)
           /\ \A pl \in Place : w2[pl] = w[Moved(p, q, pl)]
<1>1. /\ Kinds(u, w, m, r, fr, rt, ks, ls) /\ Marks(u, w)
      /\ Linked(w, m) /\ Pages(w, m) /\ Roots(w, rt)
      /\ Rest(u, fr, ls) /\ Stacks(u, ks) /\ Refs(u, r)
  BY DEF Uses
<1>2. PICK mv : mv = [pl \in Place |-> Moved(p, q, pl)]
  OBVIOUS
<1>3. /\ \A pl \in Place : mv[pl] = Moved(p, q, pl) /\ mv[pl] \in Place /\ mv[pl].lev = pl.lev /\ mv[mv[pl]] = pl
      /\ \A pl \in Place : pl.lev # 3 => \A x \in Index : mv[Under(pl, x)] = Under(mv[pl], x)
      /\ \A s \in Space : mv[Root(s)] = Root(IF s = p THEN q ELSE IF s = q THEN p ELSE s)
  BY <1>2, MovedPlaces, Trees
<1>4. PICK u2 : u2 = [f \in Frame |-> IF u[f] \in Place THEN mv[u[f]] ELSE u[f]]
  OBVIOUS
<1>5. PICK w2 : w2 = [pl \in Place |-> w[mv[pl]]]
  OBVIOUS
<1>6. /\ u2 \in [Frame -> Tag] /\ w2 \in [Place -> Frame0]
      /\ \A f \in Frame : u2[f] = IF u[f] \in Place THEN mv[u[f]] ELSE u[f]
      /\ \A pl \in Place : w2[pl] = w[mv[pl]]
  BY <1>1, <1>3, <1>4, <1>5 DEF Kinds, Tag
<1>7. Kinds(u2, w2, m, r, fr, rt2, ks, ls)
  BY <1>1, <1>6 DEF Kinds
<1>8. Marks(u2, w2)
  BY <1>1, <1>3, <1>6 DEF Marks, Kinds, Frame0
<1>9. Linked(w2, m)
  <2>1. ASSUME NEW pl \in Place, pl.lev # 3
        PROVE  /\ w2[pl] = NoFrame => \A x \in Index : w2[Under(pl, x)] = NoFrame
               /\ w2[pl] # NoFrame =>
                    m[w2[pl]] \in Table /\ \A x \in Index : m[w2[pl]][x] = w2[Under(pl, x)]
    <3>1. mv[pl] \in Place /\ mv[pl].lev # 3 /\ w2[pl] = w[mv[pl]]
      BY <1>3, <1>6, <2>1
    <3>2. \A x \in Index : w2[Under(pl, x)] = w[Under(mv[pl], x)]
      BY <1>3, <1>6, <2>1, Trees
    <3>. QED BY <1>1, <3>1, <3>2 DEF Linked
  <2>. QED BY <2>1 DEF Linked
<1>10. Pages(w2, m)
  BY <1>1, <1>3, <1>6 DEF Pages
<1>11. Roots(w2, rt2)
  BY <1>1, <1>3, <1>6, Trees DEF Roots
<1>12. Rest(u2, fr, ls)
  BY <1>1, <1>3, <1>6, OtherUses DEF Rest
<1>13. Stacks(u2, ks)
  BY <1>1, <1>3, <1>6, OtherUses DEF Stacks
<1>14. Refs(u2, r)
  BY <1>1, <1>3, <1>6, OtherUses DEF Refs
<1>. QED BY <1>3, <1>6, <1>7, <1>8, <1>9, <1>10, <1>11, <1>12, <1>13, <1>14 DEF Uses

-----------------------------------------------------------------------------
(* A page is written, a kernel stack comes and goes.                       *)

\* The page at pl holds v.
LEMMA FillUses ==
  ASSUME NEW u, NEW w, NEW m, NEW r, NEW fr, NEW rt, NEW ks, NEW ls,
         Uses(u, w, m, r, fr, rt, ks, ls),
         NEW pl \in Place, pl.lev = 3, w[pl] # NoFrame, NEW v \in Value
  PROVE  Uses(u, w, [m EXCEPT ![w[pl]] = v], r, fr, rt, ks, ls)
<1>1. /\ Kinds(u, w, m, r, fr, rt, ks, ls) /\ Marks(u, w)
      /\ Linked(w, m) /\ Pages(w, m) /\ Roots(w, rt)
      /\ Rest(u, fr, ls) /\ Stacks(u, ks) /\ Refs(u, r)
  BY DEF Uses
<1>2. PICK m2 : m2 = [m EXCEPT ![w[pl]] = v]
  OBVIOUS
<1>3. /\ m2 \in [Frame -> Table \cup Value]
      /\ \A q \in Place : w[q] # NoFrame => m2[w[q]] = IF q = pl THEN v ELSE m[w[q]]
  BY <1>1, <1>2 DEF Kinds, Marks, Frame0
<1>4. Kinds(u, w, m2, r, fr, rt, ks, ls)
  BY <1>1, <1>3 DEF Kinds
<1>5. Linked(w, m2)
  BY <1>1, <1>3 DEF Linked
<1>6. Pages(w, m2)
  BY <1>1, <1>3 DEF Pages
<1>. QED BY <1>1, <1>2, <1>4, <1>5, <1>6 DEF Uses

\* The frames of a kernel stack are taken, or given back.
LEMMA StackUses ==
  ASSUME NEW u, NEW w, NEW m, NEW r, NEW fr, NEW rt, NEW ks, NEW ls,
         Uses(u, w, m, r, fr, rt, ks, ls),
         NEW p \in Proc, ks[p] = NoFrame, NEW base \in fr,
         NEW B, B = base .. base + KSTACKPAGE - 1, B \subseteq fr
  PROVE  \E u2 : Uses(u2, w, m, r, fr \ B, rt, [ks EXCEPT ![p] = base], ls)
<1>1. /\ Kinds(u, w, m, r, fr, rt, ks, ls) /\ Marks(u, w)
      /\ Linked(w, m) /\ Pages(w, m) /\ Roots(w, rt)
      /\ Rest(u, fr, ls) /\ Stacks(u, ks) /\ Refs(u, r)
  BY DEF Uses
<1>2. PICK ks2 : ks2 = [ks EXCEPT ![p] = base]
  OBVIOUS
<1>3. PICK u2 : u2 = [f \in Frame |-> IF f \in B THEN StackOf(p) ELSE u[f]]
  OBVIOUS
<1>4. /\ u2 \in [Frame -> Tag] /\ ks2 \in [Proc -> Frame0]
      /\ \A f \in Frame : u2[f] = IF f \in B THEN StackOf(p) ELSE u[f]
      /\ ks2[p] = base /\ base # NoFrame /\ \A q \in Proc : q # p => ks2[q] = ks[q]
      /\ B \subseteq Frame /\ \A f \in B : u[f] = Spare
  BY <1>1, <1>2, <1>3 DEF Kinds, Tag, Frame0, Frame, NoFrame, Rest
<1>5. base + KSTACKPAGE - 1 \in B
  BY <1>4, TableSizes DEF Frame
<1>6. Kinds(u2, w, m, r, fr \ B, rt, ks2, ls)
  BY <1>1, <1>4 DEF Kinds
<1>7. Marks(u2, w)
  <2>1. ASSUME NEW q \in Place, w[q] # NoFrame PROVE u2[w[q]] = q
    BY <1>1, <1>4, <2>1, OtherUses DEF Marks, Kinds, Frame0
  <2>2. ASSUME NEW g \in Frame, u2[g] \in Place PROVE w[u2[g]] = g
    BY <1>1, <1>4, <2>2, OtherUses DEF Marks
  <2>. QED BY <2>1, <2>2 DEF Marks
<1>8. Rest(u2, fr \ B, ls)
  BY <1>1, <1>4, OtherUses DEF Rest
<1>9. Stacks(u2, ks2)
  <2>1. ASSUME NEW q \in Proc
        PROVE  /\ ks2[q] # NoFrame => ks2[q] + KSTACKPAGE - 1 \in Frame
               /\ \A f \in Frame : u2[f] = StackOf(q) <=> InStack(ks2, q, f)
    <3>1. CASE q = p
      <4>1. \A f \in Frame : f \notin B => u[f] # StackOf(p)
        BY <1>1 DEF Stacks, InStack
      <4>2. \A f \in Frame : InStack(ks2, p, f) <=> f \in B
        BY <1>4 DEF InStack
      <4>. QED BY <1>4, <1>5, <3>1, <4>1, <4>2
    <3>2. CASE q # p
      <4>1. \A f \in Frame : u2[f] = StackOf(q) <=> u[f] = StackOf(q)
        BY <1>4, <3>2, OtherUses
      <4>. QED BY <1>1, <1>4, <3>2, <4>1 DEF Stacks, InStack
    <3>. QED BY <3>1, <3>2
  <2>. QED BY <2>1 DEF Stacks
<1>10. Refs(u2, r)
  BY <1>1, <1>4, OtherUses DEF Refs
<1>. QED BY <1>1, <1>2, <1>6, <1>7, <1>8, <1>9, <1>10 DEF Uses

\* The kernel stack of a process goes back to the free frames.
LEMMA UnstackUses ==
  ASSUME NEW u, NEW w, NEW m, NEW r, NEW fr, NEW rt, NEW ks, NEW ls,
         Uses(u, w, m, r, fr, rt, ks, ls),
         NEW p \in Proc, ks[p] # NoFrame,
         NEW B, B = ks[p] .. ks[p] + KSTACKPAGE - 1
  PROVE  \E u2 : Uses(u2, w, m, r, fr \cup B, rt, [ks EXCEPT ![p] = NoFrame], ls)
<1>1. /\ Kinds(u, w, m, r, fr, rt, ks, ls) /\ Marks(u, w)
      /\ Linked(w, m) /\ Pages(w, m) /\ Roots(w, rt)
      /\ Rest(u, fr, ls) /\ Stacks(u, ks) /\ Refs(u, r)
  BY DEF Uses
<1>2. PICK ks2 : ks2 = [ks EXCEPT ![p] = NoFrame]
  OBVIOUS
<1>3. PICK u2 : u2 = [f \in Frame |-> IF f \in B THEN Spare ELSE u[f]]
  OBVIOUS
<1>4. B \subseteq Frame
  BY <1>1, TableSizes DEF Stacks, Kinds, Frame0, Frame, NoFrame
<1>5. \A f \in Frame : f \in B <=> u[f] = StackOf(p)
  BY <1>1 DEF Stacks, InStack
<1>6. /\ u2 \in [Frame -> Tag] /\ ks2 \in [Proc -> Frame0]
      /\ \A f \in Frame : u2[f] = IF f \in B THEN Spare ELSE u[f]
      /\ ks2[p] = NoFrame /\ \A q \in Proc : q # p => ks2[q] = ks[q]
  BY <1>1, <1>2, <1>3 DEF Kinds, Tag, Frame0
<1>7. Kinds(u2, w, m, r, fr \cup B, rt, ks2, ls)
  BY <1>1, <1>4, <1>6 DEF Kinds
<1>8. Marks(u2, w)
  BY <1>1, <1>5, <1>6, OtherUses DEF Marks, Kinds, Frame0
<1>9. Rest(u2, fr \cup B, ls)
  BY <1>1, <1>5, <1>6, OtherUses DEF Rest
<1>10. Stacks(u2, ks2)
  <2>1. ASSUME NEW q \in Proc
        PROVE  /\ ks2[q] # NoFrame => ks2[q] + KSTACKPAGE - 1 \in Frame
               /\ \A f \in Frame : u2[f] = StackOf(q) <=> InStack(ks2, q, f)
    <3>1. CASE q = p
      BY <1>5, <1>6, <3>1, OtherUses DEF InStack
    <3>2. CASE q # p
      <4>1. \A f \in Frame : u2[f] = StackOf(q) <=> u[f] = StackOf(q)
        BY <1>5, <1>6, <3>2, OtherUses
      <4>. QED BY <1>1, <1>6, <3>2, <4>1 DEF Stacks, InStack
    <3>. QED BY <3>1, <3>2
  <2>. QED BY <2>1 DEF Stacks
<1>11. Refs(u2, r)
  BY <1>1, <1>5, <1>6, OtherUses DEF Refs
<1>. QED BY <1>1, <1>2, <1>7, <1>8, <1>9, <1>10, <1>11 DEF Uses

-----------------------------------------------------------------------------
(* Frames that are taken.                                                  *)

\* The frame the k-th call in a row gets.
Kth(fr, k) == CHOOSE f \in fr : Cardinality({g \in fr : g < f}) = k - 1

\* The lowest member of a set.
LEMMA LowestIn ==
  ASSUME NEW X \in SUBSET Nat, X # {}
  PROVE  \E f \in X : \A g \in X : g \in Nat /\ f \in Nat /\ f <= g /\ (g < f <=> FALSE)
<1>. DEFINE R == {ss \in Nat \X Nat : ss[1] < ss[2]}
<1>1. IsWellFoundedOn(R, Nat)
  BY NatLessThanWellFounded DEF OpToRel
<1>. HIDE DEF R
<1>2. PICK f \in X : \A g \in X : <<g, f>> \notin R
  BY <1>1, WFMin
<1>3. \A g \in X : <<g, f>> \in R <=> g < f
  BY DEF R
<1>4. \A g \in X : g \in Nat /\ f \in Nat /\ ~(g < f)
  BY <1>2, <1>3
<1>. QED BY <1>4

\* Frames are finitely many.
LEMMA FramesFinite == IsFiniteSet(Frame) /\ Frame \subseteq Nat /\ Cardinality(Frame) = NFrame
BY TableSizes, FS_Interval DEF Frame

\* Up to three calls in a row get different free frames.
LEMMA KthFree ==
  ASSUME NEW fr \in SUBSET Frame, NEW k \in 1 .. 3, Cardinality(fr) >= k
  PROVE  Kth(fr, k) \in fr /\ Cardinality({g \in fr : g < Kth(fr, k)}) = k - 1
<1>1. IsFiniteSet(fr) /\ fr \subseteq Nat /\ Cardinality(fr) \in Nat
  BY FramesFinite, FS_Subset, FS_CardinalityType
<1>2. fr # {}
  BY <1>1, FS_EmptySet
<1>3. PICK f1 \in fr : \A g \in fr : g \in Nat /\ f1 \in Nat /\ f1 <= g /\ (g < f1 <=> FALSE)
  BY <1>1, <1>2, LowestIn
<1>4. {g \in fr : g < f1} = {}
  BY <1>3
<1>5. CASE k = 1
  <2>1. Cardinality({g \in fr : g < f1}) = k - 1
    BY <1>4, <1>5, FS_EmptySet
  <2>. QED BY <1>3, <2>1 DEF Kth
<1>6. PICK X2 : X2 = fr \ {f1}
  OBVIOUS
<1>7. /\ IsFiniteSet(X2) /\ X2 \subseteq Nat /\ Cardinality(X2) = Cardinality(fr) - 1
  BY <1>1, <1>3, <1>6, FS_RemoveElement
<1>8. CASE k # 1
  <2>1. X2 # {}
    BY <1>1, <1>7, <1>8, FS_EmptySet
  <2>2. PICK f2 \in X2 : \A g \in X2 : g \in Nat /\ f2 \in Nat /\ f2 <= g /\ (g < f2 <=> FALSE)
    BY <1>7, <2>1, LowestIn
  <2>3. {g \in fr : g < f2} = {f1}
    <3>1. \A g \in fr : g # f1 => (g < f2 <=> FALSE)
      BY <1>6, <2>2
    <3>2. f1 < f2
      BY <1>3, <1>6, <2>2
    <3>. QED BY <3>1, <3>2
  <2>4. CASE k = 2
    <3>0. Cardinality({f1}) = 1
      BY FS_Singleton
    <3>1. Cardinality({g \in fr : g < f2}) = k - 1
      BY <2>3, <2>4, <3>0
    <3>. QED BY <1>6, <2>2, <3>1 DEF Kth
  <2>5. CASE k = 3
    <3>1. PICK X3 : X3 = X2 \ {f2}
      OBVIOUS
    <3>2. IsFiniteSet(X3) /\ X3 \subseteq Nat /\ Cardinality(X3) = Cardinality(fr) - 2
      BY <1>1, <1>7, <2>2, <3>1, FS_RemoveElement
    <3>3. X3 # {}
      BY <1>1, <2>5, <3>2, FS_EmptySet
    <3>4. PICK f3 \in X3 : \A g \in X3 : g \in Nat /\ f3 \in Nat /\ f3 <= g /\ (g < f3 <=> FALSE)
      BY <3>2, <3>3, LowestIn
    <3>5. {g \in fr : g < f3} = {f1} \cup {f2}
      <4>1. \A g \in fr : g # f1 /\ g # f2 => (g < f3 <=> FALSE)
        BY <1>6, <3>1, <3>4
      <4>2. f1 < f3 /\ f2 < f3
        BY <1>3, <1>6, <2>2, <3>1, <3>4
      <4>. QED BY <1>6, <2>2, <4>1, <4>2
    <3>6. Cardinality({f1} \cup {f2}) = 2
      <4>1. f2 \notin {f1} /\ IsFiniteSet({f1}) /\ Cardinality({f1}) = 1
        BY <1>6, <2>2, FS_Singleton
      <4>2. Cardinality({f1} \cup {f2}) = IF f2 \in {f1} THEN Cardinality({f1}) ELSE Cardinality({f1}) + 1
        BY <4>1, FS_AddElement
      <4>. QED BY <4>1, <4>2
    <3>7. Cardinality({g \in fr : g < f3}) = k - 1
      BY <2>5, <3>5, <3>6
    <3>. QED BY <1>6, <3>1, <3>4, <3>7 DEF Kth
  <2>. QED BY <1>8, <2>4, <2>5
<1>. QED BY <1>5, <1>8

\* ... which differ.
LEMMA KthDiffer ==
  ASSUME NEW fr \in SUBSET Frame, NEW k \in 1 .. 3, Cardinality(fr) >= k,
         NEW j \in 1 .. k - 1
  PROVE  Kth(fr, j) # Kth(fr, k)
<1>1. Cardinality(fr) \in Nat
  BY FramesFinite, FS_Subset, FS_CardinalityType
<1>2. Cardinality({g \in fr : g < Kth(fr, k)}) = k - 1
  BY KthFree
<1>3. Cardinality({g \in fr : g < Kth(fr, j)}) = j - 1
  <2>1. j \in 1 .. 3 /\ Cardinality(fr) >= j
    BY <1>1
  <2>. QED BY <2>1, KthFree
<1>. QED BY <1>2, <1>3

-----------------------------------------------------------------------------
(* Walks through the tables.                                               *)

DirAt(s, la)   == Under(Root(s), PDX1(la))
TableAt(s, la) == Under(DirAt(s, la), PDX0(la))
PageAt(s, la)  == Under(TableAt(s, la), PTX(la))

\* The places of an address.
LEMMA WayDown ==
  ASSUME NEW s \in Space, NEW la \in Page
  PROVE  /\ DirAt(s, la) \in Place /\ DirAt(s, la).lev = 1 /\ DirAt(s, la).s = s
         /\ Above(DirAt(s, la)) = Root(s) /\ Key(DirAt(s, la)) = PDX1(la)
         /\ TableAt(s, la) \in Place /\ TableAt(s, la).lev = 2 /\ TableAt(s, la).s = s
         /\ Above(TableAt(s, la)) = DirAt(s, la) /\ Key(TableAt(s, la)) = PDX0(la)
         /\ PageAt(s, la) \in Place /\ PageAt(s, la).lev = 3 /\ PageAt(s, la).s = s
         /\ Above(PageAt(s, la)) = TableAt(s, la) /\ Key(PageAt(s, la)) = PTX(la)
<1>1. /\ DirAt(s, la) \in Place /\ DirAt(s, la).lev = 1 /\ DirAt(s, la).s = s
      /\ Above(DirAt(s, la)) = Root(s) /\ Key(DirAt(s, la)) = PDX1(la)
  BY Indices, Trees DEF DirAt
<1>2. /\ TableAt(s, la) \in Place /\ TableAt(s, la).lev = 2 /\ TableAt(s, la).s = s
      /\ Above(TableAt(s, la)) = DirAt(s, la) /\ Key(TableAt(s, la)) = PDX0(la)
  BY <1>1, Indices, Trees DEF TableAt
<1>3. /\ PageAt(s, la) \in Place /\ PageAt(s, la).lev = 3 /\ PageAt(s, la).s = s
      /\ Above(PageAt(s, la)) = TableAt(s, la) /\ Key(PageAt(s, la)) = PTX(la)
  BY <1>2, Indices, Trees DEF PageAt
<1>. QED BY <1>1, <1>2, <1>3

\* Different pages are at different places, and every place of a page is one's.
LEMMA PagePlaces ==
  /\ \A s, t \in Space : \A la, lb \in Page :
       PageAt(s, la) = PageAt(t, lb) => s = t /\ la = lb
  /\ \A pl \in Place : pl.lev = 3 => \E la \in Page : pl = PageAt(pl.s, la)
<1>1. ASSUME NEW s \in Space, NEW t \in Space, NEW la \in Page, NEW lb \in Page,
             PageAt(s, la) = PageAt(t, lb)
      PROVE  s = t /\ la = lb
  <2>1. s = t /\ PTX(la) = PTX(lb) /\ TableAt(s, la) = TableAt(t, lb)
    BY <1>1, WayDown
  <2>2. PDX0(la) = PDX0(lb) /\ DirAt(s, la) = DirAt(t, lb)
    BY <2>1, WayDown
  <2>3. PDX1(la) = PDX1(lb)
    BY <2>2, WayDown
  <2>. QED BY <2>1, <2>2, <2>3, SameIndices
<1>2. ASSUME NEW pl \in Place, pl.lev = 3 PROVE \E la \in Page : pl = PageAt(pl.s, la)
  <2>1. PICK t \in Place, c \in Index : t = Above(pl) /\ c = Key(pl) /\ t.lev = 2 /\ t.s = pl.s /\ pl = Under(t, c)
    BY <1>2, Trees
  <2>2. PICK d \in Place, b \in Index : d = Above(t) /\ b = Key(t) /\ d.lev = 1 /\ d.s = pl.s /\ t = Under(d, b)
    BY <2>1, Trees
  <2>3. PICK a \in Index : a = Key(d) /\ d = Under(Root(pl.s), a)
    BY <2>2, Trees
  <2>4. PICK la \in Page : PDX1(la) = a /\ PDX0(la) = b /\ PTX(la) = c
    BY IndicesInverse
  <2>. QED BY <2>1, <2>2, <2>3, <2>4 DEF PageAt, TableAt, DirAt
<1>. QED BY <1>1, <1>2

\* Pd0, Pt and Pte, for the memory m.
WalkD(m, g, la) == m[g][PDX1(la)]
WalkT(m, g, la) == IF WalkD(m, g, la) = NoFrame THEN NoFrame ELSE m[WalkD(m, g, la)][PDX0(la)]
WalkP(m, g, la) == IF WalkT(m, g, la) = NoFrame THEN NoFrame ELSE m[WalkT(m, g, la)][PTX(la)]

\* A walk leads to the frames at the places of the address.
LEMMA WalkIs ==
  ASSUME NEW u, NEW w, NEW m, NEW r, NEW fr, NEW rt, NEW ks, NEW ls,
         Uses(u, w, m, r, fr, rt, ks, ls),
         NEW s \in Space, NEW la \in Page
  PROVE  /\ rt[s] = NoFrame => w[PageAt(s, la)] = NoFrame
         /\ rt[s] # NoFrame => /\ WalkD(m, rt[s], la) = w[DirAt(s, la)]
                               /\ WalkT(m, rt[s], la) = w[TableAt(s, la)]
                               /\ WalkP(m, rt[s], la) = w[PageAt(s, la)]
<1>1. Linked(w, m) /\ Roots(w, rt)
  BY DEF Uses
<1>2. w[Root(s)] = rt[s] /\ Root(s) \in Place /\ Root(s).lev = 0
  BY <1>1, Trees DEF Roots
<1>3. PICK d, t, p : d = DirAt(s, la) /\ t = TableAt(s, la) /\ p = PageAt(s, la)
  OBVIOUS
<1>4. d \in Place /\ d.lev = 1 /\ t \in Place /\ t.lev = 2
  BY <1>3, WayDown
<1>5. /\ PDX1(la) \in Index /\ PDX0(la) \in Index /\ PTX(la) \in Index
      /\ d = Under(Root(s), PDX1(la)) /\ t = Under(d, PDX0(la)) /\ p = Under(t, PTX(la))
  BY <1>3, Indices DEF DirAt, TableAt, PageAt
<1>6. /\ rt[s] = NoFrame => w[d] = NoFrame
      /\ rt[s] # NoFrame => m[rt[s]][PDX1(la)] = w[d]
  BY <1>1, <1>2, <1>5 DEF Linked
<1>7. /\ w[d] = NoFrame => w[t] = NoFrame
      /\ w[d] # NoFrame => m[w[d]][PDX0(la)] = w[t]
  BY <1>1, <1>4, <1>5 DEF Linked
<1>8. /\ w[t] = NoFrame => w[p] = NoFrame
      /\ w[t] # NoFrame => m[w[t]][PTX(la)] = w[p]
  BY <1>1, <1>4, <1>5 DEF Linked
<1>. QED BY <1>3, <1>6, <1>7, <1>8 DEF WalkD, WalkT, WalkP

-----------------------------------------------------------------------------
(* What pages hold.                                                        *)

Fits(m, r, fr, rt, ks, ls) == \E u, w : Uses(u, w, m, r, fr, rt, ks, ls)

\* What page la of s holds, NULL when it is not mapped.
Contents(m, rt) ==
  [s \in Space |-> [la \in Page |->
     IF rt[s] = NoFrame THEN NULL
     ELSE IF WalkP(m, rt[s], la) = NoFrame THEN NULL ELSE m[WalkP(m, rt[s], la)]]]

\* The contents are those of the frames at the places of pages.
LEMMA ContentsAre ==
  ASSUME NEW u, NEW w, NEW m, NEW r, NEW fr, NEW rt, NEW ks, NEW ls,
         Uses(u, w, m, r, fr, rt, ks, ls)
  PROVE  /\ Contents(m, rt) \in [Space -> [Page -> Value \cup {NULL}]]
         /\ \A s \in Space, la \in Page :
              /\ w[PageAt(s, la)] \in Frame0
              /\ Contents(m, rt)[s][la] = IF w[PageAt(s, la)] = NoFrame THEN NULL ELSE m[w[PageAt(s, la)]]
              /\ w[PageAt(s, la)] = NoFrame <=> Contents(m, rt)[s][la] = NULL
<1>1. ASSUME NEW s \in Space, NEW la \in Page
      PROVE  /\ w[PageAt(s, la)] \in Frame0
             /\ Contents(m, rt)[s][la] = IF w[PageAt(s, la)] = NoFrame THEN NULL ELSE m[w[PageAt(s, la)]]
             /\ w[PageAt(s, la)] # NoFrame => m[w[PageAt(s, la)]] \in Value
  <2>1. PageAt(s, la) \in Place /\ PageAt(s, la).lev = 3
    BY WayDown
  <2>2. w[PageAt(s, la)] \in Frame0 /\ (w[PageAt(s, la)] # NoFrame => m[w[PageAt(s, la)]] \in Value)
    BY <2>1 DEF Uses, Kinds, Pages
  <2>3. Contents(m, rt)[s][la] =
          IF rt[s] = NoFrame THEN NULL
          ELSE IF WalkP(m, rt[s], la) = NoFrame THEN NULL ELSE m[WalkP(m, rt[s], la)]
    BY DEF Contents
  <2>. QED BY <2>2, <2>3, WalkIs
<1>2. NULL \notin Value
  BY VmmAssumption
<1>3. \A s \in Space, la \in Page : Contents(m, rt)[s][la] \in Value \cup {NULL}
  BY <1>1
<1>4. Contents(m, rt) \in [Space -> [Page -> Value \cup {NULL}]]
  BY <1>3 DEF Contents
<1>. QED BY <1>1, <1>2, <1>4

\* Page la of s holds v from now on, the others what they held.
Puts(h, h2, s, la, v) ==
  /\ h2 \in [Space -> [Page -> Value \cup {NULL}]]
  /\ \A t \in Space, lb \in Page : h2[t][lb] = IF t = s /\ lb = la THEN v ELSE h[t][lb]

-----------------------------------------------------------------------------
(* get_pte and page_insert.                                                *)

\* What changes when the frame f goes to pl.
Gets(w, m, r, pl, f, v, w2, m2, r2) ==
  /\ m2 \in [Frame -> Table \cup Value] /\ r2 \in [Frame -> Nat]
  /\ f \in Frame /\ w[Above(pl)] \in Frame /\ f # w[Above(pl)] /\ m[w[Above(pl)]] \in Table
  /\ m2[f] = v
  /\ m2[w[Above(pl)]] = [m[w[Above(pl)]] EXCEPT ![Key(pl)] = f]
  /\ \A g \in Frame : g # f /\ g # w[Above(pl)] => m2[g] = m[g]
  /\ \A g \in Frame : r2[g] = IF g = f THEN 1 ELSE r[g]
  /\ w2[pl] = f /\ \A q \in Place : q # pl => w2[q] = w[q]

\* A free frame may go to an empty place.
LEMMA AddOne ==
  ASSUME NEW u, NEW w, NEW m, NEW r, NEW fr, NEW rt, NEW ks, NEW ls,
         Uses(u, w, m, r, fr, rt, ks, ls),
         NEW pl \in Place, pl.lev # 0, w[pl] = NoFrame, w[Above(pl)] # NoFrame,
         NEW f \in fr, NEW v, IF pl.lev = 3 THEN v \in Value ELSE v = Empty,
         NEW fr2, fr2 = fr \ {f}
  PROVE  \E u2, w2, m2, r2 :
           Uses(u2, w2, m2, r2, fr2, rt, ks, ls) /\ Gets(w, m, r, pl, f, v, w2, m2, r2)
<1>1. /\ Kinds(u, w, m, r, fr, rt, ks, ls) /\ Marks(u, w) /\ Linked(w, m) /\ Rest(u, fr, ls)
  BY DEF Uses
<1>2. Above(pl) \in Place /\ Above(pl).lev # 3 /\ Key(pl) \in Index
  BY Trees
<1>3. PICK g : g = w[Above(pl)]
  OBVIOUS
<1>4. g \in Frame /\ m[g] \in Table /\ u[g] = Above(pl)
  BY <1>1, <1>2, <1>3 DEF Kinds, Linked, Marks, Frame0
<1>5. f \in Frame /\ u[f] = Spare
  BY <1>1 DEF Kinds, Rest
<1>6. f # g
  BY <1>2, <1>4, <1>5, OtherUses
<1>7. PICK t : t = [m[g] EXCEPT ![Key(pl)] = f]
  OBVIOUS
<1>8. t \in Table /\ \A x \in Index : t[x] = IF x = Key(pl) THEN f ELSE m[g][x]
  BY <1>2, <1>4, <1>5, <1>7 DEF Table
<1>9. PICK m2 : m2 = [m EXCEPT ![f] = v, ![g] = t]
  OBVIOUS
<1>10. PICK r2 : r2 = [r EXCEPT ![f] = 1]
  OBVIOUS
<1>11. /\ m2 \in [Frame -> Table \cup Value] /\ r2 \in [Frame -> Nat]
       /\ m2[f] = v /\ m2[g] = t
       /\ \A h \in Frame : h # f /\ h # g => m2[h] = m[h]
       /\ \A h \in Frame : r2[h] = IF h = f THEN 1 ELSE r[h]
  BY <1>1, <1>4, <1>5, <1>6, <1>8, <1>9, <1>10, EmptyTable DEF Kinds
<1>12. Added(w, m, r, fr, pl, f, v, m2, r2, fr2)
  BY <1>3, <1>8, <1>11 DEF Added
<1>13. PICK u2, w2 : /\ Uses(u2, w2, m2, r2, fr2, rt, ks, ls)
                     /\ w2[pl] = f /\ \A q \in Place : q # pl => w2[q] = w[q]
  BY <1>12, AddUses
<1>14. Gets(w, m, r, pl, f, v, w2, m2, r2)
  BY <1>3, <1>4, <1>5, <1>6, <1>7, <1>11, <1>13 DEF Gets
<1>. QED BY <1>13, <1>14

\* Map, for the memory m: a is the level 0 directory and b the page table of
\* la, of which those in new are new.
Maps(m, r, fr, g, la, new, a, b, page, v, m2, r2, fr2) ==
  /\ m2 = [m EXCEPT ![page] = v,
                    ![g][PDX1(la)] = a,
                    ![a] = [IF a \in new THEN Empty ELSE m[a] EXCEPT ![PDX0(la)] = b],
                    ![b] = [IF b \in new THEN Empty ELSE m[b] EXCEPT ![PTX(la)] = page]]
  /\ r2 = [f \in Frame |-> IF f \in new THEN 1 ELSE IF f = page THEN r[f] + 1 ELSE r[f]]
  /\ fr2 = fr \ (new \cup {page})

\* The tables that a walk finds, and the frames that are taken.
Found(m, fr, g, la, new, a, b, page) ==
  /\ page \in fr /\ page # a /\ page # b /\ a # b
  /\ IF WalkD(m, g, la) = NoFrame THEN new = {a, b} /\ a \in fr /\ b \in fr
     ELSE /\ a = WalkD(m, g, la)
          /\ IF WalkT(m, g, la) = NoFrame THEN new = {b} /\ b \in fr
             ELSE b = WalkT(m, g, la) /\ new = {}

\* An entry that stays.
LEMMA SameEntry ==
  ASSUME NEW t \in Table, NEW x \in Index PROVE [t EXCEPT ![x] = t[x]] = t
BY DEF Table

\* Functions with the same values are one.
LEMMA SameFunction ==
  ASSUME NEW S, NEW X, NEW f \in [S -> X], NEW g, DOMAIN g = S, g = [x \in S |-> g[x]],
         \A x \in S : f[x] = g[x]
  PROVE  f = g
OBVIOUS

\* What Puts needs of the new frames and places.
LEMMA PutUses ==
  ASSUME NEW u, NEW w, NEW m, NEW r, NEW fr, NEW rt, NEW ks, NEW ls,
         Uses(u, w, m, r, fr, rt, ks, ls),
         NEW u2, NEW w2, NEW m2, NEW r2, NEW fr2,
         Uses(u2, w2, m2, r2, fr2, rt, ks, ls),
         NEW s \in Space, NEW la \in Page, NEW page \in Frame, NEW v \in Value,
         w2[PageAt(s, la)] = page, m2[page] = v,
         \A q \in Place : q.lev = 3 /\ q # PageAt(s, la) => w2[q] = w[q],
         \A q \in Place : q.lev = 3 /\ q # PageAt(s, la) /\ w[q] # NoFrame => m2[w[q]] = m[w[q]]
  PROVE  Puts(Contents(m, rt), Contents(m2, rt), s, la, v)
<1>1. PICK h, h2 : h = Contents(m, rt) /\ h2 = Contents(m2, rt)
  OBVIOUS
<1>2. /\ h \in [Space -> [Page -> Value \cup {NULL}]]
      /\ \A t \in Space, lb \in Page :
           h[t][lb] = IF w[PageAt(t, lb)] = NoFrame THEN NULL ELSE m[w[PageAt(t, lb)]]
  BY <1>1, ContentsAre
<1>3. /\ h2 \in [Space -> [Page -> Value \cup {NULL}]]
      /\ \A t \in Space, lb \in Page :
           h2[t][lb] = IF w2[PageAt(t, lb)] = NoFrame THEN NULL ELSE m2[w2[PageAt(t, lb)]]
  BY <1>1, ContentsAre
<1>4. page # NoFrame
  BY DEF Frame, NoFrame
<1>5. ASSUME NEW t \in Space, NEW lb \in Page
      PROVE  h2[t][lb] = IF t = s /\ lb = la THEN v ELSE h[t][lb]
  <2>1. PICK q \in Place : q = PageAt(t, lb) /\ q.lev = 3
    BY WayDown
  <2>2. PageAt(t, lb) = PageAt(s, la) => t = s /\ lb = la
    BY PagePlaces
  <2>. QED BY <1>2, <1>3, <1>4, <2>1, <2>2
<1>. QED BY <1>1, <1>3, <1>5 DEF Puts

\* A page goes to an address that has none: every frame has a use, and the
\* page holds v.
LEMMA MapFits ==
  ASSUME NEW m, NEW r, NEW fr, NEW rt, NEW ks, NEW ls,
         Fits(m, r, fr, rt, ks, ls),
         NEW s \in Space, rt[s] # NoFrame, NEW la \in Page, NEW v \in Value,
         Contents(m, rt)[s][la] = NULL,
         NEW new, NEW a, NEW b, NEW page, NEW m2, NEW r2, NEW fr2,
         Maps(m, r, fr, rt[s], la, new, a, b, page, v, m2, r2, fr2),
         Found(m, fr, rt[s], la, new, a, b, page)
  PROVE  Fits(m2, r2, fr2, rt, ks, ls) /\ Puts(Contents(m, rt), Contents(m2, rt), s, la, v)
<1>1. PICK u, w : Uses(u, w, m, r, fr, rt, ks, ls)
  BY DEF Fits
<1>2. /\ Kinds(u, w, m, r, fr, rt, ks, ls) /\ Marks(u, w) /\ Linked(w, m) /\ Roots(w, rt)
      /\ Rest(u, fr, ls) /\ Refs(u, r)
  BY <1>1 DEF Uses
<1>3. PICK g, rp, d, t, p : g = rt[s] /\ rp = Root(s) /\ d = DirAt(s, la) /\ t = TableAt(s, la) /\ p = PageAt(s, la)
  OBVIOUS
<1>4. /\ rp \in Place /\ rp.lev = 0
      /\ d \in Place /\ d.lev = 1 /\ Above(d) = rp /\ Key(d) = PDX1(la)
      /\ t \in Place /\ t.lev = 2 /\ Above(t) = d /\ Key(t) = PDX0(la)
      /\ p \in Place /\ p.lev = 3 /\ Above(p) = t /\ Key(p) = PTX(la)
      /\ rp # d /\ rp # t /\ rp # p /\ d # t /\ d # p /\ t # p
  BY <1>3, WayDown, Trees
<1>5. PDX1(la) \in Index /\ PDX0(la) \in Index /\ PTX(la) \in Index
  BY Indices
<1>6. /\ WalkD(m, g, la) = w[d] /\ WalkT(m, g, la) = w[t] /\ w[p] = NoFrame
      /\ w[rp] = g /\ g \in Frame /\ u[g] = rp
  <2>1. WalkD(m, g, la) = w[d] /\ WalkT(m, g, la) = w[t]
    BY <1>1, <1>3, WalkIs
  <2>2. w[p] = NoFrame
    BY <1>1, <1>3, ContentsAre
  <2>3. w[rp] = g /\ g # NoFrame
    BY <1>2, <1>3 DEF Roots
  <2>. QED BY <1>2, <1>4, <2>1, <2>2, <2>3 DEF Kinds, Marks, Frame0
<1>7. /\ page \in fr /\ page # a /\ page # b /\ a # b
      /\ IF w[d] = NoFrame THEN new = {a, b} /\ a \in fr /\ b \in fr
         ELSE /\ a = w[d]
              /\ IF w[t] = NoFrame THEN new = {b} /\ b \in fr
                 ELSE b = w[t] /\ new = {}
  BY <1>3, <1>6 DEF Found
<1>8. \A f \in fr : f \in Frame /\ u[f] = Spare /\ r[f] = 0
  BY <1>2, OtherUses DEF Kinds, Rest, Refs
<1>9. \A q \in Place : w[q] # NoFrame => w[q] \in Frame /\ u[w[q]] = q /\ w[q] \notin fr
  BY <1>2, <1>8, OtherUses DEF Marks, Kinds, Frame0
<1>10. /\ w[d] = NoFrame => w[t] = NoFrame
       /\ w[d] # NoFrame => m[w[d]] \in Table /\ m[w[d]][PDX0(la)] = w[t]
       /\ w[t] # NoFrame => m[w[t]] \in Table /\ m[w[t]][PTX(la)] = w[p]
       /\ m[g] \in Table /\ m[g][PDX1(la)] = w[d]
  <2>1. Under(rp, PDX1(la)) = d /\ Under(d, PDX0(la)) = t /\ Under(t, PTX(la)) = p
    BY <1>3 DEF DirAt, TableAt, PageAt
  <2>. QED BY <1>2, <1>3, <1>4, <1>5, <1>6, <2>1 DEF Linked
<1>11. /\ a \in Frame /\ b \in Frame /\ page \in Frame
       /\ page # g /\ a # g /\ b # g
  <2>1. page \in Frame /\ page # g
    BY <1>4, <1>6, <1>7, <1>8, OtherUses
  <2>2. a \in Frame /\ a # g
    BY <1>4, <1>6, <1>7, <1>8, <1>9, OtherUses
  <2>3. b \in Frame /\ b # g
    <3>1. w[t] # NoFrame => w[t] \in Frame /\ w[t] # g
      BY <1>4, <1>6, <1>9
    <3>2. \A f \in fr : f # g
      BY <1>4, <1>6, <1>8, OtherUses
    <3>. QED BY <1>7, <1>8, <3>1, <3>2
  <2>. QED BY <2>1, <2>2, <2>3
<1>12. m \in [Frame -> Table \cup Value] /\ r \in [Frame -> Nat]
  BY <1>2 DEF Kinds
<1>13. /\ DOMAIN m2 = Frame
       /\ m2[page] = v
       /\ m2[g] = [m[g] EXCEPT ![PDX1(la)] = a]
       /\ m2[a] = [IF a \in new THEN Empty ELSE m[a] EXCEPT ![PDX0(la)] = b]
       /\ m2[b] = [IF b \in new THEN Empty ELSE m[b] EXCEPT ![PTX(la)] = page]
       /\ \A f \in Frame : f \notin {page, g, a, b} => m2[f] = m[f]
  <2>1. PICK ta : ta = [IF a \in new THEN Empty ELSE m[a] EXCEPT ![PDX0(la)] = b]
    OBVIOUS
  <2>2. PICK tb : tb = [IF b \in new THEN Empty ELSE m[b] EXCEPT ![PTX(la)] = page]
    OBVIOUS
  <2>3. m2 = [m EXCEPT ![page] = v, ![g][PDX1(la)] = a, ![a] = ta, ![b] = tb]
    BY <1>3, <2>1, <2>2 DEF Maps
  <2>4. page # a /\ page # b /\ a # b
    BY <1>7
  <2>5. /\ DOMAIN m2 = Frame
        /\ m2[page] = v
        /\ m2[g] = [m[g] EXCEPT ![PDX1(la)] = a]
        /\ m2[a] = ta /\ m2[b] = tb
        /\ \A f \in Frame : f \notin {page, g, a, b} => m2[f] = m[f]
    BY <1>6, <1>11, <1>12, <2>3, <2>4
  <2>. QED BY <2>1, <2>2, <2>5
<1>14. /\ m2 = [f \in Frame |-> m2[f]]
       /\ r2 = [f \in Frame |-> IF f \in new THEN 1 ELSE IF f = page THEN r[f] + 1 ELSE r[f]]
       /\ fr2 = fr \ (new \cup {page})
  BY <1>12 DEF Maps
<1>15. new \subseteq fr
  BY <1>7
<1>16. \A f \in Frame : r2[f] = IF f \in new \cup {page} THEN 1 ELSE r[f]
  BY <1>7, <1>8, <1>14
<1>17. ASSUME NEW u3, NEW w3, Uses(u3, w3, m2, r2, fr2, rt, ks, ls), w3[p] = page,
              \A q \in Place : q.lev = 3 /\ q # p => w3[q] = w[q]
       PROVE  Fits(m2, r2, fr2, rt, ks, ls) /\ Puts(Contents(m, rt), Contents(m2, rt), s, la, v)
  <2>1. ASSUME NEW q \in Place, q.lev = 3, q # p, w[q] # NoFrame PROVE m2[w[q]] = m[w[q]]
    <3>1. w[q] \in Frame /\ u[w[q]] = q /\ w[q] \notin fr
      BY <1>9, <2>1
    <3>2. w[q] # page /\ w[q] # g /\ w[q] # a /\ w[q] # b
      BY <1>4, <1>6, <1>7, <1>9, <2>1, <3>1
    <3>. QED BY <1>13, <3>1, <3>2
  <2>2. Puts(Contents(m, rt), Contents(m2, rt), s, la, v)
    BY <1>1, <1>3, <1>11, <1>13, <1>17, <2>1, PutUses
  <2>. QED BY <1>17, <2>2 DEF Fits
<1>21. /\ a \in Frame /\ b \in Frame /\ page \in Frame /\ g \in Frame
       /\ page # a /\ page # b /\ page # g /\ a # b /\ a # g /\ b # g
       /\ a # page /\ b # page /\ g # page /\ b # a /\ g # a /\ g # b
  BY <1>6, <1>7, <1>11
<1>18. CASE w[d] # NoFrame /\ w[t] # NoFrame
  <2>1. a = w[d] /\ b = w[t] /\ new = {}
    BY <1>7, <1>18
  <2>2. PICK u3, w3, m3, r3 :
          Uses(u3, w3, m3, r3, fr2, rt, ks, ls) /\ Gets(w, m, r, p, page, v, w3, m3, r3)
    <3>1. fr2 = fr \ {page}
      BY <1>14, <2>1
    <3>. QED BY <1>1, <1>4, <1>6, <1>7, <1>18, <3>1, AddOne
  <2>3. /\ m3 \in [Frame -> Table \cup Value] /\ r3 \in [Frame -> Nat]
        /\ m3[page] = v /\ m3[b] = [m[b] EXCEPT ![PTX(la)] = page]
        /\ \A f \in Frame : f # page /\ f # b => m3[f] = m[f]
        /\ \A f \in Frame : r3[f] = IF f = page THEN 1 ELSE r[f]
        /\ w3[p] = page /\ \A q \in Place : q # p => w3[q] = w[q]
    BY <1>4, <2>1, <2>2 DEF Gets
  <2>4. m2[a] = m[a]
    BY <1>5, <1>10, <1>13, <1>18, <2>1, SameEntry
  <2>5. m2[g] = m[g]
    BY <1>5, <1>10, <1>13, <2>1, SameEntry
  <2>6. m3 = m2
    BY <1>7, <1>11, <1>13, <1>14, <2>1, <2>3, <2>4, <2>5, SameFunction
  <2>7. r3 = r2
    BY <1>14, <1>16, <2>1, <2>3
  <2>. QED BY <1>17, <2>2, <2>3, <2>6, <2>7
<1>19. CASE w[d] # NoFrame /\ w[t] = NoFrame
  <2>1. a = w[d] /\ b \in fr /\ new = {b} /\ a # b
    BY <1>7, <1>19
  <2>2. PICK u1, w1, m1, r1 :
          Uses(u1, w1, m1, r1, fr \ {b}, rt, ks, ls) /\ Gets(w, m, r, t, b, Empty, w1, m1, r1)
    <3>1. t \in Place /\ t.lev # 0 /\ t.lev # 3 /\ w[t] = NoFrame /\ w[Above(t)] # NoFrame
      BY <1>4, <1>19
    <3>2. IF t.lev = 3 THEN Empty \in Value ELSE Empty = Empty
      BY <3>1
    <3>. QED BY <1>1, <2>1, <3>1, <3>2, AddOne
  <2>3. /\ m1 \in [Frame -> Table \cup Value] /\ r1 \in [Frame -> Nat]
        /\ m1[b] = Empty /\ m1[a] = [m[a] EXCEPT ![PDX0(la)] = b]
        /\ \A f \in Frame : f # b /\ f # a => m1[f] = m[f]
        /\ \A f \in Frame : r1[f] = IF f = b THEN 1 ELSE r[f]
        /\ w1[t] = b /\ \A q \in Place : q # t => w1[q] = w[q]
    BY <1>4, <2>1, <2>2 DEF Gets
  <2>4. PICK u3, w3, m3, r3 :
          Uses(u3, w3, m3, r3, fr2, rt, ks, ls) /\ Gets(w1, m1, r1, p, page, v, w3, m3, r3)
    <3>1. fr2 = (fr \ {b}) \ {page} /\ page \in fr \ {b}
      BY <1>7, <1>14, <2>1
    <3>2. /\ p \in Place /\ p.lev # 0 /\ w1[p] = NoFrame /\ w1[Above(p)] # NoFrame
          /\ IF p.lev = 3 THEN v \in Value ELSE v = Empty
      BY <1>4, <1>6, <1>11, <2>3 DEF Frame, NoFrame
    <3>. QED BY <2>2, <3>1, <3>2, AddOne
  <2>5. /\ m3 \in [Frame -> Table \cup Value] /\ r3 \in [Frame -> Nat]
        /\ m3[page] = v /\ m3[b] = [Empty EXCEPT ![PTX(la)] = page]
        /\ \A f \in Frame : f # page /\ f # b => m3[f] = m1[f]
        /\ \A f \in Frame : r3[f] = IF f = page THEN 1 ELSE r1[f]
        /\ w3[p] = page /\ \A q \in Place : q # p => w3[q] = w1[q]
    BY <1>4, <2>3, <2>4 DEF Gets
  <2>6. m2[g] = m[g]
    BY <1>5, <1>10, <1>13, <2>1, SameEntry
  <2>7. m3 = m2
    <3>1. m2[a] = [m[a] EXCEPT ![PDX0(la)] = b] /\ m2[b] = [Empty EXCEPT ![PTX(la)] = page]
      BY <1>13, <2>1
    <3>2. m3[b] = m2[b] /\ m3[page] = m2[page]
      BY <1>13, <2>5, <2>6, <3>1
    <3>4. m3[a] = m1[a] /\ m3[g] = m1[g]
      BY <1>21, <2>5
    <3>5. m1[a] = m2[a]
      BY <2>3, <2>5, <3>1
    <3>6. m1[g] = m2[g]
      BY <1>21, <2>3, <2>6
    <3>3. ASSUME NEW f \in Frame PROVE m3[f] = m2[f]
      BY <1>13, <2>3, <2>5, <3>2, <3>4, <3>5, <3>6
    <3>. QED BY <1>13, <1>14, <2>5, <3>3, SameFunction
  <2>8. r3 = r2
    BY <1>14, <1>16, <2>1, <2>3, <2>5
  <2>9. \A q \in Place : q.lev = 3 /\ q # p => w3[q] = w[q]
    BY <1>4, <2>3, <2>5
  <2>. QED BY <1>17, <2>4, <2>5, <2>7, <2>8, <2>9
<1>20. CASE w[d] = NoFrame
  <2>1. a \in fr /\ b \in fr /\ new = {a, b} /\ a # b /\ w[t] = NoFrame
    BY <1>7, <1>10, <1>20
  <2>2. PICK u0, w0, m0, r0 :
          Uses(u0, w0, m0, r0, fr \ {a}, rt, ks, ls) /\ Gets(w, m, r, d, a, Empty, w0, m0, r0)
    BY <1>1, <1>3, <1>4, <1>6, <1>20, <2>1, AddOne
  <2>3. /\ m0 \in [Frame -> Table \cup Value] /\ r0 \in [Frame -> Nat]
        /\ m0[a] = Empty /\ m0[g] = [m[g] EXCEPT ![PDX1(la)] = a]
        /\ \A f \in Frame : f # a /\ f # g => m0[f] = m[f]
        /\ \A f \in Frame : r0[f] = IF f = a THEN 1 ELSE r[f]
        /\ w0[d] = a /\ \A q \in Place : q # d => w0[q] = w[q]
    BY <1>4, <1>6, <2>1, <2>2 DEF Gets
  <2>4. PICK u1, w1, m1, r1 :
          Uses(u1, w1, m1, r1, (fr \ {a}) \ {b}, rt, ks, ls) /\ Gets(w0, m0, r0, t, b, Empty, w1, m1, r1)
    <3>1. b \in fr \ {a}
      BY <2>1
    <3>2. /\ t \in Place /\ t.lev # 0 /\ w0[t] = NoFrame /\ w0[Above(t)] # NoFrame
          /\ IF t.lev = 3 THEN Empty \in Value ELSE Empty = Empty
      BY <1>4, <1>11, <2>1, <2>3 DEF Frame, NoFrame
    <3>. QED BY <2>2, <3>1, <3>2, AddOne
  <2>5. /\ m1 \in [Frame -> Table \cup Value] /\ r1 \in [Frame -> Nat]
        /\ m1[b] = Empty /\ m1[a] = [Empty EXCEPT ![PDX0(la)] = b]
        /\ \A f \in Frame : f # b /\ f # a => m1[f] = m0[f]
        /\ \A f \in Frame : r1[f] = IF f = b THEN 1 ELSE r0[f]
        /\ w1[t] = b /\ \A q \in Place : q # t => w1[q] = w0[q]
    BY <1>4, <2>3, <2>4 DEF Gets
  <2>6. PICK u3, w3, m3, r3 :
          Uses(u3, w3, m3, r3, fr2, rt, ks, ls) /\ Gets(w1, m1, r1, p, page, v, w3, m3, r3)
    <3>1. fr2 = ((fr \ {a}) \ {b}) \ {page} /\ page \in (fr \ {a}) \ {b}
      BY <1>7, <1>14, <2>1
    <3>2. /\ p \in Place /\ p.lev # 0 /\ w1[p] = NoFrame /\ w1[Above(p)] # NoFrame
          /\ IF p.lev = 3 THEN v \in Value ELSE v = Empty
      BY <1>4, <1>6, <1>11, <2>3, <2>5 DEF Frame, NoFrame
    <3>. QED BY <2>4, <3>1, <3>2, AddOne
  <2>7. /\ m3 \in [Frame -> Table \cup Value] /\ r3 \in [Frame -> Nat]
        /\ m3[page] = v /\ m3[b] = [Empty EXCEPT ![PTX(la)] = page]
        /\ \A f \in Frame : f # page /\ f # b => m3[f] = m1[f]
        /\ \A f \in Frame : r3[f] = IF f = page THEN 1 ELSE r1[f]
        /\ w3[p] = page /\ \A q \in Place : q # p => w3[q] = w1[q]
    BY <1>4, <2>5, <2>6 DEF Gets
  <2>8. m3 = m2
    <3>1. m2[a] = [Empty EXCEPT ![PDX0(la)] = b] /\ m2[b] = [Empty EXCEPT ![PTX(la)] = page]
      BY <1>13, <2>1
    <3>2. m3[b] = m2[b] /\ m3[page] = m2[page]
      BY <1>13, <2>5, <2>7, <3>1
    <3>4. m3[a] = m1[a] /\ m3[g] = m1[g]
      BY <1>21, <2>7
    <3>5. m1[a] = m2[a]
      BY <2>3, <2>5, <3>1
    <3>6. m1[g] = m2[g]
      BY <1>13, <1>21, <2>3, <2>5
    <3>3. ASSUME NEW f \in Frame PROVE m3[f] = m2[f]
      BY <1>13, <2>3, <2>5, <2>7, <3>2, <3>4, <3>5, <3>6
    <3>. QED BY <1>13, <1>14, <2>7, <3>3, SameFunction
  <2>9. r3 = r2
    BY <1>14, <1>16, <2>1, <2>3, <2>5, <2>7
  <2>10. \A q \in Place : q.lev = 3 /\ q # p => w3[q] = w[q]
    BY <1>4, <2>3, <2>5, <2>7
  <2>. QED BY <1>17, <2>6, <2>7, <2>8, <2>9, <2>10
<1>. QED BY <1>18, <1>19, <1>20

-----------------------------------------------------------------------------
(* What is taken down.                                                     *)

\* Places given up: every frame has a use, and the pages at them are unmapped.
LEMMA PruneFits ==
  ASSUME NEW u, NEW w, NEW m, NEW r, NEW fr, NEW rt, NEW ks, NEW ls,
         Uses(u, w, m, r, fr, rt, ks, ls),
         NEW S, NEW fs, NEW lo, NEW m2, NEW r2, NEW fr2, NEW rt2, NEW ls2,
         Pruned(w, m, r, fr, rt, ls, S, fs, lo, m2, r2, fr2, rt2, ls2)
  PROVE  /\ Fits(m2, r2, fr2, rt2, ks, ls2)
         /\ Contents(m2, rt2) \in [Space -> [Page -> Value \cup {NULL}]]
         /\ \A s \in Space, la \in Page :
              Contents(m2, rt2)[s][la] = IF PageAt(s, la) \in S THEN NULL ELSE Contents(m, rt)[s][la]
<1>1. PICK u2, w2 : /\ Uses(u2, w2, m2, r2, fr2, rt2, ks, ls2)
                    /\ \A q \in Place : w2[q] = IF q \in S THEN NoFrame ELSE w[q]
  BY PruneUses
<1>2. PICK h, h2 : h = Contents(m, rt) /\ h2 = Contents(m2, rt2)
  OBVIOUS
<1>3. \A t \in Space, lb \in Page :
        h[t][lb] = IF w[PageAt(t, lb)] = NoFrame THEN NULL ELSE m[w[PageAt(t, lb)]]
  BY <1>2, ContentsAre
<1>4. /\ h2 \in [Space -> [Page -> Value \cup {NULL}]]
      /\ \A t \in Space, lb \in Page :
           h2[t][lb] = IF w2[PageAt(t, lb)] = NoFrame THEN NULL ELSE m2[w2[PageAt(t, lb)]]
  BY <1>1, <1>2, ContentsAre
<1>5. ASSUME NEW s \in Space, NEW la \in Page
      PROVE  h2[s][la] = IF PageAt(s, la) \in S THEN NULL ELSE h[s][la]
  <2>1. PICK q \in Place : q = PageAt(s, la) /\ q.lev = 3
    BY WayDown
  <2>2. q \notin S /\ w[q] # NoFrame => m2[w[q]] = m[w[q]]
    BY <2>1 DEF Pruned
  <2>. QED BY <1>1, <1>3, <1>4, <2>1, <2>2
<1>. QED BY <1>1, <1>2, <1>4, <1>5 DEF Fits

\* page_remove_pte, for the memory m.
Removes(m, r, fr, g, la, m2, r2, fr2) ==
  LET f == WalkP(m, g, la)
  IN /\ r2 = [r EXCEPT ![f] = @ - 1]
     /\ fr2 = IF r[f] = 1 THEN fr \cup {f} ELSE fr
     /\ m2 = [m EXCEPT ![WalkT(m, g, la)][PTX(la)] = NoFrame,
                       ![f] = IF r[f] = 1 THEN Junk ELSE @]

\* A page is unmapped: every frame has a use.
LEMMA RemoveFits ==
  ASSUME NEW m, NEW r, NEW fr, NEW rt, NEW ks, NEW ls,
         Fits(m, r, fr, rt, ks, ls),
         NEW s \in Space, rt[s] # NoFrame, NEW la \in Page,
         Contents(m, rt)[s][la] # NULL,
         NEW m2, NEW r2, NEW fr2,
         Removes(m, r, fr, rt[s], la, m2, r2, fr2)
  PROVE  Fits(m2, r2, fr2, rt, ks, ls) /\ Puts(Contents(m, rt), Contents(m2, rt), s, la, NULL)
<1>1. PICK u, w : Uses(u, w, m, r, fr, rt, ks, ls)
  BY DEF Fits
<1>2. /\ Kinds(u, w, m, r, fr, rt, ks, ls) /\ Marks(u, w) /\ Linked(w, m) /\ Roots(w, rt) /\ Refs(u, r)
  BY <1>1 DEF Uses
<1>3. PICK t, p : t = TableAt(s, la) /\ p = PageAt(s, la)
  OBVIOUS
<1>4. /\ t \in Place /\ t.lev = 2
      /\ p \in Place /\ p.lev = 3 /\ Above(p) = t /\ Key(p) = PTX(la) /\ p = Under(t, PTX(la))
  BY <1>3, WayDown DEF PageAt
<1>5. PICK f, b : f = w[p] /\ b = w[t]
  OBVIOUS
<1>6. /\ WalkT(m, rt[s], la) = b /\ WalkP(m, rt[s], la) = f
      /\ f # NoFrame /\ f \in Frame /\ u[f] = p
  <2>1. WalkT(m, rt[s], la) = b /\ WalkP(m, rt[s], la) = f
    BY <1>1, <1>3, <1>5, WalkIs
  <2>2. f # NoFrame
    BY <1>1, <1>3, <1>5, ContentsAre
  <2>. QED BY <1>2, <1>4, <1>5, <2>1, <2>2 DEF Kinds, Marks, Frame0
<1>7. PTX(la) \in Index
  BY Indices
<1>8. b # NoFrame /\ b \in Frame /\ u[b] = t /\ m[b] \in Table /\ b # f
  BY <1>2, <1>4, <1>5, <1>6, <1>7 DEF Kinds, Marks, Linked, Frame0
<1>9. r[f] = 1
  BY <1>2, <1>4, <1>6 DEF Refs
<1>10. PICK tb : tb = [m[b] EXCEPT ![PTX(la)] = NoFrame]
  OBVIOUS
<1>11. tb \in Table /\ \A x \in Index : tb[x] = IF x = PTX(la) THEN NoFrame ELSE m[b][x]
  BY <1>7, <1>8, <1>10 DEF Table
<1>12. m \in [Frame -> Table \cup Value] /\ r \in [Frame -> Nat] /\ Junk \in Value
  BY <1>2, VmmAssumption DEF Kinds
<1>13. /\ r2 = [r EXCEPT ![f] = r[f] - 1] /\ fr2 = fr \cup {f}
       /\ m2 = [m EXCEPT ![b] = tb, ![f] = Junk]
  BY <1>6, <1>8, <1>9, <1>10, <1>12 DEF Removes
<1>14. /\ m2 \in [Frame -> Table \cup Value] /\ r2 \in [Frame -> Nat]
       /\ m2[b] = tb /\ \A h \in Frame : h # b /\ h # f => m2[h] = m[h]
       /\ \A h \in Frame : r2[h] = IF h = f THEN 0 ELSE r[h]
  BY <1>6, <1>8, <1>9, <1>11, <1>12, <1>13
<1>15. Pruned(w, m, r, fr, rt, ls, {p}, {f}, {}, m2, r2, fr2, rt, ls)
  <2>1. ASSUME NEW q \in Place, w[q] # NoFrame, q \notin {p}
        PROVE  IF q.lev = 3 THEN m2[w[q]] = m[w[q]]
               ELSE /\ m2[w[q]] \in Table
                    /\ \A x \in Index :
                         m2[w[q]][x] = IF Under(q, x) \in {p} THEN NoFrame ELSE m[w[q]][x]
    <3>1. w[q] \in Frame /\ u[w[q]] = q /\ w[q] # f
      BY <1>2, <1>6, <2>1 DEF Kinds, Marks, Frame0
    <3>2. CASE q = t
      <4>1. \A x \in Index : Under(q, x) = p <=> x = PTX(la)
        BY <1>4, <1>7, <3>2, Trees
      <4>. QED BY <1>4, <1>5, <1>11, <1>14, <3>2, <4>1
    <3>3. CASE q # t
      <4>1. w[q] # b
        BY <1>8, <3>1, <3>3
      <4>2. \A x \in Index : q.lev # 3 => Under(q, x) # p
        BY <1>4, <3>3, Trees
      <4>. QED BY <1>2, <1>14, <2>1, <3>1, <4>1, <4>2 DEF Linked
    <3>. QED BY <3>2, <3>3
  <2>2. \A x \in Space : rt[x] = IF Root(x) \in {p} THEN NoFrame ELSE rt[x]
    BY <1>4, Trees
  <2>. QED BY <1>2, <1>4, <1>5, <1>6, <1>13, <1>14, <2>1, <2>2 DEF Pruned, Kinds
<1>16. /\ Fits(m2, r2, fr2, rt, ks, ls)
       /\ Contents(m2, rt) \in [Space -> [Page -> Value \cup {NULL}]]
       /\ \A x \in Space, lb \in Page :
            Contents(m2, rt)[x][lb] = IF PageAt(x, lb) \in {p} THEN NULL ELSE Contents(m, rt)[x][lb]
  BY <1>1, <1>15, PruneFits
<1>17. \A x \in Space, lb \in Page : PageAt(x, lb) \in {p} <=> x = s /\ lb = la
  BY <1>3, PagePlaces
<1>. QED BY <1>16, <1>17 DEF Puts

\* No page of s is mapped.
Bare(h, s) == \A la \in Page : h[s][la] = NULL

\* The frames that the tables in F refer to.
Children(m, F) == {m[f][e] : f \in F, e \in Index} \ {NoFrame}

\* put_pgdir, for the memory m.
Drops(m, fr, g, ls, m2, fr2, ls2) ==
  LET ds == {m[g][e] : e \in Index} \ {NoFrame}
      ts == Children(m, ds)
  IN fr2 = fr \cup {g} /\ m2 = [m EXCEPT ![g] = Junk] /\ ls2 = ls \cup ds \cup ts

\* The directory of an mm without pages goes: every frame has a use.
LEMMA DropFits ==
  ASSUME NEW m, NEW r, NEW fr, NEW rt, NEW ks, NEW ls,
         Fits(m, r, fr, rt, ks, ls),
         NEW s \in Space, rt[s] # NoFrame, Bare(Contents(m, rt), s),
         NEW m2, NEW fr2, NEW ls2, NEW rt2,
         Drops(m, fr, rt[s], ls, m2, fr2, ls2),
         rt2 \in [Space -> Frame0], rt2[s] = NoFrame,
         \A x \in Space : x # s => rt2[x] = rt[x]
  PROVE  Fits(m2, r, fr2, rt2, ks, ls2) /\ Contents(m2, rt2) = Contents(m, rt)
<1>1. PICK u, w : Uses(u, w, m, r, fr, rt, ks, ls)
  BY DEF Fits
<1>2. /\ Kinds(u, w, m, r, fr, rt, ks, ls) /\ Marks(u, w) /\ Linked(w, m) /\ Roots(w, rt) /\ Refs(u, r)
  BY <1>1 DEF Uses
<1>3. PICK g : g = rt[s]
  OBVIOUS
<1>4. w[Root(s)] = g /\ g \in Frame /\ u[g] = Root(s) /\ r[g] = 0 /\ Root(s) \in Place /\ m[g] \in Table
  BY <1>2, <1>3, Trees DEF Roots, Kinds, Marks, Refs, Linked, Frame0
<1>5. PICK ds : ds = {m[g][e] : e \in Index} \ {NoFrame}
  OBVIOUS
<1>6. PICK ts : ts = Children(m, ds)
  OBVIOUS
<1>7. fr2 = fr \cup {g} /\ m2 = [m EXCEPT ![g] = Junk] /\ ls2 = ls \cup (ds \cup ts)
  BY <1>3, <1>5, <1>6 DEF Drops
<1>8. PICK S : S = {q \in Place : q.s = s}
  OBVIOUS
<1>9. \A pl \in Place : pl.s = s /\ pl.lev = 3 => w[pl] = NoFrame
  BY <1>1, PagePlaces, ContentsAre DEF Bare
<1>10. ASSUME NEW f
       PROVE  f \in ds <=> \E q \in Place : q.s = s /\ q.lev = 1 /\ w[q] = f /\ f # NoFrame
  <2>1. \A e \in Index : /\ Under(Root(s), e) \in Place /\ Under(Root(s), e).s = s /\ Under(Root(s), e).lev = 1
                         /\ m[g][e] = w[Under(Root(s), e)]
    <3>1. g # NoFrame
      BY <1>3
    <3>. QED BY <1>2, <1>4, <3>1, Trees DEF Linked
  <2>2. \A q \in Place : q.s = s /\ q.lev = 1 => \E e \in Index : q = Under(Root(s), e)
    BY Trees
  <2>. QED BY <1>5, <2>1, <2>2
<1>11. ASSUME NEW f
       PROVE  f \in ts <=> \E q \in Place : q.s = s /\ q.lev = 2 /\ w[q] = f /\ f # NoFrame
  <2>1. \A q \in Place : q.s = s /\ q.lev = 1 /\ w[q] # NoFrame =>
          \A e \in Index : /\ Under(q, e) \in Place /\ Under(q, e).s = s /\ Under(q, e).lev = 2
                           /\ m[w[q]][e] = w[Under(q, e)]
    BY <1>2, Trees DEF Linked
  <2>2. \A q \in Place : q.s = s /\ q.lev = 2 /\ w[q] # NoFrame =>
          \E d \in Place, e \in Index : q = Under(d, e) /\ d.s = s /\ d.lev = 1 /\ w[d] # NoFrame
    BY <1>2, Trees DEF Linked
  <2>3. ASSUME f \in ts PROVE \E q \in Place : q.s = s /\ q.lev = 2 /\ w[q] = f /\ f # NoFrame
    <3>1. PICK df \in ds, e \in Index : f = m[df][e] /\ f # NoFrame
      BY <1>6, <2>3 DEF Children
    <3>2. PICK d \in Place : d.s = s /\ d.lev = 1 /\ w[d] = df /\ df # NoFrame
      BY <1>10, <3>1
    <3>. QED BY <2>1, <3>1, <3>2
  <2>4. ASSUME NEW q \in Place, q.s = s, q.lev = 2, w[q] = f, f # NoFrame PROVE f \in ts
    <3>1. PICK d \in Place, e \in Index : q = Under(d, e) /\ d.s = s /\ d.lev = 1 /\ w[d] # NoFrame
      BY <2>2, <2>4
    <3>2. f = m[w[d]][e] /\ w[d] \in ds
      BY <1>10, <2>1, <2>4, <3>1
    <3>. QED BY <1>6, <2>4, <3>2 DEF Children
  <2>. QED BY <2>3, <2>4
<1>12. m \in [Frame -> Table \cup Value] /\ Junk \in Value /\ r \in [Frame -> Nat]
  BY <1>2, VmmAssumption DEF Kinds
<1>13. m2 \in [Frame -> Table \cup Value] /\ \A f \in Frame : f # g => m2[f] = m[f]
  BY <1>4, <1>7, <1>12
<1>14. Pruned(w, m, r, fr, rt, ls, S, {g}, ds \cup ts, m2, r, fr2, rt2, ls2)
  <2>1. S \subseteq Place /\ \A pl \in S : pl.lev # 3 => \A x \in Index : Under(pl, x) \in S
    BY <1>8, Trees
  <2>2. ASSUME NEW pl \in S, w[pl] # NoFrame PROVE w[pl] \in {g} <=> w[pl] \notin ds \cup ts
    <3>1. pl \in Place /\ pl.s = s /\ u[w[pl]] = pl
      BY <1>2, <1>8, <2>2 DEF Marks
    <3>2. CASE pl.lev = 0
      <4>1. pl = Root(s)
        BY <3>1, <3>2, Trees
      <4>2. \A q \in Place : w[q] = g /\ g # NoFrame => q.lev = 0
        BY <1>2, <1>4, Trees DEF Marks
      <4>3. g \notin ds \cup ts
        BY <1>10, <1>11, <4>2
      <4>. QED BY <1>4, <4>1, <4>3
    <3>3. CASE pl.lev = 1 \/ pl.lev = 2
      <4>1. w[pl] # g
        BY <1>4, <3>1, <3>3, Trees
      <4>2. w[pl] \in ds \cup ts
        BY <1>10, <1>11, <2>2, <3>1, <3>3
      <4>. QED BY <4>1, <4>2
    <3>. QED BY <1>9, <2>2, <3>1, <3>2, <3>3, Trees
  <2>3. \A f \in {g} \cup (ds \cup ts) : \E pl \in S : w[pl] = f /\ f # NoFrame
    BY <1>3, <1>4, <1>8, <1>10, <1>11, Trees
  <2>4. ASSUME NEW q \in Place, w[q] # NoFrame, q \notin S
        PROVE  IF q.lev = 3 THEN m2[w[q]] = m[w[q]]
               ELSE /\ m2[w[q]] \in Table
                    /\ \A x \in Index :
                         m2[w[q]][x] = IF Under(q, x) \in S THEN NoFrame ELSE m[w[q]][x]
    <3>1. w[q] \in Frame /\ w[q] # g
      BY <1>2, <1>4, <1>8, <2>4, Trees DEF Kinds, Marks, Frame0
    <3>2. m2[w[q]] = m[w[q]]
      BY <1>13, <3>1
    <3>3. q.lev # 3 => \A x \in Index : Under(q, x) \notin S
      BY <1>8, <2>4, Trees
    <3>. QED BY <1>2, <2>4, <3>2, <3>3 DEF Linked
  <2>5. \A x \in Space : rt2[x] = IF Root(x) \in S THEN NoFrame ELSE rt[x]
    BY <1>8, Trees
  <2>6. \A f \in Frame : r[f] = IF f \in {g} THEN 0 ELSE r[f]
    BY <1>4
  <2>. QED BY <1>7, <1>12, <1>13, <2>1, <2>2, <2>3, <2>4, <2>5, <2>6 DEF Pruned
<1>15. /\ Fits(m2, r, fr2, rt2, ks, ls2)
       /\ Contents(m2, rt2) \in [Space -> [Page -> Value \cup {NULL}]]
       /\ \A x \in Space, lb \in Page :
            Contents(m2, rt2)[x][lb] = IF PageAt(x, lb) \in S THEN NULL ELSE Contents(m, rt)[x][lb]
  BY <1>1, <1>14, PruneFits
<1>16. \A x \in Space, lb \in Page : PageAt(x, lb) \in S <=> x = s
  BY <1>8, WayDown
<1>17. \A x \in Space, lb \in Page : Contents(m2, rt2)[x][lb] = Contents(m, rt)[x][lb]
  BY <1>15, <1>16 DEF Bare
<1>18. Contents(m, rt) \in [Space -> [Page -> Value \cup {NULL}]]
  BY <1>1, ContentsAre
<1>19. Contents(m2, rt2) = Contents(m, rt)
  BY <1>15, <1>17, <1>18
<1>. QED BY <1>15, <1>19

\* One turn of exit_range, for the memory m: the level 0 directory is pd0, in
\* it the page table pt; drop says that pd0 goes.
Leaves(m, r, fr, g, ls, x1, x0, drop, m2, r2, fr2, ls2) ==
  LET pd0     == m[g][x1]
      pt      == m[pd0][x0]
      freed   == {f \in {pt} : f # NoFrame /\ m[f] = Empty} \cup {f \in {pd0} : drop}
      left    == [m[pd0] EXCEPT ![x0] = IF pt # NoFrame /\ m[pt] = Empty THEN NoFrame ELSE @]
  IN /\ fr2 = fr \cup freed
     /\ r2 = [f \in Frame |-> IF f \in freed THEN 0 ELSE r[f]]
     /\ m2 = [f \in Frame |->
          IF f \in freed THEN Junk
          ELSE IF f = pd0 THEN left
          ELSE IF f = g /\ pd0 \in freed THEN [m[f] EXCEPT ![x1] = NoFrame] ELSE m[f]]
     /\ ls2 = ls \cup {f \in Frame : pd0 \in freed /\ \E e \in Index : left[e] = f}

\* The places under d, that of a directory or table, or none below its pages.
Below(d) == {d} \cup {Under(d, x) : x \in Index} \cup {Under(q, y) : q \in {Under(d, x) : x \in Index}, y \in Index}

\* A turn of exit_range in an mm without pages: every frame has a use.
LEMMA LeaveFits ==
  ASSUME NEW m, NEW r, NEW fr, NEW rt, NEW ks, NEW ls,
         Fits(m, r, fr, rt, ks, ls),
         NEW s \in Space, rt[s] # NoFrame, Bare(Contents(m, rt), s),
         NEW x1 \in Index, NEW x0 \in Index, m[rt[s]][x1] # NoFrame, NEW drop \in BOOLEAN,
         NEW m2, NEW r2, NEW fr2, NEW ls2,
         Leaves(m, r, fr, rt[s], ls, x1, x0, drop, m2, r2, fr2, ls2)
  PROVE  Fits(m2, r2, fr2, rt, ks, ls2) /\ Contents(m2, rt) = Contents(m, rt)
<1>1. PICK u, w : Uses(u, w, m, r, fr, rt, ks, ls)
  BY DEF Fits
<1>2. /\ Kinds(u, w, m, r, fr, rt, ks, ls) /\ Marks(u, w) /\ Linked(w, m) /\ Roots(w, rt) /\ Refs(u, r)
  BY <1>1 DEF Uses
<1>3. PICK g, rp, d, t : g = rt[s] /\ rp = Root(s) /\ d = Under(rp, x1) /\ t = Under(d, x0)
  OBVIOUS
<1>4. /\ rp \in Place /\ rp.lev = 0 /\ rp.s = s
      /\ d \in Place /\ d.lev = 1 /\ d.s = s /\ Above(d) = rp /\ Key(d) = x1
      /\ t \in Place /\ t.lev = 2 /\ t.s = s /\ Above(t) = d /\ Key(t) = x0
  BY <1>3, Trees
<1>5. w[rp] = g /\ g \in Frame /\ u[g] = rp /\ m[g] \in Table /\ \A x \in Index : m[g][x] = w[Under(rp, x)]
  BY <1>2, <1>3, <1>4 DEF Roots, Kinds, Marks, Linked, Frame0
<1>6. PICK pd0, pt : pd0 = w[d] /\ pt = w[t]
  OBVIOUS
<1>7. /\ pd0 = m[g][x1] /\ pd0 # NoFrame /\ pd0 \in Frame /\ u[pd0] = d
      /\ m[pd0] \in Table /\ \A x \in Index : m[pd0][x] = w[Under(d, x)]
      /\ pt = m[pd0][x0] /\ pd0 # g
  BY <1>2, <1>3, <1>4, <1>5, <1>6 DEF Kinds, Marks, Linked, Frame0
<1>8. PICK emptied \in BOOLEAN : emptied = (pt # NoFrame /\ m[pt] = Empty)
  OBVIOUS
<1>9. emptied => pt \in Frame /\ u[pt] = t /\ pt # pd0 /\ pt # g
  <2>1. emptied => pt # NoFrame
    BY <1>8
  <2>2. pt # NoFrame => pt \in Frame /\ u[pt] = t
    BY <1>2, <1>4, <1>6 DEF Kinds, Marks, Frame0
  <2>3. t # d /\ t # rp
    BY <1>4
  <2>. QED BY <1>5, <1>7, <2>1, <2>2, <2>3
<1>10. PICK freed : freed = {f \in {pt} : emptied} \cup {f \in {pd0} : drop}
  OBVIOUS
<1>11. PICK left : left = [m[pd0] EXCEPT ![x0] = IF emptied THEN NoFrame ELSE pt]
  OBVIOUS
<1>12. left \in Table /\ \A x \in Index : left[x] = IF x = x0 /\ emptied THEN NoFrame ELSE m[pd0][x]
  <2>1. pt \in Frame0
    BY <1>2, <1>4, <1>6 DEF Kinds
  <2>. QED BY <1>7, <1>11, <2>1 DEF Table, Frame0
<1>13. PICK gt : gt = [m[g] EXCEPT ![x1] = NoFrame]
  OBVIOUS
<1>14. gt \in Table /\ \A x \in Index : gt[x] = IF x = x1 THEN NoFrame ELSE m[g][x]
  BY <1>5, <1>13 DEF Table
<1>15. \A f : f \in freed <=> (f = pt /\ emptied) \/ (f = pd0 /\ drop)
  BY <1>10
<1>16. pd0 \in freed <=> drop
  BY <1>9, <1>15
<1>17. PICK lo : lo = {f \in Frame : drop /\ \E e \in Index : left[e] = f}
  OBVIOUS
<1>18. /\ fr2 = fr \cup freed /\ ls2 = ls \cup lo
       /\ r2 = [f \in Frame |-> IF f \in freed THEN 0 ELSE r[f]]
       /\ m2 = [f \in Frame |->
            IF f \in freed THEN Junk ELSE IF f = pd0 THEN left
            ELSE IF f = g /\ drop THEN gt ELSE m[f]]
  <2>1. left = [m[pd0] EXCEPT ![x0] = IF emptied THEN NoFrame ELSE m[pd0][x0]]
    BY <1>7, <1>11
  <2>2. /\ fr2 = fr \cup freed
        /\ r2 = [f \in Frame |-> IF f \in freed THEN 0 ELSE r[f]]
    BY <1>3, <1>7, <1>8, <1>10 DEF Leaves
  <2>3. ls2 = ls \cup {f \in Frame : pd0 \in freed /\ \E e \in Index : left[e] = f}
    BY <1>3, <1>7, <1>8, <1>10, <2>1 DEF Leaves
  <2>4. m2 = [f \in Frame |->
          IF f \in freed THEN Junk
          ELSE IF f = pd0 THEN left
          ELSE IF f = g /\ pd0 \in freed THEN [m[f] EXCEPT ![x1] = NoFrame] ELSE m[f]]
    BY <1>3, <1>7, <1>8, <1>10, <2>1 DEF Leaves
  <2>. QED BY <1>13, <1>16, <1>17, <2>2, <2>3, <2>4
<1>19. m \in [Frame -> Table \cup Value] /\ r \in [Frame -> Nat] /\ Junk \in Value
  BY <1>2, VmmAssumption DEF Kinds
<1>20. /\ m2 \in [Frame -> Table \cup Value] /\ r2 \in [Frame -> Nat]
       /\ \A f \in Frame : m2[f] = IF f \in freed THEN Junk ELSE IF f = pd0 THEN left
                                   ELSE IF f = g /\ drop THEN gt ELSE m[f]
       /\ \A f \in Frame : r2[f] = IF f \in freed THEN 0 ELSE r[f]
  BY <1>12, <1>14, <1>18, <1>19
<1>21. \A q \in Place : w[q] # NoFrame => w[q] \in Frame /\ u[w[q]] = q
  BY <1>2 DEF Kinds, Marks, Frame0
<1>22. \A q \in Place : q.s = s /\ q.lev = 3 => w[q] = NoFrame
  BY <1>1, PagePlaces, ContentsAre DEF Bare
<1>23. PICK S : S = IF drop THEN Below(d) ELSE IF emptied THEN {t} \cup {Under(t, y) : y \in Index} ELSE {}
  OBVIOUS
<1>24. ASSUME drop
       PROVE  \A q \in Place : q \in S <=> q = d \/ (q.lev # 0 /\ Above(q) = d) \/ (q.lev = 3 /\ Above(Above(q)) = d)
  <2>1. S = Below(d)
    BY <1>23, <1>24
  <2>2. ASSUME NEW q \in Place, q \in Below(d)
        PROVE  q = d \/ (q.lev # 0 /\ Above(q) = d) \/ (q.lev = 3 /\ Above(Above(q)) = d)
    <3>1. CASE \E x \in Index : q = Under(d, x)
      BY <1>4, <3>1, Trees
    <3>2. CASE \E x \in Index, y \in Index : q = Under(Under(d, x), y)
      BY <1>4, <3>2, Trees
    <3>. QED BY <2>2, <3>1, <3>2 DEF Below
  <2>3. ASSUME NEW q \in Place, q.lev # 0, Above(q) = d PROVE q \in Below(d)
    BY <2>3, Trees DEF Below
  <2>4. ASSUME NEW q \in Place, q.lev = 3, Above(Above(q)) = d PROVE q \in Below(d)
    <3>1. q = Under(Above(q), Key(q)) /\ Key(q) \in Index /\ Above(q) \in Place /\ Above(q).lev = 2
      BY <2>4, Trees
    <3>2. Above(q) = Under(d, Key(Above(q))) /\ Key(Above(q)) \in Index
      BY <2>4, <3>1, Trees
    <3>. QED BY <3>1, <3>2 DEF Below
  <2>5. d \in Below(d)
    BY DEF Below
  <2>. QED BY <2>1, <2>2, <2>3, <2>4, <2>5
<1>25. ASSUME ~drop
       PROVE  \A q \in Place : q \in S <=> emptied /\ (q = t \/ (q.lev = 3 /\ Above(q) = t))
  BY <1>4, <1>23, <1>25, Trees
<1>26. S \subseteq Place /\ \A q \in S : q.lev # 3 => \A x \in Index : Under(q, x) \in S
  <2>1. CASE drop
    <3>1. S \subseteq Place
      BY <1>4, <1>23, <2>1, Trees DEF Below
    <3>2. ASSUME NEW q \in S, q.lev # 3, NEW x \in Index PROVE Under(q, x) \in S
      BY <1>4, <1>24, <2>1, <3>1, <3>2, Trees
    <3>. QED BY <3>1, <3>2
  <2>2. CASE ~drop
    <3>1. S \subseteq Place
      BY <1>4, <1>23, <2>2, Trees
    <3>2. ASSUME NEW q \in S, q.lev # 3, NEW x \in Index PROVE Under(q, x) \in S
      BY <1>4, <1>25, <2>2, <3>1, <3>2, Trees
    <3>. QED BY <3>1, <3>2
  <2>. QED BY <2>1, <2>2
<1>27. \A q \in S : q \in Place /\ q.s = s /\ q.lev # 0
  BY <1>4, <1>24, <1>25, <1>26, Trees
<1>28. ASSUME NEW q \in S, w[q] # NoFrame PROVE w[q] \in freed <=> w[q] \notin lo
  <2>1. q \in Place /\ w[q] \in Frame /\ u[w[q]] = q /\ q.lev # 3
    BY <1>21, <1>22, <1>27, <1>28
  <2>2. CASE drop
    <3>1. q = d \/ (q.lev # 0 /\ Above(q) = d)
      BY <1>24, <2>1, <2>2
    <3>2. CASE q = d
      <4>1. \A e \in Index : left[e] # pd0
        BY <1>4, <1>6, <1>7, <1>12, <1>21, Trees
      <4>. QED BY <1>6, <1>15, <1>17, <2>2, <3>2, <4>1
    <3>3. CASE q # d
      <4>1. Key(q) \in Index /\ q = Under(d, Key(q)) /\ w[q] = m[pd0][Key(q)] /\ w[q] # pd0
        BY <1>6, <1>7, <2>1, <3>1, <3>3, Trees
      <4>2. CASE q = t /\ emptied
        <5>1. w[q] \in freed
          BY <1>6, <1>15, <4>2
        <5>2. \A e \in Index : left[e] # NoFrame => left[e] # w[q]
          <6>1. ASSUME NEW e \in Index, left[e] = w[q] PROVE FALSE
            <7>1. e # x0 /\ m[pd0][e] = w[q] /\ Under(d, e) \in Place /\ w[Under(d, e)] = w[q]
              BY <1>4, <1>7, <1>12, <1>28, <4>2, <6>1, Trees
            <7>2. Under(d, e) = q
              BY <1>21, <1>28, <2>1, <7>1
            <7>. QED BY <1>4, <4>2, <7>1, <7>2, Trees
          <6>. QED BY <6>1
        <5>3. w[q] \notin lo
          BY <1>17, <1>28, <5>2
        <5>. QED BY <5>1, <5>3
      <4>3. CASE ~(q = t /\ emptied)
        <5>1. w[q] \notin freed
          BY <1>9, <1>15, <2>1, <4>1, <4>3
        <5>2. left[Key(q)] = w[q]
          BY <1>3, <1>12, <4>1, <4>3
        <5>. QED BY <1>17, <2>1, <2>2, <4>1, <5>1, <5>2
      <4>. QED BY <4>2, <4>3
    <3>. QED BY <3>2, <3>3
  <2>3. CASE ~drop
    BY <1>6, <1>15, <1>17, <1>25, <2>1, <2>3
  <2>. QED BY <2>2, <2>3
<1>29. ASSUME NEW f \in freed \cup lo PROVE \E q \in S : w[q] = f /\ f # NoFrame
  <2>1. CASE f \in freed
    <3>1. (f = pt /\ emptied) \/ (f = pd0 /\ drop)
      BY <1>15, <2>1
    <3>2. pd0 # NoFrame /\ (pt # NoFrame \/ ~emptied)
      BY <1>7, <1>8
    <3>3. emptied => t \in S
      BY <1>4, <1>24, <1>25
    <3>4. drop => d \in S
      BY <1>4, <1>24
    <3>. QED BY <1>6, <3>1, <3>2, <3>3, <3>4
  <2>2. CASE f \in lo
    <3>1. drop /\ f \in Frame
      BY <1>17, <2>2
    <3>2. PICK e \in Index : left[e] = f
      BY <1>17, <2>2
    <3>3. f # NoFrame
      BY <3>1 DEF Frame, NoFrame
    <3>4. w[Under(d, e)] = f
      BY <1>7, <1>12, <3>2, <3>3
    <3>5. Under(d, e) \in S
      BY <1>4, <1>24, <3>1, Trees
    <3>. QED BY <3>3, <3>4, <3>5
  <2>. QED BY <2>1, <2>2
<1>30. ASSUME NEW q \in Place, w[q] # NoFrame, q \notin S
       PROVE  IF q.lev = 3 THEN m2[w[q]] = m[w[q]]
              ELSE /\ m2[w[q]] \in Table
                   /\ \A x \in Index :
                        m2[w[q]][x] = IF Under(q, x) \in S THEN NoFrame ELSE m[w[q]][x]
  <2>1. w[q] \in Frame /\ u[w[q]] = q
    BY <1>21, <1>30
  <2>2. w[q] \notin freed
    BY <1>2, <1>7, <1>9, <1>15, <1>24, <1>25, <1>4, <1>30, <2>1
  <2>3. CASE q = rp
    <3>1. w[q] = g /\ q.lev = 0
      BY <1>4, <1>5, <2>3
    <3>2. \A x \in Index : Under(q, x) \in S <=> drop /\ x = x1
      <4>1. \A x \in Index : Under(q, x) \in Place /\ Under(q, x).lev = 1 /\ (Under(q, x) = d <=> x = x1)
        BY <1>3, <1>4, <2>3, Trees
      <4>2. \A x \in Index : Above(Under(q, x)) # d
        BY <1>4, <2>3, Trees
      <4>. QED BY <1>4, <1>24, <1>25, <4>1, <4>2
    <3>3. m2[g] = IF drop THEN gt ELSE m[g]
      BY <1>5, <1>7, <1>20, <2>2, <3>1
    <3>. QED BY <1>5, <1>14, <3>1, <3>2, <3>3
  <2>4. CASE q = d
    <3>1. ~drop /\ w[q] = pd0 /\ q.lev = 1
      BY <1>4, <1>6, <1>24, <1>30, <2>4
    <3>2. m2[pd0] = left
      BY <1>7, <1>20, <2>2, <3>1
    <3>3. \A x \in Index : Under(q, x) \in S <=> emptied /\ x = x0
      <4>1. \A x \in Index : Under(q, x) \in Place /\ Under(q, x).lev = 2 /\ (Under(q, x) = t <=> x = x0)
        BY <1>3, <1>4, <2>4, Trees
      <4>. QED BY <1>25, <3>1, <4>1
    <3>. QED BY <1>7, <1>12, <3>1, <3>2, <3>3
  <2>5. CASE q # rp /\ q # d
    <3>1. w[q] # g /\ w[q] # pd0
      BY <1>5, <1>7, <2>1, <2>5
    <3>2. m2[w[q]] = m[w[q]]
      BY <1>20, <2>1, <2>2, <3>1
    <3>3. ASSUME q.lev # 3, NEW x \in Index PROVE Under(q, x) \notin S
      <4>1. Under(q, x) \in Place /\ Above(Under(q, x)) = q /\ Under(q, x).lev # 0
        BY <3>3, Trees
      <4>2. Under(q, x) # d /\ Under(q, x) # t
        BY <1>4, <2>5, <4>1
      <4>3. CASE drop
        <5>1. Above(q) # d \/ q.lev = 0
          BY <1>24, <1>30, <4>3
        <5>2. Under(q, x).lev = 3 => q.lev # 0
          BY <3>3, Trees
        <5>. QED BY <1>24, <2>5, <4>1, <4>2, <4>3, <5>1, <5>2
      <4>4. CASE ~drop
        BY <1>25, <1>30, <4>1, <4>2, <4>4
      <4>. QED BY <4>3, <4>4
    <3>4. q.lev # 3 => m[w[q]] \in Table
      BY <1>2, <1>30 DEF Linked
    <3>. QED BY <3>2, <3>3, <3>4
  <2>. QED BY <2>3, <2>4, <2>5
<1>31. \A x \in Space : rt[x] = IF Root(x) \in S THEN NoFrame ELSE rt[x]
  BY <1>27, Trees
<1>32. rt \in [Space -> Frame0]
  BY <1>2 DEF Kinds
<1>33. Pruned(w, m, r, fr, rt, ls, S, freed, lo, m2, r2, fr2, rt, ls2)
  BY <1>18, <1>20, <1>26, <1>28, <1>29, <1>30, <1>31, <1>32 DEF Pruned
<1>34. /\ Fits(m2, r2, fr2, rt, ks, ls2)
       /\ Contents(m2, rt) \in [Space -> [Page -> Value \cup {NULL}]]
       /\ \A x \in Space, lb \in Page :
            Contents(m2, rt)[x][lb] = IF PageAt(x, lb) \in S THEN NULL ELSE Contents(m, rt)[x][lb]
  BY <1>1, <1>33, PruneFits
<1>35. \A x \in Space, lb \in Page : PageAt(x, lb) \in S => x = s
  BY <1>27, WayDown
<1>36. \A x \in Space, lb \in Page : Contents(m2, rt)[x][lb] = Contents(m, rt)[x][lb]
  BY <1>34, <1>35 DEF Bare
<1>37. Contents(m, rt) \in [Space -> [Page -> Value \cup {NULL}]]
  BY <1>1, ContentsAre
<1>38. Contents(m2, rt) = Contents(m, rt)
  BY <1>34, <1>36, <1>37
<1>. QED BY <1>34, <1>38

-----------------------------------------------------------------------------
(* The other steps.                                                        *)

\* The same frames at the places of pages hold the same: contents stay.
LEMMA SameContents ==
  ASSUME NEW u, NEW w, NEW m, NEW r, NEW fr, NEW rt, NEW ks, NEW ls,
         Uses(u, w, m, r, fr, rt, ks, ls),
         NEW u2, NEW w2, NEW m2, NEW r2, NEW fr2, NEW rt2, NEW ks2, NEW ls2,
         Uses(u2, w2, m2, r2, fr2, rt2, ks2, ls2),
         \A q \in Place : q.lev = 3 => w2[q] = w[q] /\ (w[q] # NoFrame => m2[w[q]] = m[w[q]])
  PROVE  Contents(m2, rt2) = Contents(m, rt)
<1>1. PICK h, h2 : h = Contents(m, rt) /\ h2 = Contents(m2, rt2)
  OBVIOUS
<1>2. /\ h \in [Space -> [Page -> Value \cup {NULL}]]
      /\ \A t \in Space, lb \in Page :
           h[t][lb] = IF w[PageAt(t, lb)] = NoFrame THEN NULL ELSE m[w[PageAt(t, lb)]]
  BY <1>1, ContentsAre
<1>3. /\ h2 \in [Space -> [Page -> Value \cup {NULL}]]
      /\ \A t \in Space, lb \in Page :
           h2[t][lb] = IF w2[PageAt(t, lb)] = NoFrame THEN NULL ELSE m2[w2[PageAt(t, lb)]]
  BY <1>1, ContentsAre
<1>4. ASSUME NEW t \in Space, NEW lb \in Page PROVE h2[t][lb] = h[t][lb]
  <2>1. PICK q \in Place : q = PageAt(t, lb) /\ q.lev = 3
    BY WayDown
  <2>. QED BY <1>2, <1>3, <2>1
<1>. QED BY <1>1, <1>2, <1>3, <1>4

\* NewMm: the directory of an mm is taken, every frame has a use.
LEMMA RootFits ==
  ASSUME NEW m, NEW r, NEW fr, NEW rt, NEW ks, NEW ls,
         Fits(m, r, fr, rt, ks, ls),
         NEW s, NEW f, NEW m2, NEW fr2, NEW rt2,
         Rooted(m, r, fr, rt, s, f, m2, fr2, rt2)
  PROVE  Fits(m2, r, fr2, rt2, ks, ls) /\ Contents(m2, rt2) = Contents(m, rt)
<1>1. PICK u, w : Uses(u, w, m, r, fr, rt, ks, ls)
  BY DEF Fits
<1>2. PICK u2, w2 : /\ Uses(u2, w2, m2, r, fr2, rt2, ks, ls)
                    /\ w2[Root(s)] = f /\ \A q \in Place : q # Root(s) => w2[q] = w[q]
  BY <1>1, RootUses
<1>3. s \in Space /\ f \in fr /\ \A g \in Frame : g # f => m2[g] = m[g]
  BY DEF Rooted
<1>4. ASSUME NEW q \in Place, q.lev = 3
      PROVE  w2[q] = w[q] /\ (w[q] # NoFrame => m2[w[q]] = m[w[q]])
  <2>1. w2[q] = w[q]
    BY <1>2, <1>3, <1>4, Trees
  <2>2. w[q] # NoFrame => w[q] \in Frame /\ u[w[q]] = q
    BY <1>1 DEF Uses, Kinds, Marks, Frame0
  <2>3. f \in Frame /\ u[f] = Spare
    BY <1>1, <1>3 DEF Uses, Kinds, Rest
  <2>. QED BY <1>3, <2>1, <2>2, <2>3, OtherUses
<1>5. Contents(m2, rt2) = Contents(m, rt)
  BY <1>1, <1>2, <1>4, SameContents
<1>. QED BY <1>2, <1>5 DEF Fits

\* The pages of p become those of q, which had none.
Hands(h, h2, p, q) ==
  /\ h2 \in [Space -> [Page -> Value \cup {NULL}]]
  /\ h2[q] = h[p] /\ Bare(h2, p)
  /\ \A s \in Space : s # p /\ s # q => h2[s] = h[s]

\* Attach: the tables of p become those of q.
LEMMA MoveFits ==
  ASSUME NEW m, NEW r, NEW fr, NEW rt, NEW ks, NEW ls,
         Fits(m, r, fr, rt, ks, ls),
         NEW p \in Space, NEW q \in Space, p # q, rt[q] = NoFrame,
         NEW rt2 \in [Space -> Frame0], rt2[p] = NoFrame, rt2[q] = rt[p],
         \A s \in Space : s # p /\ s # q => rt2[s] = rt[s]
  PROVE  Fits(m, r, fr, rt2, ks, ls) /\ Hands(Contents(m, rt), Contents(m, rt2), p, q)
<1>1. PICK u, w : Uses(u, w, m, r, fr, rt, ks, ls)
  BY DEF Fits
<1>2. PICK u2, w2 : Uses(u2, w2, m, r, fr, rt2, ks, ls)
  BY <1>1, MoveUses
<1>3. PICK h, h2 : h = Contents(m, rt) /\ h2 = Contents(m, rt2)
  OBVIOUS
<1>4. /\ h \in [Space -> [Page -> Value \cup {NULL}]]
      /\ \A s \in Space, la \in Page :
           h[s][la] = IF rt[s] = NoFrame THEN NULL
                      ELSE IF WalkP(m, rt[s], la) = NoFrame THEN NULL ELSE m[WalkP(m, rt[s], la)]
  BY <1>1, <1>3, ContentsAre DEF Contents
<1>5. /\ h2 \in [Space -> [Page -> Value \cup {NULL}]]
      /\ \A s \in Space, la \in Page :
           h2[s][la] = IF rt2[s] = NoFrame THEN NULL
                       ELSE IF WalkP(m, rt2[s], la) = NoFrame THEN NULL ELSE m[WalkP(m, rt2[s], la)]
  BY <1>2, <1>3, ContentsAre DEF Contents
<1>6. ASSUME NEW s \in Space, NEW t \in Space, rt2[s] = rt[t] PROVE h2[s] = h[t]
  <2>1. \A la \in Page : h2[s][la] = h[t][la]
    BY <1>4, <1>5, <1>6
  <2>2. h2[s] \in [Page -> Value \cup {NULL}] /\ h[t] \in [Page -> Value \cup {NULL}]
    BY <1>4, <1>5
  <2>. QED BY <2>1, <2>2
<1>7. Bare(h2, p)
  BY <1>5 DEF Bare
<1>. QED BY <1>2, <1>3, <1>5, <1>6, <1>7 DEF Fits, Hands

\* A write to a page, for the memory m.
Fills(m, g, la, v, m2) == m2 = [m EXCEPT ![WalkP(m, g, la)] = v]

\* It changes that page only, and every frame has a use.
LEMMA FillFits ==
  ASSUME NEW m, NEW r, NEW fr, NEW rt, NEW ks, NEW ls,
         Fits(m, r, fr, rt, ks, ls),
         NEW s \in Space, rt[s] # NoFrame, NEW la \in Page, WalkP(m, rt[s], la) # NoFrame,
         NEW v \in Value, NEW m2, Fills(m, rt[s], la, v, m2)
  PROVE  Fits(m2, r, fr, rt, ks, ls) /\ Puts(Contents(m, rt), Contents(m2, rt), s, la, v)
<1>1. PICK u, w : Uses(u, w, m, r, fr, rt, ks, ls)
  BY DEF Fits
<1>2. PICK p \in Place : p = PageAt(s, la) /\ p.lev = 3
  BY WayDown
<1>3. w[p] = WalkP(m, rt[s], la) /\ w[p] # NoFrame
  BY <1>1, <1>2, WalkIs
<1>4. m2 = [m EXCEPT ![w[p]] = v]
  BY <1>3 DEF Fills
<1>5. Uses(u, w, m2, r, fr, rt, ks, ls)
  <2>1. Uses(u, w, [m EXCEPT ![w[p]] = v], r, fr, rt, ks, ls)
    BY <1>1, <1>2, <1>3, FillUses
  <2>. QED BY <1>4, <2>1
<1>6. w[p] \in Frame /\ m \in [Frame -> Table \cup Value]
  BY <1>1, <1>3 DEF Uses, Kinds, Frame0
<1>7. m2[w[p]] = v /\ \A f \in Frame : f # w[p] => m2[f] = m[f]
  BY <1>4, <1>6
<1>8. ASSUME NEW q \in Place, q # p, w[q] # NoFrame PROVE m2[w[q]] = m[w[q]]
  <2>1. w[q] \in Frame /\ u[w[q]] = q /\ u[w[p]] = p
    BY <1>1, <1>3, <1>8 DEF Uses, Kinds, Marks, Frame0
  <2>. QED BY <1>7, <1>8, <2>1
<1>9. Puts(Contents(m, rt), Contents(m2, rt), s, la, v)
  <2>1. PICK page \in Frame : w[PageAt(s, la)] = page /\ m2[page] = v
    BY <1>2, <1>6, <1>7
  <2>3. \A q \in Place : q.lev = 3 /\ q # PageAt(s, la) /\ w[q] # NoFrame => m2[w[q]] = m[w[q]]
    BY <1>2, <1>8
  <2>. QED BY <1>1, <1>5, <2>1, <2>3, PutUses
<1>. QED BY <1>5, <1>9 DEF Fits

\* A kernel stack is taken.
LEMMA StackFits ==
  ASSUME NEW m, NEW r, NEW fr, NEW rt, NEW ks, NEW ls,
         Fits(m, r, fr, rt, ks, ls),
         NEW p \in Proc, ks[p] = NoFrame, NEW base \in fr,
         NEW B, B = base .. base + KSTACKPAGE - 1, B \subseteq fr,
         NEW ks2, ks2 = [ks EXCEPT ![p] = base], NEW fr2, fr2 = fr \ B
  PROVE  Fits(m, r, fr2, rt, ks2, ls)
<1>1. PICK u, w : Uses(u, w, m, r, fr, rt, ks, ls)
  BY DEF Fits
<1>2. \E u2 : Uses(u2, w, m, r, fr \ B, rt, [ks EXCEPT ![p] = base], ls)
  BY <1>1, StackUses
<1>. QED BY <1>2 DEF Fits

\* A kernel stack is given back.
LEMMA UnstackFits ==
  ASSUME NEW m, NEW r, NEW fr, NEW rt, NEW ks, NEW ls,
         Fits(m, r, fr, rt, ks, ls),
         NEW p \in Proc, ks[p] # NoFrame,
         NEW B, B = ks[p] .. ks[p] + KSTACKPAGE - 1,
         NEW ks2, ks2 = [ks EXCEPT ![p] = NoFrame], NEW fr2, fr2 = fr \cup B
  PROVE  Fits(m, r, fr2, rt, ks2, ls)
<1>1. PICK u, w : Uses(u, w, m, r, fr, rt, ks, ls)
  BY DEF Fits
<1>2. \E u2 : Uses(u2, w, m, r, fr \cup B, rt, [ks EXCEPT ![p] = NoFrame], ls)
  BY <1>1, UnstackUses
<1>. QED BY <1>2 DEF Fits

-----------------------------------------------------------------------------
(* Areas.                                                                  *)

InAreas(vmas, la) == \E i \in DOMAIN vmas : Holds(vmas[i], la)

\* Areas are sorted and none is empty.
AreasOK(vmas) ==
  /\ vmas \in Seq(Vma)
  /\ \A i \in DOMAIN vmas : vmas[i].start < vmas[i].end
  /\ \A i \in DOMAIN vmas : \A j \in 1 .. i - 1 : vmas[j].end <= vmas[i].start

\* The fields of an area are natural numbers.
LEMMA VmaType ==
  ASSUME NEW vma \in Vma
  PROVE  vma.start \in Nat /\ vma.end \in Nat /\ vma.start \in Page /\ vma.end \in 1 .. USERTOP
BY TableSizes DEF Vma, Page

\* The loop over the list stops behind the areas that do not start higher.
LEMMA StopsThere ==
  ASSUME NEW vmas \in Seq(Vma), NEW start \in Nat
  PROVE  /\ StopsAt(vmas, start) \in 1 .. Len(vmas) + 1
         /\ \A j \in 1 .. StopsAt(vmas, start) - 1 : vmas[j].start <= start
         /\ StopsAt(vmas, start) <= Len(vmas) => vmas[StopsAt(vmas, start)].start > start
<1>1. PICK n \in Nat : n = Len(vmas) /\ DOMAIN vmas = 1 .. n
  OBVIOUS
<1>2. \A j \in 1 .. n : vmas[j].start \in Nat
  BY <1>1, VmaType
<1>3. PICK higher : higher = {i \in 1 .. n : vmas[i].start > start}
  OBVIOUS
<1>4. StopsAt(vmas, start) = IF higher = {} THEN n + 1 ELSE Min(higher)
  BY <1>1, <1>3 DEF StopsAt
<1>5. CASE higher = {}
  <2>1. \A j \in 1 .. n : vmas[j].start <= start
    BY <1>2, <1>3, <1>5
  <2>. QED BY <1>1, <1>4, <1>5, <2>1
<1>6. CASE higher # {}
  <2>1. higher \in SUBSET Nat /\ higher \subseteq 1 .. n
    BY <1>3
  <2>2. \E x \in higher : \A y \in higher : y \in Nat /\ x \in Nat /\ x <= y /\ (y < x <=> FALSE)
    BY <1>6, <2>1, LowestIn
  <2>3. Min(higher) \in higher /\ \A y \in higher : Min(higher) <= y
    BY <2>2 DEF Min
  <2>4. PICK at \in higher : at = Min(higher) /\ \A y \in higher : at <= y
    BY <2>3
  <2>5. at \in 1 .. n /\ vmas[at].start > start
    BY <1>3, <2>4
  <2>6. ASSUME NEW j \in 1 .. at - 1 PROVE vmas[j].start <= start
    <3>1. j \in 1 .. n /\ ~(at <= j)
      BY <1>1, <2>5
    <3>2. j \notin higher
      BY <2>4, <3>1
    <3>. QED BY <1>2, <1>3, <3>1, <3>2
  <2>. QED BY <1>1, <1>4, <1>6, <2>4, <2>5, <2>6
<1>. QED BY <1>5, <1>6

\* An area that does not run into its neighbours.
FitsIn(vmas, at, vma) ==
  /\ at > 1 => ~Overlaps(vmas[at - 1], vma)
  /\ at <= Len(vmas) => ~Overlaps(vma, vmas[at])

\* Then the list stays sorted, and the area shares no page with another one.
LEMMA InsertSorted ==
  ASSUME NEW vmas, AreasOK(vmas), NEW vma \in Vma, vma.start < vma.end,
         NEW at, at = StopsAt(vmas, vma.start), FitsIn(vmas, at, vma),
         NEW new, new = InsertAt(vmas, at, vma)
  PROVE  /\ AreasOK(new) /\ new # <<>>
         /\ \A la \in Nat : InAreas(new, la) <=> InAreas(vmas, la) \/ Holds(vma, la)
         /\ \A la \in Nat : Holds(vma, la) => ~InAreas(vmas, la)
         /\ \A i \in DOMAIN new : new[i] = vma \/ \E j \in DOMAIN vmas : new[i] = vmas[j]
<1>1. PICK n \in Nat : vmas \in Seq(Vma) /\ n = Len(vmas) /\ DOMAIN vmas = 1 .. n
  BY DEF AreasOK
<1>2. PICK start, end \in Nat : start = vma.start /\ end = vma.end /\ start < end
  BY VmaType
<1>3. /\ at \in 1 .. n + 1
      /\ \A j \in 1 .. at - 1 : vmas[j].start <= start
      /\ at <= n => vmas[at].start > start
  BY <1>1, <1>2, StopsThere
<1>4. \A j \in 1 .. n : vmas[j] \in Vma /\ vmas[j].start \in Nat /\ vmas[j].end \in Nat /\ vmas[j].start < vmas[j].end
  BY <1>1, VmaType DEF AreasOK
<1>5. \A i \in 1 .. n : \A j \in 1 .. i - 1 : vmas[j].end <= vmas[i].start
  BY <1>1 DEF AreasOK
<1>6. ASSUME NEW j \in 1 .. at - 1 PROVE vmas[j].end <= start
  <2>1. at - 1 \in 1 .. n /\ vmas[at - 1].end <= start
    BY <1>1, <1>2, <1>3, <1>4, <1>6 DEF FitsIn, Overlaps
  <2>2. CASE j = at - 1
    BY <2>1, <2>2
  <2>3. CASE j # at - 1
    <3>1. j \in 1 .. (at - 1) - 1 /\ j \in 1 .. n
      BY <1>3, <2>3
    <3>2. vmas[j].end <= vmas[at - 1].start
      BY <1>5, <2>1, <3>1
    <3>. QED BY <1>4, <2>1, <3>1, <3>2
  <2>. QED BY <2>2, <2>3
<1>7. ASSUME NEW j \in at .. n PROVE end <= vmas[j].start
  <2>1. at \in 1 .. n /\ end <= vmas[at].start
    BY <1>1, <1>2, <1>3, <1>4, <1>7 DEF FitsIn, Overlaps
  <2>2. CASE j = at
    BY <2>1, <2>2
  <2>3. CASE j # at
    <3>1. at \in 1 .. j - 1 /\ j \in 1 .. n
      BY <1>3, <2>3
    <3>2. vmas[at].end <= vmas[j].start
      BY <1>5, <3>1
    <3>. QED BY <1>2, <1>4, <2>1, <3>1, <3>2
  <2>. QED BY <2>2, <2>3
<1>8. InsertedAt(Vma, vmas, at, vma, new)
  BY <1>1, <1>3, InsertAtElements
<1>9. /\ new \in Seq(Vma) /\ Len(new) = n + 1 /\ DOMAIN new = 1 .. n + 1
      /\ \A j \in 1 .. at - 1 : new[j] = vmas[j]
      /\ new[at] = vma
      /\ \A j \in at + 1 .. n + 1 : new[j] = vmas[j - 1]
  BY <1>1, <1>8 DEF InsertedAt
<1>10. PICK old : old = [j \in 1 .. n + 1 |-> IF j < at THEN j ELSE j - 1]
  OBVIOUS
<1>11. ASSUME NEW j \in 1 .. n + 1, j # at PROVE old[j] \in 1 .. n /\ new[j] = vmas[old[j]]
  <2>1. CASE j < at
    BY <1>3, <1>9, <1>10, <2>1
  <2>2. CASE ~(j < at)
    <3>1. j \in at + 1 .. n + 1 /\ old[j] = j - 1 /\ j - 1 \in 1 .. n
      BY <1>3, <1>10, <1>11, <2>2
    <3>. QED BY <1>9, <3>1
  <2>. QED BY <2>1, <2>2
<1>12. \A i \in DOMAIN new : new[i] = vma \/ \E j \in DOMAIN vmas : new[i] = vmas[j]
  BY <1>1, <1>9, <1>11
<1>13. \A i \in DOMAIN new : new[i].start < new[i].end
  BY <1>1, <1>2, <1>4, <1>12
<1>14. ASSUME NEW i \in 1 .. n + 1, NEW j \in 1 .. i - 1 PROVE new[j].end <= new[i].start
  <2>1. CASE i = at
    BY <1>2, <1>3, <1>6, <1>9, <1>14, <2>1
  <2>2. CASE j = at
    <3>1. i \in at + 1 .. n + 1 /\ i - 1 \in at .. n /\ new[i] = vmas[i - 1]
      BY <1>3, <1>9, <2>2
    <3>. QED BY <1>2, <1>7, <1>9, <2>2, <3>1
  <2>3. CASE i # at /\ j # at
    <3>1. j \in 1 .. n + 1 /\ old[i] \in 1 .. n /\ old[j] \in 1 .. old[i] - 1
      BY <1>3, <1>10, <1>11, <2>3
    <3>. QED BY <1>5, <1>11, <2>3, <3>1
  <2>. QED BY <2>1, <2>2, <2>3
<1>15. ASSUME NEW la \in Nat PROVE InAreas(new, la) <=> InAreas(vmas, la) \/ Holds(vma, la)
  <2>1. ASSUME NEW j \in 1 .. n PROVE \E i \in 1 .. n + 1 : new[i] = vmas[j]
    <3>1. CASE j < at
      BY <1>3, <1>9, <3>1
    <3>2. CASE j >= at
      <4>1. j + 1 \in at + 1 .. n + 1 /\ (j + 1) - 1 = j
        BY <1>3, <3>2
      <4>2. new[j + 1] = vmas[j]
        BY <1>9, <4>1
      <4>. QED BY <1>3, <4>1, <4>2
    <3>. QED BY <1>3, <3>1, <3>2
  <2>. QED BY <1>1, <1>3, <1>9, <1>12, <2>1 DEF InAreas
<1>16. ASSUME NEW la \in Nat, Holds(vma, la) PROVE ~InAreas(vmas, la)
  <2>1. start <= la /\ la < end
    BY <1>2, <1>16 DEF Holds
  <2>2. ASSUME NEW j \in 1 .. n PROVE ~Holds(vmas[j], la)
    BY <1>2, <1>3, <1>4, <1>6, <1>7, <2>1 DEF Holds
  <2>. QED BY <1>1, <2>2 DEF InAreas
<1>17. AreasOK(new)
  BY <1>9, <1>13, <1>14 DEF AreasOK
<1>18. new # <<>>
  BY <1>9
<1>. QED BY <1>12, <1>15, <1>16, <1>17, <1>18

\* An area whose first page is in no other one only runs into the next one.
LEMMA OnlyTheNext ==
  ASSUME NEW vmas, AreasOK(vmas), NEW vma \in Vma, vma.start < vma.end,
         ~InAreas(vmas, vma.start),
         NEW at, at = StopsAt(vmas, vma.start), ~FitsIn(vmas, at, vma)
  PROVE  \E k \in DOMAIN vmas : vma.start < vmas[k].start /\ vmas[k].start < vma.end
<1>1. PICK n \in Nat : vmas \in Seq(Vma) /\ n = Len(vmas) /\ DOMAIN vmas = 1 .. n
  BY DEF AreasOK
<1>2. PICK start, end \in Nat : start = vma.start /\ end = vma.end /\ start < end
  BY VmaType
<1>3. /\ at \in 1 .. n + 1
      /\ \A j \in 1 .. at - 1 : vmas[j].start <= start
      /\ at <= n => vmas[at].start > start
  BY <1>1, <1>2, StopsThere
<1>4. \A j \in 1 .. n : vmas[j].start \in Nat /\ vmas[j].end \in Nat
  BY <1>1, VmaType
<1>5. ASSUME at > 1 PROVE ~Overlaps(vmas[at - 1], vma)
  <2>1. at - 1 \in 1 .. n /\ at - 1 \in 1 .. at - 1 /\ ~Holds(vmas[at - 1], start)
    BY <1>1, <1>2, <1>3, <1>5 DEF InAreas
  <2>. QED BY <1>2, <1>3, <1>4, <2>1 DEF Holds, Overlaps
<1>6. at <= n /\ Overlaps(vma, vmas[at])
  BY <1>1, <1>5 DEF FitsIn
<1>7. at \in 1 .. n /\ vmas[at].start < end
  BY <1>2, <1>3, <1>4, <1>6 DEF Overlaps
<1>. QED BY <1>1, <1>2, <1>3, <1>7

-----------------------------------------------------------------------------
(* The control state: ms, st, ks, o stand for mm, state, kstack, op, and h *)
(* for what the pages hold.                                                *)

Labels == {"unmap", "exit_range", "put_pgdir", "dropped", "segment", "load", "stack",
           "preload", "attach", "copy_mm", "dup", "copy"}
Operation ==
  [pc : Labels, proc : Proc, prog : Program \cup {NULL}, child : Proc \cup {NULL},
   slot : Space, i : Nat, la : Nat, gb : Nat, free_pd0 : BOOLEAN]

\* What always holds: the areas of every mm are sorted and hold its pages; a
\* process with an mm is alive and has areas.
Common(ms, st, h) ==
  /\ ms \in [Space -> Mm \cup {NULL}] /\ st \in [Proc -> {"none", "live", "zombie"}]
  /\ \A s \in Space : ms[s] # NULL =>
       /\ AreasOK(ms[s].vmas)
       /\ \A la \in Page : h[s][la] # NULL => InAreas(ms[s].vmas, la)
  /\ \A p \in Proc : ms[p] # NULL => st[p] = "live" /\ ms[p].vmas # <<>>

\* Every mm belongs to one process, but for the one, x, that is taken down.
Counts(ms, x) == \A p \in Proc : ms[p] # NULL /\ p # x => ms[p].mm_count = 1

\* Those that exist have a kernel stack, and so has the child c.
KStacks(st, ks, c) == \A p \in Proc : ks[p] # NoFrame <=> st[p] # "none" \/ p = c

Kept(ms, st, ks, h, x, c) == Common(ms, st, h) /\ Counts(ms, x) /\ KStacks(st, ks, c)

Resting(ms, st, ks, o, h) == o = Idle /\ ms[New] = NULL /\ Kept(ms, st, ks, h, New, NULL)

\* An mm is taken down: that of the process, or the new one.
Doomed(ms, st, ks, o, h) ==
  /\ o \in Operation /\ o.child = NULL
  /\ Kept(ms, st, ks, h, o.slot, NULL)
  /\ ms[o.slot] # NULL /\ ms[o.slot].mm_count = 0
  /\ st[o.proc] = "live"
  /\ o.slot # New => o.slot = o.proc /\ ms[New] = NULL
  /\ o.slot = New => ms[o.proc] = NULL

\* The pages that are still mapped are those to come.
Unmapping(vmas, i, la, row) ==
  /\ i \in DOMAIN vmas /\ vmas[i].start <= la /\ la < vmas[i].end
  /\ \A lb \in Page : row[lb] # NULL =>
       (la <= lb /\ lb < vmas[i].end) \/ \E j \in DOMAIN vmas : i < j /\ Holds(vmas[j], lb)

Tearing(ms, st, ks, o, h) ==
  /\ Doomed(ms, st, ks, o, h)
  /\ o.pc \in {"unmap", "exit_range", "put_pgdir"}
  /\ o.pc = "unmap" => Unmapping(ms[o.slot].vmas, o.i, o.la, h[o.slot])
  /\ o.pc # "unmap" => Bare(h, o.slot)
  /\ o.pc = "exit_range" => o.i \in DOMAIN ms[o.slot].vmas /\ o.gb \in Page

\* The process has no mm any more.
Dropped(ms, st, ks, o, h) ==
  /\ o \in Operation /\ o.pc = "dropped" /\ o.child = NULL
  /\ Kept(ms, st, ks, h, New, NULL)
  /\ ms[New] = NULL /\ ms[o.proc] = NULL /\ st[o.proc] = "live"

\* The areas come from the first n segments.
FromSegs(vmas, segs, n) ==
  \A k \in DOMAIN vmas : \E j \in 1 .. n :
    vmas[k].start = segs[j].start /\ vmas[k].end = segs[j].end

\* The pages from la to last are in an area and not mapped yet.
ToCome(vmas, row, la, last) ==
  \A lb \in Page : la <= lb /\ lb <= last => InAreas(vmas, lb) /\ row[lb] = NULL

Loading(ms, st, ks, o, h) ==
  /\ o \in Operation /\ o.slot = New /\ o.child = NULL /\ o.prog \in Program
  /\ Kept(ms, st, ks, h, New, NULL)
  /\ ms[New] # NULL /\ ms[New].mm_count = 0
  /\ ms[o.proc] = NULL /\ st[o.proc] = "live"
  /\ o.pc \in {"segment", "load", "stack", "preload"}
  /\ o.pc = "segment" =>
       o.i \in DOMAIN o.prog.segs /\ FromSegs(ms[New].vmas, o.prog.segs, o.i - 1)
  /\ o.pc = "load" =>
       /\ o.i \in DOMAIN o.prog.segs /\ FromSegs(ms[New].vmas, o.prog.segs, o.i)
       /\ o.la < o.prog.segs[o.i].end
       /\ ToCome(ms[New].vmas, h[New], o.la, o.prog.segs[o.i].end - 1)
  /\ o.pc = "stack" => FromSegs(ms[New].vmas, o.prog.segs, Len(o.prog.segs))
  /\ o.pc = "preload" =>
       /\ USERTOP - NPreload <= o.la /\ o.la < USERTOP
       /\ ToCome(ms[New].vmas, h[New], USERTOP - NPreload, o.la)

\* The areas are the last ones of src, without the first k.
Copied(vmas, src, k) == Len(vmas) = Len(src) - k /\ \A j \in DOMAIN vmas : vmas[j] = src[j + k]

Copying(ms, st, ks, o, h) ==
  /\ o \in Operation /\ o.child \in Proc
  /\ Kept(ms, st, ks, h, New, o.child)
  /\ st[o.child] = "none" /\ ms[o.proc] # NULL
  /\ o.pc \in {"copy_mm", "dup", "copy"}
  /\ o.pc = "copy_mm" => ms[New] = NULL
  /\ o.pc # "copy_mm" =>
       /\ o.slot = New /\ ms[New] # NULL /\ ms[New].mm_count = 0
       /\ o.i \in DOMAIN ms[o.proc].vmas
  /\ o.pc = "dup" => Copied(ms[New].vmas, ms[o.proc].vmas, o.i)
  /\ o.pc = "copy" =>
       /\ Copied(ms[New].vmas, ms[o.proc].vmas, o.i - 1)
       /\ o.la < ms[o.proc].vmas[o.i].end
       /\ ToCome(ms[New].vmas, h[New], o.la, ms[o.proc].vmas[o.i].end - 1)

\* The new mm is complete.
Attaching(ms, st, ks, o, h) ==
  /\ o \in Operation /\ o.pc = "attach" /\ o.slot = New
  /\ Kept(ms, st, ks, h, New, o.child)
  /\ ms[New] # NULL /\ ms[New].mm_count = 0 /\ ms[New].vmas # <<>>
  /\ o.child = NULL => ms[o.proc] = NULL /\ st[o.proc] = "live"
  /\ o.child # NULL => ms[o.child] = NULL

Phase(ms, st, ks, o, h) ==
  \/ Resting(ms, st, ks, o, h) \/ Tearing(ms, st, ks, o, h) \/ Dropped(ms, st, ks, o, h)
  \/ Loading(ms, st, ks, o, h) \/ Copying(ms, st, ks, o, h) \/ Attaching(ms, st, ks, o, h)

-----------------------------------------------------------------------------
(* The control state when an mm is taken down.                             *)

\* RangeFrom and UnmapFrom, for the areas vmas.
RangeOf(vmas, o, i) ==
  IF i > Len(vmas) THEN [o EXCEPT !.pc = "put_pgdir"]
  ELSE [o EXCEPT !.pc = "exit_range", !.i = i, !.free_pd0 = TRUE,
                 !.la = vmas[i].start - (vmas[i].start % PTSIZE),
                 !.gb = vmas[i].start - (vmas[i].start % PDSIZE)]
UnmapOf(vmas, o, i) ==
  IF i > Len(vmas) THEN RangeOf(vmas, o, 1)
  ELSE [o EXCEPT !.pc = "unmap", !.i = i, !.la = vmas[i].start]

\* The first page of a table, or of what a directory maps.
LEMMA RoundDown ==
  ASSUME NEW la \in Page
  PROVE  la - (la % PTSIZE) \in Nat /\ la - (la % PDSIZE) \in Page
<1>1. la \in Nat /\ la < USERTOP /\ USERTOP \in Nat
  BY TableSizes DEF Page
<1>2. PICK x, y \in Nat : x = la % PTSIZE /\ y = la % PDSIZE
  <2>1. ASSUME NEW n \in Nat \ {0} PROVE la % n \in Nat
    BY <1>1, Quotient
  <2>2. PTSIZE \in Nat \ {0} /\ PDSIZE \in Nat \ {0}
    BY TableSizes
  <2>. QED BY <2>1, <2>2
<1>3. x <= la /\ y <= la
  <2>1. ASSUME NEW n \in Nat \ {0}, NEW z \in Nat, z = la % n PROVE z <= la
    <3>1. PICK q \in Nat : q = la \div n
      BY <1>1, Quotient
    <3>2. la = n * q + z /\ n * q \in Nat
      BY <1>1, <2>1, <3>1, Quotient
    <3>. QED BY <1>1, <3>2
  <2>. QED BY <1>2, <2>1, TableSizes
<1>. QED BY <1>1, <1>2, <1>3 DEF Page

\* Doomed depends on neither label nor counters.
LEMMA DoomedStays ==
  ASSUME NEW ms, NEW st, NEW ks, NEW o, NEW h, Doomed(ms, st, ks, o, h),
         NEW o2 \in Operation, o2.child = o.child, o2.slot = o.slot, o2.proc = o.proc
  PROVE  Doomed(ms, st, ks, o2, h)
BY DEF Doomed

\* Without mapped pages the tables are next.
LEMMA RangeTears ==
  ASSUME NEW ms, NEW st, NEW ks, NEW o, NEW h, Doomed(ms, st, ks, o, h), Bare(h, o.slot),
         NEW i \in Nat \ {0}, NEW vmas, vmas = ms[o.slot].vmas,
         NEW o2, o2 = RangeOf(vmas, o, i)
  PROVE  Tearing(ms, st, ks, o2, h)
<1>1. o \in Operation /\ vmas \in Seq(Vma)
  BY DEF Doomed, Kept, Common, AreasOK, Operation
<1>2. CASE i > Len(vmas)
  <2>1. o2 = [o EXCEPT !.pc = "put_pgdir"] /\ "put_pgdir" \in Labels
    BY <1>2 DEF RangeOf, Labels
  <2>2. o2 \in Operation /\ o2.pc = "put_pgdir" /\ o2.child = o.child /\ o2.slot = o.slot /\ o2.proc = o.proc
    BY <1>1, <2>1 DEF Operation
  <2>3. Doomed(ms, st, ks, o2, h)
    BY <2>2, DoomedStays
  <2>. QED BY <2>2, <2>3 DEF Tearing
<1>3. CASE ~(i > Len(vmas))
  <2>1. i \in DOMAIN vmas /\ vmas[i] \in Vma
    BY <1>1, <1>3
  <2>2. PICK la \in Nat, gb \in Page :
          la = vmas[i].start - (vmas[i].start % PTSIZE) /\ gb = vmas[i].start - (vmas[i].start % PDSIZE)
    BY <2>1, VmaType, RoundDown
  <2>3. gb \in Nat /\ i \in Nat /\ TRUE \in BOOLEAN /\ "exit_range" \in Labels
    BY TableSizes DEF Page, Labels
  <2>4. o2 = [o EXCEPT !.pc = "exit_range", !.i = i, !.free_pd0 = TRUE, !.la = la, !.gb = gb]
    BY <1>3, <2>2 DEF RangeOf
  <2>5. o2 \in Operation
    BY <1>1, <2>3, <2>4 DEF Operation
  <2>6. /\ o2.pc = "exit_range" /\ o2.child = o.child /\ o2.slot = o.slot /\ o2.proc = o.proc
        /\ o2.i = i /\ o2.gb = gb
    BY <1>1, <2>4 DEF Operation
  <2>7. Doomed(ms, st, ks, o2, h)
    BY <2>5, <2>6, DoomedStays
  <2>. QED BY <2>1, <2>2, <2>6, <2>7 DEF Tearing
<1>. QED BY <1>2, <1>3

\* When the mapped pages are those of the areas from i on, these are next.
LEMMA UnmapTears ==
  ASSUME NEW ms, NEW st, NEW ks, NEW o, NEW h, Doomed(ms, st, ks, o, h),
         NEW i \in Nat \ {0}, NEW vmas, vmas = ms[o.slot].vmas,
         \A lb \in Page : h[o.slot][lb] # NULL => \E j \in DOMAIN vmas : i <= j /\ Holds(vmas[j], lb),
         NEW o2, o2 = UnmapOf(vmas, o, i)
  PROVE  Tearing(ms, st, ks, o2, h)
<1>1. o \in Operation /\ vmas \in Seq(Vma) /\ AreasOK(vmas)
  BY DEF Doomed, Kept, Common, AreasOK, Operation
<1>2. CASE i > Len(vmas)
  <2>1. Bare(h, o.slot)
    BY <1>1, <1>2 DEF Bare
  <2>2. o2 = RangeOf(vmas, o, 1) /\ 1 \in Nat \ {0}
    BY <1>2 DEF UnmapOf
  <2>. QED BY <2>1, <2>2, RangeTears
<1>3. CASE ~(i > Len(vmas))
  <2>1. i \in DOMAIN vmas /\ vmas[i] \in Vma /\ i \in Nat
    BY <1>1, <1>3
  <2>2. PICK la \in Nat : la = vmas[i].start /\ vmas[i].end \in Nat /\ la < vmas[i].end
    BY <1>1, <2>1, VmaType DEF AreasOK
  <2>3. "unmap" \in Labels /\ o2 = [o EXCEPT !.pc = "unmap", !.i = i, !.la = la]
    BY <1>3, <2>2 DEF UnmapOf, Labels
  <2>4. o2 \in Operation
    BY <1>1, <2>1, <2>2, <2>3 DEF Operation
  <2>5. /\ o2.pc = "unmap" /\ o2.child = o.child /\ o2.slot = o.slot /\ o2.proc = o.proc
        /\ o2.i = i /\ o2.la = la
    BY <1>1, <2>3 DEF Operation
  <2>6. Doomed(ms, st, ks, o2, h)
    BY <2>4, <2>5, DoomedStays
  <2>7. ASSUME NEW lb \in Page, h[o.slot][lb] # NULL
        PROVE  (la <= lb /\ lb < vmas[i].end) \/ \E j \in DOMAIN vmas : i < j /\ Holds(vmas[j], lb)
    <3>1. PICK j \in DOMAIN vmas : i <= j /\ Holds(vmas[j], lb)
      BY <2>7
    <3>2. CASE j = i
      BY <2>2, <3>1, <3>2 DEF Holds
    <3>3. CASE j # i
      BY <1>1, <2>1, <3>1, <3>3
    <3>. QED BY <3>2, <3>3
  <2>8. Unmapping(vmas, i, la, h[o.slot])
    BY <2>1, <2>2, <2>7 DEF Unmapping
  <2>. QED BY <2>5, <2>6, <2>8 DEF Tearing
<1>. QED BY <1>2, <1>3

\* The contents may change where pages stay in the areas of their mm.
LEMMA KeptStays ==
  ASSUME NEW ms, NEW st, NEW ks, NEW h, NEW x, NEW c, Kept(ms, st, ks, h, x, c), NEW h2,
         \A s \in Space, la \in Page :
           ms[s] # NULL /\ h2[s][la] # NULL => h[s][la] # NULL \/ InAreas(ms[s].vmas, la)
  PROVE  Kept(ms, st, ks, h2, x, c)
BY DEF Kept, Common

\* No page between la and next is mapped.
Skips(row, la, next) ==
  next \in Nat /\ la < next /\ \A lb \in Page : la < lb /\ lb < next => row[lb] = NULL

\* A turn of unmap_range.
LEMMA UnmapStep ==
  ASSUME NEW ms, NEW st, NEW ks, NEW o, NEW h, Tearing(ms, st, ks, o, h), o.pc = "unmap",
         NEW h2, Puts(h, h2, o.slot, o.la, NULL),
         NEW next, Skips(h[o.slot], o.la, next),
         NEW vmas, vmas = ms[o.slot].vmas,
         NEW o2, o2 = IF next < vmas[o.i].end THEN [o EXCEPT !.la = next]
                      ELSE UnmapOf(vmas, o, o.i + 1)
  PROVE  Tearing(ms, st, ks, o2, h2)
<1>1. /\ o \in Operation /\ vmas \in Seq(Vma) /\ AreasOK(vmas) /\ o.slot \in Space /\ o.la \in Nat
      /\ Doomed(ms, st, ks, o, h) /\ Unmapping(vmas, o.i, o.la, h[o.slot])
  BY DEF Tearing, Doomed, Kept, Common, AreasOK, Operation
<1>2. PICK i, end \in Nat : i = o.i /\ i \in DOMAIN vmas /\ i # 0 /\ end = vmas[i].end /\ o.la < end
  BY <1>1, VmaType DEF Unmapping
<1>3. /\ \A lb \in Page : lb # o.la => h2[o.slot][lb] = h[o.slot][lb]
      /\ o.la \in Page => h2[o.slot][o.la] = NULL
      /\ \A s \in Space, lb \in Page : h2[s][lb] # NULL => h[s][lb] # NULL
  BY <1>1 DEF Puts
<1>4. Doomed(ms, st, ks, o, h2)
  BY <1>1, <1>3, KeptStays DEF Doomed
<1>5. ASSUME NEW lb \in Page, h2[o.slot][lb] # NULL
      PROVE  (next <= lb /\ lb < end) \/ \E j \in DOMAIN vmas : i < j /\ Holds(vmas[j], lb)
  <2>1. lb # o.la /\ h[o.slot][lb] # NULL /\ lb \in Nat
    BY <1>3, <1>5, TableSizes DEF Page
  <2>2. CASE o.la <= lb /\ lb < end
    <3>1. ~(lb < next)
      BY <1>1, <2>1, <2>2 DEF Skips
    <3>. QED BY <2>1, <2>2, <3>1 DEF Skips
  <2>3. CASE ~(o.la <= lb /\ lb < end)
    BY <1>1, <1>2, <2>1, <2>3 DEF Unmapping
  <2>. QED BY <2>2, <2>3
<1>6. CASE next < end
  <2>1. next \in Nat /\ o.la < next
    BY DEF Skips
  <2>2. o2 = [o EXCEPT !.la = next]
    BY <1>2, <1>6
  <2>3. o2 \in Operation
    BY <1>1, <2>1, <2>2 DEF Operation
  <2>4. /\ o2.pc = "unmap" /\ o2.child = o.child /\ o2.slot = o.slot /\ o2.proc = o.proc
        /\ o2.i = i /\ o2.la = next
    BY <1>1, <1>2, <2>2 DEF Operation
  <2>5. Doomed(ms, st, ks, o2, h2)
    BY <1>4, <2>3, <2>4, DoomedStays
  <2>6. vmas[i].start \in Nat /\ vmas[i].start <= next
    BY <1>1, <1>2, <2>1, VmaType DEF Unmapping
  <2>7. Unmapping(vmas, i, next, h2[o.slot])
    BY <1>2, <1>5, <1>6, <2>6 DEF Unmapping
  <2>. QED BY <2>4, <2>5, <2>7 DEF Tearing
<1>7. CASE ~(next < end)
  <2>1. o2 = UnmapOf(vmas, o, i + 1) /\ i + 1 \in Nat \ {0}
    BY <1>2, <1>7
  <2>2. ASSUME NEW lb \in Page, h2[o.slot][lb] # NULL
        PROVE  \E j \in DOMAIN vmas : i + 1 <= j /\ Holds(vmas[j], lb)
    <3>1. lb \in Nat /\ next \in Nat
      BY TableSizes DEF Page, Skips
    <3>2. PICK j \in DOMAIN vmas : i < j /\ Holds(vmas[j], lb)
      BY <1>2, <1>5, <1>7, <2>2, <3>1
    <3>. QED BY <1>1, <1>2, <3>2
  <2>. QED BY <1>4, <2>1, <2>2, UnmapTears
<1>. QED BY <1>6, <1>7

\* exit_range goes to the next directory, for the areas vmas.
DirectoryOf(vmas, o) ==
  IF o.gb + PDSIZE < vmas[o.i].end
  THEN [o EXCEPT !.gb = @ + PDSIZE, !.la = o.gb + PDSIZE, !.free_pd0 = TRUE]
  ELSE RangeOf(vmas, o, o.i + 1)

\* What follows a turn of exit_range.
RangeNext(vmas, o, b, o2) ==
  o2 = DirectoryOf(vmas, o) \/ o2 = [o EXCEPT !.la = o.la + PTSIZE, !.free_pd0 = b]

\* A turn of exit_range.
LEMMA RangeStep ==
  ASSUME NEW ms, NEW st, NEW ks, NEW o, NEW h, Tearing(ms, st, ks, o, h), o.pc = "exit_range",
         NEW vmas, vmas = ms[o.slot].vmas, NEW b \in BOOLEAN,
         NEW o2, RangeNext(vmas, o, b, o2)
  PROVE  Tearing(ms, st, ks, o2, h)
<1>1. /\ o \in Operation /\ vmas \in Seq(Vma) /\ o.slot \in Space /\ o.la \in Nat
      /\ Doomed(ms, st, ks, o, h) /\ Bare(h, o.slot) /\ o.i \in DOMAIN vmas /\ o.gb \in Page
  BY DEF Tearing, Doomed, Kept, Common, AreasOK, Operation
<1>2. /\ o.gb \in Nat /\ PDSIZE \in Nat /\ PTSIZE \in Nat /\ o.i \in Nat
      /\ vmas[o.i].end \in Nat /\ vmas[o.i].end <= USERTOP /\ USERTOP \in Nat
  <2>1. PDSIZE \in Nat /\ PTSIZE \in Nat /\ USERTOP \in Nat
    BY TableSizes
  <2>2. vmas[o.i].end \in 1 .. USERTOP /\ o.i \in Nat
    BY <1>1, VmaType
  <2>. QED BY <1>1, <2>1, <2>2 DEF Page
<1>3. CASE o2 = [o EXCEPT !.la = o.la + PTSIZE, !.free_pd0 = b]
  <2>1. PICK next \in Nat : next = o.la + PTSIZE
    BY <1>1, <1>2
  <2>2. o2 = [o EXCEPT !.la = next, !.free_pd0 = b]
    BY <1>3, <2>1
  <2>3. o2 \in Operation
    BY <1>1, <2>2 DEF Operation
  <2>4. /\ o2.pc = "exit_range" /\ o2.child = o.child /\ o2.slot = o.slot /\ o2.proc = o.proc
        /\ o2.i = o.i /\ o2.gb = o.gb
    BY <1>1, <2>2 DEF Operation
  <2>5. Doomed(ms, st, ks, o2, h)
    BY <1>1, <2>3, <2>4, DoomedStays
  <2>. QED BY <1>1, <2>4, <2>5 DEF Tearing
<1>4. CASE o2 = DirectoryOf(vmas, o) /\ o.gb + PDSIZE < vmas[o.i].end
  <2>1. PICK gb \in Nat : gb = o.gb + PDSIZE /\ gb \in Page
    BY <1>2, <1>4 DEF Page
  <2>2. o2 = [o EXCEPT !.gb = gb, !.la = gb, !.free_pd0 = TRUE]
    BY <1>1, <1>4, <2>1 DEF DirectoryOf, Operation
  <2>3. o2 \in Operation
    BY <1>1, <2>2 DEF Operation
  <2>4. /\ o2.pc = "exit_range" /\ o2.child = o.child /\ o2.slot = o.slot /\ o2.proc = o.proc
        /\ o2.i = o.i /\ o2.gb = gb
    BY <1>1, <2>2 DEF Operation
  <2>5. Doomed(ms, st, ks, o2, h)
    BY <1>1, <2>3, <2>4, DoomedStays
  <2>. QED BY <1>1, <2>1, <2>4, <2>5 DEF Tearing
<1>5. CASE o2 = DirectoryOf(vmas, o) /\ ~(o.gb + PDSIZE < vmas[o.i].end)
  <2>1. o2 = RangeOf(vmas, o, o.i + 1) /\ o.i + 1 \in Nat \ {0}
    BY <1>2, <1>5 DEF DirectoryOf
  <2>. QED BY <1>1, <2>1, RangeTears
<1>. QED BY <1>3, <1>4, <1>5 DEF RangeNext

\* ms2 is ms, but for s.
Becomes(ms, ms2, s, v) == ms2 \in [Space -> Mm \cup {NULL}] /\ ms2[s] = v /\ \A t \in Space : t # s => ms2[t] = ms[t]

\* put_pgdir and mm_destroy.
LEMMA PutStep ==
  ASSUME NEW ms, NEW st, NEW ks, NEW o, NEW h, Tearing(ms, st, ks, o, h), o.pc = "put_pgdir",
         NEW ms2, Becomes(ms, ms2, o.slot, NULL),
         NEW o2, o2 = [o EXCEPT !.pc = "dropped"]
  PROVE  Dropped(ms2, st, ks, o2, h)
<1>1. /\ o \in Operation /\ o.slot \in Space /\ o.proc \in Proc /\ First \in Proc /\ New \notin Proc
      /\ Doomed(ms, st, ks, o, h) /\ Kept(ms, st, ks, h, o.slot, NULL)
  BY VmmAssumption DEF Tearing, Doomed, Operation
<1>2. "dropped" \in Labels
  BY DEF Labels
<1>3. o2 \in Operation
  BY <1>1, <1>2 DEF Operation
<1>4. o2.pc = "dropped" /\ o2.child = o.child /\ o2.slot = o.slot /\ o2.proc = o.proc
  BY <1>1 DEF Operation
<1>5. Common(ms2, st, h)
  BY <1>1 DEF Kept, Common, Becomes, Space
<1>6. Counts(ms2, New)
  BY <1>1 DEF Kept, Counts, Becomes, Space
<1>7. KStacks(st, ks, NULL)
  BY <1>1 DEF Kept
<1>8. ms2[New] = NULL /\ ms2[o.proc] = NULL
  BY <1>1 DEF Doomed, Becomes, Space
<1>. QED BY <1>1, <1>3, <1>4, <1>5, <1>6, <1>7, <1>8 DEF Dropped, Kept, Doomed

-----------------------------------------------------------------------------
(* The control state when processes and mms come and go.                   *)

\* DropMm, for the mms ms.
Drop(ms, p, o, ms2, o2) ==
  IF ms[p] = NULL \/ ms[p].mm_count # 1
  THEN Becomes(ms, ms2, p, NULL) /\ o2 = [o EXCEPT !.pc = "dropped"]
  ELSE Becomes(ms, ms2, p, [ms[p] EXCEPT !.mm_count = 0]) /\ o2 = UnmapOf(ms[p].vmas, o, 1)

\* An operation that begins.
LEMMA Begins ==
  ASSUME NEW pc \in Labels, NEW p \in Proc, NEW prog \in Program \cup {NULL},
         NEW child \in Proc \cup {NULL}
  PROVE  /\ Begin(pc, p, prog, child) \in Operation
         /\ Begin(pc, p, prog, child).pc = pc /\ Begin(pc, p, prog, child).proc = p
         /\ Begin(pc, p, prog, child).prog = prog /\ Begin(pc, p, prog, child).child = child
         /\ Begin(pc, p, prog, child).slot = p
BY DEF Begin, Operation, Space

\* An mm is not NULL.
LEMMA NotNull ==
  /\ NULL \notin Mm /\ NULL \notin Proc /\ New \notin Proc /\ NULL \notin Program /\ NULL \notin Value
  /\ First \in Proc /\ NULL \notin Space
BY VmmAssumption DEF Space

\* exit and execve give up the mm.
LEMMA DropStep ==
  ASSUME NEW ms, NEW st, NEW ks, NEW h, Resting(ms, st, ks, Idle, h),
         NEW p \in Proc, st[p] = "live", NEW prog \in Program \cup {NULL},
         NEW o, o = Begin("unmap", p, prog, NULL),
         NEW ms2, NEW o2, Drop(ms, p, o, ms2, o2)
  PROVE  Dropped(ms2, st, ks, o2, h) \/ Tearing(ms2, st, ks, o2, h)
<1>1. /\ "unmap" \in Labels /\ "dropped" \in Labels /\ NULL \in Proc \cup {NULL}
      /\ p \in Space /\ p # New /\ ms[New] = NULL /\ Kept(ms, st, ks, h, New, NULL)
  BY NotNull DEF Labels, Space, Resting
<1>2. o \in Operation /\ o.proc = p /\ o.prog = prog /\ o.child = NULL /\ o.slot = p
  BY <1>1, Begins
<1>3. CASE ms[p] = NULL
  <2>1. Becomes(ms, ms2, p, NULL) /\ o2 = [o EXCEPT !.pc = "dropped"]
    BY <1>3 DEF Drop
  <2>2. o2 \in Operation
    BY <1>1, <1>2, <2>1 DEF Operation
  <2>3. o2.pc = "dropped" /\ o2.child = NULL /\ o2.proc = p
    BY <1>2, <2>1 DEF Operation
  <2>4. Common(ms2, st, h) /\ Counts(ms2, New)
    BY <1>1, <1>3, <2>1 DEF Kept, Common, Counts, Becomes, Space
  <2>5. ms2[New] = NULL /\ ms2[p] = NULL
    BY <1>1, <2>1 DEF Becomes, Space
  <2>. QED BY <1>1, <2>2, <2>3, <2>4, <2>5 DEF Dropped, Kept
<1>4. CASE ms[p] # NULL
  <2>1. ms[p] \in Mm /\ ms[p].mm_count = 1
    BY <1>1, <1>4 DEF Kept, Common, Counts
  <2>2. PICK v : v = [ms[p] EXCEPT !.mm_count = 0]
    OBVIOUS
  <2>3. v \in Mm /\ v.vmas = ms[p].vmas /\ v.mm_count = 0 /\ v # NULL
    BY <2>1, <2>2, NotNull DEF Mm
  <2>4. Becomes(ms, ms2, p, v) /\ o2 = UnmapOf(ms[p].vmas, o, 1)
    BY <1>4, <2>1, <2>2 DEF Drop
  <2>5. ms2[p] = v /\ ms2[New] = NULL /\ ms2 \in [Space -> Mm \cup {NULL}] /\ \A s \in Space : s # p => ms2[s] = ms[s]
    BY <1>1, <2>4 DEF Becomes, Space
  <2>6. Common(ms2, st, h) /\ Counts(ms2, p)
    BY <1>1, <1>4, <2>3, <2>5 DEF Kept, Common, Counts, Space
  <2>7. Doomed(ms2, st, ks, o, h)
    BY <1>1, <1>2, <2>3, <2>5, <2>6 DEF Doomed, Kept
  <2>8. ms2[p].vmas = ms[p].vmas /\ AreasOK(ms[p].vmas) /\ 1 \in Nat \ {0}
    BY <1>1, <1>4, <2>3, <2>5 DEF Kept, Common
  <2>9. ASSUME NEW lb \in Page, h[p][lb] # NULL
        PROVE  \E j \in DOMAIN ms2[p].vmas : 1 <= j /\ Holds(ms2[p].vmas[j], lb)
    BY <1>1, <1>4, <2>8, <2>9 DEF Kept, Common, InAreas, AreasOK
  <2>10. Tearing(ms2, st, ks, o2, h)
    BY <1>2, <2>4, <2>7, <2>8, <2>9, UnmapTears
  <2>. QED BY <2>10
<1>. QED BY <1>3, <1>4

\* do_exit's end.
LEMMA ZombieStep ==
  ASSUME NEW ms, NEW st, NEW ks, NEW o, NEW h, Dropped(ms, st, ks, o, h),
         NEW st2, st2 = [st EXCEPT ![o.proc] = "zombie"]
  PROVE  Resting(ms, st2, ks, Idle, h)
<1>1. /\ o.proc \in Proc /\ ms[o.proc] = NULL /\ st[o.proc] = "live" /\ ms[New] = NULL
      /\ st \in [Proc -> {"none", "live", "zombie"}]
  BY DEF Dropped, Operation, Kept, Common
<1>2. st2 \in [Proc -> {"none", "live", "zombie"}] /\ st2[o.proc] = "zombie"
      /\ \A p \in Proc : p # o.proc => st2[p] = st[p]
  BY <1>1
<1>3. Common(ms, st2, h)
  BY <1>1, <1>2 DEF Dropped, Kept, Common
<1>4. KStacks(st2, ks, NULL)
  BY <1>1, <1>2 DEF Dropped, Kept, KStacks
<1>. QED BY <1>1, <1>3, <1>4 DEF Dropped, Resting, Kept

\* A new mm has no areas.
Fresh(v) == v \in Mm /\ v.vmas = <<>> /\ v.mm_count = 0

\* An mm without areas and pages is added.
LEMMA FreshKept ==
  ASSUME NEW ms, NEW st, NEW ks, NEW h, NEW c, Kept(ms, st, ks, h, New, c),
         Bare(h, New), NEW v, Fresh(v), NEW ms2, Becomes(ms, ms2, New, v)
  PROVE  /\ Kept(ms2, st, ks, h, New, c) /\ ms2[New] = v /\ v # NULL
         /\ \A p \in Proc : ms2[p] = ms[p]
<1>1. ms2 \in [Space -> Mm \cup {NULL}] /\ ms2[New] = v /\ \A p \in Proc : p # New /\ p \in Space /\ ms2[p] = ms[p]
  BY NotNull DEF Becomes, Space
<1>2. AreasOK(<<>>) /\ v # NULL
  BY NotNull DEF AreasOK, Fresh
<1>3. \A s \in Space : s = New \/ s \in Proc
  BY DEF Space
<1>4. Common(ms2, st, h)
  BY <1>1, <1>2, <1>3 DEF Kept, Common, Fresh, Bare
<1>5. Counts(ms2, New)
  BY <1>1 DEF Kept, Counts
<1>. QED BY <1>1, <1>2, <1>4, <1>5 DEF Kept

\* load_icode begins; a file that is no program is the end of it.
LEMMA CreateStep ==
  ASSUME NEW ms, NEW st, NEW ks, NEW o, NEW h, Dropped(ms, st, ks, o, h), o.prog # NULL,
         Bare(h, New), NEW v, Fresh(v), NEW ms2, Becomes(ms, ms2, New, v),
         NEW o2, o2 = [o EXCEPT !.slot = New, !.i = 1,
                               !.pc = IF o.prog.magic THEN "segment" ELSE "put_pgdir"]
  PROVE  Loading(ms2, st, ks, o2, h) \/ Tearing(ms2, st, ks, o2, h)
<1>1. /\ o \in Operation /\ o.child = NULL /\ ms[New] = NULL /\ ms[o.proc] = NULL /\ st[o.proc] = "live"
      /\ o.proc \in Proc /\ o.prog \in Program /\ Kept(ms, st, ks, h, New, NULL)
  BY DEF Dropped, Operation
<1>2. /\ Kept(ms2, st, ks, h, New, NULL) /\ ms2[New] = v /\ v # NULL
      /\ \A p \in Proc : ms2[p] = ms[p]
  BY <1>1, FreshKept
<1>3. PICK pc \in Labels : pc = IF o.prog.magic THEN "segment" ELSE "put_pgdir"
  BY DEF Labels
<1>4. o2 = [o EXCEPT !.slot = New, !.i = 1, !.pc = pc] /\ 1 \in Nat /\ New \in Space
  BY <1>3 DEF Space
<1>5. o2 \in Operation
  BY <1>1, <1>4 DEF Operation
<1>6. /\ o2.pc = pc /\ o2.child = NULL /\ o2.slot = New /\ o2.proc = o.proc
      /\ o2.prog = o.prog /\ o2.i = 1
  BY <1>1, <1>4 DEF Operation
<1>7. 1 \in DOMAIN o.prog.segs
  BY <1>1, VmmAssumption
<1>8. FromSegs(v.vmas, o.prog.segs, 1 - 1)
  BY DEF FromSegs, Fresh
<1>9. CASE pc = "segment"
  BY <1>1, <1>2, <1>5, <1>6, <1>7, <1>8, <1>9 DEF Loading, Fresh
<1>10. CASE pc = "put_pgdir"
  <2>1. Doomed(ms2, st, ks, o2, h)
    BY <1>1, <1>2, <1>5, <1>6 DEF Doomed, Fresh
  <2>. QED BY <1>6, <1>10, <2>1 DEF Tearing
<1>. QED BY <1>3, <1>9, <1>10

\* fork begins with the kernel stack of the child.
LEMMA ForkStep ==
  ASSUME NEW ms, NEW st, NEW ks, NEW h, Resting(ms, st, ks, Idle, h),
         NEW p \in Proc, ms[p] # NULL, NEW c \in Proc, st[c] = "none",
         NEW base, base # NoFrame,
         NEW ks2, ks2 \in [Proc -> Frame0], ks2[c] = base, \A q \in Proc : q # c => ks2[q] = ks[q],
         NEW o2, o2 = Begin("copy_mm", p, NULL, c)
  PROVE  Copying(ms, st, ks2, o2, h)
<1>1. "copy_mm" \in Labels /\ NULL \in Program \cup {NULL} /\ c \in Proc \cup {NULL}
  BY DEF Labels
<1>2. o2 \in Operation /\ o2.proc = p /\ o2.pc = "copy_mm" /\ o2.child = c
  BY <1>1, Begins
<1>3. KStacks(st, ks2, c)
  BY NotNull DEF Resting, Kept, KStacks
<1>. QED BY <1>2, <1>3 DEF Resting, Copying, Kept

\* The child gets an mm.
LEMMA CopyMmStep ==
  ASSUME NEW ms, NEW st, NEW ks, NEW o, NEW h, Copying(ms, st, ks, o, h), o.pc = "copy_mm",
         Bare(h, New), NEW v, Fresh(v), NEW ms2, Becomes(ms, ms2, New, v),
         NEW o2, o2 = [o EXCEPT !.pc = "dup", !.slot = New, !.i = Len(ms[o.proc].vmas)]
  PROVE  Copying(ms2, st, ks, o2, h)
<1>1. /\ o \in Operation /\ o.child \in Proc /\ ms[New] = NULL /\ ms[o.proc] # NULL
      /\ o.proc \in Proc /\ o.proc \in Space /\ Kept(ms, st, ks, h, New, o.child)
      /\ st[o.child] = "none"
  BY DEF Copying, Operation, Space
<1>2. /\ Kept(ms2, st, ks, h, New, o.child) /\ ms2[New] = v /\ v # NULL
      /\ \A p \in Proc : ms2[p] = ms[p]
  BY <1>1, FreshKept
<1>3. ms[o.proc].vmas \in Seq(Vma) /\ ms[o.proc].vmas # <<>>
  BY <1>1 DEF Kept, Common, AreasOK
<1>4. PICK n \in Nat : n = Len(ms[o.proc].vmas) /\ n \in DOMAIN ms[o.proc].vmas
  BY <1>3
<1>5. o2 = [o EXCEPT !.pc = "dup", !.slot = New, !.i = n] /\ "dup" \in Labels /\ New \in Space
  BY <1>4 DEF Space, Labels
<1>6. o2 \in Operation
  BY <1>1, <1>5 DEF Operation
<1>7. o2.pc = "dup" /\ o2.child = o.child /\ o2.slot = New /\ o2.proc = o.proc /\ o2.i = n
  BY <1>1, <1>5 DEF Operation
<1>8. Copied(v.vmas, ms[o.proc].vmas, n)
  BY <1>4 DEF Copied, Fresh
<1>9. ms2[o.proc] = ms[o.proc] /\ ms2[New].mm_count = 0 /\ ms2[New] # NULL
  BY <1>1, <1>2 DEF Fresh
<1>. QED BY <1>1, <1>2, <1>4, <1>6, <1>7, <1>8, <1>9 DEF Copying

\* Whose mm the new one becomes.
Owner(o, p) == p = IF o.child = NULL THEN o.proc ELSE o.child

\* The new mm becomes that of the process, or of the child.
LEMMA AttachStep ==
  ASSUME NEW ms, NEW st, NEW ks, NEW o, NEW h, Attaching(ms, st, ks, o, h),
         NEW p, Owner(o, p),
         NEW ms2 \in [Space -> Mm \cup {NULL}], ms2[New] = NULL,
         ms2[p] = [ms[New] EXCEPT !.mm_count = ms[New].mm_count + 1],
         \A s \in Space : s # p /\ s # New => ms2[s] = ms[s],
         NEW st2, st2 = [st EXCEPT ![p] = "live"],
         NEW h2, Hands(h, h2, New, p)
  PROVE  Resting(ms2, st2, ks, Idle, h2)
<1>1. /\ o \in Operation /\ ms[New] # NULL /\ ms[New] \in Mm /\ ms[New].mm_count = 0 /\ ms[New].vmas # <<>>
      /\ p \in Proc /\ p \in Space /\ New \in Space /\ New \notin Proc /\ ms[p] = NULL
      /\ Kept(ms, st, ks, h, New, o.child) /\ st \in [Proc -> {"none", "live", "zombie"}]
  BY NotNull DEF Owner, Attaching, Operation, Space, Kept, Common
<1>2. PICK v : v = [ms[New] EXCEPT !.mm_count = ms[New].mm_count + 1]
  OBVIOUS
<1>3. v \in Mm /\ v # NULL /\ v.mm_count = 1 /\ v.vmas = ms[New].vmas /\ ms2[p] = v
  BY <1>1, <1>2, NotNull DEF Mm
<1>4. /\ st2 \in [Proc -> {"none", "live", "zombie"}] /\ st2[p] = "live"
      /\ \A q \in Proc : q # p => st2[q] = st[q]
  BY <1>1
<1>5. h2[p] = h[New] /\ \A s \in Space : s # New /\ s # p => h2[s] = h[s]
  BY DEF Hands
<1>6. \A s \in Space : ms2[s] # NULL => s = p \/ (s # p /\ s # New /\ ms2[s] = ms[s] /\ h2[s] = h[s])
  BY <1>1, <1>5
<1>7. Common(ms2, st2, h2)
  <2>1. ASSUME NEW s \in Space, ms2[s] # NULL
        PROVE  AreasOK(ms2[s].vmas) /\ \A la \in Page : h2[s][la] # NULL => InAreas(ms2[s].vmas, la)
    BY <1>1, <1>3, <1>5, <1>6, <2>1 DEF Kept, Common
  <2>2. ASSUME NEW q \in Proc, ms2[q] # NULL PROVE st2[q] = "live" /\ ms2[q].vmas # <<>>
    BY <1>1, <1>3, <1>4, <1>6, <2>2 DEF Kept, Common, Space
  <2>. QED BY <1>4, <2>1, <2>2 DEF Common
<1>8. Counts(ms2, New)
  BY <1>1, <1>3, <1>6 DEF Kept, Counts, Space
<1>9. KStacks(st2, ks, NULL)
  <2>1. CASE o.child = NULL
    BY <1>1, <1>4, <2>1, NotNull DEF Owner, Attaching, Kept, KStacks
  <2>2. CASE o.child # NULL
    BY <1>1, <1>4, <2>2, NotNull DEF Owner, Attaching, Kept, KStacks
  <2>. QED BY <2>1, <2>2
<1>. QED BY <1>7, <1>8, <1>9 DEF Resting, Kept

\* put_kstack.
LEMMA ReapStep ==
  ASSUME NEW ms, NEW st, NEW ks, NEW h, Resting(ms, st, ks, Idle, h),
         NEW z \in Proc, st[z] = "zombie",
         NEW st2, st2 = [st EXCEPT ![z] = "none"],
         NEW ks2, ks2 \in [Proc -> Frame0], ks2[z] = NoFrame, \A q \in Proc : q # z => ks2[q] = ks[q]
  PROVE  Resting(ms, st2, ks2, Idle, h)
<1>1. st \in [Proc -> {"none", "live", "zombie"}]
  BY DEF Resting, Kept, Common
<1>2. /\ st2 \in [Proc -> {"none", "live", "zombie"}] /\ st2[z] = "none"
      /\ \A q \in Proc : q # z => st2[q] = st[q]
  BY <1>1
<1>3. Common(ms, st2, h)
  BY <1>2 DEF Resting, Kept, Common
<1>4. KStacks(st2, ks2, NULL)
  BY <1>2, NotNull DEF Resting, Kept, KStacks
<1>. QED BY <1>3, <1>4 DEF Resting, Kept

\* A page of an area is written, or appears.
LEMMA AccessStep ==
  ASSUME NEW ms, NEW st, NEW ks, NEW h, Resting(ms, st, ks, Idle, h),
         NEW p \in Proc, ms[p] # NULL, NEW la \in Page, InAreas(ms[p].vmas, la),
         NEW v, NEW h2, Puts(h, h2, p, la, v)
  PROVE  Resting(ms, st, ks, Idle, h2)
<1>1. \A s \in Space, lb \in Page :
        ms[s] # NULL /\ h2[s][lb] # NULL => h[s][lb] # NULL \/ InAreas(ms[s].vmas, lb)
  BY DEF Puts
<1>2. Kept(ms, st, ks, h2, New, NULL)
  BY <1>1, KeptStays DEF Resting
<1>. QED BY <1>2 DEF Resting

-----------------------------------------------------------------------------
(* The control state when an mm is built.                                  *)

\* insert_vma_struct, for the mms ms.
Inserts(ms, vma, at, new, ms2) ==
  /\ at = StopsAt(ms[New].vmas, vma.start)
  /\ new = InsertAt(ms[New].vmas, at, vma)
  /\ Becomes(ms, ms2, New, [ms[New] EXCEPT !.vmas = new])
InsertsAt(ms, vma, at, ms2) == \E new : Inserts(ms, vma, at, new, ms2)

\* Where the area fits, the pages of the new mm are in its areas.
LEMMA InsertKept ==
  ASSUME NEW ms, NEW st, NEW ks, NEW h, NEW c, Kept(ms, st, ks, h, New, c),
         h \in [Space -> [Page -> Value \cup {NULL}]],
         ms[New] # NULL, NEW vma \in Vma, vma.start < vma.end,
         NEW at, NEW new, NEW ms2, Inserts(ms, vma, at, new, ms2),
         FitsIn(ms[New].vmas, at, vma)
  PROVE  /\ Kept(ms2, st, ks, h, New, c) /\ ms2[New] # NULL /\ ms2[New].vmas = new
         /\ ms2[New].mm_count = ms[New].mm_count
         /\ \A p \in Proc : ms2[p] = ms[p]
         /\ ToCome(new, h[New], vma.start, vma.end - 1)
         /\ \A i \in DOMAIN new : new[i] = vma \/ \E j \in DOMAIN ms[New].vmas : new[i] = ms[New].vmas[j]
<1>1. New \in Space /\ ms[New] \in Mm /\ AreasOK(ms[New].vmas) /\ ms[New].vmas \in Seq(Vma)
  BY DEF Kept, Common, Space, AreasOK
<1>2. PICK vmas : vmas = ms[New].vmas
  OBVIOUS
<1>3. AreasOK(vmas) /\ at = StopsAt(vmas, vma.start) /\ new = InsertAt(vmas, at, vma) /\ FitsIn(vmas, at, vma)
  BY <1>1, <1>2 DEF Inserts
<1>4. /\ AreasOK(new) /\ new # <<>>
      /\ \A la \in Nat : InAreas(new, la) <=> InAreas(vmas, la) \/ Holds(vma, la)
      /\ \A la \in Nat : Holds(vma, la) => ~InAreas(vmas, la)
      /\ \A i \in DOMAIN new : new[i] = vma \/ \E j \in DOMAIN vmas : new[i] = vmas[j]
  BY <1>3, InsertSorted
<1>5. new \in Seq(Vma)
  BY <1>4 DEF AreasOK
<1>6. PICK v : v = [ms[New] EXCEPT !.vmas = new]
  OBVIOUS
<1>7. v \in Mm /\ v.vmas = new /\ v.mm_count = ms[New].mm_count /\ v # NULL
  BY <1>1, <1>5, <1>6, NotNull DEF Mm
<1>8. ms2 \in [Space -> Mm \cup {NULL}] /\ ms2[New] = v /\ \A p \in Proc : p # New /\ p \in Space /\ ms2[p] = ms[p]
  BY <1>6, NotNull DEF Inserts, Becomes, Space
<1>9. \A s \in Space : s = New \/ s \in Proc
  BY DEF Space
<1>10. \A la \in Page : la \in Nat
  BY TableSizes DEF Page
<1>11. ASSUME NEW la \in Page PROVE h[New][la] # NULL => InAreas(vmas, la)
  BY <1>1, <1>2, <1>11 DEF Kept, Common
<1>12. Common(ms2, st, h)
  BY <1>4, <1>7, <1>8, <1>9, <1>10, <1>11 DEF Kept, Common
<1>13. Counts(ms2, New)
  BY <1>8 DEF Kept, Counts
<1>14. ToCome(new, h[New], vma.start, vma.end - 1)
  <2>1. PICK start, end \in Nat : start = vma.start /\ end = vma.end
    BY VmaType
  <2>2. ASSUME NEW lb \in Page, start <= lb, lb <= end - 1 PROVE InAreas(new, lb) /\ h[New][lb] = NULL
    <3>1. lb \in Nat /\ Holds(vma, lb)
      BY <1>10, <2>1, <2>2 DEF Holds
    <3>. QED BY <1>4, <1>11, <3>1
  <2>. QED BY <2>1, <2>2 DEF ToCome
<1>. QED BY <1>2, <1>4, <1>7, <1>8, <1>12, <1>13, <1>14 DEF Kept

\* load_icode gives up.
LEMMA GiveUp ==
  ASSUME NEW ms, NEW st, NEW ks, NEW o, NEW h, Loading(ms, st, ks, o, h),
         NEW o2, o2 = UnmapOf(ms[New].vmas, o, 1)
  PROVE  Tearing(ms, st, ks, o2, h)
<1>1. o \in Operation /\ o.slot = New /\ New \in Space /\ Doomed(ms, st, ks, o, h)
  BY DEF Loading, Doomed, Space
<1>2. AreasOK(ms[New].vmas) /\ ms[o.slot].vmas = ms[New].vmas /\ 1 \in Nat \ {0}
  BY <1>1 DEF Loading, Kept, Common
<1>3. ASSUME NEW lb \in Page, h[o.slot][lb] # NULL
      PROVE  \E j \in DOMAIN ms[New].vmas : 1 <= j /\ Holds(ms[New].vmas[j], lb)
  BY <1>1, <1>2, <1>3 DEF Loading, Kept, Common, InAreas, AreasOK
<1>. QED BY <1>1, <1>2, <1>3, UnmapTears

\* What AssertsOnlyOnOverlap says of an operation.
Overlapping(o) ==
  /\ o.prog # NULL
  /\ LET areas == Append(o.prog.segs, Stack)
     IN \E j \in DOMAIN areas : \E i \in 1 .. j - 1 :
          areas[j].start < areas[i].start /\ areas[i].start < areas[j].end

\* Segments that areas are made of are among the areas.
LEMMA EarlierAreas ==
  ASSUME NEW prog \in Program, NEW areas, areas = Append(prog.segs, Stack)
  PROVE  /\ prog.segs \in Seq(Segment) /\ prog.segs # <<>>
         /\ Len(areas) = Len(prog.segs) + 1 /\ DOMAIN areas = 1 .. Len(prog.segs) + 1
         /\ \A j \in DOMAIN prog.segs : areas[j] = prog.segs[j]
         /\ areas[Len(prog.segs) + 1] = Stack
<1>1. prog.segs \in Seq(Segment) /\ prog.segs # <<>>
  BY VmmAssumption
<1>. QED BY <1>1

\* mm_map refuses an area whose first page is in another one; one that runs
\* into the next area is one of those the property is about.
LEMMA OverlapFound ==
  ASSUME NEW ms, NEW st, NEW ks, NEW o, NEW h, Loading(ms, st, ks, o, h),
         NEW n \in Nat, NEW areas, areas = Append(o.prog.segs, Stack),
         n <= Len(o.prog.segs), FromSegs(ms[New].vmas, o.prog.segs, n),
         NEW vma \in Vma, vma.start < vma.end,
         areas[n + 1].start = vma.start, areas[n + 1].end = vma.end,
         ~InAreas(ms[New].vmas, vma.start),
         NEW at, at = StopsAt(ms[New].vmas, vma.start), ~FitsIn(ms[New].vmas, at, vma),
         NEW o2, o2.prog = o.prog
  PROVE  Overlapping(o2)
<1>1. o.prog \in Program /\ o.prog # NULL /\ AreasOK(ms[New].vmas)
  BY NotNull DEF Loading, Kept, Common, Space
<1>2. PICK vmas : vmas = ms[New].vmas
  OBVIOUS
<1>3. PICK k \in DOMAIN vmas : vma.start < vmas[k].start /\ vmas[k].start < vma.end
  BY <1>1, <1>2, OnlyTheNext
<1>4. PICK i \in 1 .. n : vmas[k].start = o.prog.segs[i].start
  BY <1>2, <1>3 DEF FromSegs
<1>5. /\ o.prog.segs \in Seq(Segment) /\ DOMAIN areas = 1 .. Len(o.prog.segs) + 1
      /\ \A j \in DOMAIN o.prog.segs : areas[j] = o.prog.segs[j]
  BY <1>1, EarlierAreas
<1>6. i \in DOMAIN o.prog.segs /\ n + 1 \in DOMAIN areas /\ i \in 1 .. (n + 1) - 1
  BY <1>4, <1>5
<1>7. areas[n + 1].start < areas[i].start /\ areas[i].start < areas[n + 1].end
  BY <1>3, <1>4, <1>5, <1>6
<1>. QED BY <1>1, <1>6, <1>7 DEF Overlapping

\* The area of a segment.
AreaOf(seg) == [start |-> seg.start, end |-> seg.end, write |-> seg.write]

\* The areas of segments, and that of the stack, are areas.
LEMMA AreasAre ==
  /\ \A prog \in Program, i \in Nat : i \in DOMAIN prog.segs =>
       /\ AreaOf(prog.segs[i]) \in Vma
       /\ AreaOf(prog.segs[i]).start = prog.segs[i].start
       /\ AreaOf(prog.segs[i]).end = prog.segs[i].end
       /\ prog.segs[i].start \in Nat /\ prog.segs[i].end \in Nat /\ prog.segs[i].end < USERTOP
       /\ prog.segs[i].start < prog.segs[i].end
  /\ Stack \in Vma /\ Stack.start < Stack.end
  /\ Stack.start = USERTOP - USTACKPAGE /\ Stack.end = USERTOP
  /\ USERTOP \in Nat /\ USTACKPAGE \in Nat /\ NPreload \in Nat \ {0}
  /\ NPreload <= USTACKPAGE /\ USTACKPAGE < USERTOP
<1>1. USERTOP \in Nat /\ USERTOP # 0
  BY TableSizes
<1>2. /\ USTACKPAGE \in Nat /\ NPreload \in Nat \ {0}
      /\ NPreload <= USTACKPAGE /\ USTACKPAGE < USERTOP /\ USTACKPAGE >= 1
  BY <1>1, VmmAssumption
<1>3. Stack \in Vma /\ Stack.start < Stack.end /\ Stack.start = USERTOP - USTACKPAGE /\ Stack.end = USERTOP
  BY <1>1, <1>2 DEF Stack, Vma, Page
<1>4. ASSUME NEW prog \in Program, NEW i \in Nat, i \in DOMAIN prog.segs
      PROVE  /\ AreaOf(prog.segs[i]) \in Vma
             /\ AreaOf(prog.segs[i]).start = prog.segs[i].start
             /\ AreaOf(prog.segs[i]).end = prog.segs[i].end
             /\ prog.segs[i].start \in Nat /\ prog.segs[i].end \in Nat /\ prog.segs[i].end < USERTOP
             /\ prog.segs[i].start < prog.segs[i].end
  <2>1. prog.segs[i] \in Segment /\ prog.segs[i].start < prog.segs[i].end
    BY <1>4, VmmAssumption
  <2>2. /\ prog.segs[i].start \in Page /\ prog.segs[i].end \in Page /\ prog.segs[i].write \in BOOLEAN
    BY <2>1 DEF Segment
  <2>3. /\ prog.segs[i].start \in Nat /\ prog.segs[i].end \in Nat /\ prog.segs[i].end < USERTOP
        /\ prog.segs[i].end \in 1 .. USERTOP
    BY <1>1, <2>1, <2>2 DEF Page
  <2>. QED BY <2>1, <2>2, <2>3 DEF AreaOf, Vma
<1>. QED BY <1>1, <1>2, <1>3, <1>4

\* What the segment o is at asks for, and where loading goes on.
GetsArea(ms, o, vma, o2) ==
  /\ vma = AreaOf(o.prog.segs[o.i])
  /\ ~InAreas(ms[New].vmas, vma.start)
  /\ o2 = [o EXCEPT !.pc = "load", !.la = o.prog.segs[o.i].start]

\* The stack is asked for, then its first pages are taken.
GetsStack(ms, o, o2) ==
  /\ ~InAreas(ms[New].vmas, Stack.start)
  /\ o2 = [o EXCEPT !.pc = "preload", !.la = USERTOP - 1]

\* A segment gets its area.
LEMMA SegmentStep ==
  ASSUME NEW ms, NEW st, NEW ks, NEW o, NEW h, Loading(ms, st, ks, o, h), o.pc = "segment",
         h \in [Space -> [Page -> Value \cup {NULL}]],
         NEW vma, NEW o2, GetsArea(ms, o, vma, o2),
         NEW at, NEW ms2, InsertsAt(ms, vma, at, ms2)
  PROVE  /\ FitsIn(ms[New].vmas, at, vma) => Loading(ms2, st, ks, o2, h)
         /\ ~FitsIn(ms[New].vmas, at, vma) => Overlapping(o2)
<1>0. PICK new : Inserts(ms, vma, at, new, ms2)
  BY DEF InsertsAt
<1>1. /\ o \in Operation /\ o.prog \in Program /\ o.proc \in Proc /\ o.i \in DOMAIN o.prog.segs
      /\ ms[New] # NULL /\ ms[New].mm_count = 0 /\ o.i \in Nat
      /\ FromSegs(ms[New].vmas, o.prog.segs, o.i - 1) /\ o.slot = New /\ o.child = NULL
      /\ Kept(ms, st, ks, h, New, NULL) /\ ms[o.proc] = NULL /\ st[o.proc] = "live"
  BY DEF Loading, Operation
<1>2. PICK i, segs : i = o.i /\ segs = o.prog.segs /\ i \in Nat
  BY <1>1
<1>3. segs \in Seq(Segment) /\ i \in DOMAIN segs
  BY <1>1, <1>2, VmmAssumption
<1>4. PICK area \in Vma :
         /\ area = vma /\ area.start < area.end
         /\ area.start = segs[i].start /\ area.end = segs[i].end
         /\ segs[i].start \in Nat /\ segs[i].end \in Nat
         /\ ~InAreas(ms[New].vmas, area.start) /\ Inserts(ms, area, at, new, ms2)
  BY <1>0, <1>1, <1>2, AreasAre DEF GetsArea
<1>5. "load" \in Labels /\ o2 = [o EXCEPT !.pc = "load", !.la = segs[i].start]
  BY <1>2 DEF Labels, GetsArea
<1>6. o2 \in Operation
  BY <1>1, <1>4, <1>5 DEF Operation
<1>7. /\ o2.pc = "load" /\ o2.la = segs[i].start /\ o2.proc = o.proc /\ o2.prog = o.prog
      /\ o2.i = i /\ o2.slot = New /\ o2.child = NULL
  BY <1>1, <1>2, <1>5 DEF Operation
<1>8. CASE FitsIn(ms[New].vmas, at, area)
  <2>1. /\ Kept(ms2, st, ks, h, New, NULL) /\ ms2[New] # NULL /\ ms2[New].vmas = new
        /\ ms2[New].mm_count = 0
        /\ \A p \in Proc : ms2[p] = ms[p]
        /\ ToCome(new, h[New], area.start, area.end - 1)
        /\ \A k \in DOMAIN new : new[k] = area \/ \E j \in DOMAIN ms[New].vmas : new[k] = ms[New].vmas[j]
    BY <1>1, <1>4, <1>8, InsertKept
  <2>2. FromSegs(new, segs, i)
    <3>1. ASSUME NEW k \in DOMAIN new
          PROVE  \E j \in 1 .. i : new[k].start = segs[j].start /\ new[k].end = segs[j].end
      <4>1. CASE new[k] = area
        BY <1>3, <1>4, <4>1
      <4>2. CASE \E j \in DOMAIN ms[New].vmas : new[k] = ms[New].vmas[j]
        <5>1. PICK j \in 1 .. i - 1 : new[k].start = segs[j].start /\ new[k].end = segs[j].end
          BY <1>1, <1>2, <4>2 DEF FromSegs
        <5>. QED BY <1>2, <5>1
      <4>. QED BY <2>1, <4>1, <4>2
    <3>. QED BY <3>1 DEF FromSegs
  <2>3. Loading(ms2, st, ks, o2, h)
    BY <1>1, <1>2, <1>3, <1>4, <1>6, <1>7, <2>1, <2>2 DEF Loading
  <2>. QED BY <1>4, <1>8, <2>3
<1>9. CASE ~FitsIn(ms[New].vmas, at, area)
  <2>1. PICK n \in Nat : n = i - 1 /\ n + 1 = i /\ n <= Len(o.prog.segs)
    BY <1>2, <1>3
  <2>2. PICK areas : areas = Append(o.prog.segs, Stack)
    OBVIOUS
  <2>3. areas[i] = segs[i]
    BY <1>1, <1>2, <1>3, <2>2, EarlierAreas
  <2>4. /\ FromSegs(ms[New].vmas, o.prog.segs, n) /\ areas[n + 1].start = area.start
        /\ areas[n + 1].end = area.end /\ at = StopsAt(ms[New].vmas, area.start)
        /\ ~InAreas(ms[New].vmas, area.start)
        /\ n <= Len(o.prog.segs)
    BY <1>1, <1>2, <1>4, <2>1, <2>3, <1>0 DEF Inserts
  <2>5. Overlapping(o)
    BY <1>4, <1>9, <2>2, <2>4, OverlapFound
  <2>6. Overlapping(o2)
    BY <1>7, <2>5 DEF Overlapping
  <2>. QED BY <1>4, <1>9, <2>6
<1>. QED BY <1>8, <1>9

\* The stack gets its area.
LEMMA StackStep ==
  ASSUME NEW ms, NEW st, NEW ks, NEW o, NEW h, Loading(ms, st, ks, o, h), o.pc = "stack",
         h \in [Space -> [Page -> Value \cup {NULL}]],
         NEW at, NEW ms2, InsertsAt(ms, Stack, at, ms2), NEW o2, GetsStack(ms, o, o2)
  PROVE  /\ FitsIn(ms[New].vmas, at, Stack) => Loading(ms2, st, ks, o2, h)
         /\ ~FitsIn(ms[New].vmas, at, Stack) => Overlapping(o2)
<1>0. PICK new : Inserts(ms, Stack, at, new, ms2)
  BY DEF InsertsAt
<1>1. /\ o \in Operation /\ o.prog \in Program /\ o.proc \in Proc
      /\ ms[New] # NULL /\ ms[New].mm_count = 0 /\ o.slot = New /\ o.child = NULL
      /\ FromSegs(ms[New].vmas, o.prog.segs, Len(o.prog.segs))
      /\ Kept(ms, st, ks, h, New, NULL) /\ ms[o.proc] = NULL /\ st[o.proc] = "live"
  BY DEF Loading, Operation
<1>2. PICK vma \in Vma : vma = Stack /\ vma.start < vma.end
  BY AreasAre
<1>3. /\ vma.start = USERTOP - USTACKPAGE /\ vma.end = USERTOP /\ USERTOP \in Nat
      /\ USTACKPAGE \in Nat /\ NPreload \in Nat \ {0}
      /\ NPreload <= USTACKPAGE /\ USTACKPAGE < USERTOP
  BY <1>2, AreasAre
<1>4. PICK la \in Nat : la = USERTOP - 1 /\ "preload" \in Labels
  BY <1>3 DEF Labels
<1>5. o2 = [o EXCEPT !.pc = "preload", !.la = la]
  BY <1>4 DEF GetsStack
<1>6. o2 \in Operation
  BY <1>1, <1>4, <1>5 DEF Operation
<1>7. /\ o2.pc = "preload" /\ o2.la = la /\ o2.proc = o.proc /\ o2.prog = o.prog
      /\ o2.slot = New /\ o2.child = NULL
  BY <1>1, <1>5 DEF Operation
<1>8. CASE FitsIn(ms[New].vmas, at, vma)
  <2>1. /\ Kept(ms2, st, ks, h, New, NULL) /\ ms2[New] # NULL /\ ms2[New].vmas = new
        /\ ms2[New].mm_count = 0
        /\ \A p \in Proc : ms2[p] = ms[p]
        /\ ToCome(new, h[New], vma.start, vma.end - 1)
    BY <1>0, <1>1, <1>2, <1>8, InsertKept
  <2>2. \A lb \in Page : lb \in Nat
    BY TableSizes DEF Page
  <2>3. ToCome(new, h[New], USERTOP - NPreload, la)
    BY <1>3, <1>4, <2>1, <2>2 DEF ToCome
  <2>4. USERTOP - NPreload <= la /\ la < USERTOP
    BY <1>3, <1>4
  <2>5. Loading(ms2, st, ks, o2, h)
    BY <1>1, <1>6, <1>7, <2>1, <2>3, <2>4 DEF Loading
  <2>. QED BY <1>2, <1>8, <2>5
<1>9. CASE ~FitsIn(ms[New].vmas, at, vma)
  <2>1. o.prog.segs \in Seq(Segment)
    BY <1>1, VmmAssumption
  <2>2. PICK n, areas : n = Len(o.prog.segs) /\ areas = Append(o.prog.segs, Stack)
    OBVIOUS
  <2>3. n \in Nat /\ n <= Len(o.prog.segs) /\ areas[n + 1] = vma
    BY <1>1, <1>2, <2>1, <2>2, EarlierAreas
  <2>4. /\ FromSegs(ms[New].vmas, o.prog.segs, n) /\ areas[n + 1].start = vma.start
        /\ areas[n + 1].end = vma.end /\ at = StopsAt(ms[New].vmas, vma.start)
        /\ ~InAreas(ms[New].vmas, vma.start)
    BY <1>1, <1>2, <2>2, <2>3, <1>0 DEF Inserts, GetsStack
  <2>5. Overlapping(o2)
    BY <1>2, <1>7, <1>9, <2>2, <2>3, <2>4, OverlapFound
  <2>. QED BY <1>2, <1>9, <2>5
<1>. QED BY <1>2, <1>8, <1>9

\* What follows when a page is loaded, taken or copied, and when an area is.
LoadsOn(o, o2) ==
  o2 = IF o.la + 1 < o.prog.segs[o.i].end THEN [o EXCEPT !.la = o.la + 1]
       ELSE IF o.i < Len(o.prog.segs) THEN [o EXCEPT !.pc = "segment", !.i = o.i + 1]
       ELSE [o EXCEPT !.pc = "stack"]
PreloadsOn(o, o2) ==
  o2 = IF o.la > USERTOP - NPreload THEN [o EXCEPT !.la = o.la - 1]
       ELSE [o EXCEPT !.pc = "attach"]
CopiesOn(ms, o, next, o2) ==
  o2 = IF next < ms[o.proc].vmas[o.i].end THEN [o EXCEPT !.la = next]
       ELSE IF o.i > 1 THEN [o EXCEPT !.pc = "dup", !.i = o.i - 1]
       ELSE [o EXCEPT !.pc = "attach"]
CopiesArea(ms, o, vma, o2) ==
  vma = ms[o.proc].vmas[o.i] /\ o2 = [o EXCEPT !.pc = "copy", !.la = vma.start]

\* A page of a segment is loaded.
LEMMA LoadStep ==
  ASSUME NEW ms, NEW st, NEW ks, NEW o, NEW h, Loading(ms, st, ks, o, h), o.pc = "load",
         NEW v, NEW h2, Puts(h, h2, New, o.la, v),
         NEW o2, LoadsOn(o, o2)
  PROVE  Loading(ms, st, ks, o2, h2)
<1>1. /\ o \in Operation /\ o.prog \in Program /\ o.proc \in Proc /\ o.i \in DOMAIN o.prog.segs
      /\ ms[New] # NULL /\ ms[New].mm_count = 0 /\ o.i \in Nat /\ o.la \in Nat /\ New \in Space
      /\ FromSegs(ms[New].vmas, o.prog.segs, o.i) /\ o.slot = New /\ o.child = NULL
      /\ Kept(ms, st, ks, h, New, NULL) /\ ms[o.proc] = NULL /\ st[o.proc] = "live"
  BY DEF Loading, Operation, Space
<1>2. PICK i, la, segs : /\ i = o.i /\ la = o.la /\ segs = o.prog.segs /\ i \in Nat /\ la \in Nat
                         /\ segs \in Seq(Segment) /\ i \in DOMAIN segs
  BY <1>1, VmmAssumption
<1>3. PICK end, row \in Nat : end = segs[i].end /\ row = end - 1 /\ la < end /\ end < USERTOP
  <2>1. segs[i].end \in Nat /\ segs[i].end < USERTOP
    BY <1>1, <1>2, AreasAre
  <2>2. la < segs[i].end
    BY <1>2 DEF Loading
  <2>. QED BY <1>2, <2>1, <2>2
<1>4. /\ ToCome(ms[New].vmas, h[New], la, row) /\ Puts(h, h2, New, la, v)
      /\ FromSegs(ms[New].vmas, segs, i)
  BY <1>1, <1>2, <1>3 DEF Loading
<1>5. la \in Page /\ USERTOP \in Nat
  BY <1>2, <1>3, TableSizes DEF Page
<1>6. InAreas(ms[New].vmas, la)
  BY <1>2, <1>3, <1>4, <1>5 DEF ToCome
<1>7. \A s \in Space, lb \in Page :
        ms[s] # NULL /\ h2[s][lb] # NULL => h[s][lb] # NULL \/ InAreas(ms[s].vmas, lb)
  BY <1>4, <1>6 DEF Puts
<1>8. Kept(ms, st, ks, h2, New, NULL)
  BY <1>1, <1>7, KeptStays
<1>9. "segment" \in Labels /\ "stack" \in Labels
  BY DEF Labels
<1>10. CASE la + 1 < end
  <2>1. PICK next \in Nat : next = la + 1
    BY <1>2
  <2>2. o2 = [o EXCEPT !.la = next]
    BY <1>2, <1>3, <1>10, <2>1 DEF LoadsOn
  <2>3. o2 \in Operation
    BY <1>1, <2>2 DEF Operation
  <2>4. /\ o2.pc = "load" /\ o2.la = next /\ o2.proc = o.proc /\ o2.prog = o.prog
        /\ o2.i = i /\ o2.slot = New /\ o2.child = NULL
    BY <1>1, <1>2, <2>2 DEF Operation
  <2>5. ToCome(ms[New].vmas, h2[New], next, row)
    <3>1. ASSUME NEW lb \in Page, next <= lb, lb <= row
          PROVE  InAreas(ms[New].vmas, lb) /\ h2[New][lb] = NULL
      <4>1. lb \in Nat /\ la <= lb /\ lb # la
        BY <1>2, <2>1, <3>1, <1>5 DEF Page
      <4>. QED BY <1>1, <1>4, <3>1, <4>1 DEF ToCome, Puts
    <3>. QED BY <3>1 DEF ToCome
  <2>6. next < end
    BY <1>10, <2>1
  <2>. QED BY <1>1, <1>2, <1>3, <1>4, <1>8, <2>3, <2>4, <2>5, <2>6 DEF Loading
<1>11. CASE ~(la + 1 < end) /\ i < Len(segs)
  <2>1. PICK j \in Nat : j = i + 1 /\ j \in DOMAIN segs /\ i = j - 1
    BY <1>2, <1>11
  <2>2. o2 = [o EXCEPT !.pc = "segment", !.i = j]
    BY <1>2, <1>3, <1>11, <2>1 DEF LoadsOn
  <2>3. o2 \in Operation
    BY <1>1, <1>9, <2>2 DEF Operation
  <2>4. /\ o2.pc = "segment" /\ o2.proc = o.proc /\ o2.prog = o.prog
        /\ o2.i = j /\ o2.slot = New /\ o2.child = NULL
    BY <1>1, <2>2 DEF Operation
  <2>5. FromSegs(ms[New].vmas, segs, j - 1)
    BY <1>4, <2>1
  <2>. QED BY <1>1, <1>2, <1>8, <2>1, <2>3, <2>4, <2>5 DEF Loading
<1>12. CASE ~(la + 1 < end) /\ ~(i < Len(segs))
  <2>1. o2 = [o EXCEPT !.pc = "stack"]
    BY <1>2, <1>3, <1>12 DEF LoadsOn
  <2>2. o2 \in Operation
    BY <1>1, <1>9, <2>1 DEF Operation
  <2>3. /\ o2.pc = "stack" /\ o2.proc = o.proc /\ o2.prog = o.prog
        /\ o2.slot = New /\ o2.child = NULL
    BY <1>1, <2>1 DEF Operation
  <2>4. i = Len(segs)
    BY <1>2, <1>12
  <2>. QED BY <1>1, <1>2, <1>4, <1>8, <2>2, <2>3, <2>4 DEF Loading
<1>. QED BY <1>10, <1>11, <1>12

\* A page of the stack is taken.
LEMMA PreloadStep ==
  ASSUME NEW ms, NEW st, NEW ks, NEW o, NEW h, Loading(ms, st, ks, o, h), o.pc = "preload",
         NEW v, NEW h2, Puts(h, h2, New, o.la, v),
         NEW o2, PreloadsOn(o, o2)
  PROVE  Loading(ms, st, ks, o2, h2) \/ Attaching(ms, st, ks, o2, h2)
<1>1. /\ o \in Operation /\ o.prog \in Program /\ o.proc \in Proc
      /\ ms[New] # NULL /\ ms[New].mm_count = 0 /\ o.la \in Nat /\ New \in Space
      /\ o.slot = New /\ o.child = NULL
      /\ Kept(ms, st, ks, h, New, NULL) /\ ms[o.proc] = NULL /\ st[o.proc] = "live"
  BY DEF Loading, Operation, Space
<1>2. PICK la, low \in Nat : /\ la = o.la /\ low = USERTOP - NPreload
                             /\ low <= la /\ la < USERTOP /\ USERTOP \in Nat
  BY <1>1, AreasAre DEF Loading
<1>3. ToCome(ms[New].vmas, h[New], low, la) /\ Puts(h, h2, New, la, v)
  BY <1>2 DEF Loading
<1>4. la \in Page
  BY <1>2 DEF Page
<1>5. InAreas(ms[New].vmas, la)
  BY <1>2, <1>3, <1>4 DEF ToCome
<1>6. \A s \in Space, lb \in Page :
        ms[s] # NULL /\ h2[s][lb] # NULL => h[s][lb] # NULL \/ InAreas(ms[s].vmas, lb)
  BY <1>3, <1>5 DEF Puts
<1>7. Kept(ms, st, ks, h2, New, NULL)
  BY <1>1, <1>6, KeptStays
<1>8. CASE la > low
  <2>1. PICK next \in Nat : next = la - 1 /\ low <= next /\ next < USERTOP /\ next < la
    BY <1>2, <1>8
  <2>2. o2 = [o EXCEPT !.la = next]
    BY <1>2, <1>8, <2>1 DEF PreloadsOn
  <2>3. o2 \in Operation
    BY <1>1, <2>2 DEF Operation
  <2>4. /\ o2.pc = "preload" /\ o2.la = next /\ o2.proc = o.proc /\ o2.prog = o.prog
        /\ o2.slot = New /\ o2.child = NULL
    BY <1>1, <2>2 DEF Operation
  <2>5. ToCome(ms[New].vmas, h2[New], low, next)
    <3>1. ASSUME NEW lb \in Page, low <= lb, lb <= next
          PROVE  InAreas(ms[New].vmas, lb) /\ h2[New][lb] = NULL
      <4>1. lb \in Nat /\ lb <= la /\ lb # la
        BY <1>2, <2>1, <3>1 DEF Page
      <4>. QED BY <1>1, <1>3, <3>1, <4>1 DEF ToCome, Puts
    <3>. QED BY <3>1 DEF ToCome
  <2>. QED BY <1>1, <1>2, <1>7, <2>1, <2>3, <2>4, <2>5 DEF Loading
<1>9. CASE ~(la > low)
  <2>1. o2 = [o EXCEPT !.pc = "attach"] /\ "attach" \in Labels
    BY <1>2, <1>9 DEF Labels, PreloadsOn
  <2>2. o2 \in Operation
    BY <1>1, <2>1 DEF Operation
  <2>3. o2.pc = "attach" /\ o2.proc = o.proc /\ o2.slot = New /\ o2.child = NULL
    BY <1>1, <2>1 DEF Operation
  <2>4. ms[New].vmas # <<>>
    BY <1>5 DEF InAreas
  <2>. QED BY <1>1, <1>7, <2>2, <2>3, <2>4 DEF Attaching
<1>. QED BY <1>8, <1>9

\* dup_mmap goes through the areas from the last to the first: each goes to
\* the head of the new list, and fits.
LEMMA DupFits ==
  ASSUME NEW src, AreasOK(src), NEW i \in DOMAIN src, NEW vmas, AreasOK(vmas), Copied(vmas, src, i),
         NEW at, at = StopsAt(vmas, src[i].start),
         NEW new, new = InsertAt(vmas, at, src[i])
  PROVE  FitsIn(vmas, at, src[i]) /\ Copied(new, src, i - 1)
<1>1. PICK n, k \in Nat : /\ src \in Seq(Vma) /\ vmas \in Seq(Vma) /\ n = Len(src) /\ k = Len(vmas)
                          /\ DOMAIN src = 1 .. n /\ DOMAIN vmas = 1 .. k /\ i \in 1 .. n /\ k = n - i
                          /\ \A j \in 1 .. k : vmas[j] = src[j + i]
  <2>1. src \in Seq(Vma) /\ vmas \in Seq(Vma)
    BY DEF AreasOK
  <2>2. PICK n, k : n = Len(src) /\ k = Len(vmas)
    OBVIOUS
  <2>3. n \in Nat /\ k \in Nat /\ DOMAIN src = 1 .. n /\ DOMAIN vmas = 1 .. k /\ i \in 1 .. n
    BY <2>1, <2>2
  <2>4. k = n - i /\ \A j \in 1 .. k : vmas[j] = src[j + i]
    BY <2>2, <2>3 DEF Copied
  <2>. QED BY <2>1, <2>2, <2>3, <2>4
<1>2. PICK start, end \in Nat : start = src[i].start /\ end = src[i].end /\ start < end
  BY <1>1, VmaType DEF AreasOK
<1>3. /\ at \in 1 .. k + 1
      /\ \A j \in 1 .. at - 1 : vmas[j].start <= start
  BY <1>1, <1>2, StopsThere
<1>4. ASSUME k # 0 PROVE vmas[1].start \in Nat /\ end <= vmas[1].start
  <2>1. vmas[1] = src[1 + i] /\ 1 + i \in 1 .. n /\ i \in 1 .. (1 + i) - 1
    BY <1>1, <1>4
  <2>. QED BY <1>1, <1>2, <2>1, VmaType DEF AreasOK
<1>5. at = 1
  <2>1. ASSUME at # 1 PROVE FALSE
    <3>1. k # 0 /\ 1 \in 1 .. at - 1
      BY <1>3, <2>1
    <3>2. vmas[1].start <= start
      BY <1>3, <3>1
    <3>. QED BY <1>2, <1>4, <3>1, <3>2
  <2>. QED BY <2>1
<1>6. FitsIn(vmas, 1, src[i])
  BY <1>1, <1>2, <1>4 DEF FitsIn, Overlaps
<1>7. InsertedAt(Vma, vmas, 1, src[i], new)
  BY <1>1, <1>5, InsertAtElements
<1>8. /\ new \in Seq(Vma) /\ Len(new) = k + 1 /\ new[1] = src[i]
      /\ \A j \in 2 .. k + 1 : new[j] = vmas[j - 1]
  BY <1>1, <1>7 DEF InsertedAt
<1>9. ASSUME NEW j \in 1 .. k + 1 PROVE new[j] = src[j + (i - 1)]
  <2>1. CASE j = 1
    BY <1>1, <1>8, <2>1
  <2>2. CASE j # 1
    <3>1. j \in 2 .. k + 1 /\ j - 1 \in 1 .. k /\ (j - 1) + i = j + (i - 1)
      BY <1>1, <2>2
    <3>. QED BY <1>1, <1>8, <3>1
  <2>. QED BY <2>1, <2>2
<1>10. Copied(new, src, i - 1)
  <2>1. DOMAIN new = 1 .. k + 1 /\ Len(new) = Len(src) - (i - 1)
    BY <1>1, <1>8
  <2>. QED BY <1>9, <2>1 DEF Copied
<1>. QED BY <1>5, <1>6, <1>10

\* The next area is copied.
LEMMA DupStep ==
  ASSUME NEW ms, NEW st, NEW ks, NEW o, NEW h, Copying(ms, st, ks, o, h), o.pc = "dup",
         h \in [Space -> [Page -> Value \cup {NULL}]],
         NEW vma, NEW o2, CopiesArea(ms, o, vma, o2), NEW at, NEW ms2, InsertsAt(ms, vma, at, ms2)
  PROVE  FitsIn(ms[New].vmas, at, vma) /\ Copying(ms2, st, ks, o2, h)
<1>0. PICK new : Inserts(ms, vma, at, new, ms2)
  BY DEF InsertsAt
<1>1. /\ o \in Operation /\ o.child \in Proc /\ ms[New] # NULL /\ ms[New].mm_count = 0
      /\ ms[o.proc] # NULL /\ o.i \in DOMAIN ms[o.proc].vmas /\ o.i \in Nat /\ o.slot = New
      /\ o.proc \in Proc /\ o.proc \in Space /\ New \in Space
      /\ Copied(ms[New].vmas, ms[o.proc].vmas, o.i)
      /\ Kept(ms, st, ks, h, New, o.child) /\ st[o.child] = "none"
  BY DEF Copying, Operation, Space
<1>2. PICK src, i : src = ms[o.proc].vmas /\ i = o.i /\ i \in DOMAIN src /\ i \in Nat
  BY <1>1
<1>3. AreasOK(src) /\ AreasOK(ms[New].vmas) /\ src \in Seq(Vma)
  BY <1>1, <1>2 DEF Kept, Common, AreasOK
<1>4. PICK area \in Vma : area = vma /\ area = src[i] /\ area.start \in Nat /\ area.end \in Nat
                          /\ area.start < area.end
  BY <1>2, <1>3, VmaType DEF AreasOK, CopiesArea
<1>5. FitsIn(ms[New].vmas, at, area) /\ Copied(new, src, i - 1)
  BY <1>0, <1>1, <1>2, <1>3, <1>4, DupFits DEF Inserts
<1>6. Inserts(ms, area, at, new, ms2)
  BY <1>0, <1>4
<1>7. /\ Kept(ms2, st, ks, h, New, o.child) /\ ms2[New] # NULL /\ ms2[New].vmas = new
      /\ ms2[New].mm_count = 0
      /\ \A p \in Proc : ms2[p] = ms[p]
      /\ ToCome(new, h[New], area.start, area.end - 1)
  BY <1>1, <1>4, <1>5, <1>6, InsertKept
<1>8. "copy" \in Labels /\ o2 = [o EXCEPT !.pc = "copy", !.la = area.start]
  BY <1>4 DEF Labels, CopiesArea
<1>9. o2 \in Operation
  BY <1>1, <1>4, <1>8 DEF Operation
<1>10. /\ o2.pc = "copy" /\ o2.la = area.start /\ o2.proc = o.proc
       /\ o2.i = i /\ o2.slot = New /\ o2.child = o.child
  BY <1>1, <1>2, <1>8 DEF Operation
<1>11. ms2[o.proc] = ms[o.proc]
  BY <1>1, <1>7
<1>12. Copying(ms2, st, ks, o2, h)
  BY <1>1, <1>2, <1>4, <1>5, <1>7, <1>9, <1>10, <1>11 DEF Copying
<1>. QED BY <1>4, <1>5, <1>12

\* A turn of copy_range.
LEMMA CopyStep ==
  ASSUME NEW ms, NEW st, NEW ks, NEW o, NEW h, Copying(ms, st, ks, o, h), o.pc = "copy",
         NEW h2, h2 = h \/ \E v : Puts(h, h2, New, o.la, v),
         NEW next \in Nat, o.la < next,
         NEW o2, CopiesOn(ms, o, next, o2)
  PROVE  Copying(ms, st, ks, o2, h2) \/ Attaching(ms, st, ks, o2, h2)
<1>1. /\ o \in Operation /\ o.child \in Proc /\ ms[New] # NULL /\ ms[New].mm_count = 0
      /\ ms[o.proc] # NULL /\ o.i \in DOMAIN ms[o.proc].vmas /\ o.i \in Nat /\ o.slot = New
      /\ o.proc \in Proc /\ o.proc \in Space /\ New \in Space /\ o.la \in Nat
      /\ Copied(ms[New].vmas, ms[o.proc].vmas, o.i - 1)
      /\ Kept(ms, st, ks, h, New, o.child) /\ st[o.child] = "none"
  BY DEF Copying, Operation, Space
<1>2. PICK src, i, la : /\ src = ms[o.proc].vmas /\ i = o.i /\ i \in DOMAIN src /\ i \in Nat
                        /\ la = o.la /\ la \in Nat
  BY <1>1
<1>3. AreasOK(src) /\ src \in Seq(Vma) /\ AreasOK(ms[New].vmas) /\ src[i] \in Vma
  BY <1>1, <1>2 DEF Kept, Common, AreasOK
<1>4. PICK stop, row \in Nat : stop = src[i].end /\ row = stop - 1 /\ la < stop /\ stop <= USERTOP
                         /\ USERTOP \in Nat
  <2>1. src[i].end \in 1 .. USERTOP /\ USERTOP \in Nat
    BY <1>2, <1>3, VmaType, TableSizes
  <2>2. la < src[i].end
    BY <1>2 DEF Copying
  <2>. QED BY <1>2, <2>1, <2>2
<1>5. ToCome(ms[New].vmas, h[New], la, row)
  BY <1>1, <1>2, <1>4 DEF Copying
<1>6. la \in Page
  BY <1>2, <1>4 DEF Page
<1>7. InAreas(ms[New].vmas, la)
  BY <1>2, <1>4, <1>5, <1>6 DEF ToCome
<1>8. /\ \A s \in Space, lb \in Page :
           ms[s] # NULL /\ h2[s][lb] # NULL => h[s][lb] # NULL \/ InAreas(ms[s].vmas, lb)
      /\ \A lb \in Page : lb # la => h2[New][lb] = h[New][lb]
  BY <1>1, <1>2, <1>7 DEF Puts
<1>9. Kept(ms, st, ks, h2, New, o.child)
  BY <1>1, <1>8, KeptStays
<1>10. "dup" \in Labels /\ "attach" \in Labels
  BY DEF Labels
<1>11. CASE next < stop
  <2>1. o2 = [o EXCEPT !.la = next]
    BY <1>2, <1>4, <1>11 DEF CopiesOn
  <2>2. o2 \in Operation
    BY <1>1, <2>1 DEF Operation
  <2>3. /\ o2.pc = "copy" /\ o2.la = next /\ o2.proc = o.proc
        /\ o2.i = i /\ o2.slot = New /\ o2.child = o.child
    BY <1>1, <1>2, <2>1 DEF Operation
  <2>4. ToCome(ms[New].vmas, h2[New], next, row)
    <3>1. ASSUME NEW lb \in Page, next <= lb, lb <= row
          PROVE  InAreas(ms[New].vmas, lb) /\ h2[New][lb] = NULL
      <4>1. lb \in Nat /\ la <= lb /\ lb # la
        BY <1>2, <1>4, <3>1 DEF Page
      <4>. QED BY <1>5, <1>8, <3>1, <4>1 DEF ToCome
    <3>. QED BY <3>1 DEF ToCome
  <2>. QED BY <1>1, <1>2, <1>4, <1>9, <1>11, <2>2, <2>3, <2>4 DEF Copying
<1>12. CASE ~(next < stop) /\ i > 1
  <2>1. PICK j \in Nat : j = i - 1 /\ j \in DOMAIN src
    BY <1>2, <1>3, <1>12
  <2>2. o2 = [o EXCEPT !.pc = "dup", !.i = j]
    BY <1>2, <1>4, <1>12, <2>1 DEF CopiesOn
  <2>3. o2 \in Operation
    BY <1>1, <1>10, <2>2 DEF Operation
  <2>4. o2.pc = "dup" /\ o2.proc = o.proc /\ o2.i = j /\ o2.slot = New /\ o2.child = o.child
    BY <1>1, <2>2 DEF Operation
  <2>. QED BY <1>1, <1>2, <1>9, <2>1, <2>3, <2>4 DEF Copying
<1>13. CASE ~(next < stop) /\ ~(i > 1)
  <2>1. o2 = [o EXCEPT !.pc = "attach"]
    BY <1>2, <1>4, <1>13 DEF CopiesOn
  <2>2. o2 \in Operation
    BY <1>1, <1>10, <2>1 DEF Operation
  <2>3. o2.pc = "attach" /\ o2.proc = o.proc /\ o2.slot = New /\ o2.child = o.child
    BY <1>1, <2>1 DEF Operation
  <2>4. i - 1 = 0 /\ Len(src) \in Nat /\ Len(src) # 0
    BY <1>2, <1>3, <1>13
  <2>5. ms[New].vmas # <<>>
    <3>1. Len(ms[New].vmas) = Len(src) - (i - 1)
      BY <1>1, <1>2 DEF Copied
    <3>2. Len(ms[New].vmas) # 0
      BY <2>4, <3>1
    <3>. QED BY <3>2
  <2>6. ms[o.child] = NULL /\ o.child # NULL
    BY <1>1, NotNull DEF Kept, Common
  <2>. QED BY <1>1, <1>9, <2>2, <2>3, <2>5, <2>6 DEF Attaching
<1>. QED BY <1>11, <1>12, <1>13

-----------------------------------------------------------------------------
(* The operators of the model, for values.                                 *)

\* The directory of every mm.
RootsOf(ms) == [s \in Space |-> IF ms[s] = NULL THEN NoFrame ELSE ms[s].pgdir]

\* An mm has a directory.
LEMMA RootsAre ==
  ASSUME NEW ms \in [Space -> Mm \cup {NULL}]
  PROVE  /\ RootsOf(ms) \in [Space -> Frame0]
         /\ \A s \in Space : ms[s] = NULL => RootsOf(ms)[s] = NoFrame
         /\ \A s \in Space : ms[s] # NULL => /\ RootsOf(ms)[s] = ms[s].pgdir
                                             /\ RootsOf(ms)[s] \in Frame /\ RootsOf(ms)[s] # NoFrame
<1>1. ASSUME NEW s \in Space, ms[s] # NULL PROVE ms[s].pgdir \in Frame /\ ms[s].pgdir # NoFrame
  <2>1. ms[s] \in Mm
    BY <1>1
  <2>2. ms[s].pgdir \in Frame
    BY <2>1 DEF Mm
  <2>. QED BY <2>2, TableSizes DEF Frame, NoFrame
<1>. QED BY <1>1 DEF RootsOf, Frame0

\* The same directories.
LEMMA SameRoots ==
  ASSUME NEW ms \in [Space -> Mm \cup {NULL}], NEW ms2 \in [Space -> Mm \cup {NULL}],
         \A s \in Space : /\ ms2[s] = NULL <=> ms[s] = NULL
                          /\ ms[s] # NULL => ms2[s].pgdir = ms[s].pgdir
  PROVE  RootsOf(ms2) = RootsOf(ms)
BY DEF RootsOf

\* What the uses of frames say of walks and contents.
LEMMA FitsFacts ==
  ASSUME NEW m, NEW r, NEW fr, NEW rt, NEW ks, NEW ls, Fits(m, r, fr, rt, ks, ls)
  PROVE  /\ Contents(m, rt) \in [Space -> [Page -> Value \cup {NULL}]]
         /\ fr \in SUBSET Frame /\ ks \in [Proc -> Frame0] /\ rt \in [Space -> Frame0]
         /\ \A s \in Space, la \in Page :
              /\ rt[s] = NoFrame => Contents(m, rt)[s][la] = NULL
              /\ rt[s] # NoFrame =>
                   /\ WalkP(m, rt[s], la) = NoFrame <=> Contents(m, rt)[s][la] = NULL
                   /\ WalkP(m, rt[s], la) # NoFrame =>
                        /\ Contents(m, rt)[s][la] = m[WalkP(m, rt[s], la)]
                        /\ m[WalkP(m, rt[s], la)] \in Value
<1>1. PICK u, w : Uses(u, w, m, r, fr, rt, ks, ls)
  BY DEF Fits
<1>2. /\ Contents(m, rt) \in [Space -> [Page -> Value \cup {NULL}]]
      /\ \A s \in Space, la \in Page :
           /\ Contents(m, rt)[s][la] = IF w[PageAt(s, la)] = NoFrame THEN NULL ELSE m[w[PageAt(s, la)]]
           /\ w[PageAt(s, la)] = NoFrame <=> Contents(m, rt)[s][la] = NULL
  BY <1>1, ContentsAre
<1>3. \A s \in Space, la \in Page :
        /\ rt[s] = NoFrame => w[PageAt(s, la)] = NoFrame
        /\ rt[s] # NoFrame => WalkP(m, rt[s], la) = w[PageAt(s, la)]
  BY <1>1, WalkIs
<1>4. fr \in SUBSET Frame /\ ks \in [Proc -> Frame0] /\ rt \in [Space -> Frame0]
  BY <1>1 DEF Uses, Kinds
<1>5. ASSUME NEW s \in Space, NEW la \in Page
      PROVE  /\ rt[s] = NoFrame => Contents(m, rt)[s][la] = NULL
             /\ rt[s] # NoFrame =>
                  /\ WalkP(m, rt[s], la) = NoFrame <=> Contents(m, rt)[s][la] = NULL
                  /\ WalkP(m, rt[s], la) # NoFrame =>
                       /\ Contents(m, rt)[s][la] = m[WalkP(m, rt[s], la)]
                       /\ m[WalkP(m, rt[s], la)] \in Value
  <2>1. Contents(m, rt)[s][la] \in Value \cup {NULL}
    BY <1>2
  <2>. QED BY <1>2, <1>3, <2>1
<1>. QED BY <1>2, <1>4, <1>5

\* After, for the memory m.
NextOf(m, g, la) ==
  IF WalkT(m, g, la) = NoFrame THEN PTSIZE * (la \div PTSIZE + 1) ELSE la + 1

\* The pages of one table have the same indices, but the last.
LEMMA SameTable ==
  ASSUME NEW la \in Page, NEW lb \in Page, la < lb, lb < PTSIZE * (la \div PTSIZE + 1)
  PROVE  PDX1(lb) = PDX1(la) /\ PDX0(lb) = PDX0(la)
<1>1. la \in Nat /\ lb \in Nat /\ NENTRY \in Nat \ {0} /\ PTSIZE = NENTRY
  BY TableSizes DEF Page
<1>2. PICK n \in Nat \ {0}, q, p \in Nat : n = NENTRY /\ q = la \div NENTRY /\ p = lb \div NENTRY
  BY <1>1, Quotient
<1>3. /\ la % n \in 0 .. n - 1 /\ la = n * q + (la % n)
      /\ lb % n \in 0 .. n - 1 /\ lb = n * p + (lb % n)
  BY <1>1, <1>2, Quotient
<1>4. p = q
  <2>1. PICK x, y \in 0 .. n - 1 : la = n * q + x /\ lb = n * p + y
    BY <1>3
  <2>2. lb < n * (q + 1)
    BY <1>1, <1>2
  <2>3. n * (q + 1) = n * q + n /\ n * (p + 1) = n * p + n /\ n * q \in Nat /\ n * p \in Nat
    BY <1>2
  <2>4. ASSUME p >= q + 1 PROVE FALSE
    <3>1. n * p >= n * (q + 1)
      BY <1>2, <2>4, Grows
    <3>. QED BY <1>1, <2>1, <2>2, <2>3, <3>1
  <2>5. ASSUME q >= p + 1 PROVE FALSE
    <3>1. n * q >= n * (p + 1)
      BY <1>2, <2>5, Grows
    <3>. QED BY <1>1, <2>1, <2>3, <3>1
  <2>. QED BY <1>2, <2>4, <2>5
<1>5. PDX0(lb) = PDX0(la)
  BY <1>1, <1>2, <1>4 DEF PDX0
<1>6. /\ PDX1(la) \in Index /\ PDX0(la) \in Index /\ PDX1(lb) \in Index
      /\ q = NENTRY * PDX1(la) + PDX0(la) /\ p = NENTRY * PDX1(lb) + PDX0(lb)
  BY <1>2, Indices
<1>7. PICK a, b, c \in Nat : a = PDX1(la) /\ c = PDX1(lb) /\ b = PDX0(la) /\ b \in 0 .. n - 1
  BY <1>1, <1>2, <1>6 DEF Index
<1>8. q = n * a + b /\ q = n * c + b
  BY <1>2, <1>4, <1>5, <1>6, <1>7
<1>9. q \div n = a
  BY <1>7, <1>8, QuotientUnique
<1>10. q \div n = c
  BY <1>7, <1>8, QuotientUnique
<1>. QED BY <1>5, <1>7, <1>9, <1>10

\* After goes behind la, and over no page that is mapped.
LEMMA NextSkips ==
  ASSUME NEW m, NEW r, NEW fr, NEW rt, NEW ks, NEW ls, Fits(m, r, fr, rt, ks, ls),
         NEW s \in Space, rt[s] # NoFrame, NEW la \in Page,
         NEW next, next = NextOf(m, rt[s], la)
  PROVE  Skips(Contents(m, rt)[s], la, next)
<1>1. la \in Nat /\ PTSIZE \in Nat \ {0}
  BY TableSizes DEF Page
<1>2. \A lb \in Page : lb \in Nat /\ (WalkP(m, rt[s], lb) = NoFrame <=> Contents(m, rt)[s][lb] = NULL)
  BY TableSizes, FitsFacts DEF Page
<1>3. CASE WalkT(m, rt[s], la) # NoFrame
  <2>1. next = la + 1
    BY <1>3 DEF NextOf
  <2>. QED BY <1>1, <1>2, <2>1 DEF Skips
<1>4. CASE WalkT(m, rt[s], la) = NoFrame
  <2>1. PICK q \in Nat : q = la \div PTSIZE /\ next = PTSIZE * (q + 1)
    BY <1>1, <1>4, Quotient DEF NextOf
  <2>2. next \in Nat /\ la < next
    <3>1. PICK n \in Nat \ {0}, x \in Nat : n = PTSIZE /\ x \in 0 .. n - 1 /\ la = n * q + x
      <4>1. la % PTSIZE \in 0 .. PTSIZE - 1 /\ la = PTSIZE * (la \div PTSIZE) + (la % PTSIZE)
        BY <1>1, Quotient
      <4>. QED BY <1>1, <2>1, <4>1
    <3>2. n * (q + 1) = n * q + n /\ n * q \in Nat
      BY <2>1
    <3>. QED BY <1>1, <2>1, <3>1, <3>2
  <2>3. ASSUME NEW lb \in Page, la < lb, lb < next PROVE Contents(m, rt)[s][lb] = NULL
    <3>1. PDX1(lb) = PDX1(la) /\ PDX0(lb) = PDX0(la)
      BY <2>1, <2>3, SameTable
    <3>2. WalkT(m, rt[s], lb) = NoFrame
      BY <1>4, <3>1 DEF WalkT, WalkD
    <3>3. WalkP(m, rt[s], lb) = NoFrame
      BY <3>2 DEF WalkP
    <3>. QED BY <1>2, <3>3
  <2>. QED BY <2>2, <2>3 DEF Skips
<1>. QED BY <1>3, <1>4

\* Missing and Map, for the memory m.
MissingIn(m, g, la) ==
  IF WalkD(m, g, la) = NoFrame THEN 2 ELSE IF WalkT(m, g, la) = NoFrame THEN 1 ELSE 0
MapsWith(m, r, fr, g, la, tables, page, v, m2, r2, fr2) ==
  LET pd0    == IF WalkD(m, g, la) # NoFrame THEN WalkD(m, g, la) ELSE tables[1]
      pt     == IF WalkT(m, g, la) # NoFrame THEN WalkT(m, g, la) ELSE Last(tables)
      old(f) == IF f \in ToSet(tables) THEN Empty ELSE m[f]
  IN /\ m2 = [m EXCEPT ![page] = v,
                       ![g][PDX1(la)] = pd0,
                       ![pd0] = [old(pd0) EXCEPT ![PDX0(la)] = pt],
                       ![pt]  = [old(pt) EXCEPT ![PTX(la)] = page]]
     /\ r2 = [f \in Frame |-> IF f \in ToSet(tables) THEN 1
                              ELSE IF f = page THEN r[f] + 1 ELSE r[f]]
     /\ fr2 = fr \ (ToSet(tables) \cup {page})

\* The frames for n tables and a page, the page first or last.
Taken(fr, n, tables, page) ==
  /\ Cardinality(fr) >= 1 + n
  /\ \/ tables = [k \in 1 .. n |-> Kth(fr, k + 1)] /\ page = Kth(fr, 1)
     \/ tables = [k \in 1 .. n |-> Kth(fr, k)] /\ page = Kth(fr, n + 1)

\* They are free, and all different.
LEMMA TakenAre ==
  ASSUME NEW fr \in SUBSET Frame, NEW n \in 0 .. 2, NEW tables, NEW page, Taken(fr, n, tables, page)
  PROVE  /\ page \in fr
         /\ n = 0 => ToSet(tables) = {}
         /\ n = 1 => /\ tables[1] \in fr /\ tables[1] # page
                     /\ Last(tables) = tables[1] /\ ToSet(tables) = {tables[1]}
         /\ n = 2 => /\ tables[1] \in fr /\ tables[1] # page
                     /\ tables[2] \in fr /\ tables[2] # page /\ tables[1] # tables[2]
                     /\ Last(tables) = tables[2] /\ ToSet(tables) = {tables[1], tables[2]}
<1>1. PICK c \in Nat : c = Cardinality(fr) /\ c >= 1 + n
  <2>1. IsFiniteSet(fr)
    BY FramesFinite, FS_Subset
  <2>. QED BY <2>1, FS_CardinalityType DEF Taken
<1>2. PICK a, b, c3 : a = Kth(fr, 1) /\ b = Kth(fr, 2) /\ c3 = Kth(fr, 3)
  OBVIOUS
<1>3. a \in fr
  <2>1. Cardinality(fr) >= 1 /\ 1 \in 1 .. 3
    BY <1>1
  <2>. QED BY <1>2, <2>1, KthFree
<1>4. n >= 1 => b \in fr /\ a # b
  <2>1. SUFFICES ASSUME n >= 1 PROVE b \in fr /\ a # b
    OBVIOUS
  <2>2. Cardinality(fr) >= 2 /\ 2 \in 1 .. 3 /\ 1 \in 1 .. 2 - 1
    BY <1>1, <2>1
  <2>3. Kth(fr, 2) \in fr
    BY <2>2, KthFree
  <2>4. Kth(fr, 1) # Kth(fr, 2)
    BY <2>2, KthDiffer
  <2>. QED BY <1>2, <2>3, <2>4
<1>5. n = 2 => c3 \in fr /\ a # c3 /\ b # c3
  <2>1. SUFFICES ASSUME n = 2 PROVE c3 \in fr /\ a # c3 /\ b # c3
    OBVIOUS
  <2>2. Cardinality(fr) >= 3 /\ 3 \in 1 .. 3 /\ 1 \in 1 .. 3 - 1 /\ 2 \in 1 .. 3 - 1
    BY <1>1, <2>1
  <2>3. Kth(fr, 3) \in fr
    BY <2>2, KthFree
  <2>4. Kth(fr, 1) # Kth(fr, 3) /\ Kth(fr, 2) # Kth(fr, 3)
    BY <2>2, KthDiffer
  <2>. QED BY <1>2, <2>3, <2>4
<1>6. /\ n = 0 => page = a
      /\ n = 1 => (tables[1] = b /\ page = a) \/ (tables[1] = a /\ page = b)
      /\ n = 2 => \/ tables[1] = b /\ tables[2] = c3 /\ page = a
                  \/ tables[1] = a /\ tables[2] = b /\ page = c3
  BY <1>2 DEF Taken
<1>7. DOMAIN tables = 1 .. n /\ tables = [k \in 1 .. n |-> tables[k]]
  BY DEF Taken
<1>8. Len(tables) = n
  BY <1>7
<1>9. Last(tables) = tables[n]
  BY <1>8 DEF Last
<1>10. /\ n = 0 => ToSet(tables) = {}
       /\ n = 1 => ToSet(tables) = {tables[1]}
       /\ n = 2 => ToSet(tables) = {tables[1], tables[2]}
  <2>1. ToSet(tables) = {tables[k] : k \in 1 .. n}
    BY <1>7 DEF ToSet
  <2>2. CASE n = 0
    BY <2>1, <2>2
  <2>3. CASE n = 1
    BY <2>1, <2>3
  <2>4. CASE n = 2
    <3>1. 1 .. n = {1, 2}
      BY <2>4
    <3>. QED BY <2>1, <2>4, <3>1
  <2>. QED BY <2>2, <2>3, <2>4
<1>. QED BY <1>3, <1>4, <1>5, <1>6, <1>9, <1>10

\* The tables on the way to a page are not free, and differ.
LEMMA TablesFound ==
  ASSUME NEW m, NEW r, NEW fr, NEW rt, NEW ks, NEW ls, Fits(m, r, fr, rt, ks, ls),
         NEW s \in Space, rt[s] # NoFrame, NEW la \in Page
  PROVE  /\ WalkD(m, rt[s], la) # NoFrame => WalkD(m, rt[s], la) \notin fr
         /\ WalkT(m, rt[s], la) # NoFrame =>
              /\ WalkD(m, rt[s], la) # NoFrame /\ WalkT(m, rt[s], la) \notin fr
              /\ WalkT(m, rt[s], la) # WalkD(m, rt[s], la)
<1>1. PICK u, w : Uses(u, w, m, r, fr, rt, ks, ls)
  BY DEF Fits
<1>2. WalkD(m, rt[s], la) = w[DirAt(s, la)] /\ WalkT(m, rt[s], la) = w[TableAt(s, la)]
  BY <1>1, WalkIs
<1>3. /\ DirAt(s, la) \in Place /\ TableAt(s, la) \in Place /\ DirAt(s, la) # TableAt(s, la)
  BY WayDown
<1>4. /\ w \in [Place -> Frame0] /\ \A pl \in Place : w[pl] # NoFrame => u[w[pl]] = pl
      /\ \A f \in Frame : f \in fr <=> u[f] = Spare
  BY <1>1 DEF Uses, Kinds, Marks, Rest
<1>5. \A pl \in Place : w[pl] # NoFrame => w[pl] \notin fr
  BY <1>4, OtherUses DEF Frame0
<1>. QED BY <1>2, <1>3, <1>4, <1>5 DEF WalkT

\* get_pte and page_insert with free frames: every frame has a use, and the
\* page holds v.
LEMMA TakeFits ==
  ASSUME NEW m, NEW r, NEW fr, NEW rt, NEW ks, NEW ls, Fits(m, r, fr, rt, ks, ls),
         NEW s \in Space, rt[s] # NoFrame, NEW la \in Page, NEW v \in Value,
         Contents(m, rt)[s][la] = NULL,
         NEW tables, NEW page, Taken(fr, MissingIn(m, rt[s], la), tables, page),
         NEW m2, NEW r2, NEW fr2,
         MapsWith(m, r, fr, rt[s], la, tables, page, v, m2, r2, fr2)
  PROVE  Fits(m2, r2, fr2, rt, ks, ls) /\ Puts(Contents(m, rt), Contents(m2, rt), s, la, v)
<1>1. PICK g, d, t, n : /\ g = rt[s] /\ d = WalkD(m, g, la) /\ t = WalkT(m, g, la)
                        /\ n = MissingIn(m, g, la)
  OBVIOUS
<1>2. /\ d # NoFrame => d \notin fr
      /\ t # NoFrame => d # NoFrame /\ t \notin fr /\ t # d
  BY <1>1, TablesFound
<1>3. /\ n \in 0 .. 2
      /\ n = 2 => d = NoFrame /\ t = NoFrame
      /\ n = 1 => d # NoFrame /\ t = NoFrame
      /\ n = 0 => d # NoFrame /\ t # NoFrame
  BY <1>1 DEF MissingIn, WalkT
<1>4. fr \in SUBSET Frame
  BY FitsFacts
<1>5. /\ page \in fr
      /\ n = 0 => ToSet(tables) = {}
      /\ n = 1 => /\ tables[1] \in fr /\ tables[1] # page
                  /\ Last(tables) = tables[1] /\ ToSet(tables) = {tables[1]}
      /\ n = 2 => /\ tables[1] \in fr /\ tables[1] # page
                  /\ tables[2] \in fr /\ tables[2] # page /\ tables[1] # tables[2]
                  /\ Last(tables) = tables[2] /\ ToSet(tables) = {tables[1], tables[2]}
  BY <1>1, <1>3, <1>4, TakenAre
<1>6. PICK new, a, b : /\ new = ToSet(tables)
                       /\ a = IF d # NoFrame THEN d ELSE tables[1]
                       /\ b = IF t # NoFrame THEN t ELSE Last(tables)
  OBVIOUS
<1>7. Found(m, fr, g, la, new, a, b, page)
  <2>1. CASE n = 0
    BY <1>1, <1>2, <1>3, <1>5, <1>6, <2>1 DEF Found
  <2>2. CASE n = 1
    BY <1>1, <1>2, <1>3, <1>5, <1>6, <2>2 DEF Found
  <2>3. CASE n = 2
    BY <1>1, <1>2, <1>3, <1>5, <1>6, <2>3 DEF Found
  <2>. QED BY <1>3, <2>1, <2>2, <2>3
<1>8. Maps(m, r, fr, g, la, new, a, b, page, v, m2, r2, fr2)
  BY <1>1, <1>6 DEF MapsWith, Maps
<1>. QED BY <1>1, <1>7, <1>8, MapFits

-----------------------------------------------------------------------------
(* What an mm holds while it is built: pages of the program, or the parent's. *)

\* What page la of segment j of prog is loaded with.
SegValue(prog, j, la) == IF la < prog.segs[j].file THEN prog.data ELSE Zero

\* The pages of the first n segments are loaded, and those of segment j below last.
Filled(row, prog, n) ==
  \A j \in 1 .. n : \A la \in Page : Holds(prog.segs[j], la) => row[la] = SegValue(prog, j, la)
FilledTo(row, prog, j, last) ==
  \A la \in Page : la < last /\ Holds(prog.segs[j], la) => row[la] = SegValue(prog, j, la)

\* The pages of the areas after the i-th are copied from src, and those of vma
\* below last.
Same(row, src, vmas, i) ==
  \A k \in DOMAIN vmas : k > i => \A la \in Page : Holds(vmas[k], la) => row[la] = src[la]
SameTo(row, src, vma, last) == \A la \in Page : la < last /\ Holds(vma, la) => row[la] = src[la]

\* How far load_icode and dup_mmap have got.
Making(ms, o, h) ==
  /\ o.pc = "segment" => Filled(h[New], o.prog, o.i - 1)
  /\ o.pc = "load" => Filled(h[New], o.prog, o.i - 1) /\ FilledTo(h[New], o.prog, o.i, o.la)
  /\ o.pc \in {"stack", "preload"} => Filled(h[New], o.prog, Len(o.prog.segs))
  /\ o.pc = "attach" /\ o.child = NULL =>
       o.prog \in Program /\ Filled(h[New], o.prog, Len(o.prog.segs))
  /\ o.pc = "dup" => Same(h[New], h[o.proc], ms[o.proc].vmas, o.i)
  /\ o.pc = "copy" => /\ Same(h[New], h[o.proc], ms[o.proc].vmas, o.i)
                      /\ SameTo(h[New], h[o.proc], ms[o.proc].vmas[o.i], o.la)
  /\ o.pc = "attach" /\ o.child # NULL =>
       o.proc \in Proc /\ ms[o.proc] # NULL /\ h[New] = h[o.proc]

\* Nothing is built.
LEMMA NothingMade ==
  ASSUME NEW ms, NEW o, NEW h,
         o.pc \in {"idle", "unmap", "exit_range", "put_pgdir", "dropped", "copy_mm"}
  PROVE  Making(ms, o, h)
BY DEF Making

\* The new mm has no page yet.
LEMMA CreateMakes ==
  ASSUME NEW ms, NEW st, NEW ks, NEW o, NEW h, Dropped(ms, st, ks, o, h),
         NEW o2, o2 = [o EXCEPT !.slot = New, !.i = 1,
                               !.pc = IF o.prog.magic THEN "segment" ELSE "put_pgdir"],
         NEW ms2
  PROVE  Making(ms2, o2, h)
<1>1. o \in Operation
  BY DEF Dropped
<1>2. PICK pc \in Labels : pc = IF o.prog.magic THEN "segment" ELSE "put_pgdir"
  BY DEF Labels
<1>3. o2 = [o EXCEPT !.slot = New, !.i = 1, !.pc = pc] /\ 1 \in Nat /\ New \in Space
  BY <1>2 DEF Space
<1>4. o2.pc = pc /\ o2.i = 1 /\ pc \in {"segment", "put_pgdir"}
  BY <1>1, <1>2, <1>3 DEF Operation
<1>5. Filled(h[New], o2.prog, 1 - 1)
  BY DEF Filled
<1>. QED BY <1>4, <1>5 DEF Making

\* A segment that got its area has no page yet.
LEMMA SegmentMakes ==
  ASSUME NEW ms, NEW st, NEW ks, NEW o, NEW h, Loading(ms, st, ks, o, h), o.pc = "segment",
         Making(ms, o, h), NEW vma, NEW o2, GetsArea(ms, o, vma, o2), NEW ms2
  PROVE  Making(ms2, o2, h)
<1>1. o \in Operation /\ o.prog \in Program /\ o.i \in DOMAIN o.prog.segs /\ o.i \in Nat
  BY DEF Loading, Operation
<1>2. PICK la \in Nat : la = o.prog.segs[o.i].start
  BY <1>1, AreasAre
<1>3. "load" \in Labels /\ o2 = [o EXCEPT !.pc = "load", !.la = la]
  BY <1>2 DEF Labels, GetsArea
<1>4. o2.pc = "load" /\ o2.la = la /\ o2.prog = o.prog /\ o2.i = o.i
  BY <1>1, <1>3 DEF Operation
<1>5. FilledTo(h[New], o.prog, o.i, la)
  <2>1. \A lb \in Page : lb \in Nat
    BY TableSizes DEF Page
  <2>. QED BY <1>2, <2>1 DEF FilledTo, Holds
<1>6. Filled(h[New], o.prog, o.i - 1)
  BY DEF Making
<1>. QED BY <1>4, <1>5, <1>6 DEF Making

\* The stack is not part of the program.
LEMMA StackMakes ==
  ASSUME NEW ms, NEW st, NEW ks, NEW o, NEW h, Loading(ms, st, ks, o, h), o.pc = "stack",
         Making(ms, o, h), NEW o2, GetsStack(ms, o, o2), NEW ms2
  PROVE  Making(ms2, o2, h)
<1>1. o \in Operation
  BY DEF Loading
<1>2. PICK la \in Nat : la = USERTOP - 1
  BY TableSizes
<1>3. "preload" \in Labels /\ o2 = [o EXCEPT !.pc = "preload", !.la = la]
  BY <1>2 DEF Labels, GetsStack
<1>4. o2.pc = "preload" /\ o2.prog = o.prog
  BY <1>1, <1>3 DEF Operation
<1>5. Filled(h[New], o.prog, Len(o.prog.segs))
  BY DEF Making
<1>. QED BY <1>4, <1>5 DEF Making

\* Pages are loaded where none is: the earlier ones stay.
LEMMA FilledStays ==
  ASSUME NEW prog \in Program, NEW row, NEW row2, NEW la \in Page, row[la] = NULL,
         \A lb \in Page : lb # la => row2[lb] = row[lb]
  PROVE  /\ \A n : Filled(row, prog, n) => Filled(row2, prog, n)
         /\ \A j, last : FilledTo(row, prog, j, last) => FilledTo(row2, prog, j, last)
<1>1. \A j, lb : SegValue(prog, j, lb) # NULL
  <2>1. prog.data \in Value /\ Zero \in Value
    BY VmmAssumption
  <2>. QED BY <2>1, NotNull DEF SegValue
<1>2. ASSUME NEW n, Filled(row, prog, n) PROVE Filled(row2, prog, n)
  BY <1>1, <1>2 DEF Filled
<1>3. ASSUME NEW j, NEW last, FilledTo(row, prog, j, last) PROVE FilledTo(row2, prog, j, last)
  BY <1>1, <1>3 DEF FilledTo
<1>. QED BY <1>2, <1>3

\* A page of a segment is loaded.
LEMMA LoadMakes ==
  ASSUME NEW ms, NEW st, NEW ks, NEW o, NEW h, Loading(ms, st, ks, o, h), o.pc = "load",
         Making(ms, o, h), h[New][o.la] = NULL,
         NEW v, v = SegValue(o.prog, o.i, o.la), NEW h2, Puts(h, h2, New, o.la, v),
         NEW o2, LoadsOn(o, o2)
  PROVE  Making(ms, o2, h2)
<1>1. /\ o \in Operation /\ o.prog \in Program /\ o.i \in DOMAIN o.prog.segs
      /\ o.i \in Nat /\ o.la \in Nat /\ New \in Space
  BY DEF Loading, Operation, Space
<1>2. PICK i, la, prog, end :
        /\ i = o.i /\ la = o.la /\ prog = o.prog /\ end = prog.segs[i].end /\ la < end /\ end < USERTOP
        /\ end \in Nat
  <2>1. o.prog.segs[o.i].end \in Nat /\ o.prog.segs[o.i].end < USERTOP
    BY <1>1, AreasAre
  <2>2. o.la < o.prog.segs[o.i].end
    BY DEF Loading
  <2>. QED BY <2>1, <2>2
<1>3. i \in Nat /\ la \in Nat /\ prog \in Program /\ i \in DOMAIN prog.segs /\ USERTOP \in Nat
  BY <1>1, <1>2, TableSizes
<1>4. la \in Page
  BY <1>2, <1>3 DEF Page
<1>5. PICK row, row2 : row = h[New] /\ row2 = h2[New]
  OBVIOUS
<1>6. row2[la] = SegValue(prog, i, la) /\ \A lb \in Page : lb # la => row2[lb] = row[lb]
  BY <1>1, <1>2, <1>4, <1>5 DEF Puts
<1>7. row[la] = NULL /\ Filled(row, prog, i - 1) /\ FilledTo(row, prog, i, la)
  BY <1>2, <1>5 DEF Making
<1>8. Filled(row2, prog, i - 1) /\ FilledTo(row2, prog, i, la)
  BY <1>3, <1>4, <1>6, <1>7, FilledStays
<1>9. FilledTo(row2, prog, i, la + 1)
  <2>1. \A lb \in Page : lb < la + 1 => lb = la \/ lb < la
    BY <1>3, TableSizes DEF Page
  <2>. QED BY <1>6, <1>8, <2>1 DEF FilledTo
<1>10. ASSUME ~(la + 1 < end) PROVE Filled(row2, prog, i)
  <2>1. \A lb \in Page : Holds(prog.segs[i], lb) => lb < la + 1
    BY <1>2, <1>3, <1>10, TableSizes DEF Page, Holds
  <2>2. \A j \in 1 .. i : j = i \/ j \in 1 .. i - 1
    BY <1>3
  <2>. QED BY <1>8, <1>9, <2>1, <2>2 DEF Filled, FilledTo
<1>11. CASE la + 1 < end
  <2>1. PICK next \in Nat : next = la + 1
    BY <1>3
  <2>2. o2 = [o EXCEPT !.la = next]
    BY <1>2, <1>11, <2>1 DEF LoadsOn
  <2>3. o2.pc = "load" /\ o2.la = next /\ o2.prog = prog /\ o2.i = i
    BY <1>1, <1>2, <2>2 DEF Operation
  <2>. QED BY <1>5, <1>8, <1>9, <2>1, <2>3 DEF Making
<1>12. CASE ~(la + 1 < end) /\ i < Len(prog.segs)
  <2>1. PICK j \in Nat : j = i + 1 /\ i = j - 1
    BY <1>3
  <2>2. o2 = [o EXCEPT !.pc = "segment", !.i = j] /\ "segment" \in Labels
    BY <1>2, <1>12, <2>1 DEF LoadsOn, Labels
  <2>3. o2.pc = "segment" /\ o2.prog = prog /\ o2.i = j
    BY <1>1, <1>2, <2>2 DEF Operation
  <2>4. Filled(row2, prog, j - 1)
    BY <1>10, <1>12, <2>1
  <2>. QED BY <1>5, <2>3, <2>4 DEF Making
<1>13. CASE ~(la + 1 < end) /\ ~(i < Len(prog.segs))
  <2>1. o2 = [o EXCEPT !.pc = "stack"] /\ "stack" \in Labels
    BY <1>2, <1>13 DEF LoadsOn, Labels
  <2>2. o2.pc = "stack" /\ o2.prog = prog
    BY <1>1, <1>2, <2>1 DEF Operation
  <2>3. prog.segs \in Seq(Segment)
    BY <1>3, VmmAssumption
  <2>4. i = Len(prog.segs)
    BY <1>3, <1>13, <2>3
  <2>. QED BY <1>5, <1>10, <1>13, <2>2, <2>4 DEF Making
<1>. QED BY <1>11, <1>12, <1>13

\* A page of the stack is taken.
LEMMA PreloadMakes ==
  ASSUME NEW ms, NEW st, NEW ks, NEW o, NEW h, Loading(ms, st, ks, o, h), o.pc = "preload",
         Making(ms, o, h), o.la \in Page, h[New][o.la] = NULL,
         NEW v, NEW h2, Puts(h, h2, New, o.la, v),
         NEW o2, PreloadsOn(o, o2)
  PROVE  Making(ms, o2, h2)
<1>1. o \in Operation /\ o.prog \in Program /\ o.child = NULL /\ New \in Space /\ o.la \in Nat
  BY DEF Loading, Operation, Space
<1>2. PICK la, prog : la = o.la /\ prog = o.prog
  OBVIOUS
<1>3. \A lb \in Page : lb # la => h2[New][lb] = h[New][lb]
  BY <1>1, <1>2 DEF Puts
<1>4. Filled(h[New], prog, Len(prog.segs))
  BY <1>2 DEF Making
<1>5. Filled(h2[New], prog, Len(prog.segs))
  BY <1>1, <1>2, <1>3, <1>4, FilledStays
<1>6. o2.pc \in {"preload", "attach"} /\ o2.prog = prog /\ o2.child = NULL
  <2>1. CASE la > USERTOP - NPreload
    <3>1. o2 = [o EXCEPT !.la = la - 1]
      BY <1>2, <2>1 DEF PreloadsOn
    <3>. QED BY <1>1, <1>2, <3>1 DEF Operation
  <2>2. CASE ~(la > USERTOP - NPreload)
    <3>1. o2 = [o EXCEPT !.pc = "attach"] /\ "attach" \in Labels
      BY <1>2, <2>2 DEF PreloadsOn, Labels
    <3>. QED BY <1>1, <1>2, <3>1 DEF Operation
  <2>. QED BY <2>1, <2>2
<1>. QED BY <1>1, <1>2, <1>5, <1>6 DEF Making

\* An area to copy has no page yet.
LEMMA DupMakes ==
  ASSUME NEW ms, NEW st, NEW ks, NEW o, NEW h, Copying(ms, st, ks, o, h), o.pc = "dup",
         Making(ms, o, h), NEW vma, NEW o2, CopiesArea(ms, o, vma, o2),
         NEW ms2, ms2[o.proc] = ms[o.proc]
  PROVE  Making(ms2, o2, h)
<1>1. /\ o \in Operation /\ o.i \in DOMAIN ms[o.proc].vmas /\ ms[o.proc] # NULL
      /\ o.proc \in Space /\ AreasOK(ms[o.proc].vmas)
  BY DEF Copying, Operation, Space, Kept, Common
<1>2. PICK la \in Nat : la = ms[o.proc].vmas[o.i].start
  BY <1>1, VmaType DEF AreasOK
<1>3. "copy" \in Labels /\ o2 = [o EXCEPT !.pc = "copy", !.la = la]
  BY <1>2 DEF Labels, CopiesArea
<1>4. o2.pc = "copy" /\ o2.la = la /\ o2.proc = o.proc /\ o2.i = o.i
  BY <1>1, <1>3 DEF Operation
<1>5. SameTo(h[New], h[o.proc], ms[o.proc].vmas[o.i], la)
  <2>1. \A lb \in Page : lb \in Nat
    BY TableSizes DEF Page
  <2>. QED BY <1>2, <2>1 DEF SameTo, Holds
<1>6. Same(h[New], h[o.proc], ms[o.proc].vmas, o.i)
  BY DEF Making
<1>. QED BY <1>4, <1>5, <1>6 DEF Making

\* No area of the parent has been copied yet.
LEMMA CopyMmMakes ==
  ASSUME NEW ms, NEW st, NEW ks, NEW o, NEW h, Copying(ms, st, ks, o, h),
         NEW o2, o2 = [o EXCEPT !.pc = "dup", !.slot = New, !.i = Len(ms[o.proc].vmas)],
         NEW ms2, ms2[o.proc] = ms[o.proc]
  PROVE  Making(ms2, o2, h)
<1>1. o \in Operation /\ ms[o.proc] # NULL /\ o.proc \in Space /\ ms[o.proc].vmas \in Seq(Vma)
  BY DEF Copying, Operation, Space, Kept, Common, AreasOK
<1>2. PICK vmas \in Seq(Vma), n \in Nat : vmas = ms[o.proc].vmas /\ n = Len(vmas)
  BY <1>1
<1>3. "dup" \in Labels /\ New \in Space /\ o2 = [o EXCEPT !.pc = "dup", !.slot = New, !.i = n]
  BY <1>2 DEF Labels, Space
<1>4. o2.pc = "dup" /\ o2.proc = o.proc /\ o2.i = n
  BY <1>1, <1>3 DEF Operation
<1>5. Same(h[New], h[o.proc], vmas, n)
  BY <1>2 DEF Same
<1>. QED BY <1>2, <1>4, <1>5 DEF Making

\* Once all areas are copied both have the same pages.
LEMMA AllSame ==
  ASSUME NEW ms, NEW st, NEW ks, NEW h, NEW c, Kept(ms, st, ks, h, New, c),
         NEW p \in Proc, ms[p] # NULL, ms[New] # NULL, Copied(ms[New].vmas, ms[p].vmas, 0),
         NEW row \in [Page -> Value \cup {NULL}], NEW src \in [Page -> Value \cup {NULL}],
         src = h[p], \A la \in Page : ~InAreas(ms[p].vmas, la) => row[la] = h[New][la],
         Same(row, src, ms[p].vmas, 0)
  PROVE  row = src
<1>1. p \in Space /\ New \in Space
  BY DEF Space
<1>2. PICK vmas, copy \in Seq(Vma) : vmas = ms[p].vmas /\ copy = ms[New].vmas
  BY <1>1 DEF Kept, Common, AreasOK
<1>3. /\ \A la \in Page : src[la] # NULL => InAreas(vmas, la)
      /\ \A la \in Page : h[New][la] # NULL => InAreas(copy, la)
  BY <1>1, <1>2 DEF Kept, Common
<1>4. \A la : InAreas(copy, la) => InAreas(vmas, la)
  <2>1. Len(copy) = Len(vmas) - 0 /\ \A j \in DOMAIN copy : copy[j] = vmas[j + 0]
    BY <1>2 DEF Copied
  <2>2. DOMAIN copy = DOMAIN vmas /\ \A j \in DOMAIN copy : copy[j] = vmas[j]
    BY <1>2, <2>1
  <2>. QED BY <2>2 DEF InAreas
<1>5. \A la \in Page : InAreas(vmas, la) => row[la] = src[la]
  BY <1>2 DEF Same, InAreas
<1>6. \A la \in Page : row[la] = src[la]
  BY <1>2, <1>3, <1>4, <1>5
<1>. QED BY <1>6

\* What a turn of copy_range does to the new mm.
Copies(h, h2, p, la) ==
  IF h[p][la] = NULL THEN h2 = h ELSE Puts(h, h2, New, la, h[p][la])

\* A page is copied, or skipped.
LEMMA CopyMakes ==
  ASSUME NEW ms, NEW st, NEW ks, NEW o, NEW h, Copying(ms, st, ks, o, h), o.pc = "copy",
         h \in [Space -> [Page -> Value \cup {NULL}]],
         Making(ms, o, h), o.la \in Page, NEW next, Skips(h[o.proc], o.la, next),
         NEW h2, Copies(h, h2, o.proc, o.la), NEW o2, CopiesOn(ms, o, next, o2)
  PROVE  Making(ms, o2, h2)
<1>1. /\ o \in Operation /\ o.proc \in Proc /\ o.proc \in Space /\ New \in Space /\ New # o.proc
      /\ o.child \in Proc /\ o.child # NULL
      /\ ms[o.proc] # NULL /\ ms[New] # NULL /\ AreasOK(ms[o.proc].vmas)
      /\ Kept(ms, st, ks, h, New, o.child)
  BY NotNull DEF Copying, Operation, Space, Kept, Common
<1>2. PICK i, la, vmas, p : i = o.i /\ la = o.la /\ vmas = ms[o.proc].vmas /\ p = o.proc
  OBVIOUS
<1>3. PICK end \in Nat : end = vmas[i].end
  BY <1>1, <1>2, VmaType DEF Copying, AreasOK
<1>4. /\ i \in Nat /\ la \in Page /\ la \in Nat /\ next \in Nat /\ vmas \in Seq(Vma) /\ i \in DOMAIN vmas
      /\ la < end /\ la < next /\ i >= 1
      /\ Copied(ms[New].vmas, vmas, i - 1) /\ ToCome(ms[New].vmas, h[New], la, end - 1)
  BY <1>1, <1>2, <1>3 DEF Copying, Operation, AreasOK, Skips
<1>5. PICK row, row2, src : row = h[New] /\ row2 = h2[New] /\ src = h[p]
  OBVIOUS
<1>6. /\ row \in [Page -> Value \cup {NULL}] /\ row2 \in [Page -> Value \cup {NULL}]
      /\ src \in [Page -> Value \cup {NULL}]
      /\ h2[p] \in [Page -> Value \cup {NULL}]
  BY <1>1, <1>2, <1>5 DEF Copies, Puts
<1>7. \A lb \in Page : h2[p][lb] = src[lb]
  BY <1>1, <1>2, <1>5 DEF Copies, Puts
<1>8. h2[p] = src
  BY <1>6, <1>7
<1>9. \A lb \in Page : lb # la => row2[lb] = row[lb]
  BY <1>1, <1>2, <1>5 DEF Copies, Puts
<1>10. row[la] = NULL
  <2>1. la <= end - 1
    BY <1>3, <1>4
  <2>2. la <= la
    BY <1>4
  <2>. QED BY <1>4, <1>5, <2>1, <2>2 DEF ToCome
<1>11. row2[la] = src[la]
  BY <1>1, <1>2, <1>4, <1>5, <1>10 DEF Copies, Puts
<1>12. /\ Same(row, src, vmas, i) /\ SameTo(row, src, vmas[i], la)
  BY <1>2, <1>5 DEF Making
<1>13. Same(row2, src, vmas, i)
  BY <1>9, <1>11, <1>12 DEF Same
<1>14. SameTo(row2, src, vmas[i], next)
  <2>. SUFFICES ASSUME NEW lb \in Page, lb < next, Holds(vmas[i], lb) PROVE row2[lb] = src[lb]
    BY DEF SameTo
  <2>1. lb \in Nat /\ lb < end
    BY <1>3, TableSizes DEF Page, Holds
  <2>2. CASE lb < la
    BY <1>9, <1>11, <1>12, <2>2 DEF SameTo
  <2>3. CASE lb = la
    BY <1>11, <2>3
  <2>4. CASE la < lb
    <3>1. src[lb] = NULL
      BY <1>2, <1>5, <2>4 DEF Skips
    <3>2. la <= lb /\ lb <= end - 1
      BY <1>3, <1>4, <2>1, <2>4
    <3>3. row[lb] = NULL
      BY <1>5, <1>4, <3>2 DEF ToCome
    <3>4. lb # la
      BY <1>4, <2>1, <2>4
    <3>. QED BY <1>9, <3>1, <3>3, <3>4
  <2>. QED BY <1>4, <2>1, <2>2, <2>3, <2>4
<1>15. ASSUME ~(next < end) PROVE Same(row2, src, vmas, i - 1)
  <2>1. \A lb \in Page : Holds(vmas[i], lb) => lb < next
    BY <1>3, <1>4, <1>15, TableSizes DEF Page, Holds
  <2>2. \A k \in DOMAIN vmas : k > i - 1 => k = i \/ k > i
    BY <1>4
  <2>. QED BY <1>13, <1>14, <2>1, <2>2 DEF Same, SameTo
<1>16. CASE next < end
  <2>1. o2 = [o EXCEPT !.la = next]
    BY <1>2, <1>3, <1>16 DEF CopiesOn
  <2>2. o2.pc = "copy" /\ o2.la = next /\ o2.proc = p /\ o2.i = i
    BY <1>1, <1>2, <1>4, <2>1 DEF Operation
  <2>. QED BY <1>2, <1>5, <1>8, <1>13, <1>14, <2>2 DEF Making
<1>17. CASE ~(next < end) /\ i > 1
  <2>1. PICK j \in Nat : j = i - 1
    BY <1>4
  <2>2. o2 = [o EXCEPT !.pc = "dup", !.i = j] /\ "dup" \in Labels
    BY <1>2, <1>3, <1>17, <2>1 DEF CopiesOn, Labels
  <2>3. o2.pc = "dup" /\ o2.proc = p /\ o2.i = j
    BY <1>1, <1>2, <2>1, <2>2 DEF Operation
  <2>4. Same(row2, src, vmas, j)
    BY <1>15, <1>17, <2>1
  <2>. QED BY <1>2, <1>5, <1>8, <2>3, <2>4 DEF Making
<1>18. CASE ~(next < end) /\ ~(i > 1)
  <2>1. o2 = [o EXCEPT !.pc = "attach"] /\ "attach" \in Labels
    BY <1>2, <1>3, <1>18 DEF CopiesOn, Labels
  <2>2. o2.pc = "attach" /\ o2.proc = p /\ o2.child # NULL
    BY <1>1, <1>2, <2>1 DEF Operation
  <2>3. i = 1 /\ i - 1 = 0
    BY <1>4, <1>18
  <2>4. Same(row2, src, vmas, 0) /\ Copied(ms[New].vmas, vmas, 0)
    BY <1>4, <1>15, <1>18, <2>3
  <2>5. \A lb \in Page : ~InAreas(vmas, lb) => row2[lb] = h[New][lb]
    <3>1. ASSUME NEW lb \in Page, ~InAreas(vmas, lb) PROVE row2[lb] = row[lb]
      <4>1. src[lb] = NULL
        BY <1>1, <1>2, <1>5, <3>1 DEF Kept, Common
      <4>. QED BY <1>9, <1>10, <1>11, <4>1
    <3>. QED BY <1>5, <3>1
  <2>6. row2 = src
    BY <1>1, <1>2, <1>5, <1>6, <2>4, <2>5, AllSame
  <2>. QED BY <1>1, <1>2, <1>5, <1>8, <2>2, <2>6 DEF Making
<1>. QED BY <1>16, <1>17, <1>18

-----------------------------------------------------------------------------
(* What users see.                                                         *)

\* A process without an mm, or whose mm is taken down, sees nothing.
Unseen(ms, p) == ms[p] = NULL \/ ms[p].mm_count = 0
Seen(ms, h) == [p \in Proc |-> [la \in Page |-> IF Unseen(ms, p) THEN NULL ELSE h[p][la]]]
Blank == [la \in Page |-> NULL]

\* Process p sees row from now on, and nobody else sees a change.
Alters(v, v2, p, row) == v2[p] = row /\ \A q \in Proc : q # p => v2[q] = v[q]

\* p wrote x to a page it sees, or gave up all it saw.
Wrote(v, v2, p, la, x) == v[p][la] # NULL /\ Alters(v, v2, p, [v[p] EXCEPT ![la] = x])
GaveUp(v, v2, p) == Alters(v, v2, p, Blank)

\* What a process may see without having asked for it: a page that it saw
\* nothing of, and if it saw nothing at all, what another one sees or a program.
Comes(v, was, now) ==
  \/ \E la \in Page, x \in Value : was[la] = NULL /\ now = [was EXCEPT ![la] = x]
  \/ was = Blank /\ \E t \in Proc : now = v[t]
  \/ was = Blank /\ \E img \in Images : \A pg \in DOMAIN img : now[pg] = img[pg]
Moves(v, v2) ==
  \/ v2 = v
  \/ \E p \in Proc : Comes(v, v[p], v2[p]) /\ Alters(v, v2, p, v2[p])

\* What is built is right, and what users see: from one state to the next, when
\* nobody has asked for a change.
Made(ms, m, o) == Making(ms, o, Contents(m, RootsOf(ms)))
Looks(ms, m) == Seen(ms, Contents(m, RootsOf(ms)))
Shows(ms, m, o, ms2, m2, o2) ==
  Made(ms, m, o) => Made(ms2, m2, o2) /\ Moves(Looks(ms, m), Looks(ms2, m2))

\* What users see are pages.
LEMMA SeenType ==
  ASSUME NEW ms, NEW h \in [Space -> [Page -> Value \cup {NULL}]]
  PROVE  /\ Seen(ms, h) \in [Proc -> [Page -> Value \cup {NULL}]]
         /\ \A p \in Proc : Unseen(ms, p) => Seen(ms, h)[p] = Blank
         /\ \A p \in Proc : ~Unseen(ms, p) => Seen(ms, h)[p] = h[p]
<1>1. \A p \in Proc : p \in Space /\ h[p] \in [Page -> Value \cup {NULL}]
  BY DEF Space
<1>2. ASSUME NEW p \in Proc, ~Unseen(ms, p) PROVE Seen(ms, h)[p] = h[p]
  <2>1. Seen(ms, h)[p] = [la \in Page |-> h[p][la]]
    BY <1>2 DEF Seen
  <2>. QED BY <1>1, <2>1
<1>3. ASSUME NEW p \in Proc, Unseen(ms, p) PROVE Seen(ms, h)[p] = Blank
  BY <1>3 DEF Seen, Blank
<1>4. Blank \in [Page -> Value \cup {NULL}]
  BY DEF Blank
<1>5. Seen(ms, h) = [p \in Proc |-> Seen(ms, h)[p]]
  BY DEF Seen
<1>6. \A p \in Proc : Seen(ms, h)[p] \in [Page -> Value \cup {NULL}]
  BY <1>1, <1>2, <1>3, <1>4
<1>. QED BY <1>2, <1>3, <1>5, <1>6

\* Nobody sees a change of pages that belong to nobody.
LEMMA SameSeen ==
  ASSUME NEW ms, NEW ms2, NEW h, NEW h2,
         \A p \in Proc : Unseen(ms2, p) <=> Unseen(ms, p),
         \A p \in Proc, la \in Page : ~Unseen(ms, p) => h2[p][la] = h[p][la]
  PROVE  Seen(ms2, h2) = Seen(ms, h)
BY DEF Seen

\* What changes for the new mm only.
LEMMA NewSeen ==
  ASSUME NEW ms, NEW ms2, \A s \in Space : s # New => ms2[s] = ms[s],
         NEW h, NEW h2, \A s \in Space : s # New => h2[s] = h[s]
  PROVE  Seen(ms2, h2) = Seen(ms, h)
<1>1. \A p \in Proc : p \in Space /\ p # New
  BY NotNull DEF Space
<1>. QED BY <1>1, SameSeen DEF Unseen

\* A page of the new mm.
LEMMA PutsSeen ==
  ASSUME NEW ms, NEW h \in [Space -> [Page -> Value \cup {NULL}]],
         NEW h2, NEW la, NEW v, Puts(h, h2, New, la, v)
  PROVE  Seen(ms, h2) = Seen(ms, h)
<1>1. \A p \in Proc : p \in Space /\ p # New
  BY NotNull DEF Space
<1>2. \A p \in Proc, lb \in Page : h2[p][lb] = h[p][lb]
  BY <1>1 DEF Puts
<1>. QED BY <1>2, SameSeen

\* Nobody sees a step of taking down.
LEMMA DoomedSeen ==
  ASSUME NEW ms, NEW s, Unseen(ms, s),
         NEW h, NEW h2, NEW la, NEW v, Puts(h, h2, s, la, v)
  PROVE  Seen(ms, h2) = Seen(ms, h)
<1>1. \A p \in Proc : p \in Space
  BY DEF Space
<1>2. \A p \in Proc, lb \in Page : ~Unseen(ms, p) => h2[p][lb] = h[p][lb]
  BY <1>1 DEF Puts
<1>. QED BY <1>2, SameSeen

\* Only a change that users see shows.
LEMMA Stays ==
  ASSUME NEW ms, NEW m, NEW o, NEW ms2, NEW m2, NEW o2,
         NEW h, h = Contents(m, RootsOf(ms)), NEW h2, h2 = Contents(m2, RootsOf(ms2)),
         Making(ms, o, h) => Making(ms2, o2, h2), Seen(ms2, h2) = Seen(ms, h)
  PROVE  Shows(ms, m, o, ms2, m2, o2)
BY DEF Shows, Made, Looks, Moves

\* A change that users see.
LEMMA Changes ==
  ASSUME NEW ms, NEW m, NEW o, NEW ms2, NEW m2, NEW o2,
         NEW h, h = Contents(m, RootsOf(ms)), NEW h2, h2 = Contents(m2, RootsOf(ms2)),
         Making(ms2, o2, h2), Making(ms, o, h) => Moves(Seen(ms, h), Seen(ms2, h2))
  PROVE  Shows(ms, m, o, ms2, m2, o2)
BY DEF Shows, Made, Looks

\* A page of a process is written, or appears.
LEMMA PutAlters ==
  ASSUME NEW ms, NEW h \in [Space -> [Page -> Value \cup {NULL}]],
         NEW p \in Proc, NEW la \in Page, NEW x \in Value, NEW h2, Puts(h, h2, p, la, x),
         ~Unseen(ms, p)
  PROVE  /\ Seen(ms, h)[p][la] = h[p][la]
         /\ Alters(Seen(ms, h), Seen(ms, h2), p, [Seen(ms, h)[p] EXCEPT ![la] = x])
<1>1. \A q \in Proc : q \in Space
  BY DEF Space
<1>2. h2 \in [Space -> [Page -> Value \cup {NULL}]]
  BY DEF Puts
<1>3. PICK was, now : was = h[p] /\ now = h2[p]
  OBVIOUS
<1>4. /\ was \in [Page -> Value \cup {NULL}] /\ now \in [Page -> Value \cup {NULL}]
      /\ now[la] = x /\ \A lb \in Page : lb # la => now[lb] = was[lb]
  BY <1>1, <1>2, <1>3 DEF Puts
<1>5. now = [was EXCEPT ![la] = x]
  BY <1>4
<1>6. Seen(ms, h)[p] = was /\ Seen(ms, h2)[p] = now
  BY <1>2, <1>3, SeenType
<1>7. ASSUME NEW q \in Proc, q # p PROVE Seen(ms, h2)[q] = Seen(ms, h)[q]
  <2>1. \A lb \in Page : h2[q][lb] = h[q][lb]
    BY <1>1, <1>7 DEF Puts
  <2>. QED BY <2>1 DEF Seen
<1>. QED BY <1>3, <1>5, <1>6, <1>7 DEF Alters

\* A process gives up its mm.
LEMMA DropAlters ==
  ASSUME NEW ms, NEW h \in [Space -> [Page -> Value \cup {NULL}]], NEW p \in Proc,
         NEW ms2, Unseen(ms2, p), \A s \in Space : s # p => ms2[s] = ms[s]
  PROVE  GaveUp(Seen(ms, h), Seen(ms2, h), p)
<1>1. Seen(ms2, h)[p] = Blank
  BY SeenType
<1>2. \A q \in Proc : q # p => Seen(ms2, h)[q] = Seen(ms, h)[q]
  BY DEF Seen, Unseen, Space
<1>. QED BY <1>1, <1>2 DEF GaveUp, Alters

\* A row with the pages of a program holds its image.
LEMMA ImageIs ==
  ASSUME NEW prog \in Program, NEW row, Filled(row, prog, Len(prog.segs))
  PROVE  \E img \in Images : \A pg \in DOMAIN img : row[pg] = img[pg]
<1>. DEFINE loaded == {la \in Page : \E i \in DOMAIN prog.segs : Holds(prog.segs[i], la)}
            img == [la \in loaded |->
                      IF \E i \in DOMAIN prog.segs : Holds(prog.segs[i], la) /\ la < prog.segs[i].file
                      THEN prog.data ELSE Zero]
<1>1. img \in Images
  BY DEF Images
<1>2. DOMAIN prog.segs = 1 .. Len(prog.segs)
  <2>1. prog.segs \in Seq(Segment)
    BY VmmAssumption
  <2>. QED BY <2>1
<1>3. ASSUME NEW la \in loaded PROVE row[la] = img[la]
  <2>1. \A i \in DOMAIN prog.segs : Holds(prog.segs[i], la) => row[la] = SegValue(prog, i, la)
    BY <1>2 DEF Filled
  <2>2. CASE \E i \in DOMAIN prog.segs : Holds(prog.segs[i], la) /\ la < prog.segs[i].file
    <3>1. row[la] = prog.data
      BY <2>1, <2>2 DEF SegValue
    <3>. QED BY <2>2, <3>1
  <2>3. CASE ~(\E i \in DOMAIN prog.segs : Holds(prog.segs[i], la) /\ la < prog.segs[i].file)
    <3>1. row[la] = Zero
      BY <2>1, <2>3 DEF SegValue
    <3>. QED BY <2>3, <3>1
  <2>. QED BY <2>2, <2>3
<1>4. \A pg \in DOMAIN img : row[pg] = img[pg]
  BY <1>3
<1>. QED BY <1>1, <1>4

\* p has an mm from now on, and the other processes what they had.
Arrives(ms, ms2, p) ==
  ~Unseen(ms2, p) /\ \A s \in Space : s # p /\ s # New => ms2[s] = ms[s]

\* A process gets the new mm: a program, or what its parent has.
LEMMA AttachMoves ==
  ASSUME NEW ms, NEW st, NEW ks, NEW o, NEW h, Attaching(ms, st, ks, o, h),
         h \in [Space -> [Page -> Value \cup {NULL}]], Making(ms, o, h),
         NEW p, Owner(o, p), NEW h2, Hands(h, h2, New, p),
         NEW ms2, Arrives(ms, ms2, p)
  PROVE  Moves(Seen(ms, h), Seen(ms2, h2))
<1>1. /\ p \in Proc /\ p \in Space /\ p # New /\ ms[p] = NULL /\ New \in Space
      /\ o.pc = "attach" /\ \A q \in Proc : ms[q] # NULL => ms[q].mm_count = 1
      /\ \A q \in Proc : q \in Space /\ q # New
  BY NotNull DEF Attaching, Owner, Operation, Space, Kept, Counts
<1>2. /\ h2 \in [Space -> [Page -> Value \cup {NULL}]] /\ h2[p] = h[New]
      /\ \A s \in Space : s # New /\ s # p => h2[s] = h[s]
  BY DEF Hands
<1>3. Seen(ms, h)[p] = Blank /\ Seen(ms2, h2)[p] = h[New]
  <2>1. Unseen(ms, p) /\ ~Unseen(ms2, p)
    BY <1>1 DEF Unseen, Arrives
  <2>. QED BY <1>1, <1>2, <2>1, SeenType
<1>4. \A q \in Proc : q # p => Seen(ms2, h2)[q] = Seen(ms, h)[q]
  <2>1. ASSUME NEW q \in Proc, q # p PROVE Seen(ms2, h2)[q] = Seen(ms, h)[q]
    <3>1. ms2[q] = ms[q] /\ h2[q] = h[q]
      BY <1>1, <1>2, <2>1 DEF Arrives
    <3>. QED BY <3>1 DEF Seen, Unseen
  <2>. QED BY <2>1
<1>5. CASE o.child = NULL
  <2>1. o.prog \in Program /\ Filled(h[New], o.prog, Len(o.prog.segs))
    BY <1>1, <1>5 DEF Making
  <2>2. \E img \in Images : \A pg \in DOMAIN img : h[New][pg] = img[pg]
    BY <2>1, ImageIs
  <2>3. \A v : Comes(v, Blank, h[New])
    BY <2>2 DEF Comes
  <2>. QED BY <1>1, <1>3, <1>4, <2>3 DEF Moves, Alters
<1>6. CASE o.child # NULL
  <2>1. o.proc \in Proc /\ ms[o.proc] # NULL /\ h[New] = h[o.proc]
    BY <1>1, <1>6 DEF Making
  <2>2. ~Unseen(ms, o.proc)
    BY <1>1, <2>1 DEF Unseen
  <2>3. Seen(ms, h)[o.proc] = h[New]
    BY <2>1, <2>2, SeenType
  <2>. QED BY <1>1, <1>3, <1>4, <2>1, <2>3 DEF Moves, Comes, Alters
<1>. QED BY <1>5, <1>6

\* Nothing is built while an mm is taken down.
LEMMA TornMakes ==
  ASSUME NEW ms, NEW st, NEW ks, NEW o, NEW h,
         Tearing(ms, st, ks, o, h) \/ Dropped(ms, st, ks, o, h), NEW ms2, NEW h2
  PROVE  Making(ms2, o, h2)
<1>1. o.pc \in {"idle", "unmap", "exit_range", "put_pgdir", "dropped", "copy_mm"}
  BY DEF Tearing, Dropped
<1>. QED BY <1>1, NothingMade

\* Nor between two operations.
LEMMA IdleMakes == ASSUME NEW ms, NEW h PROVE Making(ms, Idle, h)
<1>1. Idle.pc = "idle"
  BY DEF Idle
<1>. QED BY <1>1, NothingMade

-----------------------------------------------------------------------------
(* The steps, for values.                                                  *)

\* The mms, the frames and the control state are right.
Inv(ms, st, ks, fr, r, m, o, ls) ==
  /\ ms \in [Space -> Mm \cup {NULL}]
  /\ Fits(m, r, fr, RootsOf(ms), ks, ls)
  /\ Phase(ms, st, ks, o, Contents(m, RootsOf(ms)))

\* A step keeps them right, and users see what they may.
Goes(ms, m, o, ms2, st2, ks2, fr2, r2, m2, o2, ls2) ==
  Inv(ms2, st2, ks2, fr2, r2, m2, o2, ls2) /\ Shows(ms, m, o, ms2, m2, o2)

\* The label says which phase an operation is in.
LEMMA PhaseOf ==
  ASSUME NEW ms, NEW st, NEW ks, NEW o, NEW h, Phase(ms, st, ks, o, h)
  PROVE  /\ o = Idle => Resting(ms, st, ks, Idle, h)
         /\ o.pc \in {"unmap", "exit_range", "put_pgdir"} => Tearing(ms, st, ks, o, h)
         /\ o.pc = "dropped" => Dropped(ms, st, ks, o, h)
         /\ o.pc \in {"segment", "load", "stack", "preload"} => Loading(ms, st, ks, o, h)
         /\ o.pc \in {"copy_mm", "dup", "copy"} => Copying(ms, st, ks, o, h)
         /\ o.pc = "attach" => Attaching(ms, st, ks, o, h)
<1>1. Idle.pc = "idle"
  BY DEF Idle
<1>2. CASE Resting(ms, st, ks, o, h)
  BY <1>1, <1>2 DEF Resting
<1>3. CASE Tearing(ms, st, ks, o, h)
  BY <1>1, <1>3 DEF Tearing
<1>4. CASE Dropped(ms, st, ks, o, h)
  BY <1>1, <1>4 DEF Dropped
<1>5. CASE Loading(ms, st, ks, o, h)
  BY <1>1, <1>5 DEF Loading
<1>6. CASE Copying(ms, st, ks, o, h)
  BY <1>1, <1>6 DEF Copying
<1>7. CASE Attaching(ms, st, ks, o, h)
  BY <1>1, <1>7 DEF Attaching
<1>. QED BY <1>2, <1>3, <1>4, <1>5, <1>6, <1>7 DEF Phase

\* A turn of unmap_range keeps frames and areas right.
LEMMA UnmapInv ==
  ASSUME NEW ms, NEW st, NEW ks, NEW fr, NEW r, NEW m, NEW o, NEW ls,
         Inv(ms, st, ks, fr, r, m, o, ls), o.pc = "unmap",
         NEW g, g = ms[o.slot].pgdir, NEW vmas, vmas = ms[o.slot].vmas,
         NEW m2, NEW r2, NEW fr2,
         IF WalkP(m, g, o.la) # NoFrame THEN Removes(m, r, fr, g, o.la, m2, r2, fr2)
         ELSE m2 = m /\ r2 = r /\ fr2 = fr,
         NEW o2, o2 = IF NextOf(m, g, o.la) < vmas[o.i].end THEN [o EXCEPT !.la = NextOf(m, g, o.la)]
                      ELSE UnmapOf(vmas, o, o.i + 1)
  PROVE  Inv(ms, st, ks, fr2, r2, m2, o2, ls) /\ Shows(ms, m, o, ms, m2, o2)
<1>1. PICK rt, h, next, la : /\ rt = RootsOf(ms) /\ h = Contents(m, rt)
                             /\ next = NextOf(m, g, la) /\ la = o.la
  OBVIOUS
<1>2. ms \in [Space -> Mm \cup {NULL}] /\ Fits(m, r, fr, rt, ks, ls) /\ Tearing(ms, st, ks, o, h)
  BY <1>1, PhaseOf DEF Inv
<1>3. /\ o \in Operation /\ o.slot \in Space /\ ms[o.slot] # NULL
      /\ Unmapping(vmas, o.i, la, h[o.slot]) /\ AreasOK(vmas)
  BY <1>1, <1>2 DEF Tearing, Doomed, Operation, Kept, Common
<1>4. g = rt[o.slot] /\ rt[o.slot] # NoFrame
  BY <1>1, <1>2, <1>3, RootsAre
<1>5. la \in Page
  <2>1. vmas[o.i] \in Vma /\ la \in Nat /\ la < vmas[o.i].end
    BY <1>1, <1>3 DEF Unmapping, AreasOK, Operation
  <2>2. vmas[o.i].end \in 1 .. USERTOP /\ USERTOP \in Nat
    BY <2>1, VmaType, TableSizes
  <2>. QED BY <2>1, <2>2 DEF Page
<1>6. Skips(h[o.slot], la, next)
  BY <1>1, <1>2, <1>3, <1>4, <1>5, NextSkips
<1>7. Fits(m2, r2, fr2, rt, ks, ls) /\ Puts(h, Contents(m2, rt), o.slot, la, NULL)
  <2>1. CASE WalkP(m, g, la) # NoFrame
    <3>1. h[o.slot][la] # NULL /\ Removes(m, r, fr, rt[o.slot], la, m2, r2, fr2)
      BY <1>1, <1>2, <1>3, <1>4, <1>5, <2>1, FitsFacts
    <3>. QED BY <1>1, <1>2, <1>3, <1>4, <1>5, <3>1, RemoveFits
  <2>2. CASE WalkP(m, g, la) = NoFrame
    <3>1. m2 = m /\ r2 = r /\ fr2 = fr
      BY <1>1, <2>2
    <3>2. h[o.slot][la] = NULL /\ h \in [Space -> [Page -> Value \cup {NULL}]]
      BY <1>1, <1>2, <1>3, <1>4, <1>5, <2>2, FitsFacts
    <3>3. Puts(h, h, o.slot, la, NULL)
      BY <3>2 DEF Puts
    <3>. QED BY <1>1, <1>2, <3>1, <3>3
  <2>. QED BY <2>1, <2>2
<1>8. o2 = IF next < vmas[o.i].end THEN [o EXCEPT !.la = next] ELSE UnmapOf(vmas, o, o.i + 1)
  BY <1>1
<1>9. Tearing(ms, st, ks, o2, Contents(m2, rt))
  BY <1>1, <1>2, <1>6, <1>7, <1>8, UnmapStep
<1>10. Shows(ms, m, o, ms, m2, o2)
  <2>1. PICK h2 : h2 = Contents(m2, rt)
    OBVIOUS
  <2>2. Unseen(ms, o.slot)
    BY <1>2 DEF Tearing, Doomed, Unseen
  <2>3. Seen(ms, h2) = Seen(ms, h)
    BY <1>7, <2>1, <2>2, DoomedSeen
  <2>4. Making(ms, o2, h2)
    BY <1>9, TornMakes
  <2>. QED BY <1>1, <2>1, <2>3, <2>4, Stays
<1>. QED BY <1>1, <1>2, <1>7, <1>9, <1>10 DEF Inv, Phase

\* A turn of exit_range keeps frames and areas right.
LEMMA RangeInv ==
  ASSUME NEW ms, NEW st, NEW ks, NEW fr, NEW r, NEW m, NEW o, NEW ls,
         Inv(ms, st, ks, fr, r, m, o, ls), o.pc = "exit_range",
         NEW g, g = ms[o.slot].pgdir, NEW vmas, vmas = ms[o.slot].vmas,
         NEW m2, NEW r2, NEW fr2, NEW ls2, NEW b \in BOOLEAN, NEW drop \in BOOLEAN,
         IF m[g][PDX1(o.gb)] = NoFrame THEN m2 = m /\ r2 = r /\ fr2 = fr /\ ls2 = ls
         ELSE Leaves(m, r, fr, g, ls, PDX1(o.gb), PDX0(o.la), drop, m2, r2, fr2, ls2),
         NEW o2, RangeNext(vmas, o, b, o2)
  PROVE  Goes(ms, m, o, ms, st, ks, fr2, r2, m2, o2, ls2)
<1>1. PICK rt, h, x1, x0 : /\ rt = RootsOf(ms) /\ h = Contents(m, rt)
                           /\ x1 = PDX1(o.gb) /\ x0 = PDX0(o.la)
  OBVIOUS
<1>2. ms \in [Space -> Mm \cup {NULL}] /\ Fits(m, r, fr, rt, ks, ls) /\ Tearing(ms, st, ks, o, h)
  BY <1>1, PhaseOf DEF Inv
<1>3. /\ o \in Operation /\ o.slot \in Space /\ ms[o.slot] # NULL
      /\ Bare(h, o.slot) /\ o.gb \in Page /\ o.la \in Nat
  BY <1>1, <1>2 DEF Tearing, Doomed, Operation
<1>4. g = rt[o.slot] /\ rt[o.slot] # NoFrame
  BY <1>1, <1>2, <1>3, RootsAre
<1>5. x1 \in Index
  BY <1>1, <1>3, Indices
<1>6. x0 \in Index
  <2>1. PICK q \in Nat, n \in Nat \ {0} : q = o.la \div PTSIZE /\ n = NENTRY
    BY <1>3, TableSizes, Quotient
  <2>2. q % n \in 0 .. n - 1
    BY Quotient
  <2>. QED BY <1>1, <2>1, <2>2 DEF PDX0, Index
<1>7. Fits(m2, r2, fr2, rt, ks, ls2) /\ Contents(m2, rt) = h
  <2>1. CASE m[g][x1] = NoFrame
    <3>1. m2 = m /\ r2 = r /\ fr2 = fr /\ ls2 = ls
      BY <1>1, <2>1
    <3>. QED BY <1>1, <1>2, <3>1
  <2>2. CASE m[g][x1] # NoFrame
    <3>1. Leaves(m, r, fr, rt[o.slot], ls, x1, x0, drop, m2, r2, fr2, ls2) /\ m[rt[o.slot]][x1] # NoFrame
      BY <1>1, <1>4, <2>2
    <3>2. Bare(Contents(m, rt), o.slot)
      BY <1>1, <1>3
    <3>. QED BY <1>1, <1>2, <1>3, <1>4, <1>5, <1>6, <3>1, <3>2, LeaveFits
  <2>. QED BY <2>1, <2>2
<1>8. Tearing(ms, st, ks, o2, h)
  BY <1>2, RangeStep
<1>9. Shows(ms, m, o, ms, m2, o2)
  BY <1>1, <1>7, <1>8, TornMakes, Stays
<1>. QED BY <1>1, <1>2, <1>7, <1>8, <1>9 DEF Goes, Inv, Phase

\* put_pgdir keeps frames and areas right, and its assertion holds.
LEMMA PutInv ==
  ASSUME NEW ms, NEW st, NEW ks, NEW fr, NEW r, NEW m, NEW o, NEW ls,
         Inv(ms, st, ks, fr, r, m, o, ls), o.pc = "put_pgdir",
         NEW m2, NEW fr2, NEW ls2, Drops(m, fr, ms[o.slot].pgdir, ls, m2, fr2, ls2),
         NEW ms2, Becomes(ms, ms2, o.slot, NULL),
         NEW o2, o2 = [o EXCEPT !.pc = "dropped"]
  PROVE  Goes(ms, m, o, ms2, st, ks, fr2, r, m2, o2, ls2) /\ ms[o.slot].mm_count = 0
<1>1. PICK rt, h, rt2 : rt = RootsOf(ms) /\ h = Contents(m, rt) /\ rt2 = RootsOf(ms2)
  OBVIOUS
<1>2. ms \in [Space -> Mm \cup {NULL}] /\ Fits(m, r, fr, rt, ks, ls) /\ Tearing(ms, st, ks, o, h)
  BY <1>1, PhaseOf DEF Inv
<1>3. /\ o.slot \in Space /\ ms[o.slot] # NULL /\ ms[o.slot].mm_count = 0 /\ Bare(h, o.slot)
  BY <1>1, <1>2 DEF Tearing, Doomed, Operation
<1>4. ms[o.slot].pgdir = rt[o.slot] /\ rt[o.slot] # NoFrame
  BY <1>1, <1>2, <1>3, RootsAre
<1>5. ms2 \in [Space -> Mm \cup {NULL}] /\ ms2[o.slot] = NULL /\ \A s \in Space : s # o.slot => ms2[s] = ms[s]
  BY DEF Becomes
<1>6. /\ rt2 \in [Space -> Frame0] /\ rt2[o.slot] = NoFrame
      /\ \A s \in Space : s # o.slot => rt2[s] = rt[s]
  BY <1>1, <1>2, <1>3, <1>5, RootsAre DEF RootsOf
<1>7. Drops(m, fr, rt[o.slot], ls, m2, fr2, ls2) /\ Bare(Contents(m, rt), o.slot)
  BY <1>1, <1>3, <1>4
<1>8. Fits(m2, r, fr2, rt2, ks, ls2) /\ Contents(m2, rt2) = Contents(m, rt)
  BY <1>2, <1>3, <1>4, <1>6, <1>7, DropFits
<1>9. Dropped(ms2, st, ks, o2, h)
  BY <1>2, PutStep
<1>10. Shows(ms, m, o, ms2, m2, o2)
  <2>1. \A p \in Proc : Unseen(ms2, p) <=> Unseen(ms, p)
    BY <1>3, <1>5 DEF Unseen, Space
  <2>2. Seen(ms2, h) = Seen(ms, h)
    BY <2>1, SameSeen
  <2>. QED BY <1>1, <1>8, <1>9, <2>2, TornMakes, Stays
<1>. QED BY <1>1, <1>3, <1>5, <1>8, <1>9, <1>10 DEF Goes, Inv, Phase

\* An mm is given up.
LEMMA DropInv ==
  ASSUME NEW ms, NEW st, NEW ks, NEW fr, NEW r, NEW m, NEW ls,
         Inv(ms, st, ks, fr, r, m, Idle, ls),
         NEW p \in Proc, st[p] = "live", NEW prog \in Program \cup {NULL},
         NEW o, o = Begin("unmap", p, prog, NULL),
         NEW ms2, NEW o2, Drop(ms, p, o, ms2, o2)
  PROVE  /\ Inv(ms2, st, ks, fr, r, m, o2, ls) /\ Made(ms2, m, o2)
         /\ GaveUp(Looks(ms, m), Looks(ms2, m), p)
<1>1. PICK rt, h : rt = RootsOf(ms) /\ h = Contents(m, rt)
  OBVIOUS
<1>2. ms \in [Space -> Mm \cup {NULL}] /\ Fits(m, r, fr, rt, ks, ls) /\ Resting(ms, st, ks, Idle, h)
  BY <1>1, PhaseOf DEF Inv
<1>3. p \in Space /\ (ms[p] # NULL => ms[p].mm_count = 1 /\ ms[p] \in Mm)
  BY <1>2, NotNull DEF Resting, Kept, Counts, Space
<1>4. ms2 \in [Space -> Mm \cup {NULL}] /\ \A s \in Space : s # p => ms2[s] = ms[s]
  BY DEF Drop, Becomes
<1>7. ASSUME RootsOf(ms2) = rt, Dropped(ms2, st, ks, o2, h) \/ Tearing(ms2, st, ks, o2, h), Unseen(ms2, p)
      PROVE  Made(ms2, m, o2) /\ GaveUp(Looks(ms, m), Looks(ms2, m), p)
  <2>1. h \in [Space -> [Page -> Value \cup {NULL}]]
    BY <1>1, <1>2, FitsFacts
  <2>2. GaveUp(Seen(ms, h), Seen(ms2, h), p)
    BY <1>4, <1>7, <2>1, DropAlters
  <2>3. Making(ms2, o2, h)
    BY <1>7, TornMakes
  <2>. QED BY <1>1, <1>7, <2>2, <2>3 DEF Made, Looks
<1>5. CASE ms[p] = NULL
  <2>1. ms2[p] = NULL
    BY <1>5 DEF Drop, Becomes
  <2>2. RootsOf(ms2) = rt
    BY <1>1, <1>2, <1>3, <1>4, <1>5, <2>1, SameRoots
  <2>3. Dropped(ms2, st, ks, o2, h) \/ Tearing(ms2, st, ks, o2, h)
    BY <1>2, DropStep
  <2>4. Made(ms2, m, o2) /\ GaveUp(Looks(ms, m), Looks(ms2, m), p)
    BY <1>7, <2>1, <2>2, <2>3 DEF Unseen
  <2>. QED BY <1>1, <1>2, <1>4, <2>2, <2>3, <2>4 DEF Inv, Phase
<1>6. CASE ms[p] # NULL
  <2>1. ms2[p] = [ms[p] EXCEPT !.mm_count = 0]
    BY <1>3, <1>6 DEF Drop, Becomes
  <2>2. ms2[p] \in Mm /\ ms2[p].pgdir = ms[p].pgdir /\ ms2[p] # NULL
    BY <1>3, <1>6, <2>1, NotNull DEF Mm
  <2>3. RootsOf(ms2) = rt
    BY <1>1, <1>2, <1>3, <1>4, <1>6, <2>2, SameRoots
  <2>4. Dropped(ms2, st, ks, o2, h) \/ Tearing(ms2, st, ks, o2, h)
    BY <1>2, DropStep
  <2>5. Unseen(ms2, p)
    BY <1>3, <1>6, <2>1 DEF Unseen, Mm
  <2>6. Made(ms2, m, o2) /\ GaveUp(Looks(ms, m), Looks(ms2, m), p)
    BY <1>7, <2>3, <2>4, <2>5
  <2>. QED BY <1>1, <1>2, <1>4, <2>3, <2>4, <2>6 DEF Inv, Phase
<1>. QED BY <1>5, <1>6

\* NewMm, for values.
Creates(m, fr, ms, m2, fr2, ms2) ==
  LET f == Kth(fr, 1)
  IN /\ Cardinality(fr) >= 1
     /\ ms2 = [ms EXCEPT ![New] = [pgdir |-> f, vmas |-> <<>>, mm_count |-> 0]]
     /\ m2 = [m EXCEPT ![f] = Empty]
     /\ fr2 = fr \ {f}

\* A new mm has a directory, no areas and no pages.
LEMMA CreateFits ==
  ASSUME NEW ms \in [Space -> Mm \cup {NULL}], ms[New] = NULL,
         NEW m, NEW r, NEW fr, NEW ks, NEW ls, NEW rt, rt = RootsOf(ms),
         Fits(m, r, fr, rt, ks, ls),
         NEW m2, NEW fr2, NEW ms2, Creates(m, fr, ms, m2, fr2, ms2),
         NEW rt2, rt2 = RootsOf(ms2)
  PROVE  /\ \E v : Fresh(v) /\ Becomes(ms, ms2, New, v)
         /\ ms2 \in [Space -> Mm \cup {NULL}]
         /\ Bare(Contents(m, rt), New)
         /\ Fits(m2, r, fr2, rt2, ks, ls) /\ Contents(m2, rt2) = Contents(m, rt)
<1>1. /\ fr \in SUBSET Frame /\ New \in Space /\ rt[New] = NoFrame /\ rt \in [Space -> Frame0]
  BY FitsFacts, RootsAre DEF Space
<1>2. PICK f \in fr : f = Kth(fr, 1) /\ f \in Frame
  <2>1. Cardinality(fr) >= 1 /\ 1 \in 1 .. 3
    BY DEF Creates
  <2>. QED BY <1>1, <2>1, KthFree
<1>3. PICK v : v = [pgdir |-> f, vmas |-> <<>>, mm_count |-> 0]
  OBVIOUS
<1>4. v \in Mm /\ Fresh(v) /\ v.pgdir = f /\ v # NULL
  <2>1. <<>> \in Seq(Vma)
    OBVIOUS
  <2>2. v \in Mm
    BY <1>2, <1>3, <2>1 DEF Mm
  <2>. QED BY <1>3, <2>2, NotNull DEF Fresh
<1>5. ms2 = [ms EXCEPT ![New] = v] /\ m2 = [m EXCEPT ![f] = Empty] /\ fr2 = fr \ {f}
  BY <1>2, <1>3 DEF Creates
<1>6. /\ ms2 \in [Space -> Mm \cup {NULL}] /\ ms2[New] = v /\ \A s \in Space : s # New => ms2[s] = ms[s]
  BY <1>1, <1>4, <1>5
<1>7. rt2 \in [Space -> Frame0] /\ rt2[New] = f /\ \A s \in Space : s # New => rt2[s] = rt[s]
  BY <1>1, <1>4, <1>6, RootsAre DEF RootsOf
<1>8. m \in [Frame -> Table \cup Value]
  BY DEF Fits, Uses, Kinds
<1>9. m2 \in [Frame -> Table \cup Value] /\ m2[f] = Empty /\ \A h \in Frame : h # f => m2[h] = m[h]
  BY <1>2, <1>5, <1>8, EmptyTable
<1>10. \A h : h # f /\ h \notin Frame => m2[h] = m[h]
  BY <1>5, <1>8
<1>11. \A h : h # f => m2[h] = m[h]
  BY <1>9, <1>10
<1>12. Rooted(m, r, fr, rt, New, f, m2, fr2, rt2)
  BY <1>1, <1>2, <1>5, <1>7, <1>9 DEF Rooted
<1>13. Bare(Contents(m, rt), New)
  BY <1>1, FitsFacts DEF Bare
<1>14. Becomes(ms, ms2, New, v)
  BY <1>6 DEF Becomes
<1>15. Fits(m2, r, fr2, rt2, ks, ls) /\ Contents(m2, rt2) = Contents(m, rt)
  BY <1>12, RootFits
<1>. QED BY <1>4, <1>6, <1>13, <1>14, <1>15

\* load_icode's new mm.
LEMMA CreateInv ==
  ASSUME NEW ms, NEW st, NEW ks, NEW fr, NEW r, NEW m, NEW o, NEW ls,
         Inv(ms, st, ks, fr, r, m, o, ls), o.pc = "dropped", o.prog # NULL,
         NEW m2, NEW fr2, NEW ms2, Creates(m, fr, ms, m2, fr2, ms2),
         NEW o2, o2 = [o EXCEPT !.slot = New, !.i = 1,
                               !.pc = IF o.prog.magic THEN "segment" ELSE "put_pgdir"]
  PROVE  Goes(ms, m, o, ms2, st, ks, fr2, r, m2, o2, ls)
<1>1. PICK rt, h, rt2 : rt = RootsOf(ms) /\ h = Contents(m, rt) /\ rt2 = RootsOf(ms2)
  OBVIOUS
<1>2. /\ ms \in [Space -> Mm \cup {NULL}] /\ Fits(m, r, fr, rt, ks, ls) /\ Dropped(ms, st, ks, o, h)
      /\ ms[New] = NULL
  BY <1>1, PhaseOf DEF Inv, Dropped
<1>3. /\ \E v : Fresh(v) /\ Becomes(ms, ms2, New, v)
      /\ ms2 \in [Space -> Mm \cup {NULL}] /\ Bare(h, New)
      /\ Fits(m2, r, fr2, rt2, ks, ls) /\ Contents(m2, rt2) = h
  BY <1>1, <1>2, CreateFits
<1>4. PICK v : Fresh(v) /\ Becomes(ms, ms2, New, v)
  BY <1>3
<1>5. Loading(ms2, st, ks, o2, h) \/ Tearing(ms2, st, ks, o2, h)
  BY <1>2, <1>3, <1>4, CreateStep
<1>6. Making(ms2, o2, h)
  BY <1>2, CreateMakes
<1>7. Seen(ms2, h) = Seen(ms, h)
  BY <1>4, NewSeen DEF Becomes
<1>8. Shows(ms, m, o, ms2, m2, o2)
  BY <1>1, <1>3, <1>6, <1>7, Stays
<1>. QED BY <1>1, <1>3, <1>5, <1>8 DEF Goes, Inv, Phase

\* The new mm of a child.
LEMMA CopyMmInv ==
  ASSUME NEW ms, NEW st, NEW ks, NEW fr, NEW r, NEW m, NEW o, NEW ls,
         Inv(ms, st, ks, fr, r, m, o, ls), o.pc = "copy_mm",
         NEW m2, NEW fr2, NEW ms2, Creates(m, fr, ms, m2, fr2, ms2),
         NEW o2, o2 = [o EXCEPT !.pc = "dup", !.slot = New, !.i = Len(ms[o.proc].vmas)]
  PROVE  Goes(ms, m, o, ms2, st, ks, fr2, r, m2, o2, ls)
<1>1. PICK rt, h, rt2 : rt = RootsOf(ms) /\ h = Contents(m, rt) /\ rt2 = RootsOf(ms2)
  OBVIOUS
<1>2. /\ ms \in [Space -> Mm \cup {NULL}] /\ Fits(m, r, fr, rt, ks, ls) /\ Copying(ms, st, ks, o, h)
      /\ ms[New] = NULL
  BY <1>1, PhaseOf DEF Inv, Copying
<1>3. /\ \E v : Fresh(v) /\ Becomes(ms, ms2, New, v)
      /\ ms2 \in [Space -> Mm \cup {NULL}] /\ Bare(h, New)
      /\ Fits(m2, r, fr2, rt2, ks, ls) /\ Contents(m2, rt2) = h
  BY <1>1, <1>2, CreateFits
<1>4. PICK v : Fresh(v) /\ Becomes(ms, ms2, New, v)
  BY <1>3
<1>5. Copying(ms2, st, ks, o2, h)
  BY <1>2, <1>3, <1>4, CopyMmStep
<1>6. Making(ms2, o2, h)
  <2>1. o.proc \in Space /\ o.proc # New
    BY <1>2, NotNull DEF Copying, Operation, Space
  <2>2. ms2[o.proc] = ms[o.proc]
    BY <1>4, <2>1 DEF Becomes
  <2>. QED BY <1>2, <2>2, CopyMmMakes
<1>7. Seen(ms2, h) = Seen(ms, h)
  BY <1>4, NewSeen DEF Becomes
<1>8. Shows(ms, m, o, ms2, m2, o2)
  BY <1>1, <1>3, <1>6, <1>7, Stays
<1>. QED BY <1>1, <1>3, <1>5, <1>8 DEF Goes, Inv, Phase

\* The new mm becomes that of a process.
LEMMA AttachInv ==
  ASSUME NEW ms, NEW st, NEW ks, NEW fr, NEW r, NEW m, NEW o, NEW ls,
         Inv(ms, st, ks, fr, r, m, o, ls), o.pc = "attach",
         NEW p, Owner(o, p),
         NEW ms2, ms2 = [ms EXCEPT ![p] = [ms[New] EXCEPT !.mm_count = @ + 1], ![New] = NULL],
         NEW st2, st2 = [st EXCEPT ![p] = "live"]
  PROVE  Inv(ms2, st2, ks, fr, r, m, Idle, ls) /\ Shows(ms, m, o, ms2, m, Idle)
<1>1. PICK rt, h, rt2, h2 : rt = RootsOf(ms) /\ h = Contents(m, rt) /\ rt2 = RootsOf(ms2) /\ h2 = Contents(m, rt2)
  OBVIOUS
<1>2. /\ ms \in [Space -> Mm \cup {NULL}] /\ Fits(m, r, fr, rt, ks, ls) /\ Attaching(ms, st, ks, o, h)
  BY <1>1, PhaseOf DEF Inv
<1>3. /\ o \in Operation /\ ms[New] # NULL /\ ms[New] \in Mm /\ ms[New].mm_count = 0
      /\ p \in Proc /\ p \in Space /\ New \in Space /\ New \notin Proc /\ p # New /\ New # p /\ ms[p] = NULL
  BY <1>2, NotNull DEF Owner, Attaching, Operation, Space
<1>4. PICK v : v = [ms[New] EXCEPT !.mm_count = ms[New].mm_count + 1]
  OBVIOUS
<1>5. v \in Mm /\ v # NULL /\ v.pgdir = ms[New].pgdir
  BY <1>3, <1>4, NotNull DEF Mm
<1>6. ms2 = [ms EXCEPT ![p] = v, ![New] = NULL]
  BY <1>4
<1>7. /\ ms2 \in [Space -> Mm \cup {NULL}] /\ ms2[New] = NULL /\ ms2[p] = v
      /\ \A s \in Space : s # p /\ s # New => ms2[s] = ms[s]
      /\ ms2[p] = [ms[New] EXCEPT !.mm_count = ms[New].mm_count + 1]
  BY <1>2, <1>3, <1>4, <1>5, <1>6
<1>8. /\ rt2 \in [Space -> Frame0] /\ rt2[New] = NoFrame /\ rt2[p] = rt[New] /\ rt[p] = NoFrame
      /\ \A s \in Space : s # New /\ s # p => rt2[s] = rt[s]
  BY <1>1, <1>2, <1>3, <1>5, <1>7, RootsAre DEF RootsOf
<1>9. Fits(m, r, fr, rt2, ks, ls) /\ Hands(h, h2, New, p)
  <2>1. New \in Space /\ p \in Space /\ New # p
    BY <1>3
  <2>2. Fits(m, r, fr, rt2, ks, ls) /\ Hands(Contents(m, rt), Contents(m, rt2), New, p)
    BY <1>2, <1>8, <2>1, MoveFits
  <2>. QED BY <1>1, <2>2
<1>10. Resting(ms2, st2, ks, Idle, h2)
  BY <1>2, <1>7, <1>9, AttachStep
<1>11. Shows(ms, m, o, ms2, m, Idle)
  <2>1. h \in [Space -> [Page -> Value \cup {NULL}]]
    BY <1>1, <1>2, FitsFacts
  <2>2. ms2[p] # NULL /\ ms2[p].mm_count = 1
    BY <1>3, <1>4, <1>5, <1>7 DEF Mm
  <2>3. Arrives(ms, ms2, p)
    BY <1>7, <2>2 DEF Arrives, Unseen
  <2>4. ASSUME Making(ms, o, h) PROVE Moves(Seen(ms, h), Seen(ms2, h2))
    BY <1>2, <1>9, <2>1, <2>3, <2>4, AttachMoves
  <2>. QED BY <1>1, <2>4, IdleMakes, Changes
<1>. QED BY <1>1, <1>7, <1>9, <1>10, <1>11 DEF Inv, Phase

\* fork takes a kernel stack.
LEMMA ForkInv ==
  ASSUME NEW ms, NEW st, NEW ks, NEW fr, NEW r, NEW m, NEW ls,
         Inv(ms, st, ks, fr, r, m, Idle, ls),
         NEW p \in Proc, ms[p] # NULL, NEW c \in Proc, st[c] = "none",
         NEW base, base \in fr, base .. base + KSTACKPAGE - 1 \subseteq fr,
         NEW ks2, ks2 = [ks EXCEPT ![c] = base],
         NEW fr2, fr2 = fr \ (base .. base + KSTACKPAGE - 1),
         NEW o2, o2 = Begin("copy_mm", p, NULL, c)
  PROVE  Goes(ms, m, Idle, ms, st, ks2, fr2, r, m, o2, ls)
<1>1. PICK rt, h : rt = RootsOf(ms) /\ h = Contents(m, rt)
  OBVIOUS
<1>2. /\ ms \in [Space -> Mm \cup {NULL}] /\ Fits(m, r, fr, rt, ks, ls) /\ Resting(ms, st, ks, Idle, h)
  BY <1>1, PhaseOf DEF Inv
<1>3. fr \in SUBSET Frame /\ ks \in [Proc -> Frame0] /\ ks[c] = NoFrame
  BY <1>2, NotNull, FitsFacts DEF Resting, Kept, KStacks
<1>4. base \in Frame /\ base # NoFrame
  BY <1>3, TableSizes DEF Frame, NoFrame
<1>5. ks2 \in [Proc -> Frame0] /\ ks2[c] = base /\ \A q \in Proc : q # c => ks2[q] = ks[q]
  BY <1>3, <1>4 DEF Frame0
<1>6. Fits(m, r, fr2, rt, ks2, ls)
  BY <1>2, <1>3, StackFits
<1>7. Copying(ms, st, ks2, o2, h)
  BY <1>2, <1>4, <1>5, ForkStep
<1>8. Shows(ms, m, Idle, ms, m, o2)
  <2>1. o2.pc = "copy_mm"
    BY NotNull, Begins DEF Labels
  <2>2. Making(ms, o2, h)
    BY <2>1, NothingMade
  <2>. QED BY <1>1, <2>2, Stays
<1>. QED BY <1>1, <1>2, <1>6, <1>7, <1>8 DEF Goes, Inv, Phase

\* wait gives a kernel stack back.
LEMMA ReapInv ==
  ASSUME NEW ms, NEW st, NEW ks, NEW fr, NEW r, NEW m, NEW ls,
         Inv(ms, st, ks, fr, r, m, Idle, ls),
         NEW z \in Proc, st[z] = "zombie",
         NEW fr2, fr2 = fr \cup (ks[z] .. ks[z] + KSTACKPAGE - 1),
         NEW st2, st2 = [st EXCEPT ![z] = "none"],
         NEW ks2, ks2 = [ks EXCEPT ![z] = NoFrame]
  PROVE  Inv(ms, st2, ks2, fr2, r, m, Idle, ls) /\ Shows(ms, m, Idle, ms, m, Idle)
<1>1. PICK rt, h : rt = RootsOf(ms) /\ h = Contents(m, rt)
  OBVIOUS
<1>2. /\ ms \in [Space -> Mm \cup {NULL}] /\ Fits(m, r, fr, rt, ks, ls) /\ Resting(ms, st, ks, Idle, h)
  BY <1>1, PhaseOf DEF Inv
<1>3. ks \in [Proc -> Frame0] /\ ks[z] # NoFrame
  BY <1>2, NotNull, FitsFacts DEF Resting, Kept, KStacks
<1>4. ks2 \in [Proc -> Frame0] /\ ks2[z] = NoFrame /\ \A q \in Proc : q # z => ks2[q] = ks[q]
  BY <1>3 DEF Frame0
<1>5. Fits(m, r, fr2, rt, ks2, ls)
  BY <1>2, <1>3, UnstackFits
<1>6. Resting(ms, st2, ks2, Idle, h)
  BY <1>2, <1>4, ReapStep
<1>7. Shows(ms, m, Idle, ms, m, Idle)
  BY <1>1, Stays
<1>. QED BY <1>1, <1>2, <1>5, <1>6, <1>7 DEF Inv, Phase

\* do_exit ends.
LEMMA ZombieInv ==
  ASSUME NEW ms, NEW st, NEW ks, NEW fr, NEW r, NEW m, NEW o, NEW ls,
         Inv(ms, st, ks, fr, r, m, o, ls), o.pc = "dropped",
         NEW st2, st2 = [st EXCEPT ![o.proc] = "zombie"]
  PROVE  Inv(ms, st2, ks, fr, r, m, Idle, ls) /\ Shows(ms, m, o, ms, m, Idle)
<1>1. PICK rt, h : rt = RootsOf(ms) /\ h = Contents(m, rt)
  OBVIOUS
<1>2. /\ ms \in [Space -> Mm \cup {NULL}] /\ Fits(m, r, fr, rt, ks, ls) /\ Dropped(ms, st, ks, o, h)
  BY <1>1, PhaseOf DEF Inv
<1>3. Resting(ms, st2, ks, Idle, h)
  BY <1>2, ZombieStep
<1>4. Shows(ms, m, o, ms, m, Idle)
  BY <1>1, IdleMakes, Stays
<1>. QED BY <1>1, <1>2, <1>3, <1>4 DEF Inv, Phase

\* Users see when a page of a process changes.
LEMMA AccessAlters ==
  ASSUME NEW ms, NEW st, NEW ks, NEW fr, NEW r, NEW m, NEW rt, NEW ls,
         rt = RootsOf(ms), Fits(m, r, fr, rt, ks, ls),
         NEW h, h = Contents(m, rt), Resting(ms, st, ks, Idle, h),
         NEW p \in Proc, ms[p] # NULL, NEW la \in Page, NEW v \in Value,
         NEW m2, Puts(h, Contents(m2, rt), p, la, v)
  PROVE  /\ Looks(ms, m)[p][la] = h[p][la]
         /\ Alters(Looks(ms, m), Looks(ms, m2), p, [Looks(ms, m)[p] EXCEPT ![la] = v])
<1>1. h \in [Space -> [Page -> Value \cup {NULL}]]
  BY FitsFacts
<1>2. ~Unseen(ms, p)
  <2>1. p # New /\ Kept(ms, st, ks, h, New, NULL)
    BY NotNull DEF Resting
  <2>. QED BY <2>1 DEF Kept, Counts, Unseen
<1>3. PICK h2 : h2 = Contents(m2, rt)
  OBVIOUS
<1>4. Puts(h, h2, p, la, v)
  BY <1>3
<1>5. /\ Seen(ms, h)[p][la] = h[p][la]
      /\ Alters(Seen(ms, h), Seen(ms, h2), p, [Seen(ms, h)[p] EXCEPT ![la] = v])
  BY <1>1, <1>2, <1>4, PutAlters
<1>6. Looks(ms, m) = Seen(ms, h) /\ Looks(ms, m2) = Seen(ms, h2)
  BY <1>3 DEF Looks
<1>. QED BY <1>5, <1>6

\* A write to a page of an area.
LEMMA WriteInv ==
  ASSUME NEW ms, NEW st, NEW ks, NEW fr, NEW r, NEW m, NEW ls,
         Inv(ms, st, ks, fr, r, m, Idle, ls),
         NEW p \in Proc, ms[p] # NULL, NEW la \in Page, InAreas(ms[p].vmas, la),
         NEW g, g = ms[p].pgdir, WalkP(m, g, la) # NoFrame,
         NEW v \in Value, NEW m2, Fills(m, g, la, v, m2)
  PROVE  Inv(ms, st, ks, fr, r, m2, Idle, ls) /\ Wrote(Looks(ms, m), Looks(ms, m2), p, la, v)
<1>1. PICK rt, h : rt = RootsOf(ms) /\ h = Contents(m, rt)
  OBVIOUS
<1>2. /\ ms \in [Space -> Mm \cup {NULL}] /\ Fits(m, r, fr, rt, ks, ls) /\ Resting(ms, st, ks, Idle, h)
  BY <1>1, PhaseOf DEF Inv
<1>3. p \in Space /\ rt[p] = g /\ rt[p] # NoFrame
  BY <1>1, <1>2, RootsAre DEF Space
<1>4. WalkP(m, rt[p], la) # NoFrame /\ Fills(m, rt[p], la, v, m2)
  BY <1>3
<1>5. Fits(m2, r, fr, rt, ks, ls) /\ Puts(h, Contents(m2, rt), p, la, v)
  BY <1>1, <1>2, <1>3, <1>4, FillFits
<1>6. Resting(ms, st, ks, Idle, Contents(m2, rt))
  BY <1>2, <1>5, AccessStep
<1>7. Contents(m, rt)[p][la] # NULL
  BY <1>2, <1>3, <1>4, FitsFacts
<1>8. Wrote(Looks(ms, m), Looks(ms, m2), p, la, v)
  BY <1>1, <1>2, <1>5, <1>7, AccessAlters DEF Wrote
<1>. QED BY <1>1, <1>2, <1>5, <1>6, <1>8 DEF Inv, Phase

\* A page of an area appears.
LEMMA FaultInv ==
  ASSUME NEW ms, NEW st, NEW ks, NEW fr, NEW r, NEW m, NEW ls,
         Inv(ms, st, ks, fr, r, m, Idle, ls),
         NEW p \in Proc, ms[p] # NULL, NEW la \in Page, InAreas(ms[p].vmas, la),
         NEW g, g = ms[p].pgdir, WalkP(m, g, la) = NoFrame,
         NEW v \in Value, NEW tables, NEW page, Taken(fr, MissingIn(m, g, la), tables, page),
         NEW m2, NEW r2, NEW fr2,
         MapsWith(m, r, fr, g, la, tables, page, v, m2, r2, fr2)
  PROVE  Inv(ms, st, ks, fr2, r2, m2, Idle, ls) /\ Shows(ms, m, Idle, ms, m2, Idle)
<1>1. PICK rt, h : rt = RootsOf(ms) /\ h = Contents(m, rt)
  OBVIOUS
<1>2. /\ ms \in [Space -> Mm \cup {NULL}] /\ Fits(m, r, fr, rt, ks, ls) /\ Resting(ms, st, ks, Idle, h)
  BY <1>1, PhaseOf DEF Inv
<1>3. p \in Space /\ rt[p] = g /\ rt[p] # NoFrame
  BY <1>1, <1>2, RootsAre DEF Space
<1>4. /\ Contents(m, rt)[p][la] = NULL
      /\ Taken(fr, MissingIn(m, rt[p], la), tables, page)
      /\ MapsWith(m, r, fr, rt[p], la, tables, page, v, m2, r2, fr2)
  BY <1>2, <1>3, FitsFacts
<1>5. Fits(m2, r2, fr2, rt, ks, ls) /\ Puts(h, Contents(m2, rt), p, la, v)
  BY <1>1, <1>2, <1>3, <1>4, TakeFits
<1>6. Resting(ms, st, ks, Idle, Contents(m2, rt))
  BY <1>2, <1>5, AccessStep
<1>7. PICK v1, v2 : v1 = Looks(ms, m) /\ v2 = Looks(ms, m2)
  OBVIOUS
<1>8. v1[p][la] = NULL /\ Alters(v1, v2, p, [v1[p] EXCEPT ![la] = v])
  BY <1>1, <1>2, <1>4, <1>5, <1>7, AccessAlters
<1>9. Moves(v1, v2)
  BY <1>8 DEF Moves, Comes, Alters
<1>10. Shows(ms, m, Idle, ms, m2, Idle)
  BY <1>7, <1>9, IdleMakes DEF Shows, Made
<1>. QED BY <1>1, <1>2, <1>5, <1>6, <1>10 DEF Inv, Phase

\* insert_vma_struct, for the mms ms; ok says whether its assertions hold.
Placed(ms, vma, ms2, ok) ==
  LET vmas == ms[New].vmas
      at   == StopsAt(vmas, vma.start)
  IN /\ ms2 = [ms EXCEPT ![New].vmas = InsertAt(vmas, at, vma)]
     /\ ok <=> FitsIn(vmas, at, vma)

\* Whether they hold or not, directories stay.
LEMMA PlacedIs ==
  ASSUME NEW ms \in [Space -> Mm \cup {NULL}], ms[New] # NULL,
         NEW vma \in Vma, NEW ms2, NEW ok, Placed(ms, vma, ms2, ok)
  PROVE  /\ ms2 \in [Space -> Mm \cup {NULL}] /\ RootsOf(ms2) = RootsOf(ms)
         /\ \E at : InsertsAt(ms, vma, at, ms2) /\ (ok <=> FitsIn(ms[New].vmas, at, vma))
<1>1. New \in Space /\ ms[New] \in Mm
  BY DEF Space
<1>2. PICK vmas : vmas = ms[New].vmas /\ vmas \in Seq(Vma)
  BY <1>1 DEF Mm
<1>3. PICK at : at = StopsAt(vmas, vma.start) /\ at \in 1 .. Len(vmas) + 1
  BY <1>2, VmaType, StopsThere
<1>4. PICK new : new = InsertAt(vmas, at, vma)
  OBVIOUS
<1>5. InsertedAt(Vma, vmas, at, vma, new)
  BY <1>2, <1>3, <1>4, InsertAtElements
<1>6. new \in Seq(Vma)
  BY <1>5 DEF InsertedAt
<1>7. PICK v : v = [ms[New] EXCEPT !.vmas = new]
  OBVIOUS
<1>8. v \in Mm /\ v.pgdir = ms[New].pgdir /\ v # NULL
  BY <1>1, <1>6, <1>7, NotNull DEF Mm
<1>9. ms2 = [ms EXCEPT ![New] = v] /\ (ok <=> FitsIn(vmas, at, vma))
  BY <1>2, <1>3, <1>4, <1>7 DEF Placed
<1>10. ms2 \in [Space -> Mm \cup {NULL}] /\ ms2[New] = v /\ \A s \in Space : s # New => ms2[s] = ms[s]
  BY <1>1, <1>8, <1>9
<1>11. RootsOf(ms2) = RootsOf(ms)
  BY <1>8, <1>10, SameRoots
<1>12. InsertsAt(ms, vma, at, ms2)
  BY <1>2, <1>3, <1>4, <1>7, <1>10 DEF InsertsAt, Inserts, Becomes
<1>. QED BY <1>2, <1>9, <1>10, <1>11, <1>12

\* Users do not see it.
LEMMA PlacedShows ==
  ASSUME NEW ms, NEW m, NEW o, NEW rt, rt = RootsOf(ms), NEW h, h = Contents(m, rt),
         NEW vma, NEW at, NEW ms2, InsertsAt(ms, vma, at, ms2), RootsOf(ms2) = rt,
         NEW o2, Making(ms, o, h) => Making(ms2, o2, h)
  PROVE  Shows(ms, m, o, ms2, m, o2)
<1>1. \A s \in Space : s # New => ms2[s] = ms[s]
  BY DEF InsertsAt, Inserts, Becomes
<1>2. Seen(ms2, h) = Seen(ms, h)
  BY <1>1, NewSeen
<1>. QED BY <1>2, Stays

\* Nor do they see a page of the new mm.
LEMMA TakenShows ==
  ASSUME NEW ms, NEW m, NEW o, NEW rt, rt = RootsOf(ms), NEW h, h = Contents(m, rt),
         NEW r, NEW fr, NEW ks, NEW ls, Fits(m, r, fr, rt, ks, ls),
         NEW m2, NEW h2, h2 = Contents(m2, rt), NEW la, NEW v, h2 = h \/ Puts(h, h2, New, la, v),
         NEW o2, Making(ms, o, h) => Making(ms, o2, h2)
  PROVE  Shows(ms, m, o, ms, m2, o2)
<1>1. h \in [Space -> [Page -> Value \cup {NULL}]]
  BY FitsFacts
<1>2. Seen(ms, h2) = Seen(ms, h)
  BY <1>1, PutsSeen
<1>. QED BY <1>2, Stays

\* load_icode gives up.
LEMMA GiveUpInv ==
  ASSUME NEW ms, NEW st, NEW ks, NEW fr, NEW r, NEW m, NEW o, NEW ls,
         Inv(ms, st, ks, fr, r, m, o, ls), o.pc \in {"segment", "stack"},
         NEW vmas, vmas = ms[New].vmas, NEW o2, o2 = UnmapOf(vmas, o, 1)
  PROVE  Inv(ms, st, ks, fr, r, m, o2, ls) /\ Shows(ms, m, o, ms, m, o2)
<1>1. PICK rt, h : rt = RootsOf(ms) /\ h = Contents(m, rt)
  OBVIOUS
<1>2. ms \in [Space -> Mm \cup {NULL}] /\ Fits(m, r, fr, rt, ks, ls) /\ Loading(ms, st, ks, o, h)
  BY <1>1, PhaseOf DEF Inv
<1>3. Tearing(ms, st, ks, o2, h)
  BY <1>2, GiveUp
<1>4. Shows(ms, m, o, ms, m, o2)
  BY <1>1, <1>3, TornMakes, Stays
<1>. QED BY <1>1, <1>2, <1>3, <1>4 DEF Inv, Phase

\* A segment or the stack gets its area, or there is an overlap.
LEMMA SegmentInv ==
  ASSUME NEW ms, NEW st, NEW ks, NEW fr, NEW r, NEW m, NEW o, NEW ls,
         Inv(ms, st, ks, fr, r, m, o, ls), o.pc = "segment",
         NEW vma, NEW o2, GetsArea(ms, o, vma, o2), NEW ms2, NEW ok, Placed(ms, vma, ms2, ok)
  PROVE  /\ ms2 \in [Space -> Mm \cup {NULL}] /\ Fits(m, r, fr, RootsOf(ms2), ks, ls)
         /\ ok => Inv(ms2, st, ks, fr, r, m, o2, ls)
         /\ ~ok => Overlapping(o2)
         /\ Shows(ms, m, o, ms2, m, o2)
<1>1. PICK rt, h : rt = RootsOf(ms) /\ h = Contents(m, rt)
  OBVIOUS
<1>2. ms \in [Space -> Mm \cup {NULL}] /\ Fits(m, r, fr, rt, ks, ls) /\ Loading(ms, st, ks, o, h)
  BY <1>1, PhaseOf DEF Inv
<1>3. ms[New] # NULL /\ h \in [Space -> [Page -> Value \cup {NULL}]]
  BY <1>1, <1>2, FitsFacts DEF Loading
<1>4. vma \in Vma
  BY <1>2, AreasAre DEF Loading, Operation, GetsArea
<1>5. PICK at : InsertsAt(ms, vma, at, ms2) /\ (ok <=> FitsIn(ms[New].vmas, at, vma))
  BY <1>2, <1>3, <1>4, PlacedIs
<1>6. ms2 \in [Space -> Mm \cup {NULL}] /\ RootsOf(ms2) = rt
  BY <1>1, <1>2, <1>3, <1>4, PlacedIs
<1>7. /\ FitsIn(ms[New].vmas, at, vma) => Loading(ms2, st, ks, o2, h)
      /\ ~FitsIn(ms[New].vmas, at, vma) => Overlapping(o2)
  BY <1>2, <1>3, <1>5, SegmentStep
<1>8. Shows(ms, m, o, ms2, m, o2)
  <2>1. ASSUME Making(ms, o, h) PROVE Making(ms2, o2, h)
    BY <1>2, <2>1, SegmentMakes
  <2>. QED BY <1>1, <1>5, <1>6, <2>1, PlacedShows
<1>. QED BY <1>1, <1>2, <1>5, <1>6, <1>7, <1>8 DEF Inv, Phase

\* So does the stack.
LEMMA StackInv ==
  ASSUME NEW ms, NEW st, NEW ks, NEW fr, NEW r, NEW m, NEW o, NEW ls,
         Inv(ms, st, ks, fr, r, m, o, ls), o.pc = "stack",
         NEW o2, GetsStack(ms, o, o2), NEW ms2, NEW ok, Placed(ms, Stack, ms2, ok)
  PROVE  /\ ms2 \in [Space -> Mm \cup {NULL}] /\ Fits(m, r, fr, RootsOf(ms2), ks, ls)
         /\ ok => Inv(ms2, st, ks, fr, r, m, o2, ls)
         /\ ~ok => Overlapping(o2)
         /\ Shows(ms, m, o, ms2, m, o2)
<1>1. PICK rt, h : rt = RootsOf(ms) /\ h = Contents(m, rt)
  OBVIOUS
<1>2. ms \in [Space -> Mm \cup {NULL}] /\ Fits(m, r, fr, rt, ks, ls) /\ Loading(ms, st, ks, o, h)
  BY <1>1, PhaseOf DEF Inv
<1>3. ms[New] # NULL /\ h \in [Space -> [Page -> Value \cup {NULL}]]
  BY <1>1, <1>2, FitsFacts DEF Loading
<1>4. Stack \in Vma
  BY AreasAre
<1>5. PICK at : InsertsAt(ms, Stack, at, ms2) /\ (ok <=> FitsIn(ms[New].vmas, at, Stack))
  BY <1>2, <1>3, <1>4, PlacedIs
<1>6. ms2 \in [Space -> Mm \cup {NULL}] /\ RootsOf(ms2) = rt
  BY <1>1, <1>2, <1>3, <1>4, PlacedIs
<1>7. /\ FitsIn(ms[New].vmas, at, Stack) => Loading(ms2, st, ks, o2, h)
      /\ ~FitsIn(ms[New].vmas, at, Stack) => Overlapping(o2)
  BY <1>2, <1>3, <1>5, StackStep
<1>8. Shows(ms, m, o, ms2, m, o2)
  <2>1. ASSUME Making(ms, o, h) PROVE Making(ms2, o2, h)
    BY <1>2, <2>1, StackMakes
  <2>. QED BY <1>1, <1>5, <1>6, <2>1, PlacedShows
<1>. QED BY <1>1, <1>2, <1>5, <1>6, <1>7, <1>8 DEF Inv, Phase

\* An area is copied; no assertion fails.
LEMMA DupInv ==
  ASSUME NEW ms, NEW st, NEW ks, NEW fr, NEW r, NEW m, NEW o, NEW ls,
         Inv(ms, st, ks, fr, r, m, o, ls), o.pc = "dup",
         NEW vma, NEW o2, CopiesArea(ms, o, vma, o2), NEW ms2, NEW ok, Placed(ms, vma, ms2, ok)
  PROVE  ok /\ Inv(ms2, st, ks, fr, r, m, o2, ls) /\ Shows(ms, m, o, ms2, m, o2)
<1>1. PICK rt, h : rt = RootsOf(ms) /\ h = Contents(m, rt)
  OBVIOUS
<1>2. ms \in [Space -> Mm \cup {NULL}] /\ Fits(m, r, fr, rt, ks, ls) /\ Copying(ms, st, ks, o, h)
  BY <1>1, PhaseOf DEF Inv
<1>3. ms[New] # NULL /\ h \in [Space -> [Page -> Value \cup {NULL}]]
  BY <1>1, <1>2, FitsFacts DEF Copying
<1>4. vma \in Vma
  BY <1>2 DEF Copying, Operation, Kept, Common, AreasOK, Space, CopiesArea
<1>5. PICK at : InsertsAt(ms, vma, at, ms2) /\ (ok <=> FitsIn(ms[New].vmas, at, vma))
  BY <1>2, <1>3, <1>4, PlacedIs
<1>6. ms2 \in [Space -> Mm \cup {NULL}] /\ RootsOf(ms2) = rt
  BY <1>1, <1>2, <1>3, <1>4, PlacedIs
<1>7. FitsIn(ms[New].vmas, at, vma) /\ Copying(ms2, st, ks, o2, h)
  BY <1>2, <1>3, <1>5, DupStep
<1>8. Shows(ms, m, o, ms2, m, o2)
  <2>1. o.proc \in Space /\ o.proc # New
    BY <1>2, NotNull DEF Copying, Operation, Space
  <2>2. ms2[o.proc] = ms[o.proc]
    BY <1>5, <2>1 DEF InsertsAt, Inserts, Becomes
  <2>3. ASSUME Making(ms, o, h) PROVE Making(ms2, o2, h)
    BY <1>2, <2>2, <2>3, DupMakes
  <2>. QED BY <1>1, <1>5, <1>6, <2>3, PlacedShows
<1>. QED BY <1>1, <1>2, <1>5, <1>6, <1>7, <1>8 DEF Inv, Phase

\* A page of a segment is loaded.
LEMMA LoadInv ==
  ASSUME NEW ms, NEW st, NEW ks, NEW fr, NEW r, NEW m, NEW o, NEW ls,
         Inv(ms, st, ks, fr, r, m, o, ls), o.pc = "load",
         NEW g, g = ms[o.slot].pgdir, NEW v \in Value, v = SegValue(o.prog, o.i, o.la),
         NEW tables, NEW page, Taken(fr, MissingIn(m, g, o.la), tables, page),
         NEW m2, NEW r2, NEW fr2,
         MapsWith(m, r, fr, g, o.la, tables, page, v, m2, r2, fr2),
         NEW o2, LoadsOn(o, o2)
  PROVE  Inv(ms, st, ks, fr2, r2, m2, o2, ls) /\ Shows(ms, m, o, ms, m2, o2)
<1>1. PICK rt, h, la : rt = RootsOf(ms) /\ h = Contents(m, rt) /\ la = o.la
  OBVIOUS
<1>2. ms \in [Space -> Mm \cup {NULL}] /\ Fits(m, r, fr, rt, ks, ls) /\ Loading(ms, st, ks, o, h)
  BY <1>1, PhaseOf DEF Inv
<1>3. ms[New] # NULL /\ o.slot = New /\ New \in Space /\ o.prog \in Program /\ la \in Nat
  BY <1>1, <1>2 DEF Loading, Space, Operation
<1>4. g = rt[New] /\ rt[New] # NoFrame
  BY <1>1, <1>2, <1>3, RootsAre
<1>5. PICK last : last = o.prog.segs[o.i].end - 1 /\ la <= last /\ last < USERTOP
                  /\ ToCome(ms[New].vmas, h[New], la, last) /\ last \in Nat
  <2>1. /\ o.i \in DOMAIN o.prog.segs /\ o.i \in Nat /\ la < o.prog.segs[o.i].end
        /\ ToCome(ms[New].vmas, h[New], la, o.prog.segs[o.i].end - 1)
    BY <1>1, <1>2 DEF Loading, Operation
  <2>2. o.prog.segs[o.i].end \in Nat /\ o.prog.segs[o.i].end < USERTOP /\ USERTOP \in Nat
    BY <1>3, <2>1, AreasAre
  <2>. QED BY <1>3, <2>1, <2>2
<1>6. la \in Page
  BY <1>3, <1>5, TableSizes DEF Page
<1>7. h[New][la] = NULL
  BY <1>3, <1>5, <1>6 DEF ToCome
<1>8. /\ Contents(m, rt)[New][la] = NULL
      /\ Taken(fr, MissingIn(m, rt[New], la), tables, page)
      /\ MapsWith(m, r, fr, rt[New], la, tables, page, v, m2, r2, fr2)
  BY <1>1, <1>4, <1>7
<1>9. Fits(m2, r2, fr2, rt, ks, ls) /\ Puts(Contents(m, rt), Contents(m2, rt), New, la, v)
  BY <1>2, <1>3, <1>4, <1>6, <1>8, TakeFits
<1>10. Puts(h, Contents(m2, rt), New, o.la, v)
  BY <1>1, <1>9
<1>11. Loading(ms, st, ks, o2, Contents(m2, rt))
  BY <1>2, <1>10, LoadStep
<1>12. Shows(ms, m, o, ms, m2, o2)
  <2>1. PICK h2 : h2 = Contents(m2, rt)
    OBVIOUS
  <2>2. Puts(h, h2, New, o.la, v) /\ h[New][o.la] = NULL
    BY <1>1, <1>7, <1>10, <2>1
  <2>3. ASSUME Making(ms, o, h) PROVE Making(ms, o2, h2)
    BY <1>2, <2>2, <2>3, LoadMakes
  <2>. QED BY <1>1, <1>2, <2>1, <2>2, <2>3, TakenShows
<1>. QED BY <1>1, <1>2, <1>9, <1>11, <1>12 DEF Inv, Phase

\* A page of the stack is taken.
LEMMA PreloadInv ==
  ASSUME NEW ms, NEW st, NEW ks, NEW fr, NEW r, NEW m, NEW o, NEW ls,
         Inv(ms, st, ks, fr, r, m, o, ls), o.pc = "preload",
         NEW g, g = ms[o.slot].pgdir, NEW v \in Value,
         NEW tables, NEW page, Taken(fr, MissingIn(m, g, o.la), tables, page),
         NEW m2, NEW r2, NEW fr2,
         MapsWith(m, r, fr, g, o.la, tables, page, v, m2, r2, fr2),
         NEW o2, PreloadsOn(o, o2)
  PROVE  Inv(ms, st, ks, fr2, r2, m2, o2, ls) /\ Shows(ms, m, o, ms, m2, o2)
<1>1. PICK rt, h, la, low : /\ rt = RootsOf(ms) /\ h = Contents(m, rt) /\ la = o.la
                            /\ low = USERTOP - NPreload
  OBVIOUS
<1>2. ms \in [Space -> Mm \cup {NULL}] /\ Fits(m, r, fr, rt, ks, ls) /\ Loading(ms, st, ks, o, h)
  BY <1>1, PhaseOf DEF Inv
<1>3. /\ ms[New] # NULL /\ o.slot = New /\ New \in Space /\ la \in Nat
      /\ low <= la /\ la < USERTOP /\ ToCome(ms[New].vmas, h[New], low, la)
  BY <1>1, <1>2 DEF Loading, Space, Operation
<1>4. g = rt[New] /\ rt[New] # NoFrame
  BY <1>1, <1>2, <1>3, RootsAre
<1>5. la \in Page
  BY <1>3, TableSizes DEF Page
<1>6. h[New][la] = NULL
  BY <1>3, <1>5 DEF ToCome
<1>7. /\ Contents(m, rt)[New][la] = NULL
      /\ Taken(fr, MissingIn(m, rt[New], la), tables, page)
      /\ MapsWith(m, r, fr, rt[New], la, tables, page, v, m2, r2, fr2)
  BY <1>1, <1>4, <1>6
<1>8. Fits(m2, r2, fr2, rt, ks, ls) /\ Puts(Contents(m, rt), Contents(m2, rt), New, la, v)
  BY <1>2, <1>3, <1>4, <1>5, <1>7, TakeFits
<1>9. Puts(h, Contents(m2, rt), New, o.la, v)
  BY <1>1, <1>8
<1>10. Loading(ms, st, ks, o2, Contents(m2, rt)) \/ Attaching(ms, st, ks, o2, Contents(m2, rt))
  BY <1>2, <1>9, PreloadStep
<1>11. Shows(ms, m, o, ms, m2, o2)
  <2>1. PICK h2 : h2 = Contents(m2, rt)
    OBVIOUS
  <2>2. Puts(h, h2, New, o.la, v) /\ h[New][o.la] = NULL /\ o.la \in Page
    BY <1>1, <1>5, <1>6, <1>9, <2>1
  <2>3. ASSUME Making(ms, o, h) PROVE Making(ms, o2, h2)
    BY <1>2, <2>2, <2>3, PreloadMakes
  <2>. QED BY <1>1, <1>2, <2>1, <2>2, <2>3, TakenShows
<1>. QED BY <1>1, <1>2, <1>8, <1>10, <1>11 DEF Inv, Phase

\* A turn of copy_range.
LEMMA CopyInv ==
  ASSUME NEW ms, NEW st, NEW ks, NEW fr, NEW r, NEW m, NEW o, NEW ls,
         Inv(ms, st, ks, fr, r, m, o, ls), o.pc = "copy",
         NEW g, g = ms[o.slot].pgdir, NEW from, from = ms[o.proc].pgdir,
         NEW v, v = m[WalkP(m, from, o.la)],
         NEW tables, NEW page, NEW m2, NEW r2, NEW fr2,
         IF WalkP(m, from, o.la) = NoFrame THEN m2 = m /\ r2 = r /\ fr2 = fr
         ELSE /\ Taken(fr, MissingIn(m, g, o.la), tables, page)
              /\ MapsWith(m, r, fr, g, o.la, tables, page, v, m2, r2, fr2),
         NEW next, next = NextOf(m, from, o.la),
         NEW o2, CopiesOn(ms, o, next, o2)
  PROVE  Goes(ms, m, o, ms, st, ks, fr2, r2, m2, o2, ls)
<1>1. PICK rt, h, la : rt = RootsOf(ms) /\ h = Contents(m, rt) /\ la = o.la
  OBVIOUS
<1>2. ms \in [Space -> Mm \cup {NULL}] /\ Fits(m, r, fr, rt, ks, ls) /\ Copying(ms, st, ks, o, h)
  BY <1>1, PhaseOf DEF Inv
<1>3. /\ ms[New] # NULL /\ o.slot = New /\ New \in Space /\ la \in Nat
      /\ o.proc \in Proc /\ o.proc \in Space /\ ms[o.proc] # NULL
      /\ Kept(ms, st, ks, h, New, o.child)
  BY <1>1, <1>2 DEF Copying, Space, Operation
<1>4. g = rt[New] /\ rt[New] # NoFrame /\ from = rt[o.proc] /\ rt[o.proc] # NoFrame
  BY <1>1, <1>2, <1>3, RootsAre
<1>5. PICK end, last \in Nat : /\ end = ms[o.proc].vmas[o.i].end /\ last = end - 1
                               /\ la <= last /\ last < USERTOP
                               /\ ToCome(ms[New].vmas, h[New], la, last)
  <2>1. /\ o.i \in DOMAIN ms[o.proc].vmas /\ la < ms[o.proc].vmas[o.i].end
        /\ ToCome(ms[New].vmas, h[New], la, ms[o.proc].vmas[o.i].end - 1)
    BY <1>1, <1>2 DEF Copying
  <2>2. ms[o.proc].vmas[o.i] \in Vma
    BY <1>3, <2>1 DEF Kept, Common, AreasOK
  <2>3. ms[o.proc].vmas[o.i].end \in 1 .. USERTOP /\ USERTOP \in Nat
    BY <2>2, VmaType, TableSizes
  <2>. QED BY <1>3, <2>1, <2>3
<1>6. la \in Page
  BY <1>3, <1>5, TableSizes DEF Page
<1>7. h[New][la] = NULL
  BY <1>3, <1>5, <1>6 DEF ToCome
<1>8. next \in Nat /\ o.la < next /\ Skips(h[o.proc], o.la, next)
  <2>1. next = NextOf(m, rt[o.proc], la)
    BY <1>1, <1>4
  <2>2. Skips(Contents(m, rt)[o.proc], la, next)
    BY <1>2, <1>3, <1>4, <1>6, <2>1, NextSkips
  <2>. QED BY <1>1, <2>2 DEF Skips
<1>9. /\ Fits(m2, r2, fr2, rt, ks, ls)
      /\ Contents(m2, rt) = h \/ \E x : Puts(h, Contents(m2, rt), New, o.la, x)
      /\ Copies(h, Contents(m2, rt), o.proc, o.la)
  <2>1. CASE WalkP(m, from, o.la) = NoFrame
    <3>1. m2 = m /\ r2 = r /\ fr2 = fr
      BY <2>1
    <3>2. h[o.proc][o.la] = NULL
      BY <1>1, <1>2, <1>3, <1>4, <1>6, <2>1, FitsFacts
    <3>. QED BY <1>1, <1>2, <3>1, <3>2 DEF Copies
  <2>2. CASE WalkP(m, from, o.la) # NoFrame
    <3>1. v \in Value /\ h[o.proc][o.la] = v /\ v # NULL
      BY <1>1, <1>2, <1>3, <1>4, <1>6, <2>2, NotNull, FitsFacts
    <3>2. /\ Contents(m, rt)[New][la] = NULL
          /\ Taken(fr, MissingIn(m, rt[New], la), tables, page)
          /\ MapsWith(m, r, fr, rt[New], la, tables, page, v, m2, r2, fr2)
      BY <1>1, <1>4, <1>7, <2>2
    <3>3. Fits(m2, r2, fr2, rt, ks, ls) /\ Puts(Contents(m, rt), Contents(m2, rt), New, la, v)
      BY <1>2, <1>3, <1>4, <1>6, <3>1, <3>2, TakeFits
    <3>. QED BY <1>1, <3>1, <3>3 DEF Copies
  <2>. QED BY <2>1, <2>2
<1>10. Copying(ms, st, ks, o2, Contents(m2, rt)) \/ Attaching(ms, st, ks, o2, Contents(m2, rt))
  BY <1>2, <1>5, <1>8, <1>9, CopyStep
<1>11. Shows(ms, m, o, ms, m2, o2)
  <2>1. PICK h2 : h2 = Contents(m2, rt)
    OBVIOUS
  <2>2. PICK x : h2 = h \/ Puts(h, h2, New, o.la, x)
    BY <1>9, <2>1
  <2>3. Copies(h, h2, o.proc, o.la) /\ o.la \in Page /\ h \in [Space -> [Page -> Value \cup {NULL}]]
    BY <1>1, <1>2, <1>6, <1>9, <2>1, FitsFacts
  <2>4. ASSUME Making(ms, o, h) PROVE Making(ms, o2, h2)
    BY <1>2, <1>8, <2>3, <2>4, CopyMakes
  <2>. QED BY <1>1, <1>2, <2>1, <2>2, <2>4, TakenShows
<1>. QED BY <1>1, <1>2, <1>9, <1>10, <1>11 DEF Goes, Inv, Phase
-----------------------------------------------------------------------------
(* The state: the inductive invariant.                                     *)

\* The mms, frames, control state and areas are right until the kernel stops;
\* frames are even then.
IInv ==
  /\ mm \in [Space -> Mm \cup {NULL}]
  /\ Fits(mem, ref, free, RootsOf(mm), kstack, lost)
  /\ halt = "no" => Inv(mm, state, kstack, free, ref, mem, op, lost)
  /\ AssertsOnlyOnOverlap

\* What users see of a step.
Sees == Shows(mm, mem, op, mm', mem', op')

\* The operators on tables, for the memory as it is.
LEMMA Walks ==
  ASSUME NEW g, NEW la
  PROVE  /\ Pd0(g, la) = WalkD(mem, g, la) /\ Pt(g, la) = WalkT(mem, g, la)
         /\ Pte(g, la) = WalkP(mem, g, la) /\ Missing(g, la) = MissingIn(mem, g, la)
         /\ After(g, la) = NextOf(mem, g, la)
<1>1. Pd0(g, la) = WalkD(mem, g, la)
  BY DEF Pd0, WalkD
<1>2. Pt(g, la) = WalkT(mem, g, la)
  BY <1>1 DEF Pt, WalkT, Pd0, WalkD
<1>3. Pte(g, la) = WalkP(mem, g, la)
  BY <1>2 DEF Pte, WalkP
<1>4. Missing(g, la) = MissingIn(mem, g, la)
  BY <1>1, <1>2 DEF Missing, MissingIn
<1>5. After(g, la) = NextOf(mem, g, la)
  BY <1>2 DEF After, NextOf
<1>. QED BY <1>1, <1>2, <1>3, <1>4, <1>5

\* A step that does not stop the kernel.
LEMMA GoesOn ==
  ASSUME IInv, halt = "no", halt' = halt,
         Inv(mm', state', kstack', free', ref', mem', op', lost')
  PROVE  IInv'
BY DEF IInv, Inv, AssertsOnlyOnOverlap

\* A step that users do not see.
LEMMA NothingSeen == ASSUME UNCHANGED <<mm, mem, op>> PROVE Sees
BY DEF Sees, Shows, Made, Looks, Moves

\* A step that stops it, and changes nothing else.
LEMMA Stops ==
  ASSUME IInv, halt' \in {"pgfault", "swap"},
         UNCHANGED <<mm, state, kstack, frames, op, lost>>
  PROVE  IInv'
BY DEF IInv, AssertsOnlyOnOverlap, frames

\* The areas an operation goes to.
LEMMA AreasNext ==
  ASSUME NEW o, NEW i, NEW vmas, vmas = mm[o.slot].vmas
  PROVE  UnmapFrom(o, i) = UnmapOf(vmas, o, i) /\ RangeFrom(o, i) = RangeOf(vmas, o, i)
<1>1. \A j : RangeFrom(o, j) = RangeOf(vmas, o, j)
  BY DEF RangeFrom, RangeOf
<1>. QED BY <1>1 DEF UnmapFrom, UnmapOf

\* One turn of unmap_range.
LEMMA UnmapKeeps == IInv /\ Unmap => IInv' /\ Sees
<1>. SUFFICES ASSUME IInv, Unmap PROVE IInv' /\ Sees
  OBVIOUS
<1>1. /\ halt = "no" /\ op.pc = "unmap" /\ Inv(mm, state, kstack, free, ref, mem, op, lost)
      /\ UNCHANGED <<mm, state, kstack, lost, halt>>
  BY DEF IInv, Unmap, At, Running
<1>2. PICK g, vmas : g = mm[op.slot].pgdir /\ vmas = mm[op.slot].vmas
  OBVIOUS
<1>3. IF WalkP(mem, g, op.la) # NoFrame THEN Removes(mem, ref, free, g, op.la, mem', ref', free')
      ELSE mem' = mem /\ ref' = ref /\ free' = free
  BY <1>2, Walks DEF Unmap, Pgdir, page_remove_pte, Removes, frames
<1>4. op' = IF NextOf(mem, g, op.la) < vmas[op.i].end THEN [op EXCEPT !.la = NextOf(mem, g, op.la)]
            ELSE UnmapOf(vmas, op, op.i + 1)
  BY <1>2, Walks, AreasNext DEF Unmap, Pgdir, Area
<1>5. Inv(mm, state, kstack, free', ref', mem', op', lost) /\ Shows(mm, mem, op, mm, mem', op')
  BY <1>1, <1>2, <1>3, <1>4, UnmapInv
<1>. QED BY <1>1, <1>5, GoesOn DEF Sees

\* One turn of exit_range.
LEMMA ExitRangeKeeps == IInv /\ ExitRange => IInv' /\ Sees
<1>. SUFFICES ASSUME IInv, ExitRange PROVE IInv' /\ Sees
  OBVIOUS
<1>1. /\ halt = "no" /\ op.pc = "exit_range" /\ Inv(mm, state, kstack, free, ref, mem, op, lost)
      /\ UNCHANGED <<mm, state, kstack, halt>>
  BY DEF IInv, ExitRange, At, Running
<1>2. PICK g, vmas : g = mm[op.slot].pgdir /\ vmas = mm[op.slot].vmas
  OBVIOUS
<1>3. NextDirectory = DirectoryOf(vmas, op)
  BY <1>2, AreasNext DEF NextDirectory, DirectoryOf, Area
<1>4. PICK b \in BOOLEAN, drop \in BOOLEAN :
        /\ IF mem[g][PDX1(op.gb)] = NoFrame
           THEN mem' = mem /\ ref' = ref /\ free' = free /\ lost' = lost
           ELSE Leaves(mem, ref, free, g, lost, PDX1(op.gb), PDX0(op.la), drop, mem', ref', free', lost')
        /\ RangeNext(vmas, op, b, op')
  <2>1. CASE mem[g][PDX1(op.gb)] = NoFrame
    <3>1. op' = DirectoryOf(vmas, op) /\ mem' = mem /\ ref' = ref /\ free' = free /\ lost' = lost
      BY <1>2, <1>3, <2>1 DEF ExitRange, Pgdir, Pd0, frames
    <3>2. \A b : RangeNext(vmas, op, b, op')
      BY <3>1 DEF RangeNext
    <3>. QED BY <2>1, <3>1, <3>2
  <2>2. CASE mem[g][PDX1(op.gb)] # NoFrame
    <3>. DEFINE pd0   == Pd0(Pgdir, op.gb)
                pt    == mem[pd0][PDX0(op.la)]
                whole == op.free_pd0 /\ pt # NoFrame
                next  == op.la + PTSIZE
                last  == next >= op.gb + PDSIZE \/ next >= Area.end
    <3>1. PICK b \in BOOLEAN, drop \in BOOLEAN : b = whole /\ drop = (last /\ whole)
      OBVIOUS
    <3>2. Pd0(Pgdir, op.gb) # NoFrame
      BY <1>2, <2>2 DEF Pgdir, Pd0
    <3>3. op' = NextDirectory \/ op' = [op EXCEPT !.la = next, !.free_pd0 = whole]
      BY <3>2 DEF ExitRange
    <3>4. Leaves(mem, ref, free, Pgdir, lost, PDX1(op.gb), PDX0(op.la), last /\ whole,
                 mem', ref', free', lost')
      BY <3>2 DEF ExitRange, Emptied, Leaves, Pd0
    <3>5. Leaves(mem, ref, free, g, lost, PDX1(op.gb), PDX0(op.la), drop, mem', ref', free', lost')
      BY <1>2, <3>1, <3>4 DEF Pgdir
    <3>6. RangeNext(vmas, op, b, op')
      BY <1>3, <3>1, <3>3 DEF RangeNext
    <3>. QED BY <2>2, <3>5, <3>6
  <2>. QED BY <2>1, <2>2
<1>5. PICK m2, r2, fr2, ls2, o2 : m2 = mem' /\ r2 = ref' /\ fr2 = free' /\ ls2 = lost' /\ o2 = op'
  OBVIOUS
<1>6. Goes(mm, mem, op, mm, state, kstack, fr2, r2, m2, o2, ls2)
  BY <1>1, <1>2, <1>4, <1>5, RangeInv
<1>7. Inv(mm, state, kstack, free', ref', mem', op', lost') /\ Shows(mm, mem, op, mm, mem', op')
  BY <1>5, <1>6 DEF Goes
<1>. QED BY <1>1, <1>7, GoesOn DEF Sees

\* An mm that is set.
LEMMA Becoming ==
  ASSUME NEW ms \in [Space -> Mm \cup {NULL}], NEW s \in Space, NEW v \in Mm \cup {NULL},
         NEW ms2, ms2 = [ms EXCEPT ![s] = v]
  PROVE  Becomes(ms, ms2, s, v)
BY DEF Becomes

\* An operation is one, and its mms are places of mms.
LEMMA OpIs ==
  ASSUME NEW ms, NEW st, NEW ks, NEW fr, NEW r, NEW m, NEW o, NEW ls,
         Inv(ms, st, ks, fr, r, m, o, ls)
  PROVE  /\ o = Idle \/ o \in Operation
         /\ o.pc \in Labels => o \in Operation
         /\ ms \in [Space -> Mm \cup {NULL}] /\ st \in [Proc -> {"none", "live", "zombie"}]
         /\ fr \in SUBSET Frame /\ ks \in [Proc -> Frame0]
<1>1. PICK rt, h : rt = RootsOf(ms) /\ h = Contents(m, rt)
  OBVIOUS
<1>2. Phase(ms, st, ks, o, h) /\ Fits(m, r, fr, rt, ks, ls) /\ ms \in [Space -> Mm \cup {NULL}]
  BY <1>1 DEF Inv
<1>3. fr \in SUBSET Frame /\ ks \in [Proc -> Frame0]
  BY <1>2, FitsFacts
<1>4. o = Idle \/ o \in Operation
  BY <1>2 DEF Phase, Resting, Tearing, Doomed, Dropped, Loading, Copying, Attaching
<1>5. st \in [Proc -> {"none", "live", "zombie"}]
  BY <1>2 DEF Phase, Resting, Tearing, Doomed, Dropped, Loading, Copying, Attaching, Kept, Common
<1>6. Idle.pc \notin Labels
  BY DEF Idle, Labels
<1>. QED BY <1>2, <1>3, <1>4, <1>5, <1>6

\* put_pgdir and mm_destroy.
LEMMA PutPgdirKeeps == IInv /\ PutPgdir => IInv' /\ Sees
<1>. SUFFICES ASSUME IInv, PutPgdir PROVE IInv' /\ Sees
  OBVIOUS
<1>1. /\ halt = "no" /\ op.pc = "put_pgdir" /\ Inv(mm, state, kstack, free, ref, mem, op, lost)
      /\ UNCHANGED <<state, kstack, ref>>
      /\ op' = [op EXCEPT !.pc = "dropped"] /\ mm' = [mm EXCEPT ![op.slot] = NULL]
  BY DEF IInv, PutPgdir, At, Running
<1>2. Drops(mem, free, mm[op.slot].pgdir, lost, mem', free', lost')
  BY DEF PutPgdir, Drops, Pd0s, Pts, Children, Pgdir
<1>3. op.slot \in Space /\ mm \in [Space -> Mm \cup {NULL}]
  BY <1>1, OpIs DEF Labels, Operation
<1>4. Becomes(mm, mm', op.slot, NULL)
  BY <1>1, <1>3, Becoming
<1>5. /\ Inv(mm', state, kstack, free', ref, mem', op', lost') /\ mm[op.slot].mm_count = 0
      /\ Shows(mm, mem, op, mm', mem', op')
  <2>1. PICK m2, fr2, ls2, ms2, o2 :
           m2 = mem' /\ fr2 = free' /\ ls2 = lost' /\ ms2 = mm' /\ o2 = op'
    OBVIOUS
  <2>2. /\ Drops(mem, free, mm[op.slot].pgdir, lost, m2, fr2, ls2)
        /\ Becomes(mm, ms2, op.slot, NULL) /\ o2 = [op EXCEPT !.pc = "dropped"]
    BY <1>1, <1>2, <1>4, <2>1
  <2>3. Goes(mm, mem, op, ms2, state, kstack, fr2, ref, m2, o2, ls2) /\ mm[op.slot].mm_count = 0
    BY <1>1, <2>2, PutInv
  <2>. QED BY <2>1, <2>3 DEF Goes
<1>6. halt' = halt
  BY <1>5 DEF PutPgdir, KAssert
<1>. QED BY <1>1, <1>5, <1>6, GoesOn DEF Sees

\* exit and execve.
LEMMA DropKeeps ==
  ASSUME IInv, halt = "no", op = Idle,
         NEW p \in Proc, state[p] = "live", NEW prog \in Program \cup {NULL},
         DropMm(p, Begin("unmap", p, prog, NULL)),
         UNCHANGED <<state, kstack, frames, lost, halt>>
  PROVE  IInv' /\ Made(mm', mem', op') /\ GaveUp(Looks(mm, mem), Looks(mm', mem'), p)
<1>1. PICK o : o = Begin("unmap", p, prog, NULL)
  OBVIOUS
<1>2. /\ Inv(mm, state, kstack, free, ref, mem, Idle, lost) /\ DropMm(p, o)
      /\ UNCHANGED <<state, kstack, free, ref, mem, lost, halt>>
  BY <1>1 DEF IInv, frames
<1>3. mm \in [Space -> Mm \cup {NULL}] /\ p \in Space
  BY DEF IInv, Space
<1>4. o.slot = p
  BY <1>1, NotNull, Begins DEF Labels
<1>5. Drop(mm, p, o, mm', op')
  <2>1. CASE mm[p] = NULL \/ mm[p].mm_count # 1
    <3>1. mm' = [mm EXCEPT ![p] = NULL] /\ op' = [o EXCEPT !.pc = "dropped"]
      BY <1>2, <2>1 DEF DropMm
    <3>2. Becomes(mm, mm', p, NULL)
      BY <1>3, <3>1, Becoming
    <3>. QED BY <2>1, <3>1, <3>2 DEF Drop
  <2>2. CASE ~(mm[p] = NULL \/ mm[p].mm_count # 1)
    <3>1. mm' = [mm EXCEPT ![p].mm_count = 0] /\ op' = UnmapFrom(o, 1)
      BY <1>2, <2>2 DEF DropMm
    <3>2. PICK v : v = [mm[p] EXCEPT !.mm_count = 0]
      OBVIOUS
    <3>3. v \in Mm /\ mm' = [mm EXCEPT ![p] = v]
      BY <1>3, <2>2, <3>1, <3>2 DEF Mm
    <3>4. Becomes(mm, mm', p, v)
      BY <1>3, <3>3, Becoming
    <3>5. op' = UnmapOf(mm[p].vmas, o, 1)
      BY <1>4, <3>1, AreasNext
    <3>. QED BY <2>2, <3>2, <3>4, <3>5 DEF Drop
  <2>. QED BY <2>1, <2>2
<1>6. /\ Inv(mm', state, kstack, free, ref, mem, op', lost)
      /\ Made(mm', mem, op') /\ GaveUp(Looks(mm, mem), Looks(mm', mem), p)
  BY <1>1, <1>2, <1>5, DropInv
<1>. QED BY <1>2, <1>6, GoesOn

\* do_exit's end.
LEMMA ZombieKeeps == IInv /\ Zombie => IInv' /\ Sees
<1>. SUFFICES ASSUME IInv, Zombie PROVE IInv' /\ Sees
  OBVIOUS
<1>1. /\ halt = "no" /\ op.pc = "dropped" /\ Inv(mm, state, kstack, free, ref, mem, op, lost)
      /\ UNCHANGED <<mm, kstack, free, ref, mem, lost, halt>>
      /\ state' = [state EXCEPT ![op.proc] = "zombie"] /\ op' = Idle
  BY DEF IInv, Zombie, At, Running, frames
<1>2. Inv(mm, state', kstack, free, ref, mem, Idle, lost) /\ Shows(mm, mem, op, mm, mem, Idle)
  BY <1>1, ZombieInv
<1>. QED BY <1>1, <1>2, GoesOn DEF Sees

\* mm_create and setup_pgdir.
LEMMA Creating ==
  ASSUME NewMm
  PROVE  Creates(mem, free, mm, mem', free', mm') /\ ref' = ref
BY DEF NewMm, Creates, alloc, Kth, Enough

\* load_icode begins.
LEMMA CreateMmKeeps == IInv /\ CreateMm => IInv' /\ Sees
<1>. SUFFICES ASSUME IInv, CreateMm PROVE IInv' /\ Sees
  OBVIOUS
<1>1. /\ halt = "no" /\ op.pc = "dropped" /\ op.prog # NULL
      /\ Inv(mm, state, kstack, free, ref, mem, op, lost)
      /\ UNCHANGED <<state, kstack, lost, halt>>
      /\ Creates(mem, free, mm, mem', free', mm') /\ ref' = ref
  BY Creating DEF IInv, CreateMm, At, Running
<1>2. op' = [op EXCEPT !.slot = New, !.i = 1,
                       !.pc = IF op.prog.magic THEN "segment" ELSE "put_pgdir"]
  BY DEF CreateMm
<1>3. Inv(mm', state, kstack, free', ref, mem', op', lost) /\ Shows(mm, mem, op, mm', mem', op')
  <2>1. PICK m2, fr2, ms2, o2 : m2 = mem' /\ fr2 = free' /\ ms2 = mm' /\ o2 = op'
    OBVIOUS
  <2>2. Creates(mem, free, mm, m2, fr2, ms2)
    BY <1>1, <2>1
  <2>3. o2 = [op EXCEPT !.slot = New, !.i = 1,
                        !.pc = IF op.prog.magic THEN "segment" ELSE "put_pgdir"]
    BY <1>2, <2>1
  <2>4. Goes(mm, mem, op, ms2, state, kstack, fr2, ref, m2, o2, lost)
    BY <1>1, <2>2, <2>3, CreateInv
  <2>. QED BY <2>1, <2>4 DEF Goes
<1>. QED BY <1>1, <1>3, GoesOn DEF Sees

\* An assertion on areas fails: the kernel stops, with an overlap to show.
LEMMA Asserts ==
  ASSUME halt' = "assert", Overlapping(op'),
         mm' \in [Space -> Mm \cup {NULL}],
         Fits(mem', ref', free', RootsOf(mm'), kstack', lost')
  PROVE  IInv'
BY DEF IInv, AssertsOnlyOnOverlap, Overlapping

\* insert_vma_struct.
LEMMA Placing ==
  ASSUME NEW vma, insert_vma_struct(vma)
  PROVE  \E ok \in BOOLEAN : Placed(mm, vma, mm', ok) /\ halt' = IF ok THEN halt ELSE "assert"
<1>1. PICK ok \in BOOLEAN : ok <=> FitsIn(mm[New].vmas, StopsAt(mm[New].vmas, vma.start), vma)
  OBVIOUS
<1>2. Placed(mm, vma, mm', ok)
  BY <1>1 DEF insert_vma_struct, Placed
<1>3. halt' = IF ok THEN halt ELSE "assert"
  BY <1>1 DEF insert_vma_struct, KAssert, FitsIn
<1>. QED BY <1>2, <1>3

\* find_vma finds an area where one contains the page.
LEMMA Finds == ASSUME NEW s, NEW la PROVE find_vma(s, la) = {} <=> ~InAreas(mm[s].vmas, la)
BY DEF find_vma, InAreas

\* load_icode gives up.
LEMMA GivesUp ==
  ASSUME IInv, halt = "no", op.pc \in {"segment", "stack"}, op' = UnmapFrom(op, 1),
         UNCHANGED <<mm, state, kstack, frames, lost, halt>>
  PROVE  IInv' /\ Sees
<1>1. /\ Inv(mm, state, kstack, free, ref, mem, op, lost)
      /\ UNCHANGED <<mm, state, kstack, free, ref, mem, lost, halt>>
  BY DEF IInv, frames
<1>2. op.slot = New
  BY <1>1, PhaseOf DEF Inv, Loading
<1>3. PICK vmas : vmas = mm[New].vmas
  OBVIOUS
<1>4. op' = UnmapOf(vmas, op, 1)
  BY <1>2, <1>3, AreasNext
<1>5. Inv(mm, state, kstack, free, ref, mem, op', lost) /\ Shows(mm, mem, op, mm, mem, op')
  BY <1>1, <1>3, <1>4, GiveUpInv
<1>. QED BY <1>1, <1>5, GoesOn DEF Sees

\* A segment gets its area.
LEMMA MapSegmentKeeps == IInv /\ MapSegment => IInv' /\ Sees
<1>. SUFFICES ASSUME IInv, MapSegment PROVE IInv' /\ Sees
  OBVIOUS
<1>1. /\ halt = "no" /\ op.pc = "segment" /\ Inv(mm, state, kstack, free, ref, mem, op, lost)
      /\ UNCHANGED <<state, kstack, frames, lost>>
  BY DEF IInv, MapSegment, At, Running
<1>2. PICK vma : vma = AreaOf(Seg) /\ vma.start = Seg.start
  <2>1. AreaOf(Seg).start = Seg.start
    BY DEF AreaOf
  <2>. QED BY <2>1
<1>3. CASE op' = UnmapFrom(op, 1) /\ UNCHANGED <<mm, halt>>
  BY <1>1, <1>3, GivesUp
<1>4. CASE /\ find_vma(New, vma.start) = {} /\ insert_vma_struct(vma)
           /\ op' = [op EXCEPT !.pc = "load", !.la = Seg.start]
  <2>1. PICK ok \in BOOLEAN : Placed(mm, vma, mm', ok) /\ halt' = IF ok THEN halt ELSE "assert"
    BY <1>4, Placing
  <2>2. GetsArea(mm, op, vma, op')
    BY <1>2, <1>4, Finds DEF GetsArea, Seg
  <2>3. /\ mm' \in [Space -> Mm \cup {NULL}] /\ Fits(mem, ref, free, RootsOf(mm'), kstack, lost)
        /\ ok => Inv(mm', state, kstack, free, ref, mem, op', lost)
        /\ ~ok => Overlapping(op')
        /\ Shows(mm, mem, op, mm', mem, op')
    BY <1>1, <2>1, <2>2, SegmentInv
  <2>4. UNCHANGED <<state, kstack, free, ref, mem, lost>>
    BY <1>1 DEF frames
  <2>5. CASE ok
    BY <1>1, <2>1, <2>3, <2>4, <2>5, GoesOn DEF Sees
  <2>6. CASE ~ok
    BY <2>1, <2>3, <2>4, <2>6, Asserts DEF Sees
  <2>. QED BY <2>5, <2>6
<1>. QED BY <1>2, <1>3, <1>4 DEF MapSegment, mm_map, AreaOf

\* So does the stack.
LEMMA BuildStackKeeps == IInv /\ BuildStack => IInv' /\ Sees
<1>. SUFFICES ASSUME IInv, BuildStack PROVE IInv' /\ Sees
  OBVIOUS
<1>1. /\ halt = "no" /\ op.pc = "stack" /\ Inv(mm, state, kstack, free, ref, mem, op, lost)
      /\ UNCHANGED <<state, kstack, frames, lost>>
  BY DEF IInv, BuildStack, At, Running
<1>3. CASE op' = UnmapFrom(op, 1) /\ UNCHANGED <<mm, halt>>
  BY <1>1, <1>3, GivesUp
<1>4. CASE /\ find_vma(New, Stack.start) = {} /\ insert_vma_struct(Stack)
           /\ op' = [op EXCEPT !.pc = "preload", !.la = USERTOP - 1]
  <2>1. PICK ok \in BOOLEAN : Placed(mm, Stack, mm', ok) /\ halt' = IF ok THEN halt ELSE "assert"
    BY <1>4, Placing
  <2>2. GetsStack(mm, op, op')
    BY <1>4, Finds DEF GetsStack
  <2>3. /\ mm' \in [Space -> Mm \cup {NULL}] /\ Fits(mem, ref, free, RootsOf(mm'), kstack, lost)
        /\ ok => Inv(mm', state, kstack, free, ref, mem, op', lost)
        /\ ~ok => Overlapping(op')
        /\ Shows(mm, mem, op, mm', mem, op')
    BY <1>1, <2>1, <2>2, StackInv
  <2>4. UNCHANGED <<state, kstack, free, ref, mem, lost>>
    BY <1>1 DEF frames
  <2>5. CASE ok
    BY <1>1, <2>1, <2>3, <2>4, <2>5, GoesOn DEF Sees
  <2>6. CASE ~ok
    BY <2>1, <2>3, <2>4, <2>6, Asserts DEF Sees
  <2>. QED BY <2>5, <2>6
<1>. QED BY <1>3, <1>4 DEF BuildStack, mm_map

\* Frames for a page and its tables are taken.
LEMMA Taking ==
  ASSUME NEW g, NEW la, NEW v, pgdir_alloc_page(g, la, v) \/ TablesFirst(g, la, v)
  PROVE  \E tables, page :
           /\ Taken(free, MissingIn(mem, g, la), tables, page)
           /\ MapsWith(mem, ref, free, g, la, tables, page, v, mem', ref', free')
<1>1. \A tables, page : Map(g, la, tables, page, v) =>
        MapsWith(mem, ref, free, g, la, tables, page, v, mem', ref', free')
  BY DEF Map, MapsWith, Pd0, Pt, WalkD, WalkT
<1>2. PICK n : n = Missing(g, la) /\ n = MissingIn(mem, g, la)
  BY Walks
<1>3. CASE pgdir_alloc_page(g, la, v)
  <2>1. PICK tables, page : tables = [k \in 1 .. Missing(g, la) |-> alloc(k + 1)] /\ page = alloc(1)
    OBVIOUS
  <2>2. Map(g, la, tables, page, v) /\ Cardinality(free) >= 1 + n
    BY <1>2, <1>3, <2>1 DEF pgdir_alloc_page, Enough
  <2>3. tables = [k \in 1 .. n |-> Kth(free, k + 1)] /\ page = Kth(free, 1)
    BY <1>2, <2>1 DEF alloc, Kth
  <2>. QED BY <1>1, <1>2, <2>2, <2>3 DEF Taken
<1>4. CASE TablesFirst(g, la, v)
  <2>1. PICK tables, page : tables = [k \in 1 .. n |-> alloc(k)] /\ page = alloc(n + 1)
    OBVIOUS
  <2>2. Map(g, la, tables, page, v) /\ Cardinality(free) >= 1 + n
    BY <1>2, <1>4, <2>1 DEF TablesFirst, Enough
  <2>3. tables = [k \in 1 .. n |-> Kth(free, k)] /\ page = Kth(free, n + 1)
    BY <1>2, <2>1 DEF alloc, Kth
  <2>. QED BY <1>1, <1>2, <2>2, <2>3 DEF Taken
<1>. QED BY <1>3, <1>4

\* A page of a segment is loaded.
LEMMA LoadPageKeeps == IInv /\ LoadPage => IInv' /\ Sees
<1>. SUFFICES ASSUME IInv, LoadPage PROVE IInv' /\ Sees
  OBVIOUS
<1>1. /\ halt = "no" /\ op.pc = "load" /\ Inv(mm, state, kstack, free, ref, mem, op, lost)
      /\ UNCHANGED <<mm, state, kstack, lost, halt>>
  BY DEF IInv, LoadPage, At, Running
<1>2. PICK v : /\ v = IF op.la < Seg.file THEN op.prog.data ELSE Zero
               /\ pgdir_alloc_page(Pgdir, op.la, v)
  BY DEF LoadPage
<1>3. v \in Value /\ v = SegValue(op.prog, op.i, op.la)
  <2>1. op.prog \in Program
    BY <1>1, PhaseOf DEF Inv, Loading
  <2>2. v = SegValue(op.prog, op.i, op.la)
    BY <1>2 DEF SegValue, Seg
  <2>. QED BY <1>2, <2>1, <2>2, VmmAssumption
<1>4. PICK g : g = Pgdir /\ g = mm[op.slot].pgdir
  BY DEF Pgdir
<1>5. PICK tables, page :
        /\ Taken(free, MissingIn(mem, g, op.la), tables, page)
        /\ MapsWith(mem, ref, free, g, op.la, tables, page, v, mem', ref', free')
  BY <1>2, <1>4, Taking
<1>6. LoadsOn(op, op')
  BY DEF LoadPage, LoadsOn, Seg
<1>7. PICK m2, r2, fr2, o2 : m2 = mem' /\ r2 = ref' /\ fr2 = free' /\ o2 = op'
  OBVIOUS
<1>8. MapsWith(mem, ref, free, g, op.la, tables, page, v, m2, r2, fr2) /\ LoadsOn(op, o2)
  BY <1>5, <1>6, <1>7
<1>9. Inv(mm, state, kstack, fr2, r2, m2, o2, lost) /\ Shows(mm, mem, op, mm, m2, o2)
  BY <1>1, <1>3, <1>4, <1>5, <1>8, LoadInv
<1>. QED BY <1>1, <1>7, <1>9, GoesOn DEF Sees

\* A page of the stack is taken.
LEMMA PreloadPageKeeps == IInv /\ PreloadPage => IInv' /\ Sees
<1>. SUFFICES ASSUME IInv, PreloadPage PROVE IInv' /\ Sees
  OBVIOUS
<1>1. /\ halt = "no" /\ op.pc = "preload" /\ Inv(mm, state, kstack, free, ref, mem, op, lost)
      /\ UNCHANGED <<mm, state, kstack, lost, halt>> /\ pgdir_alloc_page(Pgdir, op.la, Junk)
  BY DEF IInv, PreloadPage, At, Running
<1>2. Junk \in Value
  BY VmmAssumption
<1>3. PICK g : g = Pgdir /\ g = mm[op.slot].pgdir
  BY DEF Pgdir
<1>4. PICK tables, page :
        /\ Taken(free, MissingIn(mem, g, op.la), tables, page)
        /\ MapsWith(mem, ref, free, g, op.la, tables, page, Junk, mem', ref', free')
  BY <1>1, <1>3, Taking
<1>5. PreloadsOn(op, op')
  BY DEF PreloadPage, PreloadsOn
<1>6. PICK m2, r2, fr2, o2 : m2 = mem' /\ r2 = ref' /\ fr2 = free' /\ o2 = op'
  OBVIOUS
<1>7. MapsWith(mem, ref, free, g, op.la, tables, page, Junk, m2, r2, fr2) /\ PreloadsOn(op, o2)
  BY <1>4, <1>5, <1>6
<1>8. Inv(mm, state, kstack, fr2, r2, m2, o2, lost) /\ Shows(mm, mem, op, mm, m2, o2)
  BY <1>1, <1>2, <1>3, <1>4, <1>7, PreloadInv
<1>. QED BY <1>1, <1>6, <1>8, GoesOn DEF Sees

\* The new mm becomes that of a process.
LEMMA AttachKeeps == IInv /\ Attach => IInv' /\ Sees
<1>. SUFFICES ASSUME IInv, Attach PROVE IInv' /\ Sees
  OBVIOUS
<1>1. /\ halt = "no" /\ op.pc = "attach" /\ Inv(mm, state, kstack, free, ref, mem, op, lost)
      /\ UNCHANGED <<kstack, free, ref, mem, lost, halt>> /\ op' = Idle
  BY DEF IInv, Attach, At, Running, frames
<1>2. PICK p : p = IF op.child = NULL THEN op.proc ELSE op.child
  OBVIOUS
<1>3. /\ Owner(op, p)
      /\ mm' = [mm EXCEPT ![p] = [mm[New] EXCEPT !.mm_count = @ + 1], ![New] = NULL]
      /\ state' = [state EXCEPT ![p] = "live"]
  BY <1>2 DEF Attach, Owner
<1>4. PICK ms2, st2 : ms2 = mm' /\ st2 = state'
  OBVIOUS
<1>5. Inv(ms2, st2, kstack, free, ref, mem, Idle, lost) /\ Shows(mm, mem, op, ms2, mem, Idle)
  BY <1>1, <1>3, <1>4, AttachInv
<1>. QED BY <1>1, <1>4, <1>5, GoesOn DEF Sees

\* fork takes a kernel stack.
LEMMA ForkKeeps == ASSUME NEW p \in Proc, NEW c \in Proc PROVE IInv /\ Fork(p, c) => IInv' /\ Sees
<1>. SUFFICES ASSUME IInv, Fork(p, c) PROVE IInv' /\ Sees
  OBVIOUS
<1>1. /\ halt = "no" /\ op = Idle /\ Inv(mm, state, kstack, free, ref, mem, Idle, lost)
      /\ mm[p] # NULL /\ state[c] = "none" /\ Holes # {}
      /\ UNCHANGED <<mm, state, ref, mem, lost, halt>> /\ op' = Begin("copy_mm", p, NULL, c)
  BY DEF IInv, Fork, Running
<1>2. free \subseteq Frame
  BY <1>1, OpIs
<1>3. Holes \in SUBSET Nat
  BY <1>2, FramesFinite DEF Holes
<1>4. PICK base : base = CHOOSE f \in Holes : \A g \in Holes : f <= g
  OBVIOUS
<1>5. base \in Holes
  <2>1. \E f \in Holes : \A g \in Holes : f <= g
    BY <1>1, <1>3, LowestIn
  <2>. QED BY <1>4, <2>1
<1>6. base \in free /\ base .. base + KSTACKPAGE - 1 \subseteq free
  BY <1>5 DEF Holes
<1>7. kstack' = [kstack EXCEPT ![c] = base] /\ free' = free \ (base .. base + KSTACKPAGE - 1)
  BY <1>4 DEF Fork
<1>8. Inv(mm, state, kstack', free', ref, mem, op', lost) /\ Shows(mm, mem, op, mm, mem, op')
  <2>1. PICK ks2, fr2, o2 : ks2 = kstack' /\ fr2 = free' /\ o2 = op'
    OBVIOUS
  <2>2. /\ ks2 = [kstack EXCEPT ![c] = base] /\ fr2 = free \ (base .. base + KSTACKPAGE - 1)
        /\ o2 = Begin("copy_mm", p, NULL, c)
    BY <1>1, <1>7, <2>1
  <2>3. Goes(mm, mem, Idle, mm, state, ks2, fr2, ref, mem, o2, lost)
    BY <1>1, <1>6, <2>2, ForkInv
  <2>. QED BY <1>1, <2>1, <2>3 DEF Goes
<1>. QED BY <1>1, <1>8, GoesOn DEF Sees

\* The child gets an mm.
LEMMA CopyMmKeeps == IInv /\ CopyMm => IInv' /\ Sees
<1>. SUFFICES ASSUME IInv, CopyMm PROVE IInv' /\ Sees
  OBVIOUS
<1>1. /\ halt = "no" /\ op.pc = "copy_mm"
      /\ Inv(mm, state, kstack, free, ref, mem, op, lost)
      /\ UNCHANGED <<state, kstack, lost, halt>>
      /\ Creates(mem, free, mm, mem', free', mm') /\ ref' = ref
  BY Creating DEF IInv, CopyMm, At, Running
<1>2. op' = [op EXCEPT !.pc = "dup", !.slot = New, !.i = Len(mm[op.proc].vmas)]
  BY DEF CopyMm
<1>3. Inv(mm', state, kstack, free', ref, mem', op', lost) /\ Shows(mm, mem, op, mm', mem', op')
  <2>1. PICK m2, fr2, ms2, o2 : m2 = mem' /\ fr2 = free' /\ ms2 = mm' /\ o2 = op'
    OBVIOUS
  <2>2. Creates(mem, free, mm, m2, fr2, ms2)
    BY <1>1, <2>1
  <2>3. o2 = [op EXCEPT !.pc = "dup", !.slot = New, !.i = Len(mm[op.proc].vmas)]
    BY <1>2, <2>1
  <2>4. Goes(mm, mem, op, ms2, state, kstack, fr2, ref, m2, o2, lost)
    BY <1>1, <2>2, <2>3, CopyMmInv
  <2>. QED BY <2>1, <2>4 DEF Goes
<1>. QED BY <1>1, <1>3, GoesOn DEF Sees

\* An area is copied, and the assertion on it holds.
LEMMA DupVmaKeeps == IInv /\ DupVma => IInv' /\ Sees
<1>. SUFFICES ASSUME IInv, DupVma PROVE IInv' /\ Sees
  OBVIOUS
<1>1. /\ halt = "no" /\ op.pc = "dup" /\ Inv(mm, state, kstack, free, ref, mem, op, lost)
      /\ UNCHANGED <<state, kstack, free, ref, mem, lost>>
  BY DEF IInv, DupVma, At, Running, frames
<1>2. PICK vma : vma = Source
  OBVIOUS
<1>3. insert_vma_struct(vma) /\ CopiesArea(mm, op, vma, op')
  BY <1>2 DEF DupVma, CopiesArea, Source
<1>4. PICK ok \in BOOLEAN : Placed(mm, vma, mm', ok) /\ halt' = IF ok THEN halt ELSE "assert"
  BY <1>3, Placing
<1>5. PICK ms2, o2 : ms2 = mm' /\ o2 = op'
  OBVIOUS
<1>6. ok /\ Inv(ms2, state, kstack, free, ref, mem, o2, lost) /\ Shows(mm, mem, op, ms2, mem, o2)
  BY <1>1, <1>3, <1>4, <1>5, DupInv
<1>. QED BY <1>1, <1>4, <1>5, <1>6, GoesOn DEF Sees

\* A turn of copy_range.
LEMMA CopyPageKeeps == IInv /\ CopyPage => IInv' /\ Sees
<1>. SUFFICES ASSUME IInv, CopyPage PROVE IInv' /\ Sees
  OBVIOUS
<1>1. /\ halt = "no" /\ op.pc = "copy" /\ Inv(mm, state, kstack, free, ref, mem, op, lost)
      /\ UNCHANGED <<mm, state, kstack, lost, halt>>
  BY DEF IInv, CopyPage, At, Running
<1>2. PICK g, from : g = Pgdir /\ g = mm[op.slot].pgdir /\ from = From /\ from = mm[op.proc].pgdir
  BY DEF Pgdir, From
<1>3. PICK v, next : v = mem[WalkP(mem, from, op.la)] /\ next = NextOf(mem, from, op.la)
  OBVIOUS
<1>4. CopiesOn(mm, op, next, op')
  <2>1. next = After(From, op.la)
    BY <1>2, <1>3, Walks
  <2>. QED BY <2>1 DEF CopyPage, CopiesOn, Source
<1>5. PICK tables, page :
        IF WalkP(mem, from, op.la) = NoFrame THEN mem' = mem /\ ref' = ref /\ free' = free
        ELSE /\ Taken(free, MissingIn(mem, g, op.la), tables, page)
             /\ MapsWith(mem, ref, free, g, op.la, tables, page, v, mem', ref', free')
  <2>1. Pte(From, op.la) = WalkP(mem, from, op.la)
    BY <1>2, Walks
  <2>2. CASE WalkP(mem, from, op.la) = NoFrame
    BY <2>1, <2>2 DEF CopyPage, frames
  <2>3. CASE WalkP(mem, from, op.la) # NoFrame
    <3>1. TablesFirst(g, op.la, v)
      BY <1>2, <1>3, <2>1, <2>3 DEF CopyPage, Replica
    <3>2. PICK tables, page :
            /\ Taken(free, MissingIn(mem, g, op.la), tables, page)
            /\ MapsWith(mem, ref, free, g, op.la, tables, page, v, mem', ref', free')
      BY <3>1, Taking
    <3>. QED BY <2>3, <3>2
  <2>. QED BY <2>2, <2>3
<1>6. PICK m2, r2, fr2, o2 : m2 = mem' /\ r2 = ref' /\ fr2 = free' /\ o2 = op'
  OBVIOUS
<1>7. /\ CopiesOn(mm, op, next, o2)
      /\ IF WalkP(mem, from, op.la) = NoFrame THEN m2 = mem /\ r2 = ref /\ fr2 = free
         ELSE /\ Taken(free, MissingIn(mem, g, op.la), tables, page)
              /\ MapsWith(mem, ref, free, g, op.la, tables, page, v, m2, r2, fr2)
  BY <1>4, <1>5, <1>6
<1>8. Goes(mm, mem, op, mm, state, kstack, fr2, r2, m2, o2, lost)
  BY <1>1, <1>2, <1>3, <1>7, CopyInv
<1>. QED BY <1>1, <1>6, <1>8, GoesOn DEF Goes, Sees

\* wait gives a kernel stack back.
LEMMA ReapKeeps == ASSUME NEW z \in Proc PROVE IInv /\ Reap(z) => IInv' /\ Sees
<1>. SUFFICES ASSUME IInv, Reap(z) PROVE IInv' /\ Sees
  OBVIOUS
<1>1. /\ halt = "no" /\ op = Idle /\ Inv(mm, state, kstack, free, ref, mem, Idle, lost)
      /\ state[z] = "zombie"
      /\ UNCHANGED <<mm, ref, mem, op, lost, halt>>
  BY DEF IInv, Reap, Running
<1>2. /\ free' = free \cup (kstack[z] .. kstack[z] + KSTACKPAGE - 1)
      /\ state' = [state EXCEPT ![z] = "none"] /\ kstack' = [kstack EXCEPT ![z] = NoFrame]
  BY DEF Reap
<1>3. Inv(mm, state', kstack', free', ref, mem, Idle, lost) /\ Shows(mm, mem, op, mm, mem, Idle)
  BY <1>1, <1>2, ReapInv
<1>. QED BY <1>1, <1>3, GoesOn DEF Sees

\* A write.
LEMMA WriteKeeps ==
  ASSUME NEW p \in Proc, NEW la \in Page, NEW v \in Written
  PROVE  IInv /\ Write(p, la, v) =>
           IInv' /\ Made(mm', mem', op') /\ Wrote(Looks(mm, mem), Looks(mm', mem'), p, la, v)
<1>. SUFFICES ASSUME IInv, Write(p, la, v)
              PROVE  /\ IInv' /\ Made(mm', mem', op')
                     /\ Wrote(Looks(mm, mem), Looks(mm', mem'), p, la, v)
  OBVIOUS
<1>1. /\ halt = "no" /\ op = Idle /\ Inv(mm, state, kstack, free, ref, mem, Idle, lost)
      /\ mm[p] # NULL /\ find_vma(p, la) # {}
      /\ Pte(mm[p].pgdir, la) # NoFrame
      /\ mem' = [mem EXCEPT ![Pte(mm[p].pgdir, la)] = v]
      /\ UNCHANGED <<mm, state, kstack, free, ref, op, lost, halt>>
  BY DEF IInv, Write, Accesses, Running
<1>2. InAreas(mm[p].vmas, la) /\ v \in Value
  BY <1>1, Finds, VmmAssumption
<1>3. PICK g : g = mm[p].pgdir
  OBVIOUS
<1>4. WalkP(mem, g, la) # NoFrame /\ Fills(mem, g, la, v, mem')
  BY <1>1, <1>3, Walks DEF Fills
<1>5. /\ Inv(mm, state, kstack, free, ref, mem', Idle, lost)
      /\ Wrote(Looks(mm, mem), Looks(mm, mem'), p, la, v)
  BY <1>1, <1>2, <1>3, <1>4, WriteInv
<1>6. Made(mm', mem', op')
  BY <1>1, IdleMakes DEF Made
<1>. QED BY <1>1, <1>5, <1>6, GoesOn

\* A page fault.
LEMMA PageFaultKeeps ==
  ASSUME NEW p \in Proc, NEW la \in Page PROVE IInv /\ PageFault(p, la) => IInv' /\ Sees
<1>. SUFFICES ASSUME IInv, PageFault(p, la) PROVE IInv' /\ Sees
  OBVIOUS
<1>1. /\ halt = "no" /\ op = Idle /\ Inv(mm, state, kstack, free, ref, mem, Idle, lost)
      /\ mm[p] # NULL /\ find_vma(p, la) # {}
      /\ Pte(mm[p].pgdir, la) = NoFrame /\ TablesFirst(mm[p].pgdir, la, Junk)
      /\ UNCHANGED <<mm, state, kstack, op, lost, halt>>
  BY DEF IInv, PageFault, Accesses, Running
<1>2. InAreas(mm[p].vmas, la) /\ Junk \in Value
  BY <1>1, Finds, VmmAssumption
<1>3. PICK g : g = mm[p].pgdir
  OBVIOUS
<1>4. WalkP(mem, g, la) = NoFrame
  BY <1>1, <1>3, Walks
<1>5. PICK tables, page :
        /\ Taken(free, MissingIn(mem, g, la), tables, page)
        /\ MapsWith(mem, ref, free, g, la, tables, page, Junk, mem', ref', free')
  BY <1>1, <1>3, Taking
<1>6. Inv(mm, state, kstack, free', ref', mem', Idle, lost) /\ Shows(mm, mem, op, mm, mem', Idle)
  BY <1>1, <1>2, <1>3, <1>4, <1>5, FaultInv
<1>. QED BY <1>1, <1>6, GoesOn DEF Sees

\* What users see of a step is what was asked for.
Answered ==
  Made(mm, mem, op) =>
    /\ Made(mm', mem', op')
    /\ \/ asked' = NULL /\ Moves(Looks(mm, mem), Looks(mm', mem'))
       \/ \E p \in Proc : asked' = <<p>> /\ GaveUp(Looks(mm, mem), Looks(mm', mem'), p)
       \/ \E p \in Proc, la \in Page, v \in Value :
            asked' = <<p, la, v>> /\ Wrote(Looks(mm, mem), Looks(mm', mem'), p, la, v)
       \/ asked' = asked /\ Looks(mm', mem') = Looks(mm, mem)

\* A step that nobody asks for.
LEMMA QuietKeeps == IInv /\ Quiet => IInv' /\ Sees
<1>. SUFFICES ASSUME IInv, Quiet PROVE IInv' /\ Sees
  OBVIOUS
<1>1. CASE Unmap \/ ExitRange \/ PutPgdir \/ Zombie
  BY <1>1, UnmapKeeps, ExitRangeKeeps, PutPgdirKeeps, ZombieKeeps
<1>2. CASE CreateMm \/ MapSegment \/ LoadPage \/ BuildStack \/ PreloadPage \/ Attach
  BY <1>2, CreateMmKeeps, MapSegmentKeeps, LoadPageKeeps, BuildStackKeeps, PreloadPageKeeps,
     AttachKeeps
<1>3. CASE CopyMm \/ DupVma \/ CopyPage
  BY <1>3, CopyMmKeeps, DupVmaKeeps, CopyPageKeeps
<1>4. CASE OutOfMemory
  BY <1>4, Stops, NothingSeen DEF OutOfMemory, frames
<1>5. ASSUME NEW p \in Proc, Reap(p) \/ \E c \in Proc : Fork(p, c) PROVE IInv' /\ Sees
  BY <1>5, ReapKeeps, ForkKeeps
<1>6. ASSUME NEW p \in Proc, NEW la \in Page, PageFault(p, la) PROVE IInv' /\ Sees
  BY <1>6, PageFaultKeeps
<1>7. ASSUME NEW p \in Proc, NEW la \in Page, WrongAccess(p, la) PROVE IInv' /\ Sees
  BY <1>7, Stops, NothingSeen DEF WrongAccess, frames
<1>. QED BY <1>1, <1>2, <1>3, <1>4, <1>5, <1>6, <1>7 DEF Quiet, KernelStep

\* Every step keeps the invariant.
LEMMA StepKeeps == IInv /\ [Next]_vars => IInv' /\ Answered
<1>. SUFFICES ASSUME IInv, [Next]_vars PROVE IInv' /\ Answered
  OBVIOUS
<1>1. CASE UNCHANGED vars
  <2>1. IInv'
    BY <1>1 DEF vars, frames, IInv, AssertsOnlyOnOverlap
  <2>2. UNCHANGED <<mm, mem, op, asked>>
    BY <1>1 DEF vars, frames
  <2>. QED BY <2>1, <2>2 DEF Answered
<1>2. CASE Quiet /\ asked' = NULL
  BY <1>2, QuietKeeps DEF Sees, Shows, Answered
<1>3. ASSUME NEW p \in Proc, Exit(p) \/ \E prog \in Program : Exec(p, prog), asked' = <<p>>
      PROVE  IInv' /\ Answered
  <2>1. PICK prog \in Program \cup {NULL} :
          /\ halt = "no" /\ op = Idle /\ state[p] = "live"
          /\ DropMm(p, Begin("unmap", p, prog, NULL))
          /\ UNCHANGED <<state, kstack, frames, lost, halt>>
    BY <1>3 DEF Exit, Exec, Running
  <2>2. IInv' /\ Made(mm', mem', op') /\ GaveUp(Looks(mm, mem), Looks(mm', mem'), p)
    BY <2>1, DropKeeps
  <2>. QED BY <1>3, <2>2 DEF Answered
<1>4. ASSUME NEW p \in Proc, NEW la \in Page, NEW v \in Written,
             Write(p, la, v), asked' = <<p, la, v>>
      PROVE  IInv' /\ Answered
  <2>1. v \in Value
    BY VmmAssumption
  <2>2. IInv' /\ Made(mm', mem', op') /\ Wrote(Looks(mm, mem), Looks(mm', mem'), p, la, v)
    BY <1>4, WriteKeeps
  <2>. QED BY <1>4, <2>1, <2>2 DEF Answered
<1>. QED BY <1>1, <1>2, <1>3, <1>4 DEF Next

\* user_main runs in a kernel stack; the other frames are free.
LEMMA BootFits ==
  ASSUME NEW m, m = [f \in Frame |-> Junk], NEW r, r = [f \in Frame |-> 0],
         NEW fr, fr = KSTACKPAGE + 1 .. NFrame, NEW rt, rt = [s \in Space |-> NoFrame],
         NEW ks, ks = [p \in Proc |-> IF p = First THEN 1 ELSE NoFrame]
  PROVE  Fits(m, r, fr, rt, ks, {})
<1>1. PICK u, w : /\ u = [f \in Frame |-> IF f <= KSTACKPAGE THEN StackOf(First) ELSE Spare]
                  /\ w = [pl \in Place |-> NoFrame]
  OBVIOUS
<1>2. /\ First \in Proc /\ Junk \in Value /\ NFrame \in Nat
      /\ KSTACKPAGE \in 1 .. NFrame /\ KSTACKPAGE \in Nat /\ NoFrame = 0 /\ Frame = 1 .. NFrame
  BY NotNull, TableSizes, VmmAssumption DEF NoFrame, Frame
<1>3. /\ Spare \notin Place /\ StackOf(First) \notin Place /\ StackOf(First) # Spare
      /\ Spare # Gone /\ StackOf(First) # Gone
      /\ \A p \in Proc : StackOf(p) = StackOf(First) => p = First
      /\ \A p \in Proc : StackOf(p) # Spare
  BY <1>2, OtherUses
<1>4. fr \in SUBSET Frame /\ 1 \in Frame /\ \A f \in Frame : f \in fr <=> ~(f <= KSTACKPAGE)
  BY <1>2
<1>5. \A f \in Frame : u[f] = IF f <= KSTACKPAGE THEN StackOf(First) ELSE Spare
  BY <1>1
<1>6. \A pl \in Place : w[pl] = NoFrame
  BY <1>1
<1>7. Kinds(u, w, m, r, fr, rt, ks, {})
  <2>1. u \in [Frame -> Tag]
    BY <1>1, <1>2 DEF Tag
  <2>2. w \in [Place -> Frame0] /\ rt \in [Space -> Frame0]
    BY <1>1 DEF Frame0
  <2>3. ks \in [Proc -> Frame0]
    BY <1>4 DEF Frame0
  <2>4. m \in [Frame -> Table \cup Value] /\ r \in [Frame -> Nat]
    BY <1>2
  <2>. QED BY <1>4, <2>1, <2>2, <2>3, <2>4 DEF Kinds
<1>8. Marks(u, w)
  BY <1>3, <1>5, <1>6 DEF Marks
<1>9. Linked(w, m)
  BY <1>6, Trees DEF Linked
<1>10. Pages(w, m)
  BY <1>6 DEF Pages
<1>11. Roots(w, rt)
  BY <1>6, Trees DEF Roots
<1>12. Rest(u, fr, {})
  BY <1>3, <1>4, <1>5 DEF Rest
<1>13. Stacks(u, ks)
  <2>1. ASSUME NEW p \in Proc PROVE ks[p] = IF p = First THEN 1 ELSE NoFrame
    OBVIOUS
  <2>2. 1 + KSTACKPAGE - 1 \in Frame /\ 1 # NoFrame
    BY <1>2
  <2>3. ASSUME NEW p \in Proc, NEW f \in Frame
        PROVE  InStack(ks, p, f) <=> p = First /\ f <= KSTACKPAGE
    BY <1>2, <2>1 DEF InStack
  <2>4. ASSUME NEW p \in Proc, NEW f \in Frame
        PROVE  u[f] = StackOf(p) <=> p = First /\ f <= KSTACKPAGE
    BY <1>3, <1>5
  <2>. QED BY <2>1, <2>2, <2>3, <2>4 DEF Stacks
<1>14. Refs(u, r)
  BY <1>3, <1>5 DEF Refs
<1>. QED BY <1>7, <1>8, <1>9, <1>10, <1>11, <1>12, <1>13, <1>14 DEF Fits, Uses

\* The kernel begins that way.
LEMMA InitHolds == Init => IInv
<1>. SUFFICES ASSUME Init PROVE IInv
  OBVIOUS
<1>1. mm = [s \in Space |-> NULL] /\ mm \in [Space -> Mm \cup {NULL}]
  BY DEF Init
<1>2. RootsOf(mm) = [s \in Space |-> NoFrame]
  BY <1>1 DEF RootsOf
<1>3. Fits(mem, ref, free, RootsOf(mm), kstack, lost)
  BY <1>2, BootFits DEF Init
<1>4. PICK h : h = Contents(mem, RootsOf(mm))
  OBVIOUS
<1>5. Resting(mm, state, kstack, op, h)
  <2>1. op = Idle /\ mm[New] = NULL
    BY <1>1 DEF Init, Space
  <2>2. Common(mm, state, h)
    BY <1>1 DEF Init, Common, Space
  <2>3. Counts(mm, New)
    BY <1>1 DEF Counts, Space
  <2>4. KStacks(state, kstack, NULL)
    <3>1. 1 # NoFrame
      BY DEF NoFrame
    <3>. QED BY <3>1, NotNull DEF Init, KStacks
  <2>. QED BY <2>1, <2>2, <2>3, <2>4 DEF Resting, Kept
<1>6. Inv(mm, state, kstack, free, ref, mem, op, lost)
  BY <1>1, <1>3, <1>4, <1>5 DEF Inv, Phase
<1>. QED BY <1>1, <1>3, <1>6 DEF IInv, Init, AssertsOnlyOnOverlap

\* The invariant always holds.
THEOREM Inductive == Spec => []IInv
BY InitHolds, StepKeeps, PTL DEF Spec

\* An assertion on areas fails only where a program has areas that overlap in
\* the way mm_map does not see: find_vma is asked for the first page only.
THEOREM OverlapOnly == Spec => []AssertsOnlyOnOverlap
<1>1. IInv => AssertsOnlyOnOverlap
  BY DEF IInv
<1>. QED BY <1>1, Inductive, PTL

\* Areas are sorted, do not overlap and hold all pages of their mm.
THEOREM AreasHoldPages == Spec => []VmasExact
<1>1. IInv => VmasExact
  <2>. SUFFICES ASSUME IInv, NEW s \in Space, mm[s] # NULL, halt = "no"
                PROVE  /\ \A i \in DOMAIN mm[s].vmas : \A j \in 1 .. i - 1 :
                            mm[s].vmas[j].end <= mm[s].vmas[i].start
                       /\ \A la \in Page : find_vma(s, la) = {} => Pte(mm[s].pgdir, la) = NoFrame
    BY DEF VmasExact, Spaces
  <2>1. PICK rt, h : rt = RootsOf(mm) /\ h = Contents(mem, rt)
    OBVIOUS
  <2>2. /\ Phase(mm, state, kstack, op, h) /\ Fits(mem, ref, free, rt, kstack, lost)
        /\ mm \in [Space -> Mm \cup {NULL}]
    BY <2>1 DEF IInv, Inv
  <2>3. Common(mm, state, h)
    BY <2>2 DEF Phase, Resting, Tearing, Doomed, Dropped, Loading, Copying, Attaching, Kept
  <2>4. AreasOK(mm[s].vmas) /\ \A la \in Page : h[s][la] # NULL => InAreas(mm[s].vmas, la)
    BY <2>3 DEF Common
  <2>5. rt[s] = mm[s].pgdir /\ rt[s] # NoFrame
    BY <2>1, <2>2, RootsAre
  <2>6. ASSUME NEW la \in Page, find_vma(s, la) = {} PROVE Pte(mm[s].pgdir, la) = NoFrame
    <3>1. h[s][la] = NULL
      BY <2>4, <2>6, Finds
    <3>2. WalkP(mem, rt[s], la) = NoFrame
      BY <2>1, <2>2, <2>5, <3>1, FitsFacts
    <3>. QED BY <2>5, <3>2, Walks
  <2>. QED BY <2>4, <2>6 DEF AreasOK
<1>. QED BY <1>1, Inductive, PTL
-----------------------------------------------------------------------------
(* Every frame is counted.                                                 *)

\* Two finite sets with a bijection.
LEMMA OneToOne ==
  ASSUME NEW S, NEW T, IsFiniteSet(S), NEW f \in [S -> T],
         \A x, y \in S : f[x] = f[y] => x = y, \A y \in T : \E x \in S : f[x] = y
  PROVE  IsFiniteSet(T) /\ Cardinality(T) = Cardinality(S)
<1>1. f \in Bijection(S, T)
  BY DEF Bijection, Injection, Surjection, IsInjective
<1>. QED BY <1>1, FS_Bijection DEF ExistsBijection

\* The entry that refers to the frame f at the place pl.
Label(pl, f) ==
  IF pl.lev = 1 THEN <<1, pl.s, pl.a, f>>
  ELSE IF pl.lev = 2 THEN <<0, pl.s, NENTRY * pl.a + pl.b, f>>
  ELSE <<2, pl.s, NENTRY * (NENTRY * pl.a + pl.b) + pl.c, f>>

\* The places of an address, and what they are made of.
LEMMA AtFields ==
  ASSUME NEW s \in Space, NEW la \in Page
  PROVE  /\ DirAt(s, la) = [lev |-> 1, s |-> s, a |-> PDX1(la), b |-> 0, c |-> 0]
         /\ TableAt(s, la) = [lev |-> 2, s |-> s, a |-> PDX1(la), b |-> PDX0(la), c |-> 0]
         /\ PageAt(s, la) = [lev |-> 3, s |-> s, a |-> PDX1(la), b |-> PDX0(la), c |-> PTX(la)]
<1>1. DirAt(s, la) = [lev |-> 1, s |-> s, a |-> PDX1(la), b |-> 0, c |-> 0]
  BY DEF DirAt, Under, Root
<1>2. TableAt(s, la) = [lev |-> 2, s |-> s, a |-> PDX1(la), b |-> PDX0(la), c |-> 0]
  BY <1>1 DEF TableAt, Under
<1>3. PageAt(s, la) = [lev |-> 3, s |-> s, a |-> PDX1(la), b |-> PDX0(la), c |-> PTX(la)]
  BY <1>2 DEF PageAt, Under
<1>. QED BY <1>1, <1>2, <1>3

\* Every place of a directory, a table or a page is that of an address.
LEMMA PlaceFields ==
  ASSUME NEW pl \in Place
  PROVE  /\ pl.s \in Space /\ pl.a \in Index /\ pl.b \in Index /\ pl.c \in Index
         /\ pl.lev = 1 => pl = [lev |-> 1, s |-> pl.s, a |-> pl.a, b |-> 0, c |-> 0]
         /\ pl.lev = 2 => pl = [lev |-> 2, s |-> pl.s, a |-> pl.a, b |-> pl.b, c |-> 0]
         /\ pl.lev = 3 => pl = [lev |-> 3, s |-> pl.s, a |-> pl.a, b |-> pl.b, c |-> pl.c]
BY DEF Place

\* Entries, for the memory m and directories rt: those of level 0 directories,
\* of page tables and of pages.
DirEntry(m, rt, s, e) == <<1, s, e, m[rt[s]][e]>>
TableEntry(m, rt, s, t) == <<0, s, t, WalkT(m, rt[s], t * PTSIZE)>>
PageEntry(m, rt, s, la) == <<2, s, la, WalkP(m, rt[s], la)>>
IsEntry(m, rt, x) ==
  /\ x[4] # NoFrame
  /\ \E s \in Space : /\ rt[s] # NoFrame
                      /\ \/ \E e \in Index : x = DirEntry(m, rt, s, e)
                         \/ \E t \in 0 .. NTable - 1 : x = TableEntry(m, rt, s, t)
                         \/ \E la \in Page : x = PageEntry(m, rt, s, la)

\* Entries refer to the frames at places: each entry is that of one place ...
LEMMA EntryPlace ==
  ASSUME NEW u, NEW w, NEW m, NEW r, NEW fr, NEW rt, NEW ks, NEW ls,
         Uses(u, w, m, r, fr, rt, ks, ls), NEW x, IsEntry(m, rt, x)
  PROVE  \E pl \in Place : pl.lev # 0 /\ w[pl] # NoFrame /\ x = Label(pl, w[pl])
<1>1. PICK s \in Space :
        /\ rt[s] # NoFrame
        /\ \/ \E e \in Index : x = DirEntry(m, rt, s, e)
           \/ \E t \in 0 .. NTable - 1 : x = TableEntry(m, rt, s, t)
           \/ \E la \in Page : x = PageEntry(m, rt, s, la)
  BY DEF IsEntry
<1>2. x[4] # NoFrame
  BY DEF IsEntry
<1>3. Linked(w, m) /\ w[Root(s)] = rt[s] /\ Root(s) \in Place /\ Root(s).lev = 0
  BY Trees DEF Uses, Roots
<1>4. ASSUME NEW e \in Index, x = DirEntry(m, rt, s, e)
      PROVE  \E pl \in Place : pl.lev # 0 /\ w[pl] # NoFrame /\ x = Label(pl, w[pl])
  <2>1. PICK pl \in Place : pl = Under(Root(s), e)
    BY <1>3, Trees
  <2>2. m[rt[s]][e] = w[pl]
    BY <1>1, <1>3, <2>1 DEF Linked
  <2>3. pl.lev = 1 /\ pl.s = s /\ pl.a = e
    BY <2>1 DEF Under, Root
  <2>4. x = <<1, s, e, w[pl]>>
    BY <1>4, <2>2 DEF DirEntry
  <2>5. x[4] = w[pl]
    BY <2>4
  <2>6. pl.lev # 0 /\ w[pl] # NoFrame
    BY <1>2, <2>3, <2>5
  <2>7. Label(pl, w[pl]) = <<1, s, e, w[pl]>>
    BY <2>3 DEF Label
  <2>. QED BY <2>4, <2>6, <2>7
<1>5. ASSUME NEW t \in 0 .. NTable - 1, x = TableEntry(m, rt, s, t)
      PROVE  \E pl \in Place : pl.lev # 0 /\ w[pl] # NoFrame /\ x = Label(pl, w[pl])
  <2>1. PICK la \in Page : la = t * PTSIZE /\ t = NENTRY * PDX1(la) + PDX0(la)
    BY TableNumber
  <2>2. PICK pl \in Place : pl = TableAt(s, la)
    BY WayDown
  <2>3. pl.lev = 2 /\ pl.s = s /\ pl.a = PDX1(la) /\ pl.b = PDX0(la)
    BY <2>2, AtFields
  <2>4. WalkT(m, rt[s], la) = w[pl]
    BY <1>1, <2>2, WalkIs
  <2>5. x = <<0, s, t, w[pl]>>
    BY <1>5, <2>1, <2>4 DEF TableEntry
  <2>6. x[4] = w[pl]
    BY <2>5
  <2>7. pl.lev # 0 /\ w[pl] # NoFrame
    BY <1>2, <2>3, <2>6
  <2>8. Label(pl, w[pl]) = <<0, s, t, w[pl]>>
    BY <2>1, <2>3 DEF Label
  <2>. QED BY <2>5, <2>7, <2>8
<1>6. ASSUME NEW la \in Page, x = PageEntry(m, rt, s, la)
      PROVE  \E pl \in Place : pl.lev # 0 /\ w[pl] # NoFrame /\ x = Label(pl, w[pl])
  <2>1. la = NENTRY * (NENTRY * PDX1(la) + PDX0(la)) + PTX(la)
    <3>1. PDX1(la) \in Index /\ PDX0(la) \in Index /\ PTX(la) \in Index
      BY Indices
    <3>2. PICK lb \in Page : /\ PDX1(lb) = PDX1(la) /\ PDX0(lb) = PDX0(la) /\ PTX(lb) = PTX(la)
                             /\ lb = NENTRY * (NENTRY * PDX1(la) + PDX0(la)) + PTX(la)
      BY <3>1, IndicesInverse
    <3>3. la = lb
      BY <3>2, SameIndices
    <3>. QED BY <3>2, <3>3
  <2>2. PICK pl \in Place : pl = PageAt(s, la)
    BY WayDown
  <2>3. pl.lev = 3 /\ pl.s = s /\ pl.a = PDX1(la) /\ pl.b = PDX0(la) /\ pl.c = PTX(la)
    BY <2>2, AtFields
  <2>4. WalkP(m, rt[s], la) = w[pl]
    BY <1>1, <2>2, WalkIs
  <2>5. x = <<2, s, la, w[pl]>>
    BY <1>6, <2>4 DEF PageEntry
  <2>6. x[4] = w[pl]
    BY <2>5
  <2>7. pl.lev # 0 /\ w[pl] # NoFrame
    BY <1>2, <2>3, <2>6
  <2>8. Label(pl, w[pl]) = <<2, s, la, w[pl]>>
    BY <2>1, <2>3 DEF Label
  <2>. QED BY <2>5, <2>7, <2>8
<1>. QED BY <1>1, <1>4, <1>5, <1>6

\* ... and each place that of an entry.
LEMMA PlaceEntry ==
  ASSUME NEW u, NEW w, NEW m, NEW r, NEW fr, NEW rt, NEW ks, NEW ls,
         Uses(u, w, m, r, fr, rt, ks, ls), NEW pl \in Place, pl.lev # 0, w[pl] # NoFrame
  PROVE  IsEntry(m, rt, Label(pl, w[pl])) /\ Label(pl, w[pl])[4] = w[pl]
<1>1. PICK s \in Space, a \in Index, b \in Index, c \in Index :
        s = pl.s /\ a = pl.a /\ b = pl.b /\ c = pl.c
  BY PlaceFields
<1>2. Linked(w, m) /\ w[Root(s)] = rt[s] /\ Root(s) \in Place /\ Root(s).lev = 0
  BY Trees DEF Uses, Roots
<1>3. PICK f : f = w[pl] /\ f # NoFrame
  OBVIOUS
<1>4. rt[s] # NoFrame
  <2>1. \A q \in Place : q.lev # 0 /\ w[q] # NoFrame => w[Above(q)] # NoFrame /\ Above(q) \in Place
    BY <1>2, Trees DEF Linked
  <2>2. pl.lev \in {1, 2, 3}
    BY Trees
  <2>3. w[Root(s)] # NoFrame
    <3>1. \A q \in Place : q.lev = 1 /\ q.s = s /\ w[q] # NoFrame => w[Root(s)] # NoFrame
      BY <2>1, Trees
    <3>2. \A q \in Place : q.lev = 2 /\ q.s = s /\ w[q] # NoFrame => w[Root(s)] # NoFrame
      BY <2>1, <3>1, Trees
    <3>3. \A q \in Place : q.lev = 3 /\ q.s = s /\ w[q] # NoFrame => w[Root(s)] # NoFrame
      BY <2>1, <3>2, Trees
    <3>. QED BY <1>1, <2>2, <3>1, <3>2, <3>3
  <2>. QED BY <1>2, <2>3
<1>5. CASE pl.lev = 1
  <2>1. Label(pl, f) = <<1, s, a, f>>
    BY <1>1, <1>5 DEF Label
  <2>2. pl = Under(Root(s), a)
    BY <1>1, <1>5, PlaceFields DEF Under, Root
  <2>3. m[rt[s]][a] = f
    BY <1>2, <1>3, <1>4, <2>2 DEF Linked
  <2>4. Label(pl, f) = DirEntry(m, rt, s, a)
    BY <2>1, <2>3 DEF DirEntry
  <2>5. Label(pl, f)[4] = f
    BY <2>1
  <2>. QED BY <1>3, <1>4, <2>4, <2>5 DEF IsEntry
<1>6. CASE pl.lev = 2
  <2>1. PICK t \in 0 .. NTable - 1 :
          t = NENTRY * a + b /\ PDX1(t * PTSIZE) = a /\ PDX0(t * PTSIZE) = b
    BY TableOf
  <2>2. PICK la \in Page : la = t * PTSIZE
    BY TableNumber
  <2>3. Label(pl, f) = <<0, s, t, f>>
    BY <1>1, <1>6, <2>1 DEF Label
  <2>4. pl = TableAt(s, la)
    BY <1>1, <1>6, <2>1, <2>2, PlaceFields, AtFields
  <2>5. WalkT(m, rt[s], la) = f
    BY <1>3, <1>4, <2>4, WalkIs
  <2>6. Label(pl, f) = TableEntry(m, rt, s, t)
    BY <2>2, <2>3, <2>5 DEF TableEntry
  <2>7. Label(pl, f)[4] = f
    BY <2>3
  <2>. QED BY <1>3, <1>4, <2>6, <2>7 DEF IsEntry
<1>7. CASE pl.lev = 3
  <2>1. PICK la \in Page : /\ PDX1(la) = a /\ PDX0(la) = b /\ PTX(la) = c
                           /\ la = NENTRY * (NENTRY * a + b) + c
    BY IndicesInverse
  <2>2. Label(pl, f) = <<2, s, la, f>>
    BY <1>1, <1>7, <2>1 DEF Label
  <2>3. pl = PageAt(s, la)
    BY <1>1, <1>7, <2>1, PlaceFields, AtFields
  <2>4. WalkP(m, rt[s], la) = f
    BY <1>3, <1>4, <2>3, WalkIs
  <2>5. Label(pl, f) = PageEntry(m, rt, s, la)
    BY <2>2, <2>4 DEF PageEntry
  <2>6. Label(pl, f)[4] = f
    BY <2>2
  <2>. QED BY <1>3, <1>4, <2>5, <2>6 DEF IsEntry
<1>. QED BY <1>3, <1>5, <1>6, <1>7, Trees

\* The frames of directories, of entries and of kernel stacks, and who has a
\* directory or a kernel stack.
RootFrames(u)  == {f \in Frame : u[f] \in Place /\ u[f].lev = 0}
EntryFrames(u) == {f \in Frame : u[f] \in Place /\ u[f].lev # 0}
StackFrames(u) == {f \in Frame : \E p \in Proc : u[f] = StackOf(p)}
WithRoot(rt)     == {s \in Space : rt[s] # NoFrame}
WithStack(ks)    == {p \in Proc : ks[p] # NoFrame}

\* A set of frames is finite.
LEMMA SomeFrames == \A S : S \subseteq Frame => IsFiniteSet(S) /\ Cardinality(S) \in Nat
BY FramesFinite, FS_Subset, FS_CardinalityType

\* Every mm has one directory.
LEMMA RootCount ==
  ASSUME NEW u, NEW w, NEW m, NEW r, NEW fr, NEW rt, NEW ks, NEW ls,
         Uses(u, w, m, r, fr, rt, ks, ls)
  PROVE  /\ Cardinality(RootFrames(u)) = Cardinality(WithRoot(rt))
         /\ \A f : f \in RootFrames(u) <=> \E s \in WithRoot(rt) : f = rt[s]
<1>1. /\ u \in [Frame -> Tag] /\ rt \in [Space -> Frame0] /\ Marks(u, w) /\ Roots(w, rt)
  BY DEF Uses, Kinds
<1>2. PICK h : h = [f \in RootFrames(u) |-> u[f].s]
  OBVIOUS
<1>3. ASSUME NEW f \in RootFrames(u)
      PROVE  f \in Frame /\ u[f].s \in WithRoot(rt) /\ rt[u[f].s] = f
  <2>1. f \in Frame /\ u[f] \in Place /\ u[f].lev = 0
    BY DEF RootFrames
  <2>2. u[f].s \in Space /\ u[f] = Root(u[f].s)
    BY <2>1, Trees
  <2>3. w[u[f]] = f
    BY <1>1, <2>1 DEF Marks
  <2>4. w[Root(u[f].s)] = rt[u[f].s]
    BY <1>1, <2>2 DEF Roots
  <2>5. rt[u[f].s] = f
    BY <2>2, <2>3, <2>4
  <2>6. f # NoFrame
    BY <2>1, TableSizes DEF Frame, NoFrame
  <2>. QED BY <2>1, <2>2, <2>5, <2>6 DEF WithRoot
<1>4. ASSUME NEW s \in WithRoot(rt)
      PROVE  rt[s] \in RootFrames(u) /\ u[rt[s]].s = s
  <2>1. s \in Space /\ rt[s] # NoFrame
    BY DEF WithRoot
  <2>2. w[Root(s)] = rt[s] /\ Root(s) \in Place /\ Root(s).lev = 0 /\ Root(s).s = s
    BY <1>1, <2>1, Trees DEF Roots
  <2>3. rt[s] \in Frame
    BY <1>1, <2>1 DEF Frame0
  <2>4. u[rt[s]] = Root(s)
    BY <1>1, <2>1, <2>2 DEF Marks
  <2>. QED BY <2>2, <2>3, <2>4 DEF RootFrames
<1>5. h \in [RootFrames(u) -> WithRoot(rt)]
  BY <1>2, <1>3
<1>6. \A x, y \in RootFrames(u) : h[x] = h[y] => x = y
  BY <1>2, <1>3
<1>7. \A y \in WithRoot(rt) : \E x \in RootFrames(u) : h[x] = y
  BY <1>2, <1>4
<1>8. IsFiniteSet(RootFrames(u))
  BY SomeFrames DEF RootFrames
<1>. QED BY <1>3, <1>4, <1>5, <1>6, <1>7, <1>8, OneToOne

\* Every entry has its own frame.
LEMMA EntryCount ==
  ASSUME NEW u, NEW w, NEW m, NEW r, NEW fr, NEW rt, NEW ks, NEW ls,
         Uses(u, w, m, r, fr, rt, ks, ls), NEW E, \A x : x \in E <=> IsEntry(m, rt, x)
  PROVE  /\ Cardinality(EntryFrames(u)) = Cardinality(E)
         /\ \A f : f \in EntryFrames(u) <=> \E x \in E : f = x[4]
<1>1. u \in [Frame -> Tag] /\ w \in [Place -> Frame0] /\ Marks(u, w)
  BY DEF Uses, Kinds
<1>2. PICK h : h = [f \in EntryFrames(u) |-> Label(u[f], f)]
  OBVIOUS
<1>3. ASSUME NEW f \in EntryFrames(u)
      PROVE  f \in Frame /\ Label(u[f], f) \in E /\ Label(u[f], f)[4] = f
  <2>1. f \in Frame /\ u[f] \in Place /\ u[f].lev # 0
    BY DEF EntryFrames
  <2>2. w[u[f]] = f
    BY <1>1, <2>1 DEF Marks
  <2>3. f # NoFrame
    BY <2>1, TableSizes DEF Frame, NoFrame
  <2>4. PICK pl \in Place : pl = u[f]
    BY <2>1
  <2>5. pl.lev # 0 /\ w[pl] = f /\ w[pl] # NoFrame
    BY <2>1, <2>2, <2>3, <2>4
  <2>6. IsEntry(m, rt, Label(pl, w[pl])) /\ Label(pl, w[pl])[4] = w[pl]
    BY <2>5, PlaceEntry
  <2>. QED BY <2>1, <2>4, <2>5, <2>6
<1>4. ASSUME NEW x \in E
      PROVE  x[4] \in EntryFrames(u) /\ x = Label(u[x[4]], x[4])
  <2>1. IsEntry(m, rt, x)
    OBVIOUS
  <2>2. PICK pl \in Place : pl.lev # 0 /\ w[pl] # NoFrame /\ x = Label(pl, w[pl])
    BY <2>1, EntryPlace
  <2>3. x[4] = w[pl]
    BY <2>2, PlaceEntry
  <2>4. w[pl] \in Frame
    BY <1>1, <2>2 DEF Frame0
  <2>5. u[w[pl]] = pl
    BY <1>1, <2>2 DEF Marks
  <2>. QED BY <2>2, <2>3, <2>4, <2>5 DEF EntryFrames
<1>5. h \in [EntryFrames(u) -> E]
  BY <1>2, <1>3
<1>6. \A x, y \in EntryFrames(u) : h[x] = h[y] => x = y
  <2>. SUFFICES ASSUME NEW x \in EntryFrames(u), NEW y \in EntryFrames(u), h[x] = h[y]
                PROVE  x = y
    OBVIOUS
  <2>1. h[x] = Label(u[x], x) /\ h[y] = Label(u[y], y)
    BY <1>2
  <2>2. Label(u[x], x)[4] = x /\ Label(u[y], y)[4] = y
    BY <1>3
  <2>. QED BY <2>1, <2>2
<1>7. \A y \in E : \E x \in EntryFrames(u) : h[x] = y
  BY <1>2, <1>4
<1>8. IsFiniteSet(EntryFrames(u))
  BY SomeFrames DEF EntryFrames
<1>. QED BY <1>3, <1>4, <1>5, <1>6, <1>7, <1>8, OneToOne

\* Kernel stacks do not share frames.
LEMMA StackCount ==
  ASSUME NEW u, NEW w, NEW m, NEW r, NEW fr, NEW rt, NEW ks, NEW ls,
         Uses(u, w, m, r, fr, rt, ks, ls)
  PROVE  Cardinality(StackFrames(u)) = KSTACKPAGE * Cardinality(WithStack(ks))
<1>1. /\ u \in [Frame -> Tag] /\ ks \in [Proc -> Frame0] /\ Stacks(u, ks)
  BY DEF Uses, Kinds
<1>2. KSTACKPAGE \in Nat \ {0}
  BY TableSizes, VmmAssumption
<1>3. PICK n, D : n = KSTACKPAGE /\ D = 0 .. n - 1
  OBVIOUS
<1>4. n \in Nat \ {0} /\ IsFiniteSet(D) /\ Cardinality(D) = n
  <2>1. 0 \in Int /\ n - 1 \in Int /\ 0 <= n - 1 /\ n \in Nat \ {0}
    BY <1>2, <1>3
  <2>. QED BY <1>3, <2>1, FS_Interval
<1>5. ASSUME NEW p \in WithStack(ks), NEW d \in D
      PROVE  ks[p] + d \in StackFrames(u) /\ u[ks[p] + d] = StackOf(p)
  <2>1. p \in Proc /\ ks[p] # NoFrame /\ ks[p] \in Frame
    BY <1>1 DEF WithStack, Frame0
  <2>2. ks[p] + KSTACKPAGE - 1 \in Frame
    BY <1>1, <2>1 DEF Stacks
  <2>3. PICK k \in Nat, nf \in Nat : k = ks[p] /\ nf = NFrame /\ 1 <= k
    BY <2>1, TableSizes DEF Frame
  <2>4. k + n - 1 \in 1 .. nf
    BY <1>3, <2>2, <2>3 DEF Frame
  <2>5. k + d \in 1 .. nf /\ k + d \in k .. k + n - 1
    BY <1>3, <1>4, <2>3, <2>4
  <2>6. k + d \in Frame /\ InStack(ks, p, k + d)
    BY <1>3, <2>1, <2>3, <2>5 DEF Frame, InStack
  <2>7. u[k + d] = StackOf(p)
    BY <1>1, <2>1, <2>6 DEF Stacks
  <2>. QED BY <2>1, <2>3, <2>6, <2>7 DEF StackFrames
<1>6. ASSUME NEW f \in StackFrames(u)
      PROVE  \E p \in WithStack(ks) : u[f] = StackOf(p) /\ \E d \in D : f = ks[p] + d
  <2>1. PICK p \in Proc : f \in Frame /\ u[f] = StackOf(p)
    BY DEF StackFrames
  <2>2. InStack(ks, p, f)
    BY <1>1, <2>1 DEF Stacks
  <2>3. ks[p] # NoFrame /\ ks[p] \in Frame /\ f \in ks[p] .. ks[p] + KSTACKPAGE - 1
    BY <1>1, <2>2 DEF InStack, Frame0
  <2>4. PICK k \in Nat, d \in Int : k = ks[p] /\ d = f - k
    BY <2>1, <2>3, TableSizes DEF Frame
  <2>5. d \in D /\ f = k + d
    BY <1>3, <1>4, <2>3, <2>4
  <2>. QED BY <2>1, <2>3, <2>4, <2>5 DEF WithStack
<1>7. ASSUME NEW p \in WithStack(ks), NEW q \in WithStack(ks), NEW d \in D, NEW e \in D,
             ks[p] + d = ks[q] + e
      PROVE  p = q /\ d = e
  <2>1. u[ks[p] + d] = StackOf(p) /\ u[ks[q] + e] = StackOf(q)
    BY <1>5
  <2>2. p = q
    BY <1>7, <2>1, OtherUses DEF WithStack
  <2>3. PICK k \in Nat : k = ks[p]
    BY <1>1, TableSizes DEF WithStack, Frame0, Frame
  <2>4. d \in Int /\ e \in Int /\ k + d = k + e
    BY <1>3, <1>4, <1>7, <2>2, <2>3
  <2>. QED BY <2>2, <2>4
<1>8. IsFiniteSet(WithStack(ks)) /\ Cardinality(WithStack(ks)) \in Nat
  <2>1. PICK b : b = [p \in WithStack(ks) |-> ks[p] + 0]
    OBVIOUS
  <2>2. 0 \in D
    BY <1>3, <1>4
  <2>3. b \in [WithStack(ks) -> StackFrames(u)]
    BY <1>5, <2>1, <2>2
  <2>4. \A p, q \in WithStack(ks) : b[p] = b[q] => p = q
    BY <1>7, <2>1, <2>2
  <2>5. b \in Injection(WithStack(ks), StackFrames(u))
    BY <2>3, <2>4 DEF Injection, IsInjective
  <2>6. IsFiniteSet(StackFrames(u))
    BY SomeFrames DEF StackFrames
  <2>. QED BY <2>5, <2>6, FS_Injection, FS_CardinalityType
<1>9. PICK P : P = WithStack(ks) \X D
  OBVIOUS
<1>10. IsFiniteSet(P) /\ Cardinality(P) = Cardinality(WithStack(ks)) * n
  BY <1>4, <1>8, <1>9, FS_Product
<1>11. PICK h : h = [x \in P |-> ks[x[1]] + x[2]]
  OBVIOUS
<1>12. \A x \in P : x[1] \in WithStack(ks) /\ x[2] \in D /\ x = <<x[1], x[2]>>
  BY <1>9
<1>13. h \in [P -> StackFrames(u)]
  BY <1>5, <1>11, <1>12
<1>14. \A x, y \in P : h[x] = h[y] => x = y
  <2>. SUFFICES ASSUME NEW x \in P, NEW y \in P, h[x] = h[y] PROVE x = y
    OBVIOUS
  <2>1. ks[x[1]] + x[2] = ks[y[1]] + y[2]
    BY <1>11
  <2>2. x[1] = y[1] /\ x[2] = y[2]
    BY <1>7, <1>12, <2>1
  <2>. QED BY <1>12, <2>2
<1>15. \A f \in StackFrames(u) : \E x \in P : h[x] = f
  <2>. SUFFICES ASSUME NEW f \in StackFrames(u) PROVE \E x \in P : h[x] = f
    OBVIOUS
  <2>1. PICK p \in WithStack(ks), d \in D : f = ks[p] + d
    BY <1>6
  <2>2. <<p, d>> \in P /\ <<p, d>>[1] = p /\ <<p, d>>[2] = d
    BY <1>9
  <2>3. h[<<p, d>>] = f
    BY <1>11, <2>1, <2>2
  <2>. QED BY <2>2, <2>3
<1>16. Cardinality(StackFrames(u)) = Cardinality(P)
  BY <1>10, <1>13, <1>14, <1>15, OneToOne
<1>17. \A a, b \in Nat : a * b = b * a
  OBVIOUS
<1>. QED BY <1>3, <1>4, <1>8, <1>10, <1>16, <1>17

\* Disjoint sets of frames.
LEMMA Disjoint ==
  ASSUME NEW S, NEW T, S \subseteq Frame, T \subseteq Frame, \A f \in S : f \notin T
  PROVE  /\ Cardinality(S \cup T) = Cardinality(S) + Cardinality(T)
         /\ Cardinality(S) \in Nat /\ Cardinality(T) \in Nat
<1>1. S \cap T = {}
  OBVIOUS
<1>2. IsFiniteSet(S) /\ IsFiniteSet(T) /\ Cardinality(S) \in Nat /\ Cardinality(T) \in Nat
  BY SomeFrames
<1>3. Cardinality(S \cap T) = 0
  BY <1>1, FS_EmptySet
<1>4. Cardinality(S \cup T) = Cardinality(S) + Cardinality(T) - Cardinality(S \cap T)
  BY <1>2, FS_Union
<1>. QED BY <1>2, <1>3, <1>4

\* Every frame has one use.
LEMMA Partition ==
  ASSUME NEW u, NEW w, NEW m, NEW r, NEW fr, NEW rt, NEW ks, NEW ls,
         Uses(u, w, m, r, fr, rt, ks, ls)
  PROVE  /\ Frame = fr \cup RootFrames(u) \cup StackFrames(u) \cup EntryFrames(u) \cup ls
         /\ NFrame = Cardinality(fr) + Cardinality(RootFrames(u)) + Cardinality(EntryFrames(u))
                     + Cardinality(StackFrames(u)) + Cardinality(ls)
<1>1. /\ u \in [Frame -> Tag] /\ fr \subseteq Frame /\ ls \subseteq Frame
      /\ \A f \in Frame : (f \in fr <=> u[f] = Spare) /\ (f \in ls <=> u[f] = Gone)
  BY DEF Uses, Kinds, Rest
<1>2. PICK R, E, K : R = RootFrames(u) /\ E = EntryFrames(u) /\ K = StackFrames(u)
  OBVIOUS
<1>3. /\ R \subseteq Frame /\ E \subseteq Frame /\ K \subseteq Frame
      /\ \A f \in Frame : /\ f \in R <=> u[f] \in Place /\ u[f].lev = 0
                          /\ f \in E <=> u[f] \in Place /\ u[f].lev # 0
                          /\ f \in K <=> \E p \in Proc : u[f] = StackOf(p)
  BY <1>2 DEF RootFrames, EntryFrames, StackFrames
<1>4. \A f \in Frame : f \in fr \/ f \in ls \/ f \in R \/ f \in E \/ f \in K
  BY <1>1, <1>3 DEF Tag
<1>5. /\ \A f \in fr : f \notin R /\ f \notin E /\ f \notin K /\ f \notin ls
      /\ \A f \in R : f \notin E /\ f \notin K /\ f \notin ls
      /\ \A f \in E : f \notin K /\ f \notin ls
      /\ \A f \in K : f \notin ls
  BY <1>1, <1>3, OtherUses
<1>6. PICK A, B, C : A = K \cup ls /\ B = E \cup A /\ C = R \cup B
  OBVIOUS
<1>7. A \subseteq Frame /\ B \subseteq Frame /\ C \subseteq Frame
  BY <1>1, <1>3, <1>6
<1>8. Cardinality(A) = Cardinality(K) + Cardinality(ls)
      /\ Cardinality(K) \in Nat /\ Cardinality(ls) \in Nat
  BY <1>1, <1>3, <1>5, <1>6, Disjoint
<1>9. Cardinality(B) = Cardinality(E) + Cardinality(A)
      /\ Cardinality(E) \in Nat /\ Cardinality(A) \in Nat
  <2>1. \A f \in E : f \notin A
    BY <1>5, <1>6
  <2>. QED BY <1>3, <1>6, <1>7, <2>1, Disjoint
<1>10. Cardinality(C) = Cardinality(R) + Cardinality(B)
       /\ Cardinality(R) \in Nat /\ Cardinality(B) \in Nat
  <2>1. \A f \in R : f \notin B
    BY <1>5, <1>6
  <2>. QED BY <1>3, <1>6, <1>7, <2>1, Disjoint
<1>11. Cardinality(fr \cup C) = Cardinality(fr) + Cardinality(C)
       /\ Cardinality(fr) \in Nat /\ Cardinality(C) \in Nat
  <2>1. \A f \in fr : f \notin C
    BY <1>5, <1>6
  <2>. QED BY <1>1, <1>7, <2>1, Disjoint
<1>12. Frame = fr \cup C
  BY <1>1, <1>4, <1>6, <1>7
<1>13. NFrame = Cardinality(fr) + Cardinality(R) + Cardinality(E) + Cardinality(K) + Cardinality(ls)
  BY <1>8, <1>9, <1>10, <1>11, <1>12, FramesFinite
<1>14. Frame = fr \cup R \cup K \cup E \cup ls
  BY <1>6, <1>12
<1>. QED BY <1>2, <1>13, <1>14

\* The entries are those of the memory as it is.
LEMMA EntriesAre ==
  ASSUME mm \in [Space -> Mm \cup {NULL}]
  PROVE  \A x : x \in Entries <=> IsEntry(mem, RootsOf(mm), x)
<1>1. PICK rt : rt = RootsOf(mm)
  OBVIOUS
<1>2. \A s \in Space : s \in Spaces <=> rt[s] # NoFrame
  BY <1>1, RootsAre DEF Spaces
<1>3. \A s \in Spaces : s \in Space /\ rt[s] = mm[s].pgdir
  BY <1>1, RootsAre DEF Spaces
<1>4. USERTOP \div PTSIZE = NTable
  BY DEF NTable
<1>. DEFINE E1 == {<<1, s, e, mem[mm[s].pgdir][e]>> : s \in Spaces, e \in Index}
             E2 == {<<0, s, t, Pt(mm[s].pgdir, t * PTSIZE)>> : s \in Spaces, t \in 0 .. USERTOP \div PTSIZE - 1}
             E3 == {<<2, s, la, Pte(mm[s].pgdir, la)>> : s \in Spaces, la \in Page}
<1>6. \A x : x \in E1 <=> \E s \in Spaces : \E e \in Index : x = DirEntry(mem, rt, s, e)
  BY <1>3 DEF DirEntry
<1>7. \A x : x \in E2 <=> \E s \in Spaces : \E t \in 0 .. NTable - 1 : x = TableEntry(mem, rt, s, t)
  <2>1. \A s \in Spaces : \A t \in 0 .. NTable - 1 :
          TableEntry(mem, rt, s, t) = <<0, s, t, Pt(mm[s].pgdir, t * PTSIZE)>>
    BY <1>3, Walks DEF TableEntry
  <2>2. E2 = {<<0, s, t, Pt(mm[s].pgdir, t * PTSIZE)>> : s \in Spaces, t \in 0 .. NTable - 1}
    BY <1>4
  <2>. QED BY <2>1, <2>2
<1>8. \A x : x \in E3 <=> \E s \in Spaces : \E la \in Page : x = PageEntry(mem, rt, s, la)
  <2>1. \A s \in Spaces : \A la \in Page :
          PageEntry(mem, rt, s, la) = <<2, s, la, Pte(mm[s].pgdir, la)>>
    BY <1>3, Walks DEF PageEntry
  <2>. QED BY <2>1
<1>9. \A x : x \in Entries <=> x[4] # NoFrame /\ (x \in E1 \/ x \in E2 \/ x \in E3)
  BY DEF Entries
<1>10. \A x : IsEntry(mem, rt, x) <=>
         /\ x[4] # NoFrame
         /\ \E s \in Spaces : \/ \E e \in Index : x = DirEntry(mem, rt, s, e)
                              \/ \E t \in 0 .. NTable - 1 : x = TableEntry(mem, rt, s, t)
                              \/ \E la \in Page : x = PageEntry(mem, rt, s, la)
  BY <1>2, <1>3 DEF IsEntry
<1>. HIDE DEF E1, E2, E3
<1>11. \A x : x \in Entries <=> IsEntry(mem, rt, x)
  BY <1>6, <1>7, <1>8, <1>9, <1>10
<1>. QED BY <1>1, <1>11

\* Every frame has exactly one use: it is free, a directory, part of a kernel
\* stack, behind one entry, with a count of 1, or one of the lost tables.
THEOREM FrameUses == Spec => []FramesExact
<1>1. IInv => FramesExact
  <2>. SUFFICES ASSUME IInv PROVE FramesExact
    OBVIOUS
  <2>1. mm \in [Space -> Mm \cup {NULL}] /\ Fits(mem, ref, free, RootsOf(mm), kstack, lost)
    BY DEF IInv
  <2>2. PICK rt, E : rt = RootsOf(mm) /\ E = Entries
    OBVIOUS
  <2>3. PICK u, w : Uses(u, w, mem, ref, free, rt, kstack, lost)
    BY <2>1, <2>2 DEF Fits
  <2>4. \A x : x \in E <=> IsEntry(mem, rt, x)
    BY <2>1, <2>2, EntriesAre
  <2>5. WithRoot(rt) = Spaces /\ \A s \in Spaces : rt[s] = mm[s].pgdir
    BY <2>1, <2>2, RootsAre DEF WithRoot, Spaces
  <2>6. RootFrames(u) = Pgdirs /\ Cardinality(RootFrames(u)) = Cardinality(Spaces)
    <3>1. \A f : f \in RootFrames(u) <=> \E s \in WithRoot(rt) : f = rt[s]
      BY <2>3, RootCount
    <3>2. \A f : f \in Pgdirs <=> \E s \in Spaces : f = mm[s].pgdir
      BY DEF Pgdirs
    <3>3. RootFrames(u) = Pgdirs
      BY <2>5, <3>1, <3>2
    <3>. QED BY <2>3, <2>5, <3>3, RootCount
  <2>7. EntryFrames(u) = {e[4] : e \in E} /\ Cardinality(EntryFrames(u)) = Cardinality(E)
    <3>1. \A f : f \in EntryFrames(u) <=> \E x \in E : f = x[4]
      BY <2>3, <2>4, EntryCount
    <3>. QED BY <2>3, <2>4, <3>1, EntryCount
  <2>8. StackFrames(u) = Kstacks
    <3>1. Stacks(u, kstack) /\ kstack \in [Proc -> Frame0]
      BY <2>3 DEF Uses, Kinds
    <3>2. ASSUME NEW p \in Proc PROVE \A f : f \in Kstack(p) <=> f \in Frame /\ u[f] = StackOf(p)
      <4>1. \A f \in Frame : u[f] = StackOf(p) <=> f \in Kstack(p)
        BY <3>1 DEF Stacks, InStack, Kstack
      <4>2. Kstack(p) \subseteq Frame
        <5>1. CASE kstack[p] = NoFrame
          BY <5>1 DEF Kstack
        <5>2. CASE kstack[p] # NoFrame
          <6>1. PICK k, e, n : k = kstack[p] /\ n = KSTACKPAGE /\ e = k + n - 1
            OBVIOUS
          <6>2. k \in Frame /\ e \in Frame
            BY <3>1, <5>2, <6>1 DEF Stacks, Frame0
          <6>3. k .. e \subseteq Frame
            BY <6>2, TableSizes DEF Frame
          <6>. QED BY <5>2, <6>1, <6>3 DEF Kstack
        <5>. QED BY <5>1, <5>2
      <4>. QED BY <4>1, <4>2
    <3>3. \A f : f \in Kstacks <=> \E p \in Proc : f \in Kstack(p)
      BY DEF Kstacks
    <3>. QED BY <3>2, <3>3 DEF StackFrames
  <2>9. Cardinality(StackFrames(u)) = KSTACKPAGE * Cardinality({p \in Proc : kstack[p] # NoFrame})
    BY <2>3, StackCount DEF WithStack
  <2>10. /\ Frame = free \cup RootFrames(u) \cup StackFrames(u) \cup EntryFrames(u) \cup lost
         /\ NFrame = Cardinality(free) + Cardinality(RootFrames(u)) + Cardinality(EntryFrames(u))
                     + Cardinality(StackFrames(u)) + Cardinality(lost)
    BY <2>3, Partition
  <2>11. \A f \in EntryFrames(u) : ref[f] = 1
    BY <2>3 DEF Uses, Refs, EntryFrames
  <2>. QED BY <2>2, <2>6, <2>7, <2>8, <2>9, <2>10, <2>11 DEF FramesExact
<1>. QED BY <1>1, Inductive, PTL

-----------------------------------------------------------------------------
(* Vmm implements MemSpec.                                                 *)

\* The view, of any state.
ViewOf(ms, m) ==
  [p \in Proc |-> [la \in Page |->
     IF ms[p] = NULL THEN NULL
     ELSE IF ms[p].mm_count = 0 \/ WalkP(m, ms[p].pgdir, la) = NoFrame THEN NULL
     ELSE m[WalkP(m, ms[p].pgdir, la)]]]

\* It is what Vmm calls the view, in both states of a step.
LEMMA ViewIs == View = ViewOf(mm, mem) /\ View' = ViewOf(mm', mem')
<1>1. \A g, la : Pte(g, la) = WalkP(mem, g, la)
  BY Walks
<1>2. View = ViewOf(mm, mem)
  BY <1>1 DEF View, ViewOf
<1>3. \A g, la : Pte(g, la)' = WalkP(mem', g, la)
  BY DEF Pte, Pt, Pd0, WalkP, WalkT, WalkD
<1>4. View' = ViewOf(mm', mem')
  BY <1>3 DEF View, ViewOf
<1>. QED BY <1>2, <1>4

\* What the page tables lead to is what users see.
LEMMA ViewLooks ==
  ASSUME NEW ms \in [Space -> Mm \cup {NULL}], NEW m, NEW r, NEW fr, NEW ks, NEW ls,
         Fits(m, r, fr, RootsOf(ms), ks, ls)
  PROVE  /\ ViewOf(ms, m) = Looks(ms, m)
         /\ ViewOf(ms, m) \in [Proc -> [Page -> Value \cup {NULL}]]
<1>1. PICK h, rt : h = Contents(m, RootsOf(ms)) /\ rt = RootsOf(ms)
  OBVIOUS
<1>2. /\ h \in [Space -> [Page -> Value \cup {NULL}]]
      /\ \A s \in Space, la \in Page : rt[s] # NoFrame =>
           /\ WalkP(m, rt[s], la) = NoFrame => h[s][la] = NULL
           /\ WalkP(m, rt[s], la) # NoFrame => h[s][la] = m[WalkP(m, rt[s], la)]
  BY <1>1, FitsFacts
<1>3. \A p \in Proc : p \in Space /\ (ms[p] # NULL => rt[p] = ms[p].pgdir /\ rt[p] # NoFrame)
  <2>1. Proc \subseteq Space
    BY DEF Space
  <2>. QED BY <1>1, <2>1, RootsAre
<1>4. Looks(ms, m) = Seen(ms, h)
  BY <1>1 DEF Looks
<1>5. ASSUME NEW p \in Proc, NEW la \in Page PROVE ViewOf(ms, m)[p][la] = Seen(ms, h)[p][la]
  <2>1. CASE ms[p] = NULL
    BY <2>1 DEF ViewOf, Seen, Unseen
  <2>2. CASE ms[p] # NULL
    <3>1. rt[p] = ms[p].pgdir /\ p \in Space /\ rt[p] # NoFrame
      BY <1>3, <2>2
    <3>2. /\ WalkP(m, rt[p], la) = NoFrame => h[p][la] = NULL
          /\ WalkP(m, rt[p], la) # NoFrame => h[p][la] = m[WalkP(m, rt[p], la)]
      BY <1>2, <3>1
    <3>. QED BY <2>2, <3>1, <3>2 DEF ViewOf, Seen, Unseen
  <2>. QED BY <2>1, <2>2
<1>6. ViewOf(ms, m) = Seen(ms, h)
  <2>1. \A p \in Proc : /\ ViewOf(ms, m)[p] = [la \in Page |-> ViewOf(ms, m)[p][la]]
                        /\ Seen(ms, h)[p] = [la \in Page |-> Seen(ms, h)[p][la]]
    BY DEF ViewOf, Seen
  <2>2. \A p \in Proc : ViewOf(ms, m)[p] = Seen(ms, h)[p]
    BY <1>5, <2>1
  <2>3. /\ ViewOf(ms, m) = [p \in Proc |-> ViewOf(ms, m)[p]]
        /\ Seen(ms, h) = [p \in Proc |-> Seen(ms, h)[p]]
    BY DEF ViewOf, Seen
  <2>. QED BY <2>2, <2>3
<1>. QED BY <1>2, <1>4, <1>6, SeenType

\* What users may see of a step is what MemSpec allows.
LEMMA AnswersAllowed ==
  ASSUME View \in [Proc -> [Page -> Value \cup {NULL}]],
         View' \in [Proc -> [Page -> Value \cup {NULL}]],
         \/ asked' = NULL /\ Moves(View, View')
         \/ \E p \in Proc : asked' = <<p>> /\ GaveUp(View, View', p)
         \/ \E p \in Proc, la \in Page, v \in Value :
              asked' = <<p, la, v>> /\ Wrote(View, View', p, la, v)
         \/ asked' = asked /\ View' = View
  PROVE  [M!Next]_<<View, asked>>
<1>1. ASSUME NEW p \in Proc, NEW row, Alters(View, View', p, row)
      PROVE  View'[p] = row /\ M!OnlyOf(p)
  BY <1>1 DEF Alters, M!OnlyOf
<1>2. M!NoMemory = Blank
  BY DEF M!NoMemory, Blank
<1>3. CASE asked' = NULL /\ View' = View
  BY <1>3 DEF M!Hide, M!Next
<1>4. ASSUME NEW p \in Proc, asked' = NULL,
             Comes(View, View[p], View'[p]), Alters(View, View', p, View'[p])
      PROVE  M!Next
  <2>1. M!OnlyOf(p)
    BY <1>1, <1>4
  <2>2. M!Touch(p) \/ M!Load(p) \/ \E t \in Proc : M!Fork(p, t)
    <3>1. CASE \E la \in Page, x \in Value :
                 View[p][la] = NULL /\ View'[p] = [View[p] EXCEPT ![la] = x]
      BY <3>1 DEF M!Touch
    <3>2. CASE View[p] = Blank /\ \E t \in Proc : View'[p] = View[t]
      BY <1>2, <3>2 DEF M!Fork
    <3>3. CASE View[p] = Blank /\ \E img \in Images : \A pg \in DOMAIN img : View'[p][pg] = img[pg]
      <4>1. View'[p] \in M!Contents
        BY DEF M!Contents
      <4>. QED BY <1>2, <3>3, <4>1 DEF M!Load
    <3>. QED BY <1>4, <3>1, <3>2, <3>3 DEF Comes
  <2>. QED BY <1>4, <2>1, <2>2 DEF M!Bring, M!Next
<1>5. ASSUME NEW p \in Proc, asked' = <<p>>, GaveUp(View, View', p)
      PROVE  M!Next
  <2>1. View'[p] = Blank /\ M!OnlyOf(p)
    BY <1>1, <1>5 DEF GaveUp
  <2>. QED BY <1>2, <1>5, <2>1 DEF M!Drop, M!Next
<1>6. ASSUME NEW p \in Proc, NEW la \in Page, NEW v \in Value,
             asked' = <<p, la, v>>, Wrote(View, View', p, la, v)
      PROVE  M!Next
  <2>1. View[p][la] # NULL /\ View'[p] = [View[p] EXCEPT ![la] = v] /\ M!OnlyOf(p)
    BY <1>1, <1>6 DEF Wrote
  <2>2. M!Write(p, la, v)
    BY <1>6, <2>1 DEF M!Write
  <2>. QED BY <2>2 DEF M!Next
<1>7. CASE asked' = NULL /\ Moves(View, View')
  BY <1>3, <1>4, <1>7 DEF Moves
<1>. QED BY <1>5, <1>6, <1>7

\* The inductive invariant of the refinement: what is built is right too.
Built == IInv /\ Made(mm, mem, op)

\* At boot nothing is built.
LEMMA InitBuilt == Init => Built
<1>. SUFFICES ASSUME Init PROVE Built
  OBVIOUS
<1>1. op = Idle
  BY DEF Init
<1>2. Made(mm, mem, op)
  BY <1>1, IdleMakes DEF Made
<1>. QED BY <1>2, InitHolds DEF Built

\* A step keeps it, and is a step or a stutter of MemSpec.
LEMMA BuiltMoves == Built /\ [Next]_vars => Built' /\ [M!Next]_<<View, asked>>
<1>. SUFFICES ASSUME Built, [Next]_vars PROVE Built' /\ [M!Next]_<<View, asked>>
  OBVIOUS
<1>1. IInv' /\ Answered
  BY StepKeeps DEF Built
<1>2. PICK v, v2 : v = Looks(mm, mem) /\ v2 = Looks(mm', mem')
  OBVIOUS
<1>9. /\ Made(mm', mem', op')
      /\ \/ asked' = NULL /\ Moves(v, v2)
         \/ \E p \in Proc : asked' = <<p>> /\ GaveUp(v, v2, p)
         \/ \E p \in Proc, la \in Page, x \in Value :
              asked' = <<p, la, x>> /\ Wrote(v, v2, p, la, x)
         \/ asked' = asked /\ v2 = v
  BY <1>1, <1>2 DEF Built, Answered
<1>3. /\ mm \in [Space -> Mm \cup {NULL}]
      /\ Fits(mem, ref, free, RootsOf(mm), kstack, lost)
  BY DEF Built, IInv
<1>4. /\ mm' \in [Space -> Mm \cup {NULL}]
      /\ Fits(mem', ref', free', RootsOf(mm'), kstack', lost')
  BY <1>1 DEF IInv
<1>5. View = v /\ View \in [Proc -> [Page -> Value \cup {NULL}]]
  BY <1>2, <1>3, ViewIs, ViewLooks
<1>6. View' = v2 /\ View' \in [Proc -> [Page -> Value \cup {NULL}]]
  BY <1>2, <1>4, ViewIs, ViewLooks
<1>7. [M!Next]_<<View, asked>>
  BY <1>5, <1>6, <1>9, AnswersAllowed
<1>8. Made(mm, mem, op)'
  BY <1>9
<1>. QED BY <1>1, <1>7, <1>8 DEF Built

\* A page holds what its process last wrote to it, what its parent held at the
\* fork, or what it was loaded from the program with, and nobody sees what
\* another process writes, for any number of processes, frames, programs and
\* pages and wherever memory runs out. (do_pgfault, dup_mmap, load_icode,
\* exit_mmap)
THEOREM VmmImplementsMem == Spec => ImplementsMemSpec
<1>1. Init => M!Init
  <2>. SUFFICES ASSUME Init PROVE M!Init
    OBVIOUS
  <2>1. \A p \in Proc : mm[p] = NULL
    BY DEF Init, Space
  <2>2. View = [p \in Proc |-> [la \in Page |-> NULL]]
    BY <2>1 DEF View
  <2>. QED BY <2>2 DEF Init, M!Init, M!NoMemory
<1>2. Built /\ [Next]_vars => Built'
  BY BuiltMoves
<1>3. Built /\ [Next]_vars => [M!Next]_<<View, asked>>
  BY BuiltMoves
<1>. QED BY <1>1, <1>2, <1>3, InitBuilt, PTL DEF Spec, ImplementsMemSpec, M!Spec
==============================================================================
