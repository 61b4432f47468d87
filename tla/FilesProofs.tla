----------------------------- MODULE FilesProofs -----------------------------
(***************************************************************************)
(* Proofs about Files, for any number of processes, files, devices and     *)
(* tables of any size: the counts of the inodes are what refers to them,   *)
(* every table is owned, and no assertion fails.                           *)
(***************************************************************************)
EXTENDS Files, FiniteSetTheorems, TLAPS

Live(p) == state[p] = "RUNNABLE"

\* The table that is being destroyed has let go of its directory.
Destroys(t) == op.kind = "destroy" /\ filesp[op.proc] = t

\* TablesOwned, process by process and table by table.
Ownership ==
  /\ \A p, q \in Proc : Live(p) /\ Live(q) /\ filesp[p] = filesp[q] => p = q
  /\ \A p \in Proc : Live(p) =>
       /\ filesp[p] \in used /\ filesp[p] \notin abandoned
       /\ files_count[filesp[p]] = IF Destroys(filesp[p]) THEN 0 ELSE 1
  /\ abandoned \subseteq used
  /\ \A t \in used : \/ \E p \in Proc : Live(p) /\ filesp[p] = t
                     \/ t \in abandoned
                     \/ op.kind = "dup" /\ t = op.table

\* The process that runs the operation lives, and the table of a child that is
\* not there yet is nobody's.
RunningOp ==
  \/ op = Idle
  \/ \E c, p \in Proc, t \in used :
       /\ op = [kind |-> "dup", proc |-> c, parent |-> p, table |-> t]
       /\ state[c] = "NONE" /\ Live(p) /\ mm[p]
       /\ files_count[t] = 0 /\ t \notin abandoned
       /\ \A q \in Proc : Live(q) => filesp[q] # t
  \/ \E p \in Proc, n \in File :
       op = [kind |-> "closeall", proc |-> p, node |-> n] /\ Live(p)
  \/ \E p \in Proc, fd \in Fd :
       /\ op = [kind |-> "load", proc |-> p, fd |-> fd] /\ Live(p)
       /\ fd_array[filesp[p]][fd] # NULL
  \/ \E p \in Proc, k \in {"exit", "destroy"} :
       op = [kind |-> k, proc |-> p] /\ Live(p)

\* Every process stays in the root directory.
InRoot == \A t \in used : pwd[t] = Root

\* The counts of one inode are what refers to it.
Exact(n) ==
  /\ open_count[n] = Cardinality(Entries(n))
  /\ ref_count[n] = Cardinality(Entries(n)) + Cardinality(Dirs(n)) + Pins(n)
                    + (IF n \in File THEN lost[n] ELSE 0)

\* The inductive invariant.
FInv ==
  /\ TypeOK /\ Ownership /\ RunningOp /\ InRoot
  /\ \A n \in Node : Exact(n)
  /\ FileAssertsHold
-----------------------------------------------------------------------------
(* Entries and their number.                                               *)

\* The entries of the tables u, filled as f says, that refer to n.
EntriesOf(u, f, n) == {e \in u \X Fd : f[e[1]][e[2]] = n}

\* There are finitely many entries.
LEMMA EntriesFinite ==
  ASSUME NEW u \in SUBSET Table, NEW f, NEW n
  PROVE  IsFiniteSet(EntriesOf(u, f, n)) /\ Cardinality(EntriesOf(u, f, n)) \in Nat
<1>1. IsFiniteSet(Table) /\ FILES_STRUCT_NENTRY \in Nat
  BY FilesAssumption
<1>2. IsFiniteSet(u)
  BY <1>1, FS_Subset
<1>3. 0 \in Int /\ FILES_STRUCT_NENTRY - 1 \in Int
  BY <1>1
<1>4. IsFiniteSet(Fd)
  BY <1>3, FS_Interval DEF Fd
<1>5. IsFiniteSet(u \X Fd)
  BY <1>2, <1>4, FS_Product
<1>6. EntriesOf(u, f, n) \in SUBSET (u \X Fd)
  BY DEF EntriesOf
<1>7. IsFiniteSet(EntriesOf(u, f, n))
  BY <1>5, <1>6, FS_Subset
<1>. QED BY <1>7, FS_CardinalityType

\* NULL is no inode.
LEMMA NullIsNone == NULL \notin Node /\ NULL \notin Table
BY FilesAssumption DEF Node

\* The tables g are the tables f with v in the entry fd of t.
Puts(g, f, t, fd, v) == g = [f EXCEPT ![t][fd] = v]

\* In g one entry more than in f refers to n; in g one entry less.
OneMore(u, g, f, n) ==
  \A m \in Node : Cardinality(EntriesOf(u, g, m)) =
                   Cardinality(EntriesOf(u, f, m)) + (IF m = n THEN 1 ELSE 0)
OneLess(u, g, f, n) ==
  \A m \in Node : Cardinality(EntriesOf(u, g, m)) =
                   Cardinality(EntriesOf(u, f, m)) - (IF m = n THEN 1 ELSE 0)

\* An entry that was free refers to n: one more.
LEMMA AddEntry ==
  ASSUME NEW u \in SUBSET Table, NEW f \in [Table -> [Fd -> Node \cup {NULL}]],
         NEW t \in u, NEW fd \in Fd, NEW n \in Node, f[t][fd] = NULL,
         NEW g, Puts(g, f, t, fd, n)
  PROVE  /\ g \in [Table -> [Fd -> Node \cup {NULL}]]
         /\ OneMore(u, g, f, n)
<1>1. g \in [Table -> [Fd -> Node \cup {NULL}]]
  BY DEF Puts
<1>2. \A v \in Table, x \in Fd :
        g[v][x] = IF v = t /\ x = fd THEN n ELSE f[v][x]
  BY DEF Puts
<1>3. ASSUME NEW m \in Node
      PROVE  Cardinality(EntriesOf(u, g, m)) =
               Cardinality(EntriesOf(u, f, m)) + (IF m = n THEN 1 ELSE 0)
  <2>1. IsFiniteSet(EntriesOf(u, f, m)) /\ Cardinality(EntriesOf(u, f, m)) \in Nat
    BY EntriesFinite
  <2>2. <<t, fd>> \notin EntriesOf(u, f, m)
    BY NullIsNone DEF EntriesOf
  <2>3. CASE m = n
    <3>1. EntriesOf(u, g, m) = EntriesOf(u, f, m) \cup {<<t, fd>>}
      BY <1>2, <2>3 DEF EntriesOf
    <3>2. Cardinality(EntriesOf(u, f, m) \cup {<<t, fd>>}) = Cardinality(EntriesOf(u, f, m)) + 1
      BY <2>1, <2>2, FS_AddElement
    <3>. QED BY <2>3, <3>1, <3>2
  <2>4. CASE m # n
    <3>1. EntriesOf(u, g, m) = EntriesOf(u, f, m)
      BY <1>2, <2>2, <2>4 DEF EntriesOf
    <3>. QED BY <2>1, <2>4, <3>1
  <2>. QED BY <2>3, <2>4
<1>. QED BY <1>1, <1>3 DEF OneMore

\* An entry that referred to an inode is free: one less.
LEMMA DropEntry ==
  ASSUME NEW u \in SUBSET Table, NEW f \in [Table -> [Fd -> Node \cup {NULL}]],
         NEW t \in u, NEW fd \in Fd, NEW n \in Node, f[t][fd] = n,
         NEW g, Puts(g, f, t, fd, NULL)
  PROVE  /\ g \in [Table -> [Fd -> Node \cup {NULL}]]
         /\ Cardinality(EntriesOf(u, f, n)) > 0
         /\ OneLess(u, g, f, n)
<1>1. g \in [Table -> [Fd -> Node \cup {NULL}]]
  BY DEF Puts
<1>2. \A v \in Table, x \in Fd :
        g[v][x] = IF v = t /\ x = fd THEN NULL ELSE f[v][x]
  BY DEF Puts
<1>3. <<t, fd>> \in EntriesOf(u, f, n)
  BY DEF EntriesOf
<1>4. ASSUME NEW m \in Node
      PROVE  Cardinality(EntriesOf(u, g, m)) =
               Cardinality(EntriesOf(u, f, m)) - (IF m = n THEN 1 ELSE 0)
  <2>1. IsFiniteSet(EntriesOf(u, f, m)) /\ Cardinality(EntriesOf(u, f, m)) \in Nat
    BY EntriesFinite
  <2>2. CASE m = n
    <3>1. EntriesOf(u, g, m) = EntriesOf(u, f, m) \ {<<t, fd>>}
      BY <1>2, <2>2, NullIsNone DEF EntriesOf
    <3>2. Cardinality(EntriesOf(u, f, m) \ {<<t, fd>>}) = Cardinality(EntriesOf(u, f, m)) - 1
      BY <1>3, <2>1, <2>2, FS_RemoveElement
    <3>. QED BY <2>2, <3>1, <3>2
  <2>3. CASE m # n
    <3>1. EntriesOf(u, g, m) = EntriesOf(u, f, m)
      BY <1>2, <2>3, NullIsNone DEF EntriesOf
    <3>. QED BY <2>1, <2>3, <3>1
  <2>. QED BY <2>2, <2>3
<1>5. Cardinality(EntriesOf(u, f, n)) > 0
  <2>1. IsFiniteSet(EntriesOf(u, f, n)) /\ Cardinality(EntriesOf(u, f, n)) \in Nat
    BY EntriesFinite
  <2>2. Cardinality(EntriesOf(u, f, n)) # 0
    BY <1>3, <2>1, FS_EmptySet
  <2>. QED BY <2>1, <2>2
<1>. QED BY <1>1, <1>4, <1>5 DEF OneLess

\* A set of numbers has a least element.
LEMMA MinIn ==
  ASSUME NEW T, T \subseteq Nat, T # {}
  PROVE  Min(T) \in T
<1>. DEFINE R == {ss \in Nat \X Nat : ss[1] < ss[2]}
<1>1. OpToRel(<, Nat) = R
  BY DEF OpToRel
<1>2. IsWellFoundedOn(R, Nat)
  BY <1>1, NatLessThanWellFounded
<1>. HIDE DEF R
<1>3. PICK x \in T : \A y \in T : <<y, x>> \notin R
  BY <1>2, WFMin
<1>4. \A y \in T : <<y, x>> \in R <=> y < x
  BY DEF R
<1>5. \A y \in T : y \in Nat /\ x \in Nat /\ ~(y < x)
  BY <1>3, <1>4
<1>6. \A y \in T : x <= y
  BY <1>5
<1>. QED BY <1>6 DEF Min
-----------------------------------------------------------------------------
(* What the steps share.                                                   *)

\* Which operation runs.
LEMMA WhichOp ==
  ASSUME FInv
  PROVE  /\ op.kind \in {"none", "dup", "closeall", "load", "exit", "destroy"}
         /\ op.kind = "none" => op = Idle
         /\ op.kind = "dup" =>
              /\ op.proc \in Proc /\ op.parent \in Proc /\ op.table \in used
              /\ state[op.proc] = "NONE" /\ Live(op.parent) /\ mm[op.parent]
              /\ files_count[op.table] = 0 /\ op.table \notin abandoned
              /\ \A q \in Proc : Live(q) => filesp[q] # op.table
         /\ op.kind \in {"closeall", "load", "exit", "destroy"} =>
              op.proc \in Proc /\ Live(op.proc)
         /\ op.kind = "closeall" => op.node \in File
         /\ op.kind = "load" => op.fd \in Fd /\ fd_array[filesp[op.proc]][op.fd] # NULL
<1>1. RunningOp
  BY DEF FInv
<1>2. CASE op = Idle
  BY <1>2 DEF Idle
<1>3. CASE \E c, p \in Proc, t \in used :
             /\ op = [kind |-> "dup", proc |-> c, parent |-> p, table |-> t]
             /\ state[c] = "NONE" /\ Live(p) /\ mm[p]
             /\ files_count[t] = 0 /\ t \notin abandoned
             /\ \A q \in Proc : Live(q) => filesp[q] # t
  BY <1>3
<1>4. CASE \E p \in Proc, n \in File :
             op = [kind |-> "closeall", proc |-> p, node |-> n] /\ Live(p)
  BY <1>4
<1>5. CASE \E p \in Proc, fd \in Fd :
             /\ op = [kind |-> "load", proc |-> p, fd |-> fd] /\ Live(p)
             /\ fd_array[filesp[p]][fd] # NULL
  BY <1>5
<1>6. CASE \E p \in Proc, k \in {"exit", "destroy"} : op = [kind |-> k, proc |-> p] /\ Live(p)
  BY <1>6
<1>. QED BY <1>1, <1>2, <1>3, <1>4, <1>5, <1>6 DEF RunningOp

\* A process that lives has a table of its own.
LEMMA OwnTable ==
  ASSUME FInv, NEW p \in Proc, Live(p)
  PROVE  /\ filesp[p] \in used /\ filesp[p] \in Table /\ filesp[p] # NULL
         /\ filesp[p] \notin abandoned
         /\ \A fd \in Fd : fd_array[filesp[p]][fd] \in Node \cup {NULL}
         /\ ~Destroys(filesp[p]) => files_count[filesp[p]] = 1
<1>1. /\ filesp[p] \in used /\ filesp[p] \notin abandoned
      /\ ~Destroys(filesp[p]) => files_count[filesp[p]] = 1
  BY DEF FInv, Ownership
<1>2. filesp[p] \in Table
  BY <1>1 DEF FInv, TypeOK
<1>. QED BY <1>1, <1>2, NullIsNone DEF FInv, TypeOK

\* A system call is made in a process that lives, when nothing else runs.
LEMMA Caller ==
  ASSUME FInv, NEW p \in Proc, Calls(p)
  PROVE  op = Idle /\ op.kind = "none" /\ Live(p) /\ files_count[filesp[p]] = 1
<1>1. op = Idle /\ op.kind = "none" /\ Live(p)
  BY DEF Calls, Live, Idle
<1>. QED BY <1>1, OwnTable DEF Destroys

\* Frame of Ownership.
LEMMA OwnFrame ==
  ASSUME Ownership, UNCHANGED <<state, filesp, used, files_count, abandoned>>,
         \A t \in used : Destroys(t)' <=> Destroys(t),
         op.kind = "dup" => UNCHANGED op
  PROVE  Ownership'
BY DEF Ownership, Live

\* Frame of Dirs.
LEMMA DirsFrame ==
  ASSUME UNCHANGED <<used, pwd>>, \A t \in used : Destroys(t)' <=> Destroys(t)
  PROVE  \A m \in Node : Dirs(m)' = Dirs(m)
BY DEF Dirs, Destroys

\* Frame of the counts.
LEMMA ExactFrame ==
  ASSUME \A m \in Node : Exact(m), UNCHANGED <<used, fd_array, counts, lost>>,
         \A m \in Node : Dirs(m)' = Dirs(m)
  PROVE  \A m \in Node : Exact(m)'
<1>1. \A m \in Node : Entries(m)' = Entries(m)
  BY DEF Entries
<1>. QED BY <1>1 DEF Exact, Pins, counts

\* The directories of a set of tables are finitely many.
LEMMA DirsFinite ==
  ASSUME FInv, NEW m
  PROVE  IsFiniteSet(Dirs(m)) /\ Cardinality(Dirs(m)) \in Nat /\ Dirs(m) \in SUBSET used
<1>1. Dirs(m) \in SUBSET Table /\ Dirs(m) \in SUBSET used
  BY DEF Dirs, FInv, TypeOK
<1>2. IsFiniteSet(Dirs(m))
  BY <1>1, FilesAssumption, FS_Subset
<1>. QED BY <1>1, <1>2, FS_CardinalityType

\* The terms of a count.
LEMMA Terms ==
  ASSUME FInv, NEW m \in Node
  PROVE  /\ Cardinality(Entries(m)) \in Nat /\ Cardinality(Dirs(m)) \in Nat
         /\ Pins(m) \in Nat /\ (IF m \in File THEN lost[m] ELSE 0) \in Nat
         /\ Entries(m) = EntriesOf(used, fd_array, m)
         /\ open_count[m] \in Nat /\ ref_count[m] \in Nat /\ Exact(m)
<1>1. used \in SUBSET Table /\ Entries(m) = EntriesOf(used, fd_array, m)
  BY DEF FInv, TypeOK, Entries, EntriesOf
<1>2. Cardinality(Entries(m)) \in Nat
  BY <1>1, EntriesFinite
<1>. QED BY <1>1, <1>2, DirsFinite DEF FInv, TypeOK, Pins

\* An entry refers to an inode: one reference more.
LEMMA UseStep ==
  ASSUME FInv, NEW t \in used, NEW fd \in Fd, fd_array[t][fd] = NULL, NEW n \in Node,
         Use(t, fd, n), UNCHANGED <<used, lost>>, \A m \in Node : Dirs(m)' = Dirs(m)
  PROVE  /\ fd_array' \in [Table -> [Fd -> Node \cup {NULL}]]
         /\ ref_count' \in [Node -> Nat] /\ open_count' \in [Node -> Nat]
         /\ \A m \in Node : Exact(m)'
         /\ \A v \in Table, x \in Fd : fd_array[v][x] # NULL => fd_array'[v][x] # NULL
<1>1. /\ fd_array' = [fd_array EXCEPT ![t][fd] = n]
      /\ ref_count' = [ref_count EXCEPT ![n] = @ + 1]
      /\ open_count' = [open_count EXCEPT ![n] = @ + 1]
  BY DEF Use
<1>2. /\ used \in SUBSET Table /\ fd_array \in [Table -> [Fd -> Node \cup {NULL}]]
      /\ ref_count \in [Node -> Nat] /\ open_count \in [Node -> Nat]
  BY DEF FInv, TypeOK
<1>3. /\ fd_array' \in [Table -> [Fd -> Node \cup {NULL}]]
      /\ \A m \in Node : Cardinality(EntriesOf(used, fd_array', m)) =
           Cardinality(EntriesOf(used, fd_array, m)) + (IF m = n THEN 1 ELSE 0)
  <2>1. PICK u \in SUBSET Table, f \in [Table -> [Fd -> Node \cup {NULL}]] :
          u = used /\ f = fd_array
    BY <1>2
  <2>2. PICK g : g = fd_array' /\ Puts(g, f, t, fd, n)
    BY <1>1, <2>1 DEF Puts
  <2>3. t \in u /\ f[t][fd] = NULL
    BY <2>1
  <2>4. /\ g \in [Table -> [Fd -> Node \cup {NULL}]]
        /\ OneMore(u, g, f, n)
    BY <2>2, <2>3, AddEntry
  <2>. QED BY <2>1, <2>2, <2>4 DEF OneMore
<1>4. ref_count' \in [Node -> Nat] /\ open_count' \in [Node -> Nat]
  BY <1>1, <1>2
<1>5. ASSUME NEW m \in Node PROVE Exact(m)'
  <2>1. PICK x \in {0, 1} : x = IF m = n THEN 1 ELSE 0
    OBVIOUS
  <2>2. PICK e \in Nat : e = Cardinality(Entries(m))
    BY Terms
  <2>3. PICK d \in Nat : d = Cardinality(Dirs(m))
    BY Terms
  <2>4. PICK k \in Nat : k = Pins(m)
    BY Terms
  <2>5. PICK l \in Nat : l = IF m \in File THEN lost[m] ELSE 0
    BY Terms
  <2>6. open_count[m] = e /\ ref_count[m] = e + d + k + l
    BY <2>2, <2>3, <2>4, <2>5, Terms DEF Exact
  <2>7. open_count'[m] = e + x /\ ref_count'[m] = (e + d + k + l) + x
    BY <1>1, <1>2, <2>1, <2>6
  <2>8. Cardinality(Entries(m)') = e + x
    <3>1. Entries(m)' = EntriesOf(used, fd_array', m)
      BY DEF Entries, EntriesOf
    <3>2. e = Cardinality(EntriesOf(used, fd_array, m))
      BY <2>2, Terms
    <3>3. Cardinality(EntriesOf(used, fd_array', m)) =
            Cardinality(EntriesOf(used, fd_array, m)) + (IF m = n THEN 1 ELSE 0)
      BY <1>3
    <3>. QED BY <2>1, <3>1, <3>2, <3>3
  <2>9. Cardinality(Dirs(m)') = d /\ Pins(m)' = k /\ l = (IF m \in File THEN lost'[m] ELSE 0)
    BY <2>3, <2>4, <2>5 DEF Pins
  <2>10. (e + d + k + l) + x = (e + x) + d + k + l
    OBVIOUS
  <2>11. open_count'[m] = Cardinality(Entries(m)')
    BY <2>7, <2>8
  <2>12. ref_count'[m] = Cardinality(Entries(m)') + Cardinality(Dirs(m)') + Pins(m)'
                         + (IF m \in File THEN lost'[m] ELSE 0)
    BY <2>7, <2>8, <2>9, <2>10
  <2>. QED BY <2>11, <2>12 DEF Exact
<1>6. \A v \in Table, x \in Fd : fd_array[v][x] # NULL => fd_array'[v][x] # NULL
  BY <1>1, <1>2, NullIsNone
<1>. QED BY <1>3, <1>4, <1>5, <1>6

\* An entry is closed: its inode has one reference less, and the assertions of
\* vop_open_dec, vop_ref_dec and inode_kill hold.
LEMMA CloseStep ==
  ASSUME FInv, NEW t \in used, NEW fd \in Fd, fd_array[t][fd] # NULL,
         CloseFd(t, fd), UNCHANGED <<used, lost>>, \A m \in Node : Dirs(m)' = Dirs(m)
  PROVE  /\ fd_array' \in [Table -> [Fd -> Node \cup {NULL}]]
         /\ ref_count' \in [Node -> Nat] /\ open_count' \in [Node -> Nat]
         /\ \A m \in Node : Exact(m)'
         /\ halt' = halt
<1>1. used \in SUBSET Table /\ fd_array \in [Table -> [Fd -> Node \cup {NULL}]]
      /\ ref_count \in [Node -> Nat] /\ open_count \in [Node -> Nat]
  BY DEF FInv, TypeOK
<1>2. PICK n \in Node : n = fd_array[t][fd]
  BY <1>1
<1>3. /\ halt' = IF /\ open_count[n] > 0 /\ ref_count[n] > 0
                    /\ ref_count[n] = 1 => open_count[n] = 1 /\ n \notin Device
                 THEN halt ELSE "assert"
      /\ fd_array' = [fd_array EXCEPT ![t][fd] = NULL]
      /\ ref_count' = [ref_count EXCEPT ![n] = @ - 1]
      /\ open_count' = [open_count EXCEPT ![n] = @ - 1]
  BY <1>2 DEF CloseFd, KAssert
<1>4. /\ fd_array' \in [Table -> [Fd -> Node \cup {NULL}]]
      /\ Cardinality(EntriesOf(used, fd_array, n)) > 0
      /\ \A m \in Node : Cardinality(EntriesOf(used, fd_array', m)) =
           Cardinality(EntriesOf(used, fd_array, m)) - (IF m = n THEN 1 ELSE 0)
  <2>1. PICK u \in SUBSET Table, f \in [Table -> [Fd -> Node \cup {NULL}]] :
          u = used /\ f = fd_array
    BY <1>1
  <2>2. PICK g : g = fd_array' /\ Puts(g, f, t, fd, NULL)
    BY <1>3, <2>1 DEF Puts
  <2>3. t \in u /\ f[t][fd] = n
    BY <1>2, <2>1
  <2>4. /\ g \in [Table -> [Fd -> Node \cup {NULL}]]
        /\ Cardinality(EntriesOf(u, f, n)) > 0
        /\ OneLess(u, g, f, n)
    BY <2>2, <2>3, DropEntry
  <2>. QED BY <2>1, <2>2, <2>4 DEF OneLess
<1>5. /\ open_count[n] > 0 /\ ref_count[n] > 0
      /\ ref_count[n] = 1 => open_count[n] = 1 /\ n \notin Device
  <2>1. PICK e \in Nat : e = Cardinality(Entries(n))
    BY Terms
  <2>2. PICK d \in Nat : d = Cardinality(Dirs(n))
    BY Terms
  <2>3. PICK k \in Nat : k = Pins(n)
    BY Terms
  <2>4. PICK l \in Nat : l = IF n \in File THEN lost[n] ELSE 0
    BY Terms
  <2>5. open_count[n] = e /\ ref_count[n] = e + d + k + l
    BY <2>1, <2>2, <2>3, <2>4, Terms DEF Exact
  <2>6. e > 0
    BY <1>4, <2>1, Terms
  <2>7. n \in Device => k = 1
    BY <2>3 DEF Pins
  <2>. QED BY <2>5, <2>6, <2>7
<1>6. ref_count' \in [Node -> Nat] /\ open_count' \in [Node -> Nat]
  <2>1. ref_count[n] - 1 \in Nat /\ open_count[n] - 1 \in Nat
    BY <1>1, <1>5
  <2>. QED BY <1>1, <1>3, <2>1
<1>7. ASSUME NEW m \in Node PROVE Exact(m)'
  <2>1. PICK x \in {0, 1} : x = IF m = n THEN 1 ELSE 0
    OBVIOUS
  <2>2. PICK e \in Nat : e = Cardinality(Entries(m))
    BY Terms
  <2>3. PICK d \in Nat : d = Cardinality(Dirs(m))
    BY Terms
  <2>4. PICK k \in Nat : k = Pins(m)
    BY Terms
  <2>5. PICK l \in Nat : l = IF m \in File THEN lost[m] ELSE 0
    BY Terms
  <2>6. open_count[m] = e /\ ref_count[m] = e + d + k + l
    BY <2>2, <2>3, <2>4, <2>5, Terms DEF Exact
  <2>7. open_count'[m] = e - x /\ ref_count'[m] = (e + d + k + l) - x
    BY <1>1, <1>3, <2>1, <2>6
  <2>8. Cardinality(Entries(m)') = e - x
    <3>1. Entries(m)' = EntriesOf(used, fd_array', m)
      BY DEF Entries, EntriesOf
    <3>2. e = Cardinality(EntriesOf(used, fd_array, m))
      BY <2>2, Terms
    <3>3. Cardinality(EntriesOf(used, fd_array', m)) =
            Cardinality(EntriesOf(used, fd_array, m)) - (IF m = n THEN 1 ELSE 0)
      BY <1>4
    <3>. QED BY <2>1, <3>1, <3>2, <3>3
  <2>9. Cardinality(Dirs(m)') = d /\ Pins(m)' = k /\ l = (IF m \in File THEN lost'[m] ELSE 0)
    BY <2>3, <2>4, <2>5 DEF Pins
  <2>10. (e + d + k + l) - x = (e - x) + d + k + l
    OBVIOUS
  <2>11. open_count'[m] = Cardinality(Entries(m)')
    BY <2>7, <2>8
  <2>12. ref_count'[m] = Cardinality(Entries(m)') + Cardinality(Dirs(m)') + Pins(m)'
                         + (IF m \in File THEN lost'[m] ELSE 0)
    BY <2>7, <2>8, <2>9, <2>10
  <2>. QED BY <2>11, <2>12 DEF Exact
<1>. QED BY <1>3, <1>4, <1>5, <1>6, <1>7
-----------------------------------------------------------------------------
(* The steps that open and close an entry, and leave the rest alone.       *)

\* The lowest of the entries s is one of them.
LEMMA Lowest == ASSUME NEW s \in SUBSET Fd, s # {} PROVE Min(s) \in s
<1>1. s \subseteq Nat
  BY FilesAssumption DEF Fd
<1>. QED BY <1>1, MinIn

\* A step that changes only entries and counts.
LEMMA EntryStep ==
  ASSUME FInv, UNCHANGED <<procs, used, files_count, pwd, op, history>>, op.kind # "load",
         fd_array' \in [Table -> [Fd -> Node \cup {NULL}]],
         ref_count' \in [Node -> Nat], open_count' \in [Node -> Nat],
         \A m \in Node : Exact(m)', halt' = halt
  PROVE  FInv'
<1>1. TypeOK' /\ InRoot' /\ FileAssertsHold'
  BY DEF FInv, TypeOK, InRoot, FileAssertsHold, procs, history
<1>2. Ownership'
  BY OwnFrame DEF FInv, procs, history, Destroys
<1>3. RunningOp'
  BY DEF FInv, RunningOp, Live, procs, history
<1>. QED BY <1>1, <1>2, <1>3 DEF FInv

LEMMA OpenStep ==
  ASSUME FInv, NEW p \in Proc, NEW n \in File \cup Device, Open(p, n)
  PROVE  FInv'
<1>1. /\ Calls(p) /\ Opened(filesp[p]) # Fd
      /\ Use(filesp[p], Min(Fd \ Opened(filesp[p])), n)
      /\ KAssert(ref_count[n] >= open_count[n])
      /\ UNCHANGED <<procs, used, files_count, pwd, op, history>>
  BY DEF Open
<1>2. PICK t \in used : t = filesp[p]
  BY <1>1, Caller, OwnTable
<1>3. PICK fd \in Fd : fd = Min(Fd \ Opened(t)) /\ fd_array[t][fd] = NULL
  <2>1. Fd \ Opened(t) # {} /\ Fd \ Opened(t) \in SUBSET Fd
    BY <1>1, <1>2 DEF Opened
  <2>2. Min(Fd \ Opened(t)) \in Fd \ Opened(t)
    BY <2>1, Lowest
  <2>. QED BY <2>2 DEF Opened
<1>4. \A m \in Node : Dirs(m)' = Dirs(m)
  BY <1>1, DirsFrame DEF Destroys, procs
<1>5. n \in Node /\ op.kind = "none"
  BY <1>1, Caller DEF Node
<1>6. UNCHANGED <<used, lost>> /\ Use(t, fd, n)
  BY <1>1, <1>2, <1>3 DEF history
<1>7. /\ fd_array' \in [Table -> [Fd -> Node \cup {NULL}]]
      /\ ref_count' \in [Node -> Nat] /\ open_count' \in [Node -> Nat]
      /\ \A m \in Node : Exact(m)'
  BY <1>3, <1>4, <1>5, <1>6, UseStep
<1>8. ref_count[n] >= open_count[n]
  BY <1>5, Terms DEF Exact
<1>. QED BY <1>1, <1>5, <1>7, <1>8, EntryStep DEF KAssert

LEMMA CloseAction ==
  ASSUME FInv, NEW p \in Proc, NEW fd \in Fd, Close(p, fd)
  PROVE  FInv'
<1>1. /\ Calls(p) /\ fd \in Opened(filesp[p]) /\ CloseFd(filesp[p], fd)
      /\ UNCHANGED <<procs, used, files_count, pwd, op, history>>
  BY DEF Close
<1>2. PICK t \in used : t = filesp[p]
  BY <1>1, Caller, OwnTable
<1>3. fd_array[t][fd] # NULL /\ CloseFd(t, fd) /\ op.kind = "none"
  BY <1>1, <1>2, Caller DEF Opened
<1>4. \A m \in Node : Dirs(m)' = Dirs(m)
  BY <1>1, DirsFrame DEF Destroys, procs
<1>5. /\ fd_array' \in [Table -> [Fd -> Node \cup {NULL}]]
      /\ ref_count' \in [Node -> Nat] /\ open_count' \in [Node -> Nat]
      /\ \A m \in Node : Exact(m)'
      /\ halt' = halt
  BY <1>1, <1>3, <1>4, CloseStep DEF history
<1>. QED BY <1>1, <1>3, <1>5, EntryStep

LEMMA DupAction ==
  ASSUME FInv, NEW p \in Proc, NEW fd1 \in Fd, NEW fd2 \in Fd, Dup(p, fd1, fd2)
  PROVE  FInv'
<1>1. /\ Calls(p) /\ fd1 \in Opened(filesp[p]) /\ fd2 \notin Opened(filesp[p])
      /\ Use(filesp[p], fd2, fd_array[filesp[p]][fd1])
      /\ UNCHANGED <<procs, used, files_count, pwd, op, halt, history>>
  BY DEF Dup
<1>2. PICK t \in used : t = filesp[p]
  BY <1>1, Caller, OwnTable
<1>3. PICK n \in Node : n = fd_array[t][fd1]
  BY <1>1, <1>2, Caller, OwnTable DEF Opened
<1>4. fd_array[t][fd2] = NULL /\ Use(t, fd2, n) /\ op.kind = "none"
  BY <1>1, <1>2, <1>3, Caller DEF Opened
<1>5. \A m \in Node : Dirs(m)' = Dirs(m)
  BY <1>1, DirsFrame DEF Destroys, procs
<1>6. UNCHANGED <<used, lost>>
  BY <1>1 DEF history
<1>7. /\ fd_array' \in [Table -> [Fd -> Node \cup {NULL}]]
      /\ ref_count' \in [Node -> Nat] /\ open_count' \in [Node -> Nat]
      /\ \A m \in Node : Exact(m)'
  BY <1>4, <1>5, <1>6, UseStep
<1>. QED BY <1>1, <1>4, <1>7, EntryStep

LEMMA DupFilesStep ==
  ASSUME FInv, DupFiles
  PROVE  FInv'
<1>1. /\ op.kind = "dup" /\ ToCopy # {}
      /\ Use(op.table, Min(ToCopy), fd_array[filesp[op.parent]][Min(ToCopy)])
      /\ UNCHANGED <<procs, used, files_count, pwd, op, halt, history>>
  BY DEF DupFiles, Runs
<1>2. PICK t \in used : t = op.table
  BY <1>1, WhichOp
<1>3. PICK fd \in Fd :
        fd = Min(ToCopy) /\ fd \in Opened(filesp[op.parent]) /\ fd \notin Opened(t)
  BY <1>1, <1>2, Lowest DEF ToCopy, Opened
<1>4. PICK n \in Node : n = fd_array[filesp[op.parent]][fd]
  BY <1>1, <1>3, WhichOp, OwnTable DEF Opened
<1>5. fd_array[t][fd] = NULL /\ Use(t, fd, n)
  BY <1>1, <1>2, <1>3, <1>4 DEF Opened
<1>6. \A m \in Node : Dirs(m)' = Dirs(m)
  BY <1>1, DirsFrame DEF Destroys, procs
<1>7. UNCHANGED <<used, lost>>
  BY <1>1 DEF history
<1>8. /\ fd_array' \in [Table -> [Fd -> Node \cup {NULL}]]
      /\ ref_count' \in [Node -> Nat] /\ open_count' \in [Node -> Nat]
      /\ \A m \in Node : Exact(m)'
  BY <1>5, <1>6, <1>7, UseStep
<1>. QED BY <1>1, <1>8, EntryStep

LEMMA CloseAllStep ==
  ASSUME FInv, CloseAll
  PROVE  FInv'
<1>1. /\ op.kind = "closeall" /\ ToClose # {}
      /\ CloseFd(filesp[op.proc], Min(ToClose))
      /\ UNCHANGED <<procs, used, files_count, pwd, op, history>>
  BY DEF CloseAll, Runs
<1>2. PICK t \in used : t = filesp[op.proc]
  BY <1>1, WhichOp, OwnTable
<1>3. PICK fd \in Fd : fd = Min(ToClose) /\ fd_array[t][fd] # NULL
  BY <1>1, <1>2, Lowest DEF ToClose, Opened
<1>4. CloseFd(t, fd)
  BY <1>1, <1>2, <1>3
<1>5. \A m \in Node : Dirs(m)' = Dirs(m)
  BY <1>1, DirsFrame DEF Destroys, procs
<1>6. /\ fd_array' \in [Table -> [Fd -> Node \cup {NULL}]]
      /\ ref_count' \in [Node -> Nat] /\ open_count' \in [Node -> Nat]
      /\ \A m \in Node : Exact(m)'
      /\ halt' = halt
  BY <1>1, <1>3, <1>4, <1>5, CloseStep DEF history
<1>. QED BY <1>1, <1>6, EntryStep

LEMMA DestroyFilesStep ==
  ASSUME FInv, DestroyFiles
  PROVE  FInv'
<1>1. /\ op.kind = "destroy" /\ Opened(filesp[op.proc]) # {}
      /\ CloseFd(filesp[op.proc], Min(Opened(filesp[op.proc])))
      /\ UNCHANGED <<procs, used, files_count, pwd, op, history>>
  BY DEF DestroyFiles, Runs
<1>2. PICK t \in used : t = filesp[op.proc]
  BY <1>1, WhichOp, OwnTable
<1>3. PICK fd \in Fd : fd = Min(Opened(t)) /\ fd_array[t][fd] # NULL
  BY <1>1, <1>2, Lowest DEF Opened
<1>4. CloseFd(t, fd)
  BY <1>1, <1>2, <1>3
<1>5. \A m \in Node : Dirs(m)' = Dirs(m)
  BY <1>1, DirsFrame DEF Destroys, procs
<1>6. /\ fd_array' \in [Table -> [Fd -> Node \cup {NULL}]]
      /\ ref_count' \in [Node -> Nat] /\ open_count' \in [Node -> Nat]
      /\ \A m \in Node : Exact(m)'
      /\ halt' = halt
  BY <1>1, <1>3, <1>4, <1>5, CloseStep DEF history
<1>. QED BY <1>1, <1>6, EntryStep
-----------------------------------------------------------------------------
(* The steps that change what the operation is.                            *)

\* A step from one operation to another, neither of which copies or frees a
\* table, that leaves the tables alone.
LEMMA OpStep ==
  ASSUME FInv, UNCHANGED <<state, filesp, tables, counts, halt, history>>,
         mm' \in [Proc -> BOOLEAN],
         op.kind \notin {"dup", "destroy"}, op'.kind \notin {"dup", "destroy"}, RunningOp'
  PROVE  FInv'
<1>1. TypeOK' /\ InRoot' /\ FileAssertsHold'
  BY DEF FInv, TypeOK, InRoot, FileAssertsHold, tables, counts, history
<1>2. \A t \in used : Destroys(t)' <=> Destroys(t)
  BY DEF Destroys
<1>3. Ownership'
  BY <1>2, OwnFrame DEF FInv, tables, history
<1>4. \A m \in Node : Dirs(m)' = Dirs(m)
  BY <1>2, DirsFrame DEF tables
<1>5. \A m \in Node : Exact(m)'
  BY <1>4, ExactFrame DEF FInv, tables, history
<1>. QED BY <1>1, <1>3, <1>5 DEF FInv

LEMMA ExecStep ==
  ASSUME FInv, NEW p \in Proc, NEW n \in File, Exec(p, n)
  PROVE  FInv'
<1>1. /\ Calls(p) /\ KAssert(files_count[filesp[p]] > 0)
      /\ op' = [kind |-> "closeall", proc |-> p, node |-> n]
      /\ UNCHANGED <<procs, tables, counts, history>>
  BY DEF Exec
<1>2. op.kind = "none" /\ Live(p) /\ files_count[filesp[p]] = 1
  BY <1>1, Caller
<1>3. halt' = halt
  BY <1>1, <1>2 DEF KAssert
<1>4. op'.kind = "closeall"
  BY <1>1
<1>5. RunningOp'
  BY <1>1, <1>2 DEF RunningOp, Live, procs
<1>6. mm' \in [Proc -> BOOLEAN] /\ UNCHANGED <<state, filesp>>
  BY <1>1 DEF FInv, TypeOK, procs
<1>. QED BY <1>1, <1>2, <1>3, <1>4, <1>5, <1>6, OpStep

LEMMA ToExit ==
  ASSUME FInv, NEW p \in Proc, Live(p), op.kind \notin {"dup", "destroy"},
         op' = [kind |-> "exit", proc |-> p],
         UNCHANGED <<procs, tables, counts, halt, history>>
  PROVE  FInv'
<1>1. op'.kind = "exit"
  OBVIOUS
<1>2. RunningOp'
  BY DEF RunningOp, Live, procs
<1>3. mm' \in [Proc -> BOOLEAN] /\ UNCHANGED <<state, filesp>>
  BY DEF FInv, TypeOK, procs
<1>. QED BY <1>1, <1>2, <1>3, OpStep

LEMMA ExitSteps ==
  ASSUME FInv, (\E p \in Proc : Exit(p)) \/ ExecNoFile \/ LoadFails
  PROVE  FInv'
<1>1. CASE \E p \in Proc : Exit(p)
  BY <1>1, Caller, ToExit DEF Exit
<1>2. CASE ExecNoFile
  BY <1>2, WhichOp, ToExit DEF ExecNoFile, Runs
<1>3. CASE LoadFails
  BY <1>3, WhichOp, ToExit DEF LoadFails, Runs
<1>. QED BY <1>1, <1>2, <1>3

LEMMA ExecOpenStep ==
  ASSUME FInv, ExecOpen
  PROVE  FInv'
<1>1. PICK p \in Proc : p = op.proc /\ Live(p) /\ op.kind = "closeall" /\ op.node \in File
  BY WhichOp DEF ExecOpen, Runs
<1>2. PICK t \in used : t = filesp[p]
  BY <1>1, OwnTable
<1>3. PICK n \in File : n = op.node
  BY <1>1
<1>4. ToClose = {}
  BY DEF ExecOpen
<1>5. PICK fd \in Fd : fd = Min(Fd \ Opened(t)) /\ fd_array[t][fd] = NULL
  <2>1. 2 \in Fd /\ ~Kept(2)
    BY FilesAssumption DEF Fd, Kept
  <2>2. Fd \ Opened(t) \in SUBSET Fd /\ 2 \in Fd \ Opened(t)
    BY <1>1, <1>2, <1>4, <2>1 DEF ToClose
  <2>3. Min(Fd \ Opened(t)) \in Fd \ Opened(t)
    BY <2>2, Lowest
  <2>. QED BY <2>3 DEF Opened
<1>6. /\ Use(t, fd, n)
      /\ mm' = [mm EXCEPT ![p] = FALSE]
      /\ op' = [kind |-> "load", proc |-> p, fd |-> fd]
      /\ UNCHANGED <<state, filesp, used, files_count, pwd, halt, history>>
  BY <1>1, <1>2, <1>3, <1>5 DEF ExecOpen
<1>7. \A v \in used : Destroys(v)' <=> Destroys(v)
  BY <1>1, <1>6 DEF Destroys
<1>8. \A m \in Node : Dirs(m)' = Dirs(m)
  BY <1>6, <1>7, DirsFrame
<1>9. /\ fd_array' \in [Table -> [Fd -> Node \cup {NULL}]]
      /\ ref_count' \in [Node -> Nat] /\ open_count' \in [Node -> Nat]
      /\ \A m \in Node : Exact(m)'
  BY <1>5, <1>6, <1>8, UseStep DEF history, Node
<1>10. TypeOK' /\ InRoot' /\ FileAssertsHold'
  BY <1>6, <1>9 DEF FInv, TypeOK, InRoot, FileAssertsHold, history
<1>11. Ownership'
  BY <1>1, <1>6, <1>7, OwnFrame DEF FInv, history
<1>12. fd_array'[t][fd] # NULL
  BY <1>6, NullIsNone DEF Use, Node, FInv, TypeOK
<1>13. RunningOp'
  BY <1>1, <1>2, <1>6, <1>12 DEF RunningOp, Live
<1>. QED BY <1>9, <1>10, <1>11, <1>13 DEF FInv

LEMMA LoadIcodeStep ==
  ASSUME FInv, LoadIcode
  PROVE  FInv'
<1>1. PICK p \in Proc : p = op.proc /\ Live(p) /\ op.kind = "load"
  BY WhichOp DEF LoadIcode, Runs
<1>2. PICK t \in used : t = filesp[p]
  BY <1>1, OwnTable
<1>3. PICK fd \in Fd : fd = op.fd /\ fd_array[t][fd] # NULL
  BY <1>1, <1>2, WhichOp
<1>4. /\ mm' = [mm EXCEPT ![p] = TRUE]
      /\ op' = Idle
      /\ CloseFd(t, fd) \/ UNCHANGED <<fd_array, counts, halt>>
      /\ UNCHANGED <<state, filesp, used, files_count, pwd, history>>
  BY <1>1, <1>2, <1>3 DEF LoadIcode
<1>5. op'.kind = "none"
  BY <1>4 DEF Idle
<1>6. \A v \in used : Destroys(v)' <=> Destroys(v)
  BY <1>1, <1>5 DEF Destroys
<1>7. \A m \in Node : Dirs(m)' = Dirs(m)
  BY <1>4, <1>6, DirsFrame
<1>8. /\ fd_array' \in [Table -> [Fd -> Node \cup {NULL}]]
      /\ ref_count' \in [Node -> Nat] /\ open_count' \in [Node -> Nat]
      /\ \A m \in Node : Exact(m)'
      /\ halt' = halt
  <2>1. CASE CloseFd(t, fd)
    BY <1>3, <1>4, <1>7, <2>1, CloseStep DEF history
  <2>2. CASE UNCHANGED <<fd_array, counts, halt>>
    <3>1. \A m \in Node : Exact(m)'
      BY <1>4, <1>7, <2>2, ExactFrame DEF FInv, history
    <3>. QED BY <2>2, <3>1 DEF FInv, TypeOK, counts
  <2>. QED BY <1>4, <2>1, <2>2
<1>9. TypeOK' /\ InRoot' /\ FileAssertsHold'
  BY <1>4, <1>8 DEF FInv, TypeOK, InRoot, FileAssertsHold, history
<1>10. Ownership'
  BY <1>1, <1>4, <1>6, OwnFrame DEF FInv, history
<1>11. RunningOp'
  BY <1>4 DEF RunningOp, Idle
<1>. QED BY <1>8, <1>9, <1>10, <1>11 DEF FInv
-----------------------------------------------------------------------------
(* The references that are lost, and the life of a table.                  *)

LEMMA OpenExistsStep ==
  ASSUME FInv, NEW p \in Proc, NEW f \in File, OpenExists(p, f)
  PROVE  FInv'
<1>1. /\ ref_count' = [ref_count EXCEPT ![f] = @ + 1]
      /\ lost' = [lost EXCEPT ![f] = @ + 1]
      /\ UNCHANGED <<procs, tables, open_count, op, halt, abandoned>>
      /\ op.kind = "none"
  BY Caller DEF OpenExists
<1>2. TypeOK' /\ InRoot' /\ FileAssertsHold'
  BY <1>1 DEF FInv, TypeOK, InRoot, FileAssertsHold, procs, tables, Node
<1>3. Ownership'
  BY <1>1, OwnFrame DEF FInv, procs, tables, Destroys
<1>4. RunningOp'
  BY <1>1 DEF FInv, RunningOp, Idle
<1>5. ASSUME NEW m \in Node PROVE Exact(m)'
  <2>1. PICK x \in {0, 1} : x = IF m = f THEN 1 ELSE 0
    OBVIOUS
  <2>2. PICK e \in Nat : e = Cardinality(Entries(m))
    BY Terms
  <2>3. PICK d \in Nat : d = Cardinality(Dirs(m))
    BY Terms
  <2>4. PICK k \in Nat : k = Pins(m)
    BY Terms
  <2>5. PICK l \in Nat : l = IF m \in File THEN lost[m] ELSE 0
    BY Terms
  <2>6. open_count[m] = e /\ ref_count[m] = e + d + k + l
    BY <2>2, <2>3, <2>4, <2>5, Terms DEF Exact
  <2>7. open_count'[m] = e /\ ref_count'[m] = (e + d + k + l) + x
    BY <1>1, <2>1, <2>6 DEF FInv, TypeOK
  <2>8. (IF m \in File THEN lost'[m] ELSE 0) = l + x
    BY <1>1, <2>1, <2>5 DEF FInv, TypeOK
  <2>9. Entries(m)' = Entries(m)
    BY <1>1 DEF Entries, tables
  <2>10. Dirs(m)' = Dirs(m)
    BY <1>1, DirsFrame DEF Destroys, procs, tables
  <2>11. Pins(m)' = k
    BY <2>4 DEF Pins
  <2>12. (e + d + k + l) + x = e + d + k + (l + x)
    OBVIOUS
  <2>. QED BY <2>2, <2>3, <2>7, <2>8, <2>9, <2>10, <2>11, <2>12 DEF Exact
<1>. QED BY <1>2, <1>3, <1>4, <1>5 DEF FInv

\* A step that may add a table without entries to those in use, or take one
\* away: the entries stay what they are.
LEMMA SameEntries ==
  ASSUME \A t \in used : t \notin used' => \A fd \in Fd : fd_array[t][fd] = NULL,
         \A t \in used' : t \notin used => \A fd \in Fd : fd_array'[t][fd] = NULL,
         \A t \in used : t \in used' => \A fd \in Fd : fd_array'[t][fd] = fd_array[t][fd],
         NEW m \in Node
  PROVE  Entries(m)' = Entries(m)
BY NullIsNone DEF Entries

LEMMA ForkStep ==
  ASSUME FInv, NEW p \in Proc, NEW c \in Proc, NEW t \in Table, Fork(p, c, t)
  PROVE  FInv'
<1>1. /\ Live(p) /\ mm[p] /\ op = Idle /\ op.kind = "none"
      /\ files_count[filesp[p]] = 1 /\ filesp[p] \in used
  BY Caller, OwnTable DEF Fork
<1>2. pwd[filesp[p]] = Root
  BY <1>1 DEF FInv, InRoot
<1>3. /\ state[c] = "NONE" /\ t \notin used
      /\ KAssert(files_count[filesp[p]] > 0)
      /\ used' = used \cup {t}
      /\ files_count' = [files_count EXCEPT ![t] = 0]
      /\ fd_array' = [fd_array EXCEPT ![t] = NoFiles]
      /\ pwd' = [pwd EXCEPT ![t] = Root]
      /\ ref_count' = [ref_count EXCEPT ![Root] = @ + 1]
      /\ op' = [kind |-> "dup", proc |-> c, parent |-> p, table |-> t]
      /\ UNCHANGED <<state, mm, filesp, open_count, lost, abandoned>>
  BY <1>2 DEF Fork, procs, history
<1>4. halt' = halt
  BY <1>1, <1>3 DEF KAssert
<1>5. NoFiles \in [Fd -> Node \cup {NULL}] /\ \A fd \in Fd : NoFiles[fd] = NULL
  BY DEF NoFiles
<1>6. Root \in Node
  BY DEF Node
<1>7. TypeOK'
  BY <1>3, <1>4, <1>5, <1>6 DEF FInv, TypeOK
<1>8. InRoot' /\ FileAssertsHold'
  BY <1>3, <1>4 DEF FInv, TypeOK, InRoot, FileAssertsHold
<1>9. \A q \in Proc : Live(q) => filesp[q] # t
  BY <1>3, OwnTable
<1>10. t \notin abandoned
  BY <1>3 DEF FInv, Ownership
<1>11. \A v \in Table : ~Destroys(v) /\ ~Destroys(v)'
  BY <1>1, <1>3 DEF Destroys
<1>12. Ownership'
  <2>1. \A q \in Proc : Live(q) =>
          /\ filesp'[q] \in used' /\ filesp'[q] \notin abandoned'
          /\ files_count'[filesp'[q]] = 1 /\ filesp'[q] \in Table
    BY <1>3, <1>9, <1>11, OwnTable DEF FInv, TypeOK
  <2>2. \A v \in used' : \/ \E q \in Proc : Live(q) /\ filesp'[q] = v
                         \/ v \in abandoned'
                         \/ v = t
    BY <1>1, <1>3 DEF FInv, Ownership
  <2>3. op'.kind = "dup" /\ op'.table = t
    BY <1>3
  <2>. QED BY <1>3, <1>11, <2>1, <2>2, <2>3 DEF FInv, Ownership, Live
<1>13. RunningOp'
  BY <1>1, <1>3, <1>9, <1>10 DEF RunningOp, Live, FInv, TypeOK
<1>14. ASSUME NEW m \in Node PROVE Exact(m)'
  <2>1. PICK x \in {0, 1} : x = IF m = Root THEN 1 ELSE 0
    OBVIOUS
  <2>2. PICK e \in Nat : e = Cardinality(Entries(m))
    BY Terms
  <2>3. PICK d \in Nat : d = Cardinality(Dirs(m))
    BY Terms
  <2>4. PICK k \in Nat : k = Pins(m)
    BY Terms
  <2>5. PICK l \in Nat : l = IF m \in File THEN lost[m] ELSE 0
    BY Terms
  <2>6. open_count[m] = e /\ ref_count[m] = e + d + k + l
    BY <2>2, <2>3, <2>4, <2>5, Terms DEF Exact
  <2>7. open_count'[m] = e /\ ref_count'[m] = (e + d + k + l) + x
    BY <1>3, <2>1, <2>6 DEF FInv, TypeOK
  <2>8. Entries(m)' = Entries(m)
    BY <1>3, <1>5, SameEntries DEF FInv, TypeOK
  <2>9. Cardinality(Dirs(m)') = d + x
    <3>1. IsFiniteSet(Dirs(m)) /\ t \notin Dirs(m)
      BY <1>3, DirsFinite
    <3>2. CASE m = Root
      <4>1. Dirs(m)' = Dirs(m) \cup {t}
        BY <1>3, <1>11, <3>2 DEF Dirs, Destroys, FInv, TypeOK
      <4>. QED BY <2>1, <2>3, <3>1, <3>2, <4>1, FS_AddElement
    <3>3. CASE m # Root
      <4>1. Dirs(m)' = Dirs(m)
        BY <1>3, <1>11, <3>3 DEF Dirs, Destroys, FInv, TypeOK
      <4>. QED BY <2>1, <2>3, <3>3, <4>1
    <3>. QED BY <3>2, <3>3
  <2>10. Pins(m)' = k /\ (IF m \in File THEN lost'[m] ELSE 0) = l
    BY <1>3, <2>4, <2>5 DEF Pins
  <2>11. (e + d + k + l) + x = e + (d + x) + k + l
    OBVIOUS
  <2>. QED BY <2>2, <2>7, <2>8, <2>9, <2>10, <2>11 DEF Exact
<1>. QED BY <1>7, <1>8, <1>12, <1>13, <1>14 DEF FInv

LEMMA ForkedStep ==
  ASSUME FInv, Forked
  PROVE  FInv'
<1>1. PICK c \in Proc, p \in Proc, t \in used :
        /\ op.kind = "dup" /\ c = op.proc /\ p = op.parent /\ t = op.table
        /\ state[c] = "NONE" /\ Live(p) /\ mm[p]
        /\ files_count[t] = 0 /\ t \notin abandoned
        /\ \A q \in Proc : Live(q) => filesp[q] # t
  BY WhichOp DEF Forked, Runs
<1>2. /\ files_count' = [files_count EXCEPT ![t] = @ + 1]
      /\ filesp' = [filesp EXCEPT ![c] = t]
      /\ mm' = [mm EXCEPT ![c] = mm[p]]
      /\ state' = [state EXCEPT ![c] = "RUNNABLE"]
      /\ op' = Idle
      /\ UNCHANGED <<used, fd_array, pwd, counts, halt, history>>
  BY <1>1 DEF Forked
<1>3. op'.kind = "none"
  BY <1>2 DEF Idle
<1>4. TypeOK' /\ InRoot' /\ FileAssertsHold'
  BY <1>1, <1>2 DEF FInv, TypeOK, InRoot, FileAssertsHold, counts, history
<1>5. \A v \in Table : ~Destroys(v) /\ ~Destroys(v)'
  BY <1>1, <1>3 DEF Destroys
<1>6. \A m \in Node : Dirs(m)' = Dirs(m)
  BY <1>1, <1>2, <1>3 DEF Dirs
<1>7. \A m \in Node : Exact(m)'
  BY <1>2, <1>6, ExactFrame DEF FInv, history
<1>8. Ownership'
  <2>1. /\ \A q \in Proc : Live(q)' <=> Live(q) \/ q = c
        /\ \A q \in Proc : filesp'[q] = IF q = c THEN t ELSE filesp[q]
        /\ \A v \in Table : files_count'[v] = IF v = t THEN 1 ELSE files_count[v]
    BY <1>1, <1>2 DEF Live, FInv, TypeOK
  <2>2. \A q \in Proc : Live(q) =>
          filesp[q] \in used /\ filesp[q] \notin abandoned /\ files_count[filesp[q]] = 1
          /\ filesp[q] # t /\ filesp[q] \in Table
    BY <1>1, <1>5, OwnTable
  <2>3. \A a, b \in Proc : Live(a) /\ Live(b) /\ filesp[a] = filesp[b] => a = b
    BY DEF FInv, Ownership
  <2>4. \A v \in used : \/ \E q \in Proc : Live(q) /\ filesp[q] = v
                        \/ v \in abandoned
                        \/ v = t
    BY <1>1 DEF FInv, Ownership
  <2>5. \A a, b \in Proc : Live(a)' /\ Live(b)' /\ filesp'[a] = filesp'[b] => a = b
    BY <2>1, <2>2, <2>3
  <2>6. t \in Table /\ used \subseteq Table
    BY DEF FInv, TypeOK
  <2>7. \A q \in Proc : Live(q)' =>
          /\ filesp'[q] \in used' /\ filesp'[q] \notin abandoned'
          /\ files_count'[filesp'[q]] = 1 /\ filesp'[q] \in Table
    BY <1>1, <1>2, <2>1, <2>2, <2>6 DEF history
  <2>8. \A v \in used' : (\E q \in Proc : Live(q)' /\ filesp'[q] = v) \/ v \in abandoned'
    <3>1. \A q \in Proc : Live(q) => Live(q)' /\ filesp'[q] = filesp[q]
      BY <1>1, <2>1 DEF Live
    <3>2. Live(c)' /\ filesp'[c] = t
      BY <2>1
    <3>. QED BY <1>2, <2>4, <3>1, <3>2 DEF history
  <2>9. abandoned' \subseteq used'
    BY <1>2 DEF FInv, Ownership, history
  <2>. QED BY <1>5, <2>5, <2>7, <2>8, <2>9 DEF Ownership
<1>9. RunningOp'
  BY <1>2 DEF RunningOp, Idle
<1>. QED BY <1>4, <1>7, <1>8, <1>9 DEF FInv

LEMMA PutFilesStep ==
  ASSUME FInv, PutFiles
  PROVE  FInv'
<1>1. PICK p \in Proc : p = op.proc /\ Live(p) /\ op.kind = "exit"
  BY WhichOp DEF PutFiles, Runs
<1>2. PICK t \in used : t = filesp[p]
  BY <1>1, OwnTable
<1>3. PICK r \in [kind : {"destroy"}, proc : {p}] : r = [op EXCEPT !.kind = "destroy"]
  <2>1. op = [kind |-> "exit", proc |-> p]
    BY <1>1, WhichOp DEF FInv, RunningOp, Idle
  <2>. QED BY <2>1
<1>4. pwd[t] = Root /\ files_count[t] = 1
  BY <1>1, <1>2, OwnTable DEF FInv, InRoot, Destroys
<1>5. /\ files_count' = [files_count EXCEPT ![t] = @ - 1]
      /\ KAssert(ref_count[Root] > 0)
      /\ ref_count' = [ref_count EXCEPT ![Root] = @ - 1]
      /\ mm' = [mm EXCEPT ![p] = FALSE]
      /\ op'.kind = "destroy" /\ op'.proc = p /\ op' = [kind |-> "destroy", proc |-> p]
      /\ UNCHANGED <<state, filesp, used, fd_array, pwd, open_count, lost, abandoned>>
  BY <1>1, <1>2, <1>3, <1>4 DEF PutFiles, history, KAssert
<1>6. Root \in Node /\ Pins(Root) = 1
  BY DEF Node, Pins
<1>7. ref_count[Root] > 0 /\ ref_count[Root] - 1 \in Nat
  <2>1. PICK e \in Nat : e = Cardinality(Entries(Root))
    BY <1>6, Terms
  <2>2. PICK d \in Nat : d = Cardinality(Dirs(Root))
    BY <1>6, Terms
  <2>3. PICK l \in Nat : l = IF Root \in File THEN lost[Root] ELSE 0
    BY <1>6, Terms
  <2>4. ref_count[Root] = e + d + 1 + l
    BY <1>6, <2>1, <2>2, <2>3, Terms DEF Exact
  <2>. QED BY <2>4
<1>8. halt' = halt
  BY <1>5, <1>7 DEF KAssert
<1>9. TypeOK'
  <2>1. files_count \in [Table -> Nat] /\ ref_count \in [Node -> Nat] /\ files_count[t] - 1 \in Nat
    BY <1>4 DEF FInv, TypeOK
  <2>2. files_count' \in [Table -> Nat] /\ ref_count' \in [Node -> Nat]
    BY <1>5, <1>7, <2>1
  <2>. QED BY <1>5, <1>8, <2>2 DEF FInv, TypeOK
<1>10. InRoot' /\ FileAssertsHold'
  BY <1>5, <1>8 DEF FInv, InRoot, FileAssertsHold
<1>11. /\ \A v \in Table : ~Destroys(v)
       /\ \A v \in Table : Destroys(v)' <=> v = t
  BY <1>1, <1>2, <1>5 DEF Destroys
<1>12. t \in Table /\ used \subseteq Table
  BY DEF FInv, TypeOK
<1>13. Ownership'
  <2>1. \A q \in Proc : Live(q) =>
          filesp[q] \in used /\ filesp[q] \in Table /\ filesp[q] \notin abandoned
          /\ files_count[filesp[q]] = 1
    BY <1>11, OwnTable
  <2>2. \A v \in Table : files_count'[v] = IF v = t THEN 0 ELSE files_count[v]
    BY <1>4, <1>5, <1>12 DEF FInv, TypeOK
  <2>3. \A q \in Proc : Live(q) =>
          /\ filesp[q] \in used /\ filesp[q] \notin abandoned
          /\ files_count'[filesp[q]] = IF filesp[q] = t THEN 0 ELSE 1
    BY <2>1, <2>2
  <2>4. \A v \in used : (\E q \in Proc : Live(q) /\ filesp[q] = v) \/ v \in abandoned
    BY <1>1 DEF FInv, Ownership
  <2>5. \A a, b \in Proc : Live(a) /\ Live(b) /\ filesp[a] = filesp[b] => a = b
    BY DEF FInv, Ownership
  <2>6. abandoned \subseteq used
    BY DEF FInv, Ownership
  <2>7. \A q \in Proc : (Live(q)' <=> Live(q)) /\ (Destroys(filesp[q])' <=> filesp[q] = t)
    BY <1>2, <1>5 DEF Live, Destroys
  <2>. QED BY <1>5, <2>3, <2>4, <2>5, <2>6, <2>7 DEF Ownership
<1>14. RunningOp'
  BY <1>1, <1>5 DEF RunningOp, Live
<1>15. ASSUME NEW m \in Node PROVE Exact(m)'
  <2>1. PICK x \in {0, 1} : x = IF m = Root THEN 1 ELSE 0
    OBVIOUS
  <2>2. PICK e \in Nat : e = Cardinality(Entries(m))
    BY Terms
  <2>3. PICK d \in Nat : d = Cardinality(Dirs(m))
    BY Terms
  <2>4. PICK k \in Nat : k = Pins(m)
    BY Terms
  <2>5. PICK l \in Nat : l = IF m \in File THEN lost[m] ELSE 0
    BY Terms
  <2>6. open_count[m] = e /\ ref_count[m] = e + d + k + l
    BY <2>2, <2>3, <2>4, <2>5, Terms DEF Exact
  <2>7. open_count'[m] = e /\ ref_count'[m] = (e + d + k + l) - x
    BY <1>5, <2>1, <2>6 DEF FInv, TypeOK
  <2>8. Entries(m)' = Entries(m)
    BY <1>5 DEF Entries
  <2>9. Cardinality(Dirs(m)') = d - x
    <3>1. IsFiniteSet(Dirs(m))
      BY DirsFinite
    <3>2. CASE m = Root
      <4>1. t \in Dirs(m)
        BY <1>4, <1>11, <1>12, <3>2 DEF Dirs, Destroys
      <4>2. Dirs(m)' = Dirs(m) \ {t}
        <5>1. Dirs(m) = {v \in used : pwd[v] = m}
          BY <1>1 DEF Dirs
        <5>2. Dirs(m)' = {v \in used : pwd[v] = m /\ v # t}
          BY <1>2, <1>5 DEF Dirs
        <5>. QED BY <5>1, <5>2
      <4>3. Cardinality(Dirs(m) \ {t}) = Cardinality(Dirs(m)) - 1
        BY <3>1, <4>1, FS_RemoveElement
      <4>. QED BY <2>1, <2>3, <3>2, <4>2, <4>3
    <3>3. CASE m # Root
      <4>1. Dirs(m)' = Dirs(m)
        BY <1>4, <1>5, <1>11, <1>12, <3>3 DEF Dirs, Destroys
      <4>. QED BY <2>1, <2>3, <3>3, <4>1
    <3>. QED BY <3>2, <3>3
  <2>10. Pins(m)' = k /\ (IF m \in File THEN lost'[m] ELSE 0) = l
    BY <1>5, <2>4, <2>5 DEF Pins
  <2>11. (e + d + k + l) - x = e + (d - x) + k + l
    OBVIOUS
  <2>. QED BY <2>2, <2>7, <2>8, <2>9, <2>10, <2>11 DEF Exact
<1>. QED BY <1>9, <1>10, <1>13, <1>14, <1>15 DEF FInv

LEMMA DestroyedStep ==
  ASSUME FInv, Destroyed
  PROVE  FInv'
<1>1. PICK p \in Proc : p = op.proc /\ Live(p) /\ op.kind = "destroy"
  BY WhichOp DEF Destroyed, Runs
<1>2. PICK t \in used : t = filesp[p]
  BY <1>1, OwnTable
<1>3. \A fd \in Fd : fd_array[t][fd] = NULL
  BY <1>1, <1>2 DEF Destroyed, Opened
<1>4. /\ used' = used \ {t}
      /\ state' = [state EXCEPT ![p] = "ZOMBIE"]
      /\ op' = Idle
      /\ UNCHANGED <<mm, filesp, files_count, fd_array, pwd, counts, halt, lost, abandoned>>
  BY <1>1, <1>2 DEF Destroyed, Freed, history
<1>5. op'.kind = "none"
  BY <1>4 DEF Idle
<1>6. TypeOK' /\ InRoot' /\ FileAssertsHold'
  BY <1>4 DEF FInv, TypeOK, InRoot, FileAssertsHold, counts
<1>7. /\ \A v \in Table : Destroys(v) <=> v = t
      /\ \A v \in Table : ~Destroys(v)'
  BY <1>1, <1>2, <1>5 DEF Destroys
<1>8. used \subseteq Table
  BY DEF FInv, TypeOK
<1>9. Ownership'
  <2>1. \A q \in Proc : Live(q)' <=> Live(q) /\ q # p
    BY <1>4 DEF Live, FInv, TypeOK
  <2>2. \A a, b \in Proc : Live(a) /\ Live(b) /\ filesp[a] = filesp[b] => a = b
    BY DEF FInv, Ownership
  <2>3. \A q \in Proc : Live(q) /\ q # p =>
          /\ filesp[q] \in used /\ filesp[q] \in Table /\ filesp[q] \notin abandoned
          /\ filesp[q] # t /\ files_count[filesp[q]] = 1
    BY <1>1, <1>2, <1>7, <2>2, OwnTable
  <2>4. \A v \in used : (\E q \in Proc : Live(q) /\ filesp[q] = v) \/ v \in abandoned
    BY <1>1 DEF FInv, Ownership
  <2>5. \A v \in used' : (\E q \in Proc : Live(q)' /\ filesp[q] = v) \/ v \in abandoned
    BY <1>2, <1>4, <2>1, <2>4
  <2>6. abandoned \subseteq used'
    BY <1>1, <1>2, <1>4, OwnTable DEF FInv, Ownership
  <2>7. \A q \in Proc : Live(q)' =>
          /\ filesp[q] \in used' /\ filesp[q] \notin abandoned
          /\ files_count[filesp[q]] = 1 /\ filesp[q] \in Table
    BY <1>4, <2>1, <2>3
  <2>. QED BY <1>4, <1>7, <2>1, <2>2, <2>5, <2>6, <2>7 DEF Ownership
<1>10. RunningOp'
  BY <1>4 DEF RunningOp, Idle
<1>11. ASSUME NEW m \in Node PROVE Exact(m)'
  <2>1. Entries(m)' = Entries(m)
    BY <1>3, <1>4, SameEntries
  <2>2. Dirs(m)' = Dirs(m)
    BY <1>4, <1>7, <1>8 DEF Dirs, Destroys
  <2>. QED BY <1>4, <2>1, <2>2 DEF FInv, Exact, Pins, counts
<1>. QED BY <1>6, <1>9, <1>10, <1>11 DEF FInv

LEMMA ExitWithoutMmStep ==
  ASSUME FInv, ExitWithoutMm
  PROVE  FInv'
<1>1. PICK p \in Proc : p = op.proc /\ Live(p) /\ op.kind = "exit"
  BY WhichOp DEF ExitWithoutMm, Runs
<1>2. PICK t \in used : t = filesp[p] /\ t \notin abandoned
  BY <1>1, OwnTable
<1>3. /\ state' = [state EXCEPT ![p] = "ZOMBIE"]
      /\ abandoned' = abandoned \cup {t}
      /\ op' = Idle
      /\ UNCHANGED <<mm, filesp, tables, counts, halt, lost>>
  BY <1>1, <1>2 DEF ExitWithoutMm
<1>4. op'.kind = "none"
  BY <1>3 DEF Idle
<1>5. TypeOK' /\ InRoot' /\ FileAssertsHold'
  BY <1>3 DEF FInv, TypeOK, InRoot, FileAssertsHold, tables, counts
<1>6. \A v \in Table : ~Destroys(v) /\ ~Destroys(v)'
  BY <1>1, <1>4 DEF Destroys
<1>7. used \subseteq Table
  BY DEF FInv, TypeOK
<1>8. Ownership'
  <2>1. \A q \in Proc : Live(q)' <=> Live(q) /\ q # p
    BY <1>3 DEF Live, FInv, TypeOK
  <2>2. \A a, b \in Proc : Live(a) /\ Live(b) /\ filesp[a] = filesp[b] => a = b
    BY DEF FInv, Ownership
  <2>3. \A q \in Proc : Live(q) /\ q # p =>
          /\ filesp[q] \in used /\ filesp[q] \in Table /\ filesp[q] \notin abandoned'
          /\ files_count[filesp[q]] = 1
    BY <1>1, <1>2, <1>3, <1>6, <2>2, OwnTable
  <2>4. \A v \in used : (\E q \in Proc : Live(q) /\ filesp[q] = v) \/ v \in abandoned
    BY <1>1 DEF FInv, Ownership
  <2>5. \A v \in used : (\E q \in Proc : Live(q)' /\ filesp[q] = v) \/ v \in abandoned'
    BY <1>2, <1>3, <2>1, <2>4
  <2>6. abandoned' \subseteq used
    BY <1>3 DEF FInv, Ownership
  <2>. QED BY <1>3, <1>6, <2>1, <2>2, <2>3, <2>5, <2>6 DEF Ownership, tables
<1>9. RunningOp'
  BY <1>3 DEF RunningOp, Idle
<1>10. ASSUME NEW m \in Node PROVE Exact(m)'
  <2>1. Entries(m)' = Entries(m)
    BY <1>3 DEF Entries, tables
  <2>2. Dirs(m)' = Dirs(m)
    BY <1>3, <1>6, <1>7 DEF Dirs, Destroys, tables
  <2>. QED BY <1>3, <2>1, <2>2 DEF FInv, Exact, Pins, counts
<1>. QED BY <1>5, <1>8, <1>9, <1>10 DEF FInv

LEMMA WaitStep ==
  ASSUME FInv, NEW z \in Proc, Wait(z)
  PROVE  FInv'
<1>1. /\ op = Idle /\ state[z] = "ZOMBIE"
      /\ state' = [state EXCEPT ![z] = "NONE"]
      /\ filesp' = [filesp EXCEPT ![z] = NULL]
      /\ UNCHANGED <<mm, tables, counts, op, halt, history>>
  BY DEF Wait
<1>2. op.kind = "none"
  BY <1>1 DEF Idle
<1>3. TypeOK' /\ InRoot' /\ FileAssertsHold'
  BY <1>1 DEF FInv, TypeOK, InRoot, FileAssertsHold, tables, counts, history
<1>4. \A v \in Table : ~Destroys(v) /\ ~Destroys(v)'
  BY <1>1, <1>2 DEF Destroys
<1>5. Ownership'
  <2>1. \A q \in Proc : /\ Live(q)' <=> Live(q)
                        /\ Live(q) => filesp'[q] = filesp[q]
    BY <1>1 DEF Live, FInv, TypeOK
  <2>2. \A q \in Proc : Live(q) => filesp[q] \in Table /\ files_count[filesp[q]] = 1
                                   /\ filesp[q] \in used /\ filesp[q] \notin abandoned
    BY <1>4, OwnTable
  <2>3. \A q \in Proc : Live(q)' =>
          /\ filesp'[q] \in used' /\ filesp'[q] \notin abandoned'
          /\ files_count'[filesp'[q]] = 1 /\ ~Destroys(filesp[q])'
    BY <1>1, <1>2, <2>1, <2>2 DEF tables, history, Destroys
  <2>4. \A v \in used : (\E q \in Proc : Live(q) /\ filesp[q] = v) \/ v \in abandoned
    BY <1>2 DEF FInv, Ownership
  <2>5. \A v \in used' : (\E q \in Proc : Live(q)' /\ filesp'[q] = v) \/ v \in abandoned'
    BY <1>1, <2>1, <2>4 DEF tables, history
  <2>6. \A a, b \in Proc : Live(a)' /\ Live(b)' /\ filesp'[a] = filesp'[b] => a = b
    BY <2>1 DEF FInv, Ownership
  <2>7. abandoned' \subseteq used'
    BY <1>1 DEF FInv, Ownership, tables, history
  <2>. QED BY <2>3, <2>5, <2>6, <2>7 DEF Ownership
<1>6. RunningOp'
  BY <1>1 DEF RunningOp, Idle
<1>7. ASSUME NEW m \in Node PROVE Exact(m)'
  <2>1. Dirs(m)' = Dirs(m)
    BY <1>1, <1>2 DEF Dirs, tables
  <2>2. Entries(m)' = Entries(m)
    BY <1>1 DEF Entries, tables
  <2>. QED BY <1>1, <2>1, <2>2 DEF FInv, Exact, Pins, counts, history
<1>. QED BY <1>3, <1>5, <1>6, <1>7 DEF FInv
-----------------------------------------------------------------------------
(* The theorems.                                                           *)

LEMMA InitFInv == Init => FInv
<1>. SUFFICES ASSUME Init PROVE FInv
  OBVIOUS
<1>1. PICK u \in Proc \ {Initproc}, s \in Table, t \in Table :
        /\ s # t
        /\ state = [p \in Proc |-> IF p \in {Initproc, u} THEN "RUNNABLE" ELSE "NONE"]
        /\ mm = [p \in Proc |-> FALSE]
        /\ filesp = [p \in Proc |-> CASE p = Initproc -> s [] p = u -> t [] OTHER -> NULL]
        /\ used = {s, t}
        /\ files_count = [v \in Table |-> IF v \in used THEN 1 ELSE 0]
        /\ fd_array = [v \in Table |-> NoFiles]
        /\ pwd = [v \in Table |-> IF v \in used THEN Root ELSE NULL]
        /\ ref_count = [n \in Node |-> CASE n = Root -> 3 [] n \in Device -> 1 [] OTHER -> 0]
        /\ open_count = [n \in Node |-> 0]
        /\ op = Idle /\ halt = "no"
        /\ lost = [f \in File |-> 0] /\ abandoned = {}
  BY DEF Init
<1>2. /\ Initproc \in Proc /\ u \in Proc /\ u # Initproc
      /\ filesp[Initproc] = s /\ filesp[u] = t
      /\ \A p \in Proc : p # Initproc /\ p # u => filesp[p] = NULL
  BY <1>1, FilesAssumption
<1>3. \A p \in Proc : Live(p) <=> p \in {Initproc, u}
  BY <1>1 DEF Live
<1>4. op.kind = "none"
  BY <1>1 DEF Idle
<1>5. NoFiles \in [Fd -> Node \cup {NULL}] /\ \A fd \in Fd : NoFiles[fd] = NULL
  BY DEF NoFiles
<1>6. TypeOK
  <2>1. state \in [Proc -> {"NONE", "RUNNABLE", "ZOMBIE"}] /\ mm \in [Proc -> BOOLEAN]
    BY <1>1
  <2>2. filesp \in [Proc -> Table \cup {NULL}]
    BY <1>1
  <2>3. /\ used \subseteq Table /\ files_count \in [Table -> Nat]
        /\ pwd \in [Table -> {Root, NULL}]
    BY <1>1
  <2>4. fd_array \in [Table -> [Fd -> Node \cup {NULL}]]
    BY <1>1, <1>5
  <2>5. ref_count \in [Node -> Nat] /\ open_count \in [Node -> Nat]
    BY <1>1
  <2>6. halt \in {"no", "assert"} /\ lost \in [File -> Nat] /\ abandoned \subseteq Table
    BY <1>1
  <2>. QED BY <2>1, <2>2, <2>3, <2>4, <2>5, <2>6 DEF TypeOK
<1>7. Ownership
  BY <1>1, <1>2, <1>3, <1>4 DEF Ownership, Destroys
<1>8. RunningOp /\ InRoot /\ FileAssertsHold
  BY <1>1 DEF RunningOp, InRoot, FileAssertsHold
<1>9. ASSUME NEW m \in Node PROVE Exact(m)
  <2>1. Entries(m) = {}
    BY <1>1, <1>5, NullIsNone DEF Entries
  <2>2. Cardinality(Entries(m)) = 0
    BY <2>1, FS_EmptySet
  <2>3. (IF m \in File THEN lost[m] ELSE 0) = 0
    BY <1>1
  <2>4. open_count[m] = 0
    BY <1>1
  <2>5. CASE m = Root
    <3>1. Dirs(m) = {s, t}
      BY <1>1, <1>4, <2>5 DEF Dirs
    <3>2. IsFiniteSet({s}) /\ Cardinality({s}) = 1
      BY FS_Singleton
    <3>3. Cardinality({s} \cup {t}) = Cardinality({s}) + 1
      BY <1>1, <3>2, FS_AddElement
    <3>4. {s} \cup {t} = {s, t}
      OBVIOUS
    <3>5. Cardinality(Dirs(m)) = 2
      BY <3>1, <3>2, <3>3, <3>4
    <3>6. ref_count[m] = 3
      BY <1>1, <2>5, FilesAssumption
    <3>7. Pins(m) = 1
      BY <2>5 DEF Pins
    <3>. QED BY <2>2, <2>3, <2>4, <3>5, <3>6, <3>7 DEF Exact
  <2>6. CASE m # Root
    <3>1. Dirs(m) = {}
      BY <1>1, <2>6 DEF Dirs
    <3>2. Cardinality(Dirs(m)) = 0
      BY <3>1, FS_EmptySet
    <3>3. ref_count[m] = Pins(m) /\ Pins(m) \in Nat
      BY <1>1, <2>6 DEF Pins
    <3>. QED BY <2>2, <2>3, <2>4, <3>2, <3>3 DEF Exact
  <2>. QED BY <2>5, <2>6
<1>. QED BY <1>6, <1>7, <1>8, <1>9 DEF FInv

LEMMA NextFInv == FInv /\ [Next]_vars => FInv'
<1>. SUFFICES ASSUME FInv, [Next]_vars PROVE FInv'
  OBVIOUS
<1>1. CASE \E p \in Proc : \E n \in File \cup Device : Open(p, n)
  BY <1>1, OpenStep
<1>2. CASE \E p \in Proc : \E f \in File : OpenExists(p, f) \/ Exec(p, f)
  BY <1>2, OpenExistsStep, ExecStep
<1>3. CASE \E p \in Proc : \E fd \in Fd : Close(p, fd) \/ \E fd2 \in Fd : Dup(p, fd, fd2)
  BY <1>3, CloseAction, DupAction
<1>4. CASE \E p \in Proc : \E c \in Proc, t \in Table : Fork(p, c, t)
  BY <1>4, ForkStep
<1>5. CASE (\E p \in Proc : Exit(p)) \/ ExecNoFile \/ LoadFails
  BY <1>5, ExitSteps
<1>6. CASE \E p \in Proc : Wait(p)
  BY <1>6, WaitStep
<1>7. CASE DupFiles \/ Forked
  BY <1>7, DupFilesStep, ForkedStep
<1>8. CASE CloseAll \/ ExecOpen \/ LoadIcode
  BY <1>8, CloseAllStep, ExecOpenStep, LoadIcodeStep
<1>9. CASE PutFiles \/ DestroyFiles \/ Destroyed \/ ExitWithoutMm
  BY <1>9, PutFilesStep, DestroyFilesStep, DestroyedStep, ExitWithoutMmStep
<1>10. CASE UNCHANGED vars
  <2>1. UNCHANGED <<state, mm, filesp, used, files_count, fd_array, pwd, ref_count,
                    open_count, op, halt, lost, abandoned>>
    BY <1>10 DEF vars, procs, tables, counts, history
  <2>2. TypeOK' /\ Ownership' /\ InRoot' /\ FileAssertsHold'
    BY <2>1 DEF FInv, TypeOK, Ownership, Live, Destroys, InRoot, FileAssertsHold
  <2>3. RunningOp'
    BY <2>1 DEF FInv, RunningOp, Live
  <2>4. \A m \in Node : Exact(m)'
    BY <2>1 DEF FInv, Exact, Entries, Dirs, Pins
  <2>. QED BY <2>2, <2>3, <2>4 DEF FInv
<1>. QED BY <1>1, <1>2, <1>3, <1>4, <1>5, <1>6, <1>7, <1>8, <1>9, <1>10 DEF Next

\* The inductive invariant holds: every table is owned, the operation that runs
\* is one of a process that lives, and the counts are exact (file.c, fs.c,
\* inode.c, and their callers in proc.c).
THEOREM FilesInvariance == Spec => []FInv
<1>1. Init => FInv
  BY InitFInv
<1>2. FInv /\ [Next]_vars => FInv'
  BY NextFInv
<1>. QED BY <1>1, <1>2, PTL DEF Spec

\* The counts of an inode are what refers to it (inode.c:51-103, file.c:92-123),
\* for any number of processes, inodes and tables.
THEOREM CountsAreExact == Spec => []CountsExact
<1>1. FInv => CountsExact
  BY DEF FInv, Exact, CountsExact
<1>. QED BY <1>1, FilesInvariance, PTL

\* Every table is that of one process, is being copied or was left behind
\* (fs.c:34-98, proc.c:384-423).
THEOREM TablesAreOwned == Spec => []TablesOwned
<1>1. ASSUME FInv PROVE TablesOwned
  <2>. DEFINE live  == {p \in Proc : state[p] = "RUNNABLE"}
              owned == {filesp[p] : p \in live}
  <2>1. \A p, q \in live : filesp[p] = filesp[q] => p = q
    BY <1>1 DEF FInv, Ownership, Live
  <2>2. \A t \in owned : files_count[t] = (IF op.kind = "destroy" /\ filesp[op.proc] = t
                                           THEN 0 ELSE 1)
    BY <1>1 DEF FInv, Ownership, Live, Destroys
  <2>3. owned \cap abandoned = {} /\ owned \subseteq used /\ abandoned \subseteq used
    BY <1>1 DEF FInv, Ownership, Live
  <2>4. op.kind = "dup" => op.table \in used
    BY <1>1, WhichOp
  <2>5. \A t \in used : t \in owned \/ t \in abandoned \/ (op.kind = "dup" /\ t = op.table)
    BY <1>1 DEF FInv, Ownership, Live
  <2>6. used = owned \cup abandoned \cup (IF op.kind = "dup" THEN {op.table} ELSE {})
    BY <2>3, <2>4, <2>5
  <2>. QED BY <2>1, <2>2, <2>3, <2>6 DEF TablesOwned
<1>. QED BY <1>1, FilesInvariance, PTL

\* The assertions of file.c, fs.c and inode.c hold, whatever the processes do.
THEOREM NoFileAssertFails == Spec => []FileAssertsHold
<1>1. FInv => FileAssertsHold
  BY DEF FInv
<1>. QED BY <1>1, FilesInvariance, PTL
=============================================================================
