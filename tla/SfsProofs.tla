------------------------------ MODULE SfsProofs ------------------------------
(***************************************************************************)
(* No operation of SfsBlocks loses a block or gives one to two places, and *)
(* no file has holes, for disks, inodes and blocks of any size, any number *)
(* of files and any positions, as long as the disk is full before a file   *)
(* runs out of entries. The proof numbers the places of a file that may    *)
(* refer to a block, and follows what each action does to that one map.    *)
(***************************************************************************)
EXTENDS SfsBlocks, FiniteSetTheorems, WellFoundedInduction, TLAPS

\* The places of an inode that refer to a block: the direct blocks, the
\* entries of its indirect block, and the indirect block itself.
IndirectPlace == SFS_NDIRECT + SFS_BLK_NENTRY
Place == 0 .. IndirectPlace
MayBlock == Block \cup {NoBlock}
RefMaps == [File -> [Place -> MayBlock]]

\* What the place i of an inode refers to, and of every file.
RefOf(node, tables, i) ==
  IF i \in Direct THEN node.direct[i]
  ELSE IF i = IndirectPlace THEN node.indirect
  ELSE IF node.indirect = NoBlock THEN NoBlock
  ELSE tables[node.indirect][EntryOf(i)]
RefMap == [f \in File |-> [i \in Place |-> RefOf(din[f], content, i)]]

\* No two places refer to one block, and the free blocks are the others.
Exact(A, free) ==
  /\ \A f, g \in File, i, j \in Place :
       A[f][i] = A[g][j] /\ A[f][i] # NoBlock => f = g /\ i = j
  /\ free \subseteq Block
  /\ \A b \in Block : b \in free <=> \A f \in File, i \in Place : A[f][i] # b

\* The places below blocks are taken.
Filled == \A f \in File :
  /\ din[f].blocks <= IndirectPlace
  /\ \A i \in 0 .. din[f].blocks - 1 : RefMap[f][i] # NoBlock

\* The blocks that a file of this length needs.
Needed(len) == ROUNDUP_DIV(len, SFS_BLKSIZE)

\* A file has the blocks for its size, also while it grows, and while it
\* shrinks it has those for its new size.
Sized == \A f \in File :
  \/ Needed(din[f].size) <= din[f].blocks
  \/ op # Idle /\ op.file = f /\ Target <= din[f].blocks

\* What would be read again from the disk. An inode that is not dirty may have
\* more blocks than on the disk, never others.
OnDisk == \A f \in File :
  /\ Needed(disk[f].size) <= disk[f].blocks
  /\ f \notin dirty => /\ disk[f].direct = din[f].direct
                       /\ disk[f].indirect = din[f].indirect
                       /\ disk[f].blocks <= din[f].blocks
  /\ f \notin loaded => din[f] = disk[f]

\* The inductive invariant of SfsBlocks.
SfsInv ==
  /\ TypeOK /\ BlockAssertsHold
  /\ Exact(RefMap, freemap) /\ unused_blocks = Cardinality(freemap)
  /\ Filled /\ Sized /\ OnDisk

-----------------------------------------------------------------------------
(* Numbers and sets.                                                       *)

LEMMA SfsNumbers ==
  /\ SFS_NDIRECT \in Nat /\ SFS_NDIRECT > 0 /\ SFS_BLK_NENTRY \in Nat /\ SFS_BLK_NENTRY > 0
  /\ IndirectPlace \in Nat /\ IndirectPlace = SFS_NDIRECT + SFS_BLK_NENTRY
  /\ NBlock \in Nat /\ NBlock <= IndirectPlace
  /\ NoBlock \notin Block /\ Direct \subseteq Place /\ IndirectPlace \in Place
  /\ IndirectPlace \notin Direct /\ Position \subseteq Nat
  /\ \A i \in Place \ (Direct \cup {IndirectPlace}) : EntryOf(i) \in Entry
BY SfsAssumption, DiskIsSmall DEF IndirectPlace, Place, Direct, Entry, EntryOf, Block, NoBlock

\* A length needs some number of blocks.
LEMMA NeededNat == ASSUME NEW len \in Nat PROVE Needed(len) \in Nat
<1>. DEFINE n == len + SFS_BLKSIZE - 1
<1>1. SFS_BLKSIZE \in Nat /\ SFS_BLKSIZE > 0 /\ n \in Nat
  BY SfsAssumption
<1>2. Needed(len) = n \div SFS_BLKSIZE
  BY DEF Needed, ROUNDUP_DIV
<1>. HIDE DEF n
<1>. QED BY <1>1, <1>2

LEMMA PositionNat == ASSUME NEW p \in Position \cup {0} PROVE p \in Nat
<1>1. p \in Position => p \in Nat
  BY SfsAssumption
<1>2. p = 0 => p \in Nat
  OBVIOUS
<1>. QED BY <1>1, <1>2

\* So does every file, and the one that sfs_truncfile asks for.
LEMMA SizeNat == ASSUME NEW node \in Inode PROVE node.size \in Nat /\ Needed(node.size) \in Nat
<1>1. node.size \in Position \cup {0}
  BY DEF Inode
<1>2. node.size \in Nat
  BY <1>1, PositionNat
<1>. QED BY <1>2, NeededNat

LEMMA TargetNat == ASSUME TypeOK, op # Idle PROVE op.len \in Nat /\ Target \in Nat
<1>1. op.len \in Position \cup {0}
  BY DEF TypeOK
<1>2. op.len \in Nat
  BY <1>1, PositionNat
<1>. QED BY <1>2, NeededNat DEF Target, Needed

\* Some blocks of the disk.
LEMMA BlocksFinite ==
  ASSUME NEW S \in SUBSET Block
  PROVE  IsFiniteSet(S) /\ Cardinality(S) \in Nat
<1>1. IsFiniteSet(Block)
  <2>1. 1 \in Int /\ NBlock \in Int
    BY SfsNumbers
  <2>. QED BY <2>1, FS_Interval DEF Block
<1>2. IsFiniteSet(S)
  BY <1>1, FS_Subset
<1>. QED BY <1>2, FS_CardinalityType

\* A set of blocks has a lowest one.
LEMMA LowestIn ==
  ASSUME NEW S \in SUBSET Block, S # {}
  PROVE  \E b \in S : \A c \in S : b <= c
<1>. DEFINE R == {ss \in Nat \X Nat : ss[1] < ss[2]}
<1>1. IsWellFoundedOn(R, Nat)
  BY NatLessThanWellFounded DEF OpToRel
<1>. HIDE DEF R
<1>2. S \subseteq Nat
  BY DEF Block
<1>3. PICK x \in S : \A y \in S : <<y, x>> \notin R
  BY <1>1, <1>2, WFMin
<1>4. \A y \in S : <<y, x>> \in R <=> y < x
  BY <1>2 DEF R
<1>5. \A y \in S : y \in Nat /\ x \in Nat /\ ~(y < x)
  BY <1>2, <1>3, <1>4
<1>. QED BY <1>5

\* bitmap_alloc finds a free block if there is one, and a second call another.
LEMMA BitmapAlloc ==
  ASSUME freemap \subseteq Block
  PROVE  /\ freemap # {} => bitmap_alloc(1) \in freemap
         /\ Cardinality(freemap) >= 2 =>
              /\ bitmap_alloc(1) \in freemap /\ bitmap_alloc(2) \in freemap
              /\ bitmap_alloc(1) # bitmap_alloc(2)
<1>. DEFINE below(b) == {c \in freemap : c < b}
            kth(b, k) == Cardinality(below(b)) = k - 1
<1>1. \A b \in freemap : b \in Nat
  BY DEF Block
<1>2. ASSUME freemap # {} PROVE \E b \in freemap : kth(b, 1)
  <2>1. PICK b \in freemap : \A c \in freemap : b <= c
    BY <1>2, LowestIn
  <2>2. below(b) = {}
    BY <1>1, <2>1
  <2>. QED BY <2>2, FS_EmptySet
<1>3. freemap # {} => bitmap_alloc(1) \in freemap /\ kth(bitmap_alloc(1), 1)
  BY <1>2 DEF bitmap_alloc
<1>4. ASSUME Cardinality(freemap) >= 2 PROVE \E b \in freemap : kth(b, 2)
  <2>1. freemap # {} /\ IsFiniteSet(freemap) /\ Cardinality(freemap) \in Nat
    BY <1>4, BlocksFinite, FS_EmptySet
  <2>2. PICK b \in freemap : \A c \in freemap : b <= c
    BY <2>1, LowestIn
  <2>3. freemap \ {b} # {}
    <3>1. freemap # {b}
      BY <1>4, FS_Singleton
    <3>. QED BY <2>1, <3>1
  <2>4. PICK d \in freemap \ {b} : \A c \in freemap \ {b} : d <= c
    BY <2>3, LowestIn
  <2>5. below(d) = {b}
    <3>1. b \in Nat /\ d \in Nat /\ b <= d /\ b # d /\ b \in freemap
      BY <1>1, <2>2, <2>4
    <3>2. b < d
      BY <3>1
    <3>3. \A c \in freemap : c < d => c = b
      BY <1>1, <2>4
    <3>4. \A c : c \in below(d) <=> c = b
      BY <3>1, <3>2, <3>3
    <3>. QED BY <3>4
  <2>6. Cardinality(below(d)) = 1
    BY <2>5, FS_Singleton
  <2>7. kth(d, 2)
    BY <2>6
  <2>. HIDE DEF kth
  <2>. QED BY <2>4, <2>7
<1>5. Cardinality(freemap) >= 2 => bitmap_alloc(2) \in freemap /\ kth(bitmap_alloc(2), 2)
  BY <1>4 DEF bitmap_alloc
<1>6. Cardinality(freemap) >= 2 => freemap # {}
  BY FS_EmptySet
<1>7. \A b : ~(kth(b, 1) /\ kth(b, 2))
  OBVIOUS
<1>. HIDE DEF kth
<1>. QED BY <1>3, <1>5, <1>6, <1>7

\* Only the place i of f changes, from A to B.
Puts(A, B, f, i, b) ==
  /\ B \in RefMaps
  /\ \A g \in File, j \in Place : B[g][j] = IF g = f /\ j = i THEN b ELSE A[g][j]

LEMMA PutsExcept ==
  ASSUME NEW A \in RefMaps, NEW f \in File, NEW i \in Place, NEW b \in MayBlock
  PROVE  Puts(A, [A EXCEPT ![f][i] = b], f, i, b)
BY DEF Puts, RefMaps

\* A place that was empty gets a free block.
LEMMA PutExact ==
  ASSUME NEW A \in RefMaps, NEW free, Exact(A, free), NEW b \in free,
         NEW f \in File, NEW i \in Place, A[f][i] = NoBlock,
         NEW B, Puts(A, B, f, i, b)
  PROVE  Exact(B, free \ {b})
<1>1. b \in Block /\ b # NoBlock
  BY SfsNumbers DEF Exact
<1>3. \A g \in File, j \in Place : B[g][j] = IF g = f /\ j = i THEN b ELSE A[g][j]
  BY DEF Puts
<1>4. \A g \in File, j \in Place : A[g][j] # b
  BY <1>1 DEF Exact
<1>5. \A g, h \in File, j, k \in Place :
        B[g][j] = B[h][k] /\ B[g][j] # NoBlock => g = h /\ j = k
  BY <1>3, <1>4 DEF Exact
<1>6. \A c \in Block : c \in free \ {b} <=> \A g \in File, j \in Place : B[g][j] # c
  <2>. SUFFICES ASSUME NEW c \in Block
                PROVE  c \in free \ {b} <=> \A g \in File, j \in Place : B[g][j] # c
    OBVIOUS
  <2>1. CASE c = b
    BY <1>3, <2>1
  <2>2. CASE c # b
    <3>1. \A g \in File, j \in Place : A[g][j] = c <=> B[g][j] = c
      BY <1>1, <1>3, <2>2, SfsNumbers
    <3>. QED BY <2>2, <3>1 DEF Exact
  <2>. QED BY <2>1, <2>2
<1>. QED BY <1>5, <1>6 DEF Exact

\* A place gives its block back.
LEMMA DropExact ==
  ASSUME NEW A \in RefMaps, NEW free, Exact(A, free),
         NEW f \in File, NEW i \in Place, A[f][i] # NoBlock,
         NEW B, Puts(A, B, f, i, NoBlock)
  PROVE  Exact(B, free \cup {A[f][i]}) /\ A[f][i] \in Block \ free
<1>. DEFINE b == A[f][i]
<1>1. b \in Block /\ b \notin free
  BY DEF Exact, RefMaps, MayBlock
<1>3. \A g \in File, j \in Place : B[g][j] = IF g = f /\ j = i THEN NoBlock ELSE A[g][j]
  BY DEF Puts
<1>4. \A g, h \in File, j, k \in Place :
        B[g][j] = B[h][k] /\ B[g][j] # NoBlock => g = h /\ j = k
  BY <1>3 DEF Exact
<1>5. \A c \in Block : c \in free \cup {b} <=> \A g \in File, j \in Place : B[g][j] # c
  <2>. SUFFICES ASSUME NEW c \in Block
                PROVE  c \in free \cup {b} <=> \A g \in File, j \in Place : B[g][j] # c
    OBVIOUS
  <2>1. CASE c = b
    <3>1. \A g \in File, j \in Place : B[g][j] # b
      <4>. SUFFICES ASSUME NEW g \in File, NEW j \in Place, B[g][j] = b PROVE FALSE
        OBVIOUS
      <4>1. b # NoBlock /\ ~(g = f /\ j = i) /\ A[g][j] = A[f][i]
        BY <1>3
      <4>. QED BY <4>1 DEF Exact
    <3>. QED BY <2>1, <3>1
  <2>2. CASE c # b
    <3>1. \A g \in File, j \in Place : A[g][j] = c <=> B[g][j] = c
      BY <1>3, <2>2, SfsNumbers
    <3>. QED BY <2>2, <3>1 DEF Exact
  <2>. QED BY <2>1, <2>2
<1>. QED BY <1>1, <1>4, <1>5 DEF Exact

-----------------------------------------------------------------------------
(* What the invariant says of one file.                                    *)

\* A reference is a block or none.
LEMMA RefOfType ==
  ASSUME NEW node \in Inode, NEW tables \in [Block -> Table], NEW i \in Place
  PROVE  RefOf(node, tables, i) \in MayBlock
BY SfsNumbers DEF RefOf, Inode, Table, MayBlock

LEMMA RefMapType ==
  ASSUME TypeOK
  PROVE  /\ RefMap \in RefMaps
         /\ \A f \in File, i \in Place : RefMap[f][i] = RefOf(din[f], content, i)
<1>1. \A f \in File, i \in Place : RefOf(din[f], content, i) \in MayBlock
  BY RefOfType DEF TypeOK
<1>. QED BY <1>1 DEF RefMap, RefMaps

\* ... and in the next state.
LEMMA RefMapTypeNext ==
  ASSUME din' \in [File -> Inode], content' \in [Block -> Table]
  PROVE  /\ RefMap' \in RefMaps
         /\ \A f \in File, i \in Place : RefMap'[f][i] = RefOf(din'[f], content', i)
<1>1. \A f \in File, i \in Place : RefOf(din'[f], content', i) \in MayBlock
  BY RefOfType
<1>. QED BY <1>1 DEF RefMap, RefMaps

\* sfs_bmap_get_nolock looks at the place of the index.
LEMMA BmapPlace ==
  ASSUME TypeOK, NEW f \in File, NEW i \in Place \ {IndirectPlace}
  PROVE  bmap(f, i) = RefMap[f][i]
BY RefMapType, SfsNumbers DEF bmap, RefOf

\* An indirect block is in use and nothing else.
LEMMA IndirectBlock ==
  ASSUME SfsInv, NEW f \in File, din[f].indirect # NoBlock
  PROVE  /\ din[f].indirect \in Block \ freemap
         /\ RefMap[f][IndirectPlace] = din[f].indirect
         /\ \A g \in File, i \in Place :
              RefMap[g][i] = din[f].indirect => g = f /\ i = IndirectPlace
<1>1. /\ RefMap[f][IndirectPlace] = din[f].indirect /\ IndirectPlace \in Place
      /\ din[f].indirect \in Block
  BY RefMapType, SfsNumbers DEF SfsInv, RefOf, TypeOK, Inode
<1>. QED BY <1>1 DEF SfsInv, Exact

\* A file never runs out of places: the disk has fewer blocks than it has places.
LEMMA RoomLeft ==
  ASSUME SfsInv, NEW f \in File
  PROVE  din[f].blocks \in Nat /\ din[f].blocks < IndirectPlace
<1>1. din[f].blocks \in Nat /\ din[f].blocks <= IndirectPlace /\ IndirectPlace \in Nat
  BY SfsNumbers DEF SfsInv, TypeOK, Inode, Filled
<1>2. ASSUME din[f].blocks = IndirectPlace PROVE FALSE
  <2>1. \A i \in Place : i # IndirectPlace => RefMap[f][i] # NoBlock
    BY <1>1, <1>2 DEF SfsInv, Filled, Place
  <2>2. SFS_NDIRECT \in Place \ (Direct \cup {IndirectPlace})
    BY SfsNumbers DEF Place, Direct
  <2>3. din[f].indirect # NoBlock
    BY <2>1, <2>2, RefMapType DEF SfsInv, RefOf
  <2>4. \A i \in Place : RefMap[f][i] # NoBlock /\ RefMap[f][i] \in MayBlock
    <3>1. RefMap \in RefMaps
      BY RefMapType DEF SfsInv
    <3>. QED BY <2>1, <2>3, <3>1, IndirectBlock DEF RefMaps
  <2>5. RefMap[f] \in Injection(Place, Block)
    <3>1. RefMap[f] \in [Place -> Block]
      <4>1. RefMap \in RefMaps
        BY RefMapType DEF SfsInv
      <4>. QED BY <2>4, <4>1 DEF RefMaps, MayBlock
    <3>2. \A i, j \in Place : RefMap[f][i] = RefMap[f][j] => i = j
      BY <2>4 DEF SfsInv, Exact
    <3>. QED BY <3>1, <3>2 DEF Injection, IsInjective
  <2>6. /\ IsFiniteSet(Block) /\ Cardinality(Block) = NBlock
        /\ Cardinality(Place) = IndirectPlace + 1
    <3>1. /\ 0 \in Int /\ 1 \in Int /\ NBlock \in Int /\ IndirectPlace \in Int
          /\ NBlock >= 0 /\ IndirectPlace >= 0
      BY SfsNumbers
    <3>2. IsFiniteSet(1 .. NBlock) /\ Cardinality(1 .. NBlock) = NBlock
      BY <3>1, FS_Interval
    <3>3. Cardinality(0 .. IndirectPlace) = IndirectPlace + 1
      BY <3>1, FS_Interval
    <3>. QED BY <3>2, <3>3 DEF Block, Place
  <2>7. Cardinality(Place) <= Cardinality(Block)
    BY <2>5, <2>6, FS_Injection
  <2>. QED BY <2>6, <2>7, SfsNumbers
<1>. QED BY <1>1, <1>2

-----------------------------------------------------------------------------
(* Steps of sfs_truncfile.                                                 *)

\* The inode of f becomes node, dirty unless it only counts one more block.
NodeStep(f, node) ==
  /\ op # Idle /\ op.file = f /\ UNCHANGED <<disk, loaded>>
  /\ node \in Inode /\ din' = [din EXCEPT ![f] = node]
  /\ \/ dirty' = dirty \cup {f}
     \/ /\ dirty' = dirty /\ node.direct = din[f].direct /\ node.indirect = din[f].indirect
        /\ node.blocks >= din[f].blocks

\* The blocks are accounted for after a step.
BlocksStep ==
  /\ content' \in [Block -> Table] /\ halt' = halt
  /\ Exact(RefMap, freemap)' /\ unused_blocks' = Cardinality(freemap')

\* The inode is loaded, and the other files and the disk are left alone.
LEMMA NodeStepKeeps ==
  ASSUME SfsInv, NEW f \in File, NEW node, NodeStep(f, node)
  PROVE  /\ OnDisk' /\ din' \in [File -> Inode] /\ disk' \in [File -> Inode]
         /\ dirty' \subseteq loaded' /\ loaded' \subseteq File /\ f \in loaded
         /\ \A g \in File : din'[g] = IF g = f THEN node ELSE din[g]
<1>1. /\ f \in loaded /\ din \in [File -> Inode] /\ disk \in [File -> Inode]
      /\ dirty \subseteq loaded /\ loaded \subseteq File
  BY DEF NodeStep, SfsInv, TypeOK
<1>2. \A g \in File : din'[g] = IF g = f THEN node ELSE din[g]
  BY <1>1 DEF NodeStep
<1>3. din' \in [File -> Inode] /\ disk' \in [File -> Inode]
  BY <1>1 DEF NodeStep
<1>4. OnDisk'
  <2>. SUFFICES ASSUME NEW g \in File
                PROVE  /\ Needed(disk'[g].size) <= disk'[g].blocks
                       /\ g \notin dirty' => /\ disk'[g].direct = din'[g].direct
                                             /\ disk'[g].indirect = din'[g].indirect
                                             /\ disk'[g].blocks <= din'[g].blocks
                       /\ g \notin loaded' => din'[g] = disk'[g]
    BY DEF OnDisk, Needed, ROUNDUP_DIV
  <2>1. /\ Needed(disk[g].size) <= disk[g].blocks
        /\ g \notin dirty => /\ disk[g].direct = din[g].direct
                             /\ disk[g].indirect = din[g].indirect
                             /\ disk[g].blocks <= din[g].blocks
        /\ g \notin loaded => din[g] = disk[g]
    BY DEF SfsInv, OnDisk
  <2>2. disk' = disk /\ loaded' = loaded
    BY DEF NodeStep
  <2>3. CASE g # f
    <3>1. g \notin dirty' => g \notin dirty
      BY <2>3 DEF NodeStep
    <3>. QED BY <1>2, <2>1, <2>2, <2>3, <3>1
  <2>4. CASE g = f
    <3>1. /\ din'[f] = node /\ disk[f].blocks \in Nat /\ din[f].blocks \in Nat
          /\ node.blocks \in Nat
      BY <1>1, <1>2 DEF Inode, NodeStep
    <3>2. f \notin dirty' => /\ f \notin dirty /\ node.direct = din[f].direct
                             /\ node.indirect = din[f].indirect
                             /\ node.blocks >= din[f].blocks
      BY DEF NodeStep
    <3>. QED BY <1>1, <2>1, <2>2, <2>4, <3>1, <3>2
  <2>. QED BY <2>3, <2>4
<1>5. dirty' \subseteq loaded' /\ loaded' \subseteq File
  BY <1>1 DEF NodeStep
<1>. QED BY <1>1, <1>2, <1>3, <1>4, <1>5

\* A turn of the loop that adds a block to f.
LEMMA GrowKeeps ==
  ASSUME SfsInv, NEW f \in File, NEW node, NodeStep(f, node), Growing(f), BlocksStep,
         UNCHANGED op,
         node.size = din[f].size, node.blocks = din[f].blocks + 1,
         \A g \in File, j \in Place : RefMap[g][j] # NoBlock => RefMap'[g][j] # NoBlock,
         RefMap'[f][din[f].blocks] # NoBlock
  PROVE  SfsInv'
<1>1. /\ OnDisk' /\ din' \in [File -> Inode] /\ disk' \in [File -> Inode]
      /\ dirty' \subseteq loaded' /\ loaded' \subseteq File /\ f \in loaded
      /\ \A g \in File : din'[g] = IF g = f THEN node ELSE din[g]
  BY NodeStepKeeps
<1>2. TypeOK'
  <2>1. freemap' \subseteq Block /\ unused_blocks' \in Nat
    BY BlocksFinite DEF BlocksStep, Exact
  <2>2. op' = Idle \/ (op'.file \in loaded' /\ op'.len \in Position \cup {0})
    BY DEF SfsInv, TypeOK, NodeStep
  <2>. QED BY <1>1, <2>1, <2>2 DEF BlocksStep, SfsInv, TypeOK
<1>3. din[f].blocks \in Nat /\ din[f].blocks < IndirectPlace /\ IndirectPlace \in Nat
  BY RoomLeft, SfsNumbers
<1>4. Filled'
  <2>. SUFFICES ASSUME NEW g \in File
                PROVE  /\ din'[g].blocks <= IndirectPlace
                       /\ \A i \in 0 .. din'[g].blocks - 1 : RefMap'[g][i] # NoBlock
    BY DEF Filled, IndirectPlace
  <2>1. /\ din[g].blocks <= IndirectPlace /\ din[g].blocks \in Nat
        /\ \A i \in 0 .. din[g].blocks - 1 : RefMap[g][i] # NoBlock /\ i \in Place
    BY RoomLeft, <1>3 DEF SfsInv, Filled, Place
  <2>2. CASE g # f
    BY <1>1, <2>1, <2>2
  <2>3. CASE g = f
    <3>1. din'[g].blocks = din[f].blocks + 1
      BY <1>1, <2>3
    <3>2. ASSUME NEW i \in 0 .. din'[g].blocks - 1 PROVE RefMap'[g][i] # NoBlock
      <4>1. i = din[f].blocks \/ i \in 0 .. din[f].blocks - 1
        BY <1>3, <3>1
      <4>. QED BY <2>1, <2>3, <4>1
    <3>. QED BY <1>3, <3>1, <3>2
  <2>. QED BY <2>2, <2>3
<1>5. Sized'
  <2>. SUFFICES ASSUME NEW g \in File
                PROVE  \/ Needed(din'[g].size) <= din'[g].blocks
                       \/ op # Idle /\ op.file = g /\ Target <= din'[g].blocks
    BY DEF Sized, Needed, ROUNDUP_DIV, Target
  <2>1. CASE g # f
    BY <1>1, <2>1 DEF SfsInv, Sized
  <2>2. CASE g = f
    <3>1. Target \in Nat /\ din[f].blocks < Target
      BY TargetNat DEF Growing, SfsInv
    <3>2. Needed(din[f].size) <= din[f].blocks
      BY <1>3, <3>1 DEF SfsInv, Sized
    <3>3. Needed(din[f].size) \in Nat
      BY SizeNat DEF SfsInv, TypeOK
    <3>. QED BY <1>1, <1>3, <2>2, <3>2, <3>3
  <2>. QED BY <2>1, <2>2
<1>. QED BY <1>1, <1>2, <1>4, <1>5 DEF SfsInv, BlocksStep, BlockAssertsHold

\* A turn that takes the last block from f.
LEMMA ShrinkKeeps ==
  ASSUME SfsInv, NEW f \in File, NEW node, NodeStep(f, node), Shrinking(f), BlocksStep,
         UNCHANGED op,
         node.size = din[f].size, node.blocks = din[f].blocks - 1,
         \A g \in File, j \in Place :
           RefMap[g][j] # NoBlock /\ ~(g = f /\ j = din[f].blocks - 1)
             => RefMap'[g][j] # NoBlock
  PROVE  SfsInv'
<1>1. /\ OnDisk' /\ din' \in [File -> Inode] /\ disk' \in [File -> Inode]
      /\ dirty' \subseteq loaded' /\ loaded' \subseteq File /\ f \in loaded
      /\ \A g \in File : din'[g] = IF g = f THEN node ELSE din[g]
  BY NodeStepKeeps
<1>2. TypeOK'
  <2>1. freemap' \subseteq Block /\ unused_blocks' \in Nat
    BY BlocksFinite DEF BlocksStep, Exact
  <2>2. op' = Idle \/ (op'.file \in loaded' /\ op'.len \in Position \cup {0})
    BY DEF SfsInv, TypeOK, NodeStep
  <2>. QED BY <1>1, <2>1, <2>2 DEF BlocksStep, SfsInv, TypeOK
<1>3. din[f].blocks \in Nat /\ din[f].blocks < IndirectPlace /\ IndirectPlace \in Nat
  BY RoomLeft, SfsNumbers
<1>4. Filled'
  <2>. SUFFICES ASSUME NEW g \in File
                PROVE  /\ din'[g].blocks <= IndirectPlace
                       /\ \A i \in 0 .. din'[g].blocks - 1 : RefMap'[g][i] # NoBlock
    BY DEF Filled, IndirectPlace
  <2>1. /\ din[g].blocks <= IndirectPlace /\ din[g].blocks \in Nat
        /\ \A i \in 0 .. din[g].blocks - 1 : RefMap[g][i] # NoBlock /\ i \in Place
    BY RoomLeft, <1>3 DEF SfsInv, Filled, Place
  <2>2. CASE g # f
    BY <1>1, <2>1, <2>2
  <2>3. CASE g = f
    <3>1. din'[g].blocks = din[f].blocks - 1
      BY <1>1, <2>3
    <3>2. ASSUME NEW i \in 0 .. din'[g].blocks - 1 PROVE RefMap'[g][i] # NoBlock
      <4>1. i # din[f].blocks - 1 /\ i \in 0 .. din[f].blocks - 1
        BY <1>3, <3>1
      <4>. QED BY <2>1, <2>3, <4>1
    <3>. QED BY <1>3, <3>1, <3>2
  <2>. QED BY <2>2, <2>3
<1>5. Sized'
  <2>. SUFFICES ASSUME NEW g \in File
                PROVE  \/ Needed(din'[g].size) <= din'[g].blocks
                       \/ op # Idle /\ op.file = g /\ Target <= din'[g].blocks
    BY DEF Sized, Needed, ROUNDUP_DIV, Target
  <2>1. CASE g # f
    BY <1>1, <2>1 DEF SfsInv, Sized
  <2>2. CASE g = f
    <3>1. Target \in Nat /\ din[f].blocks > Target
      BY TargetNat DEF Shrinking, SfsInv
    <3>. QED BY <1>1, <1>3, <2>2, <3>1 DEF NodeStep
  <2>. QED BY <2>1, <2>2
<1>. QED BY <1>1, <1>2, <1>4, <1>5 DEF SfsInv, BlocksStep, BlockAssertsHold

\* The count of the super block when one free block is taken.
LEMMA TakeOne ==
  ASSUME SfsInv, NEW b \in freemap, Take({b})
  PROVE  /\ freemap' = freemap \ {b} /\ unused_blocks' = Cardinality(freemap')
         /\ unused_blocks > 0
<1>1. IsFiniteSet(freemap) /\ Cardinality(freemap) \in Nat /\ freemap # {}
  BY BlocksFinite DEF SfsInv, Exact
<1>2. Cardinality(freemap \ {b}) = Cardinality(freemap) - 1
  BY <1>1, FS_RemoveElement
<1>3. Cardinality(freemap) # 0
  BY <1>1, FS_EmptySet
<1>4. Cardinality({b}) = 1
  BY FS_Singleton
<1>5. freemap' = freemap \ {b} /\ unused_blocks' = unused_blocks - 1
  BY <1>4 DEF Take
<1>. QED BY <1>1, <1>2, <1>3, <1>5 DEF SfsInv

\* ... and when two are.
LEMMA TakeTwo ==
  ASSUME SfsInv, NEW a \in freemap, NEW b \in freemap, a # b, Take({a, b})
  PROVE  /\ freemap' = (freemap \ {a}) \ {b} /\ unused_blocks' = Cardinality(freemap')
         /\ unused_blocks > 1
<1>1. IsFiniteSet(freemap) /\ Cardinality(freemap) \in Nat
  BY BlocksFinite DEF SfsInv, Exact
<1>2. /\ IsFiniteSet(freemap \ {a}) /\ Cardinality(freemap \ {a}) = Cardinality(freemap) - 1
  BY <1>1, FS_RemoveElement
<1>3. /\ IsFiniteSet((freemap \ {a}) \ {b}) /\ b \in freemap \ {a}
      /\ Cardinality((freemap \ {a}) \ {b}) = (Cardinality(freemap) - 1) - 1
  BY <1>2, FS_RemoveElement
<1>4. Cardinality((freemap \ {a}) \ {b}) \in Nat
  BY <1>3, FS_CardinalityType
<1>5. Cardinality({a, b}) = 2
  <2>1. IsFiniteSet({a}) /\ Cardinality({a}) = 1 /\ {a, b} = {a} \cup {b} /\ b \notin {a}
    BY FS_Singleton
  <2>. QED BY <2>1, FS_AddElement
<1>6. freemap' = (freemap \ {a}) \ {b} /\ unused_blocks' = unused_blocks - 2
  BY <1>5 DEF Take
<1>. QED BY <1>1, <1>3, <1>4, <1>6 DEF SfsInv

\* ... and when one is given back.
LEMMA GiveOne ==
  ASSUME SfsInv, NEW b \in Block \ freemap, Give(b)
  PROVE  freemap' = freemap \cup {b} /\ unused_blocks' = Cardinality(freemap')
<1>1. IsFiniteSet(freemap) /\ Cardinality(freemap) \in Nat
  BY BlocksFinite DEF SfsInv, Exact
<1>2. Cardinality(freemap \cup {b}) = Cardinality(freemap) + 1
  BY <1>1, FS_AddElement
<1>. QED BY <1>1, <1>2 DEF Give, SfsInv

\* The tables after sfs_clear_block, and what a file writes to its blocks.
LEMMA ClearType ==
  ASSUME TypeOK, NEW S
  PROVE  /\ Clear(S) \in [Block -> Table]
         /\ \A b \in Block : Clear(S)[b] = IF b \in S THEN Empty ELSE content[b]
<1>1. Empty \in Table
  BY DEF Empty, Table
<1>. QED BY <1>1 DEF Clear, TypeOK

\* A file whose inode refers to the blocks it did, by way of the same table, if any.
SameTable(f) ==
  /\ din'[f].direct = din[f].direct /\ din'[f].indirect = din[f].indirect
  /\ din[f].indirect # NoBlock => content'[din[f].indirect] = content[din[f].indirect]

LEMMA SameFile ==
  ASSUME TypeOK, din' \in [File -> Inode], content' \in [Block -> Table],
         NEW f \in File, SameTable(f), NEW j \in Place
  PROVE  RefMap'[f][j] = RefMap[f][j]
<1>1. RefMap[f][j] = RefOf(din[f], content, j) /\ RefMap'[f][j] = RefOf(din'[f], content', j)
  BY RefMapType, RefMapTypeNext
<1>. QED BY <1>1 DEF RefOf, SameTable

LEMMA SameFiles ==
  ASSUME TypeOK, din' \in [File -> Inode], content' \in [Block -> Table],
         \A f \in File : SameTable(f)
  PROVE  RefMap' = RefMap
<1>1. RefMap \in RefMaps /\ RefMap' \in RefMaps
  BY RefMapType, RefMapTypeNext
<1>2. \A f \in File, j \in Place : RefMap'[f][j] = RefMap[f][j]
  BY SameFile
<1>3. ASSUME NEW A \in RefMaps, NEW B \in RefMaps, \A f \in File, j \in Place : B[f][j] = A[f][j]
      PROVE  B = A
  <2>1. ASSUME NEW f \in File PROVE B[f] = A[f]
    <3>1. A[f] \in [Place -> MayBlock] /\ B[f] \in [Place -> MayBlock]
      BY DEF RefMaps
    <3>. QED BY <1>3, <3>1
  <2>. QED BY <2>1 DEF RefMaps
<1>. QED BY <1>1, <1>2, <1>3

\* A turn that takes the free block b for the place i of f, whose other places
\* stay, and leaves the indirect blocks of the other files alone.
LEMMA PutStep ==
  ASSUME SfsInv, NEW f \in File, NEW i \in Place, NEW b \in freemap,
         RefMap[f][i] = NoBlock,
         din' \in [File -> Inode], content' \in [Block -> Table],
         \A g \in File : g # f => din'[g] = din[g],
         \A c \in Block \ freemap : c # din[f].indirect => content'[c] = content[c],
         \A j \in Place : RefOf(din'[f], content', j) = IF j = i THEN b ELSE RefMap[f][j]
  PROVE  Puts(RefMap, RefMap', f, i, b)
<1>1. /\ RefMap' \in RefMaps
      /\ \A g \in File, j \in Place : RefMap'[g][j] = RefOf(din'[g], content', j)
  BY RefMapTypeNext
<1>2. ASSUME NEW g \in File, g # f, NEW j \in Place PROVE RefMap'[g][j] = RefMap[g][j]
  <2>1. ASSUME din[g].indirect # NoBlock
        PROVE  content'[din[g].indirect] = content[din[g].indirect]
    <3>1. din[g].indirect \in Block \ freemap
      BY <2>1, IndirectBlock
    <3>2. din[g].indirect # din[f].indirect
      BY <1>2, <2>1, IndirectBlock, SfsNumbers
    <3>. QED BY <3>1, <3>2
  <2>2. SameTable(g)
    BY <1>2, <2>1 DEF SameTable
  <2>. QED BY <2>2, SameFile DEF SfsInv
<1>. QED BY <1>1, <1>2 DEF Puts

\* So a turn that takes the free block b for the next place of f.
LEMMA OneBlock ==
  ASSUME SfsInv, NEW f \in File, NEW node, NodeStep(f, node), Growing(f), UNCHANGED op,
         NEW b \in freemap, Take({b}), KAssert(unused_blocks > 0),
         content' \in [Block -> Table],
         node.size = din[f].size, node.blocks = din[f].blocks + 1,
         RefMap[f][din[f].blocks] = NoBlock,
         Puts(RefMap, RefMap', f, din[f].blocks, b)
  PROVE  SfsInv'
<1>1. din[f].blocks \in Place
  BY RoomLeft, SfsNumbers DEF Place
<1>2. b \in Block /\ b # NoBlock
  BY SfsNumbers DEF SfsInv, Exact
<1>3. freemap' = freemap \ {b} /\ unused_blocks' = Cardinality(freemap') /\ halt' = halt
  BY TakeOne DEF KAssert
<1>4. BlocksStep
  <2>1. Exact(RefMap', freemap \ {b})
    BY <1>1, RefMapType, PutExact DEF SfsInv
  <2>2. Exact(RefMap, freemap)'
    BY <1>3, <2>1
  <2>. QED BY <1>3, <2>2 DEF BlocksStep
<1>5. /\ \A g \in File, j \in Place : RefMap[g][j] # NoBlock => RefMap'[g][j] # NoBlock
      /\ RefMap'[f][din[f].blocks] # NoBlock
  BY <1>1, <1>2 DEF Puts
<1>. QED BY <1>4, <1>5, GrowKeeps

\* An inode and its fields, and what an assignment to one or two of them makes.
IsNode(node, size, blocks, direct, indirect) ==
  /\ node \in Inode /\ node.size = size /\ node.blocks = blocks
  /\ node.direct = direct /\ node.indirect = indirect

LEMMA NodeWith ==
  ASSUME NEW node \in Inode, NEW size \in Position \cup {0}, NEW blocks \in Nat,
         NEW direct \in [Direct -> Block \cup {NoBlock}], NEW indirect \in Block \cup {NoBlock}
  PROVE  /\ IsNode([node EXCEPT !.direct = direct, !.blocks = blocks],
                   node.size, blocks, direct, node.indirect)
         /\ IsNode([node EXCEPT !.blocks = blocks],
                   node.size, blocks, node.direct, node.indirect)
         /\ IsNode([node EXCEPT !.indirect = indirect, !.blocks = blocks],
                   node.size, blocks, node.direct, indirect)
         /\ IsNode([node EXCEPT !.size = size],
                   size, node.blocks, node.direct, node.indirect)
<1>1. /\ node.size \in Position \cup {0} /\ node.blocks \in Nat
      /\ node.direct \in [Direct -> Block \cup {NoBlock}]
      /\ node.indirect \in Block \cup {NoBlock}
  BY DEF Inode
<1>2. ASSUME NEW s \in Position \cup {0}, NEW k \in Nat,
             NEW d \in [Direct -> Block \cup {NoBlock}], NEW e \in Block \cup {NoBlock},
             NEW m, m = [size |-> s, blocks |-> k, direct |-> d, indirect |-> e]
      PROVE  IsNode(m, s, k, d, e)
  BY <1>2 DEF IsNode, Inode
<1>3. ASSUME NEW m, m = [node EXCEPT !.direct = direct, !.blocks = blocks]
      PROVE  IsNode(m, node.size, blocks, direct, node.indirect)
  <2>1. m.size = node.size /\ m.blocks = blocks
    BY <1>3 DEF Inode
  <2>2. m.direct = direct /\ m.indirect = node.indirect
    BY <1>3 DEF Inode
  <2>3. m = [size |-> m.size, blocks |-> m.blocks, direct |-> m.direct, indirect |-> m.indirect]
    BY <1>3 DEF Inode
  <2>. QED BY <1>1, <1>2, <2>1, <2>2, <2>3
<1>4. ASSUME NEW m, m = [node EXCEPT !.blocks = blocks]
      PROVE  IsNode(m, node.size, blocks, node.direct, node.indirect)
  <2>1. m.size = node.size /\ m.blocks = blocks
    BY <1>4 DEF Inode
  <2>2. m.direct = node.direct /\ m.indirect = node.indirect
    BY <1>4 DEF Inode
  <2>3. m = [size |-> m.size, blocks |-> m.blocks, direct |-> m.direct, indirect |-> m.indirect]
    BY <1>4 DEF Inode
  <2>. QED BY <1>1, <1>2, <2>1, <2>2, <2>3
<1>5. ASSUME NEW m, m = [node EXCEPT !.indirect = indirect, !.blocks = blocks]
      PROVE  IsNode(m, node.size, blocks, node.direct, indirect)
  <2>1. m.size = node.size /\ m.blocks = blocks
    BY <1>5 DEF Inode
  <2>2. m.direct = node.direct /\ m.indirect = indirect
    BY <1>5 DEF Inode
  <2>3. m = [size |-> m.size, blocks |-> m.blocks, direct |-> m.direct, indirect |-> m.indirect]
    BY <1>5 DEF Inode
  <2>. QED BY <1>1, <1>2, <2>1, <2>2, <2>3
<1>6. ASSUME NEW m, m = [node EXCEPT !.size = size]
      PROVE  IsNode(m, size, node.blocks, node.direct, node.indirect)
  <2>1. m.size = size /\ m.blocks = node.blocks
    BY <1>6 DEF Inode
  <2>2. m.direct = node.direct /\ m.indirect = node.indirect
    BY <1>6 DEF Inode
  <2>3. m = [size |-> m.size, blocks |-> m.blocks, direct |-> m.direct, indirect |-> m.indirect]
    BY <1>6 DEF Inode
  <2>. QED BY <1>1, <1>2, <2>1, <2>2, <2>3
<1>. QED BY <1>3, <1>4, <1>5, <1>6

\* sfs_bmap_load_nolock with a direct block.
LEMMA GrowDirectStep == ASSUME SfsInv, NEW f \in File, GrowDirect(f) PROVE SfsInv'
<1>. DEFINE i == din[f].blocks
            b == bitmap_alloc(1)
            node == [din[f] EXCEPT !.direct[i] = b, !.blocks = @ + 1]
<1>1. /\ op # Idle /\ op.file = f /\ Growing(f) /\ i \in Direct /\ i \in Place
      /\ i # IndirectPlace /\ i \in Nat
  BY SfsNumbers, RoomLeft DEF GrowDirect, Growing
<1>2. b \in freemap /\ b \in Block
  BY BitmapAlloc DEF GrowDirect, SfsInv, Exact
<1>3. RefMap[f][i] = NoBlock
  BY <1>1, BmapPlace DEF GrowDirect, SfsInv
<1>. HIDE DEF b
<1>4. din[f] \in Inode /\ din \in [File -> Inode]
  BY DEF SfsInv, TypeOK
<1>5. /\ node \in Inode /\ node.size = din[f].size /\ node.blocks = i + 1
      /\ node.indirect = din[f].indirect /\ node.direct = [din[f].direct EXCEPT ![i] = b]
      /\ din[f].direct \in [Direct -> Block \cup {NoBlock}]
  <2>. DEFINE direct == [din[f].direct EXCEPT ![i] = b]
  <2>1. din[f].direct \in [Direct -> Block \cup {NoBlock}] /\ i + 1 \in Nat
    BY <1>1, <1>4 DEF Inode
  <2>2. direct \in [Direct -> Block \cup {NoBlock}]
    BY <1>1, <1>2, <2>1
  <2>3. node = [din[f] EXCEPT !.direct = direct, !.blocks = i + 1]
    BY <1>4 DEF Inode
  <2>. HIDE DEF direct, node, i
  <2>4. IsNode(node, din[f].size, i + 1, direct, din[f].indirect)
    BY <1>4, <2>1, <2>2, <2>3, NodeWith
  <2>. QED BY <2>1, <2>4 DEF direct, IsNode
<1>. HIDE DEF node
<1>6. /\ Take({b}) /\ content' = Clear({b}) /\ din' = [din EXCEPT ![f] = node]
      /\ dirty' = dirty \cup {f} /\ UNCHANGED <<disk, loaded, op>>
      /\ KAssert(unused_blocks > 0)
  BY DEF GrowDirect, Modify, b, node
<1>7. NodeStep(f, node)
  BY <1>1, <1>5, <1>6 DEF NodeStep
<1>9. /\ content' \in [Block -> Table] /\ \A c \in Block \ freemap : content'[c] = content[c]
  BY <1>2, <1>6, ClearType DEF SfsInv
<1>10. /\ din' \in [File -> Inode] /\ din'[f] = node /\ \A g \in File : g # f => din'[g] = din[g]
  BY <1>4, <1>5, <1>6
<1>11. ASSUME NEW j \in Place
       PROVE  RefOf(din'[f], content', j) = IF j = i THEN b ELSE RefMap[f][j]
  <2>1. RefMap[f][j] = RefOf(din[f], content, j)
    BY RefMapType DEF SfsInv
  <2>2. CASE j \in Direct
    BY <1>1, <1>5, <1>10, <2>1, <2>2 DEF RefOf
  <2>3. CASE j \notin Direct
    <3>1. din[f].indirect # NoBlock => content'[din[f].indirect] = content[din[f].indirect]
      BY <1>9, IndirectBlock
    <3>. QED BY <1>1, <1>5, <1>10, <2>1, <2>3, <3>1 DEF RefOf
  <2>. QED BY <2>2, <2>3
<1>12. Puts(RefMap, RefMap', f, i, b)
  BY <1>1, <1>2, <1>3, <1>9, <1>10, <1>11, PutStep
<1>. QED BY <1>1, <1>2, <1>3, <1>5, <1>6, <1>7, <1>9, <1>12, OneBlock

\* ... with an entry of the indirect block.
LEMMA GrowEntryStep == ASSUME SfsInv, NEW f \in File, GrowEntry(f) PROVE SfsInv'
<1>. DEFINE i == din[f].blocks
            e == EntryOf(i)
            ent == din[f].indirect
            b == bitmap_alloc(1)
            node == [din[f] EXCEPT !.blocks = i + 1]
<1>1. /\ op # Idle /\ op.file = f /\ Growing(f) /\ i \in Place /\ i \notin Direct
      /\ i # IndirectPlace /\ i \in Nat /\ e \in Entry
  BY SfsNumbers, RoomLeft DEF GrowEntry, Growing, AtEntry, Place, Direct
<1>2. b \in freemap /\ b \in Block /\ b \in MayBlock
  BY BitmapAlloc DEF GrowEntry, SfsInv, Exact, MayBlock
<1>3. RefMap[f][i] = NoBlock
  BY <1>1, BmapPlace DEF GrowEntry, SfsInv
<1>4. din[f] \in Inode /\ din \in [File -> Inode]
  BY DEF SfsInv, TypeOK
<1>5. ent # NoBlock /\ ent \in Block \ freemap
  BY IndirectBlock DEF GrowEntry
<1>6. /\ Take({b}) /\ content' = [Clear({b}) EXCEPT ![ent][e] = b]
      /\ din' = [din EXCEPT ![f].blocks = @ + 1]
      /\ UNCHANGED <<disk, loaded, dirty, op>> /\ KAssert(unused_blocks > 0)
  BY DEF GrowEntry
<1>. HIDE DEF b, e
<1>7. IsNode(node, din[f].size, i + 1, din[f].direct, ent)
  <2>1. /\ din[f].size \in Position \cup {0} /\ i + 1 \in Nat
        /\ din[f].direct \in [Direct -> MayBlock] /\ ent \in MayBlock
    BY <1>1, <1>4 DEF Inode, MayBlock
  <2>. HIDE DEF i, ent, node
  <2>2. node = [din[f] EXCEPT !.blocks = i + 1]
    BY DEF node
  <2>. QED BY <1>4, <2>1, <2>2, NodeWith DEF MayBlock, ent
<1>8. /\ node \in Inode /\ node.size = din[f].size /\ node.blocks = i + 1
      /\ node.direct = din[f].direct /\ node.indirect = ent /\ din' = [din EXCEPT ![f] = node]
  BY <1>6, <1>7 DEF IsNode
<1>. HIDE DEF node
<1>9. NodeStep(f, node)
  <2>1. din[f].blocks + 1 >= din[f].blocks
    BY <1>1
  <2>2. node.blocks >= din[f].blocks
    BY <1>8, <2>1
  <2>. QED BY <1>1, <1>6, <1>8, <2>2 DEF NodeStep
<1>10. /\ content' \in [Block -> Table]
       /\ \A c \in Block \ freemap : c # ent => content'[c] = content[c]
       /\ content[ent] \in Table /\ content'[ent] = [content[ent] EXCEPT ![e] = b]
  <2>1. /\ Clear({b}) \in [Block -> Table]
        /\ \A c \in Block \ freemap : Clear({b})[c] = content[c]
    BY <1>2, ClearType DEF SfsInv
  <2>2. content[ent] \in Table
    BY <1>5, <2>1
  <2>3. [content[ent] EXCEPT ![e] = b] \in Table
    BY <1>2, <2>2 DEF Table, MayBlock
  <2>4. content' = [Clear({b}) EXCEPT ![ent] = [content[ent] EXCEPT ![e] = b]]
    BY <1>5, <1>6, <2>1
  <2>. QED BY <1>5, <2>1, <2>2, <2>3, <2>4
<1>11. /\ din' \in [File -> Inode] /\ din'[f] = node /\ \A g \in File : g # f => din'[g] = din[g]
  BY <1>4, <1>8
<1>12. ASSUME NEW j \in Place
       PROVE  RefOf(din'[f], content', j) = IF j = i THEN b ELSE RefMap[f][j]
  <2>1. RefMap[f][j] = RefOf(din[f], content, j)
    BY RefMapType DEF SfsInv
  <2>2. CASE j \in Direct \cup {IndirectPlace}
    BY <1>1, <1>8, <1>11, <2>1, <2>2 DEF RefOf
  <2>3. CASE j \notin Direct \cup {IndirectPlace}
    <3>1. EntryOf(j) \in Entry /\ (EntryOf(j) = e <=> j = i)
      BY <1>1, <2>3, SfsNumbers DEF EntryOf, Place, e
    <3>2. content'[ent][EntryOf(j)] = IF j = i THEN b ELSE content[ent][EntryOf(j)]
      BY <1>1, <1>10, <3>1 DEF Table
    <3>. QED BY <1>5, <1>8, <1>11, <2>1, <2>3, <3>2 DEF RefOf
  <2>. QED BY <2>2, <2>3
<1>13. Puts(RefMap, RefMap', f, i, b)
  BY <1>1, <1>2, <1>3, <1>10, <1>11, <1>12, PutStep
<1>. QED BY <1>1, <1>2, <1>3, <1>6, <1>8, <1>9, <1>10, <1>13, OneBlock

\* ... with an entry that is there.
LEMMA GrowFoundStep == ASSUME SfsInv, NEW f \in File, GrowFound(f) PROVE SfsInv'
<1>. DEFINE i == din[f].blocks
            node == [din[f] EXCEPT !.blocks = i + 1]
<1>1. op # Idle /\ op.file = f /\ Growing(f) /\ i \in Place \ {IndirectPlace} /\ i \in Nat
  BY SfsNumbers, RoomLeft DEF GrowFound, Growing, Place
<1>2. RefMap[f][i] # NoBlock /\ bmap(f, i) = RefMap[f][i]
  BY <1>1, BmapPlace DEF GrowFound, SfsInv
<1>3. din[f] \in Inode /\ din \in [File -> Inode]
  BY DEF SfsInv, TypeOK
<1>4. sfs_block_inuse(bmap(f, i))
  <2>1. RefMap[f][i] \in Block
    BY <1>1, <1>2, RefMapType DEF SfsInv, RefMaps, MayBlock
  <2>. QED BY <1>1, <1>2, <2>1 DEF sfs_block_inuse, SfsInv, Exact
<1>5. /\ halt' = halt /\ din' = [din EXCEPT ![f].blocks = @ + 1]
      /\ UNCHANGED <<freemap, unused_blocks, content, disk, loaded, dirty, op>>
  BY <1>4 DEF GrowFound, KAssert, maps
<1>6. IsNode(node, din[f].size, i + 1, din[f].direct, din[f].indirect)
  <2>1. /\ din[f].size \in Position \cup {0} /\ i + 1 \in Nat
        /\ din[f].direct \in [Direct -> MayBlock] /\ din[f].indirect \in MayBlock
    BY <1>1, <1>3 DEF Inode, MayBlock
  <2>. HIDE DEF i, node
  <2>2. node = [din[f] EXCEPT !.blocks = i + 1]
    BY DEF node
  <2>. QED BY <1>3, <2>1, <2>2, NodeWith DEF MayBlock
<1>7. /\ node \in Inode /\ node.size = din[f].size /\ node.blocks = i + 1
      /\ node.direct = din[f].direct /\ node.indirect = din[f].indirect
      /\ din' = [din EXCEPT ![f] = node]
  BY <1>5, <1>6 DEF IsNode
<1>. HIDE DEF node
<1>8. NodeStep(f, node)
  <2>1. din[f].blocks + 1 >= din[f].blocks
    BY <1>1
  <2>2. node.blocks >= din[f].blocks
    BY <1>7, <2>1
  <2>. QED BY <1>1, <1>5, <1>7, <2>2 DEF NodeStep
<1>9. RefMap' = RefMap
  <2>1. din' \in [File -> Inode] /\ content' \in [Block -> Table]
    BY <1>3, <1>5, <1>7 DEF SfsInv, TypeOK
  <2>2. \A g \in File : SameTable(g)
    BY <1>3, <1>5, <1>7 DEF SameTable
  <2>. QED BY <2>1, <2>2, SameFiles DEF SfsInv
<1>10. BlocksStep
  <2>1. Exact(RefMap', freemap') /\ unused_blocks' = Cardinality(freemap')
    BY <1>5, <1>9 DEF SfsInv
  <2>. QED BY <1>5, <2>1 DEF BlocksStep, SfsInv, TypeOK
<1>. QED BY <1>1, <1>2, <1>5, <1>7, <1>8, <1>9, <1>10, GrowKeeps

\* ... with the indirect block and its first entry.
LEMMA GrowIndirectStep == ASSUME SfsInv, NEW f \in File, GrowIndirect(f) PROVE SfsInv'
<1>. DEFINE i == din[f].blocks
            e == EntryOf(i)
            ent == bitmap_alloc(1)
            b == bitmap_alloc(2)
            node == [din[f] EXCEPT !.indirect = ent, !.blocks = i + 1]
            Mid == [RefMap EXCEPT ![f][IndirectPlace] = ent]
<1>1. /\ op # Idle /\ op.file = f /\ Growing(f) /\ i \in Place /\ i \notin Direct
      /\ i # IndirectPlace /\ i \in Nat /\ e \in Entry /\ IndirectPlace \in Place
      /\ IndirectPlace \notin Direct
  BY SfsNumbers, RoomLeft DEF GrowIndirect, Growing, AtEntry, Place, Direct
<1>2. /\ ent \in freemap /\ b \in freemap /\ ent # b /\ ent \in Block /\ b \in Block
      /\ ent \in MayBlock /\ b \in MayBlock /\ ent # NoBlock /\ b # NoBlock
  BY BitmapAlloc, SfsNumbers DEF GrowIndirect, SfsInv, Exact, MayBlock
<1>3. /\ RefMap[f][IndirectPlace] = NoBlock
      /\ \A j \in Place : j \notin Direct => RefMap[f][j] = NoBlock
      /\ \A j \in Direct : j \in Place /\ RefMap[f][j] = din[f].direct[j]
  BY <1>1, RefMapType, SfsNumbers DEF GrowIndirect, SfsInv, RefOf
<1>4. din[f] \in Inode /\ din \in [File -> Inode] /\ RefMap \in RefMaps
  BY RefMapType DEF SfsInv, TypeOK
<1>5. /\ Take({ent, b}) /\ content' = [Clear({ent, b}) EXCEPT ![ent][e] = b]
      /\ din' = [din EXCEPT ![f] = node] /\ dirty' = dirty \cup {f}
      /\ UNCHANGED <<disk, loaded, op>> /\ KAssert(unused_blocks > 1)
  BY DEF GrowIndirect, Modify
<1>. HIDE DEF b, ent, e
<1>6. IsNode(node, din[f].size, i + 1, din[f].direct, ent)
  <2>1. /\ din[f].size \in Position \cup {0} /\ i + 1 \in Nat
        /\ din[f].direct \in [Direct -> MayBlock]
    BY <1>1, <1>4 DEF Inode, MayBlock
  <2>. HIDE DEF i, node
  <2>2. node = [din[f] EXCEPT !.indirect = ent, !.blocks = i + 1]
    BY DEF node
  <2>. QED BY <1>2, <1>4, <2>1, <2>2, NodeWith DEF MayBlock
<1>7. /\ node \in Inode /\ node.size = din[f].size /\ node.blocks = i + 1
      /\ node.direct = din[f].direct /\ node.indirect = ent
  BY <1>6 DEF IsNode
<1>. HIDE DEF node, Mid
<1>8. NodeStep(f, node)
  BY <1>1, <1>5, <1>7 DEF NodeStep
<1>9. /\ freemap' = (freemap \ {ent}) \ {b} /\ unused_blocks' = Cardinality(freemap')
      /\ halt' = halt
  BY <1>2, <1>5, TakeTwo DEF KAssert
<1>10. /\ content' \in [Block -> Table] /\ content'[ent] = [Empty EXCEPT ![e] = b]
       /\ \A c \in Block \ freemap : content'[c] = content[c]
  <2>1. /\ Clear({ent, b}) \in [Block -> Table] /\ Clear({ent, b})[ent] = Empty
        /\ \A c \in Block \ freemap : Clear({ent, b})[c] = content[c]
    BY <1>2, ClearType DEF SfsInv
  <2>2. Empty \in Table
    BY <1>2, <2>1
  <2>3. [Empty EXCEPT ![e] = b] \in Table
    BY <1>2, <2>2 DEF Table, MayBlock
  <2>4. content' = [Clear({ent, b}) EXCEPT ![ent] = [Empty EXCEPT ![e] = b]]
    BY <1>2, <1>5, <2>1
  <2>. QED BY <1>2, <2>1, <2>3, <2>4
<1>11. /\ din' \in [File -> Inode] /\ din'[f] = node /\ \A g \in File : g # f => din'[g] = din[g]
  BY <1>4, <1>5, <1>7
<1>12. /\ RefMap' \in RefMaps
       /\ \A j \in Place : RefMap'[f][j] = RefOf(node, content', j)
  BY <1>10, <1>11, RefMapTypeNext
<1>13. ASSUME NEW j \in Place
       PROVE  RefMap'[f][j] = IF j = i THEN b ELSE IF j = IndirectPlace THEN ent ELSE RefMap[f][j]
  <2>1. CASE j \in Direct \cup {IndirectPlace}
    BY <1>1, <1>3, <1>7, <1>12, <2>1 DEF RefOf
  <2>2. CASE j \notin Direct \cup {IndirectPlace}
    <3>1. EntryOf(j) \in Entry /\ (EntryOf(j) = e <=> j = i)
      BY <1>1, <2>2, SfsNumbers DEF EntryOf, Place, e
    <3>2. content'[ent][EntryOf(j)] = IF j = i THEN b ELSE NoBlock
      BY <1>1, <1>10, <3>1 DEF Empty
    <3>3. RefMap'[f][j] = content'[ent][EntryOf(j)]
      BY <1>2, <1>7, <1>12, <2>2 DEF RefOf
    <3>. QED BY <1>3, <2>2, <3>2, <3>3
  <2>. QED BY <2>1, <2>2
<1>14. ASSUME NEW g \in File, g # f, NEW j \in Place PROVE RefMap'[g][j] = RefMap[g][j]
  <2>1. din[g].indirect # NoBlock => din[g].indirect \in Block \ freemap
    BY IndirectBlock
  <2>2. SameTable(g)
    BY <1>10, <1>11, <1>14, <2>1 DEF SameTable
  <2>. QED BY <1>10, <1>11, <2>2, SameFile DEF SfsInv
<1>15. Puts(RefMap, Mid, f, IndirectPlace, ent)
  BY <1>1, <1>2, <1>4, PutsExcept DEF Mid
<1>16. Puts(Mid, RefMap', f, i, b)
  BY <1>12, <1>13, <1>14, <1>15 DEF Puts
<1>17. Mid \in RefMaps /\ Mid[f][i] = NoBlock
  BY <1>1, <1>3, <1>15 DEF Puts
<1>18. BlocksStep
  <2>1. Exact(RefMap, freemap)
    BY DEF SfsInv
  <2>2. Exact(Mid, freemap \ {ent})
    BY <1>1, <1>2, <1>3, <1>4, <1>15, <2>1, PutExact
  <2>3. b \in freemap \ {ent}
    BY <1>2
  <2>. HIDE DEF i
  <2>4. Exact(RefMap', (freemap \ {ent}) \ {b})
    BY <1>1, <1>16, <1>17, <2>2, <2>3, PutExact
  <2>5. Exact(RefMap, freemap)'
    BY <1>9, <2>4
  <2>. QED BY <1>9, <1>10, <2>5 DEF BlocksStep
<1>19. /\ \A g \in File, j \in Place : RefMap[g][j] # NoBlock => RefMap'[g][j] # NoBlock
       /\ RefMap'[f][i] # NoBlock
  BY <1>1, <1>2, <1>13, <1>14
<1>. QED BY <1>1, <1>5, <1>7, <1>8, <1>18, <1>19, GrowKeeps

\* The disk is full.
LEMMA DiskFullStep == ASSUME SfsInv, NEW f \in File, DiskFull(f) PROVE SfsInv'
<1>1. /\ op # Idle /\ op.file = f /\ din[f].blocks < Target /\ op' = Idle
      /\ UNCHANGED <<freemap, unused_blocks, disk, din, loaded, dirty, halt>>
      /\ content' = content \/ content' = Clear(freemap)
  BY DEF DiskFull, Growing, inodes
<1>2. TypeOK /\ din \in [File -> Inode]
  BY DEF SfsInv, TypeOK
<1>3. content' \in [Block -> Table] /\ \A c \in Block \ freemap : content'[c] = content[c]
  BY <1>1, <1>2, ClearType DEF TypeOK
<1>4. RefMap' = RefMap
  <2>1. \A g \in File : SameTable(g)
    BY <1>1, <1>3, IndirectBlock DEF SameTable
  <2>. QED BY <1>1, <1>2, <1>3, <2>1, SameFiles
<1>5. TypeOK'
  BY <1>1, <1>2, <1>3 DEF TypeOK
<1>6. Exact(RefMap, freemap)' /\ (unused_blocks = Cardinality(freemap))'
  BY <1>1, <1>4 DEF SfsInv
<1>7. Filled'
  BY <1>1, <1>4 DEF SfsInv, Filled, IndirectPlace
<1>8. Sized'
  <2>. SUFFICES ASSUME NEW g \in File PROVE Needed(din[g].size) <= din[g].blocks
    BY <1>1 DEF Sized, Needed, ROUNDUP_DIV
  <2>1. ~(Target <= din[f].blocks)
    <3>1. Target \in Nat /\ din[f].blocks \in Nat
      BY <1>1, <1>2, TargetNat DEF Inode
    <3>. QED BY <1>1, <3>1
  <2>. QED BY <1>1, <2>1 DEF SfsInv, Sized
<1>9. OnDisk'
  BY <1>1 DEF SfsInv, OnDisk, Needed, ROUNDUP_DIV
<1>. QED BY <1>1, <1>5, <1>6, <1>7, <1>8, <1>9 DEF SfsInv, BlockAssertsHold

\* A turn that gives back the block of the last place of f.
LEMMA OneBlockBack ==
  ASSUME SfsInv, NEW f \in File, NEW node, NodeStep(f, node), Shrinking(f), UNCHANGED <<op, halt>>,
         NEW i \in Place, i = din[f].blocks - 1, RefMap[f][i] # NoBlock, Give(RefMap[f][i]),
         content' \in [Block -> Table],
         node.size = din[f].size, node.blocks = i,
         Puts(RefMap, RefMap', f, i, NoBlock)
  PROVE  SfsInv'
<1>1. RefMap \in RefMaps /\ Exact(RefMap, freemap)
  BY RefMapType DEF SfsInv
<1>2. PICK b : b = RefMap[f][i]
  OBVIOUS
<1>3. Exact(RefMap', freemap \cup {b}) /\ b \in Block \ freemap
  BY <1>1, <1>2, DropExact
<1>4. freemap' = freemap \cup {b} /\ unused_blocks' = Cardinality(freemap')
  BY <1>2, <1>3, GiveOne
<1>5. BlocksStep
  <2>1. Exact(RefMap, freemap)'
    BY <1>3, <1>4
  <2>. QED BY <1>4, <2>1 DEF BlocksStep
<1>6. \A g \in File, j \in Place :
        RefMap[g][j] # NoBlock /\ ~(g = f /\ j = din[f].blocks - 1) => RefMap'[g][j] # NoBlock
  BY DEF Puts
<1>. QED BY <1>5, <1>6, ShrinkKeeps

\* The last place of a file that shrinks.
LEMMA LastPlace ==
  ASSUME SfsInv, NEW f \in File, Shrinking(f), NEW i, i = din[f].blocks - 1
  PROVE  /\ i \in Nat /\ i \in Place /\ i # IndirectPlace /\ din[f].blocks = i + 1
         /\ bmap(f, i) = RefMap[f][i] /\ RefMap[f][i] # NoBlock
         /\ RefMap[f][i] \in Block \ freemap
<1>1. din[f].blocks \in Nat /\ Target \in Nat /\ din[f].blocks > Target
  BY RoomLeft, TargetNat DEF Shrinking, SfsInv
<1>2. /\ i \in Nat /\ i \in Place /\ i # IndirectPlace /\ din[f].blocks = i + 1
      /\ i \in 0 .. din[f].blocks - 1
  BY <1>1, RoomLeft, SfsNumbers DEF Place
<1>3. RefMap[f][i] # NoBlock /\ bmap(f, i) = RefMap[f][i]
  BY <1>2, BmapPlace DEF SfsInv, Filled
<1>4. RefMap[f][i] \in Block
  BY <1>2, <1>3, RefMapType DEF SfsInv, RefMaps, MayBlock
<1>. QED BY <1>2, <1>3, <1>4 DEF SfsInv, Exact

\* A block that holds data.
LEMMA DataType == ASSUME NEW b \in Block PROVE Data \in Table
<1>1. 1 \in Block
  BY SfsNumbers DEF Block
<1>. QED BY <1>1 DEF Data, Table

\* sfs_bmap_truncate_nolock with a direct block.
LEMMA ShrinkDirectStep == ASSUME SfsInv, NEW f \in File, ShrinkDirect(f) PROVE SfsInv'
<1>. DEFINE i == din[f].blocks - 1
            b == din[f].direct[i]
            node == [din[f] EXCEPT !.direct[i] = NoBlock, !.blocks = @ - 1]
<1>1. /\ op # Idle /\ op.file = f /\ Shrinking(f) /\ i \in Direct /\ i \in Nat
      /\ i \in Place /\ i # IndirectPlace
  BY LastPlace DEF ShrinkDirect, Shrinking
<1>2. RefMap[f][i] = b /\ RefMap[f][i] # NoBlock /\ b \in Block \ freemap
  BY <1>1, LastPlace DEF bmap
<1>3. din[f] \in Inode /\ din \in [File -> Inode]
  BY DEF SfsInv, TypeOK
<1>4. /\ Give(RefMap[f][i]) /\ content' = [content EXCEPT ![b] = Data] /\ halt' = halt
      /\ din' = [din EXCEPT ![f] = node]
      /\ dirty' = dirty \cup {f} /\ UNCHANGED <<disk, loaded, op>>
  BY <1>2 DEF ShrinkDirect, Modify, KAssert, sfs_block_inuse
<1>5. /\ node \in Inode /\ node.size = din[f].size /\ node.blocks = i
      /\ node.indirect = din[f].indirect /\ node.direct = [din[f].direct EXCEPT ![i] = NoBlock]
      /\ din[f].direct \in [Direct -> Block \cup {NoBlock}]
  <2>. DEFINE direct == [din[f].direct EXCEPT ![i] = NoBlock]
  <2>1. din[f].direct \in [Direct -> Block \cup {NoBlock}]
    BY <1>3 DEF Inode
  <2>2. direct \in [Direct -> Block \cup {NoBlock}]
    BY <1>1, <2>1
  <2>3. node = [din[f] EXCEPT !.direct = direct, !.blocks = i]
    BY <1>3 DEF Inode
  <2>. HIDE DEF direct, node, i
  <2>4. IsNode(node, din[f].size, i, direct, din[f].indirect)
    BY <1>1, <1>3, <2>2, <2>3, NodeWith DEF Inode
  <2>. QED BY <2>1, <2>4 DEF direct, IsNode
<1>. HIDE DEF node, b
<1>6. NodeStep(f, node)
  BY <1>1, <1>4, <1>5 DEF NodeStep
<1>7. /\ content' \in [Block -> Table] /\ \A c \in Block : c # b => content'[c] = content[c]
  BY <1>2, <1>4, DataType DEF SfsInv, TypeOK
<1>8. /\ din' \in [File -> Inode] /\ din'[f] = node /\ \A g \in File : g # f => din'[g] = din[g]
  BY <1>3, <1>4, <1>5
<1>9. ASSUME NEW g \in File, din[g].indirect # NoBlock
      PROVE  content'[din[g].indirect] = content[din[g].indirect]
  <2>1. din[g].indirect \in Block /\ din[g].indirect # b
    BY <1>1, <1>2, <1>9, IndirectBlock
  <2>. QED BY <1>7, <2>1
<1>10. /\ RefMap' \in RefMaps
       /\ \A j \in Place : RefMap'[f][j] = RefOf(node, content', j)
  BY <1>7, <1>8, RefMapTypeNext
<1>11. ASSUME NEW j \in Place PROVE RefMap'[f][j] = IF j = i THEN NoBlock ELSE RefMap[f][j]
  <2>1. RefMap[f][j] = RefOf(din[f], content, j)
    BY RefMapType DEF SfsInv
  <2>2. CASE j \in Direct
    BY <1>1, <1>5, <1>10, <2>1, <2>2 DEF RefOf
  <2>3. CASE j \notin Direct
    BY <1>1, <1>5, <1>9, <1>10, <2>1, <2>3 DEF RefOf
  <2>. QED BY <2>2, <2>3
<1>12. ASSUME NEW g \in File, g # f, NEW j \in Place PROVE RefMap'[g][j] = RefMap[g][j]
  <2>1. SameTable(g)
    BY <1>8, <1>9, <1>12 DEF SameTable
  <2>. QED BY <1>7, <1>8, <2>1, SameFile DEF SfsInv
<1>13. Puts(RefMap, RefMap', f, i, NoBlock)
  BY <1>10, <1>11, <1>12 DEF Puts
<1>. QED BY <1>1, <1>2, <1>4, <1>5, <1>6, <1>7, <1>13, OneBlockBack

\* ... with an entry of the indirect block.
LEMMA ShrinkEntryStep == ASSUME SfsInv, NEW f \in File, ShrinkEntry(f) PROVE SfsInv'
<1>. DEFINE i == din[f].blocks - 1
            e == EntryOf(i)
            ent == din[f].indirect
            b == bmap(f, i)
            node == [din[f] EXCEPT !.blocks = i]
<1>1. /\ op # Idle /\ op.file = f /\ Shrinking(f) /\ i \notin Direct /\ i \in Nat
      /\ i \in Place /\ i # IndirectPlace /\ e \in Entry
  <2>1. Shrinking(f) /\ din[f].blocks > SFS_NDIRECT
    BY DEF ShrinkEntry
  <2>2. /\ i \in Nat /\ i \in Place /\ i # IndirectPlace /\ din[f].blocks = i + 1
    BY <2>1, LastPlace
  <2>3. i \notin Direct
    BY <2>1, <2>2, SfsNumbers DEF Direct
  <2>. QED BY <2>1, <2>2, <2>3, SfsNumbers DEF Shrinking
<1>2. RefMap[f][i] = b /\ RefMap[f][i] # NoBlock /\ b # NoBlock /\ b \in Block \ freemap
  BY <1>1, LastPlace
<1>3. din[f] \in Inode /\ din \in [File -> Inode]
  BY DEF SfsInv, TypeOK
<1>4. ent # NoBlock /\ ent \in Block \ freemap /\ ent # b
  <2>1. ent # NoBlock
    BY <1>1, <1>2 DEF bmap
  <2>. QED BY <1>1, <1>2, <2>1, IndirectBlock
<1>5. /\ Give(RefMap[f][i]) /\ halt' = halt
      /\ content' = [content EXCEPT ![ent][e] = NoBlock, ![b] = Data]
      /\ din' = [din EXCEPT ![f].blocks = @ - 1] /\ din' = [din EXCEPT ![f] = node]
      /\ dirty' = dirty \cup {f} /\ UNCHANGED <<disk, loaded, op>>
  <2>1. sfs_block_inuse(b) /\ sfs_block_inuse(ent)
    BY <1>2, <1>4 DEF sfs_block_inuse
  <2>. HIDE DEF b
  <2>2. /\ Give(b) /\ content' = [content EXCEPT ![ent][e] = NoBlock, ![b] = Data]
        /\ KAssert(sfs_block_inuse(b) /\ sfs_block_inuse(ent))
    BY <1>2 DEF ShrinkEntry, b
  <2>3. halt' = halt
    BY <2>1, <2>2 DEF KAssert
  <2>4. /\ Modify(f, [din[f] EXCEPT !.blocks = @ - 1]) /\ UNCHANGED <<disk, loaded, op>>
    BY DEF ShrinkEntry
  <2>. QED BY <1>2, <1>3, <2>2, <2>3, <2>4 DEF Modify
<1>. HIDE DEF b, e
<1>6. IsNode(node, din[f].size, i, din[f].direct, ent)
  <2>1. /\ din[f].size \in Position \cup {0}
        /\ din[f].direct \in [Direct -> MayBlock] /\ din[f].indirect \in MayBlock
    BY <1>3 DEF Inode, MayBlock
  <2>. HIDE DEF i, node
  <2>2. node = [din[f] EXCEPT !.blocks = i]
    BY DEF node
  <2>. QED BY <1>1, <1>3, <2>1, <2>2, NodeWith DEF MayBlock
<1>7. /\ node \in Inode /\ node.size = din[f].size /\ node.blocks = i
      /\ node.direct = din[f].direct /\ node.indirect = ent
  BY <1>6 DEF IsNode
<1>. HIDE DEF node
<1>8. NodeStep(f, node)
  BY <1>1, <1>5, <1>7 DEF NodeStep
<1>9. /\ content' \in [Block -> Table] /\ content[ent] \in Table
      /\ content'[ent] = [content[ent] EXCEPT ![e] = NoBlock]
      /\ \A c \in Block : c # b /\ c # ent => content'[c] = content[c]
  <2>1. content \in [Block -> Table] /\ content[ent] \in Table /\ Data \in Table
    BY <1>2, <1>4, DataType DEF SfsInv, TypeOK
  <2>2. [content[ent] EXCEPT ![e] = NoBlock] \in Table
    BY <2>1 DEF Table
  <2>3. content' = [content EXCEPT ![ent] = [content[ent] EXCEPT ![e] = NoBlock], ![b] = Data]
    BY <1>2, <1>4, <1>5, <2>1
  <2>. QED BY <1>2, <1>4, <2>1, <2>2, <2>3
<1>10. /\ din' \in [File -> Inode] /\ din'[f] = node /\ \A g \in File : g # f => din'[g] = din[g]
  BY <1>3, <1>5, <1>7
<1>11. /\ RefMap' \in RefMaps
       /\ \A j \in Place : RefMap'[f][j] = RefOf(node, content', j)
  BY <1>9, <1>10, RefMapTypeNext
<1>12. ASSUME NEW j \in Place PROVE RefMap'[f][j] = IF j = i THEN NoBlock ELSE RefMap[f][j]
  <2>1. RefMap[f][j] = RefOf(din[f], content, j)
    BY RefMapType DEF SfsInv
  <2>2. CASE j \in Direct \cup {IndirectPlace}
    BY <1>1, <1>7, <1>11, <2>1, <2>2 DEF RefOf
  <2>3. CASE j \notin Direct \cup {IndirectPlace}
    <3>1. EntryOf(j) \in Entry /\ (EntryOf(j) = e <=> j = i)
      BY <1>1, <2>3, SfsNumbers DEF EntryOf, Place, e
    <3>2. content'[ent][EntryOf(j)] = IF j = i THEN NoBlock ELSE content[ent][EntryOf(j)]
      BY <1>1, <1>9, <3>1 DEF Table
    <3>. QED BY <1>4, <1>7, <1>11, <2>1, <2>3, <3>2 DEF RefOf
  <2>. QED BY <2>2, <2>3
<1>13. ASSUME NEW g \in File, g # f, NEW j \in Place PROVE RefMap'[g][j] = RefMap[g][j]
  <2>1. ASSUME din[g].indirect # NoBlock
        PROVE  content'[din[g].indirect] = content[din[g].indirect]
    <3>1. din[g].indirect \in Block /\ RefMap[g][IndirectPlace] = din[g].indirect
      BY <2>1, IndirectBlock
    <3>2. din[g].indirect # b
      BY <1>1, <1>2, <2>1, IndirectBlock
    <3>3. din[g].indirect # ent
      BY <1>4, <1>13, <3>1, IndirectBlock, SfsNumbers
    <3>. QED BY <1>9, <3>1, <3>2, <3>3
  <2>2. SameTable(g)
    BY <1>10, <1>13, <2>1 DEF SameTable
  <2>. QED BY <1>9, <1>10, <2>2, SameFile DEF SfsInv
<1>14. Puts(RefMap, RefMap', f, i, NoBlock)
  BY <1>11, <1>12, <1>13 DEF Puts
<1>. QED BY <1>1, <1>2, <1>5, <1>7, <1>8, <1>9, <1>14, OneBlockBack

\* The file gets its size.
LEMMA TruncatedStep == ASSUME SfsInv, NEW f \in File, Truncated(f) PROVE SfsInv'
<1>. DEFINE node == [din[f] EXCEPT !.size = op.len]
<1>1. op # Idle /\ op.file = f /\ op.len \in Position \cup {0} /\ op.len \in Nat
  BY TargetNat DEF Truncated, SfsInv, TypeOK
<1>2. /\ din' = [din EXCEPT ![f] = node] /\ dirty' = dirty \cup {f} /\ op' = Idle
      /\ UNCHANGED <<freemap, unused_blocks, content, disk, loaded, halt>>
      /\ din[f].blocks = Needed(op.len)
  BY DEF Truncated, Modify, maps, Target, Needed
<1>3. din[f] \in Inode /\ din \in [File -> Inode] /\ content \in [Block -> Table] /\ TypeOK
  BY DEF SfsInv, TypeOK
<1>4. IsNode(node, op.len, din[f].blocks, din[f].direct, din[f].indirect)
  <2>1. node = [din[f] EXCEPT !.size = op.len]
    OBVIOUS
  <2>. HIDE DEF node
  <2>2. /\ din[f].blocks \in Nat /\ din[f].direct \in [Direct -> Block \cup {NoBlock}]
        /\ din[f].indirect \in Block \cup {NoBlock}
    BY <1>3 DEF Inode
  <2>. QED BY <1>1, <1>3, <2>1, <2>2, NodeWith
<1>5. /\ node \in Inode /\ node.size = op.len /\ node.blocks = din[f].blocks
      /\ node.direct = din[f].direct /\ node.indirect = din[f].indirect
  BY <1>4 DEF IsNode
<1>. HIDE DEF node
<1>6. NodeStep(f, node)
  BY <1>1, <1>2, <1>5 DEF NodeStep
<1>7. /\ OnDisk' /\ din' \in [File -> Inode] /\ disk' \in [File -> Inode]
      /\ dirty' \subseteq loaded' /\ loaded' \subseteq File
      /\ \A g \in File : din'[g] = IF g = f THEN node ELSE din[g]
  BY <1>6, NodeStepKeeps
<1>8. RefMap' = RefMap
  <2>1. \A g \in File : SameTable(g)
    BY <1>2, <1>5, <1>7 DEF SameTable
  <2>. QED BY <1>2, <1>3, <1>7, <2>1, SameFiles
<1>9. TypeOK'
  BY <1>2, <1>3, <1>7 DEF TypeOK
<1>10. Exact(RefMap, freemap)' /\ (unused_blocks = Cardinality(freemap))'
  BY <1>2, <1>8 DEF SfsInv
<1>11. Filled'
  <2>1. \A g \in File : din'[g].blocks = din[g].blocks
    BY <1>5, <1>7
  <2>. QED BY <1>8, <2>1 DEF SfsInv, Filled, IndirectPlace
<1>12. Sized'
  <2>. SUFFICES ASSUME NEW g \in File PROVE Needed(din'[g].size) <= din'[g].blocks
    BY DEF Sized, Needed, ROUNDUP_DIV
  <2>1. CASE g # f
    BY <1>1, <1>7, <2>1 DEF SfsInv, Sized
  <2>2. CASE g = f
    <3>1. Needed(op.len) \in Nat
      BY <1>1, NeededNat
    <3>. QED BY <1>2, <1>5, <1>7, <2>2, <3>1
  <2>. QED BY <2>1, <2>2
<1>. QED BY <1>2, <1>7, <1>9, <1>10, <1>11, <1>12 DEF SfsInv, BlockAssertsHold

-----------------------------------------------------------------------------
(* Steps between the turns.                                                *)

\* sfs_truncfile, up to its loops.
LEMMA TruncateStep == ASSUME SfsInv, TruncateCall PROVE SfsInv'
<1>1. PICK f \in File, len \in Position \cup {0} : Truncate(f, len)
  BY DEF TruncateCall
<1>2. /\ op = Idle /\ f \in loaded
      /\ UNCHANGED <<freemap, unused_blocks, content, disk, din, loaded, dirty>>
      /\ op' = op \/ op' = [file |-> f, len |-> len]
      /\ halt' \in {halt, "size"}
  BY <1>1 DEF Truncate, maps, inodes
<1>3. TypeOK'
  <2>1. op' = Idle \/ (op'.file \in loaded' /\ op'.len \in Position \cup {0})
    BY <1>2
  <2>. QED BY <1>2, <2>1 DEF SfsInv, TypeOK
<1>4. RefMap' = RefMap
  BY <1>2 DEF RefMap, RefOf, Place, IndirectPlace
<1>5. /\ Exact(RefMap, freemap)' /\ (unused_blocks = Cardinality(freemap))'
  BY <1>2, <1>4 DEF SfsInv
<1>6. Filled' /\ OnDisk'
  BY <1>2, <1>4 DEF SfsInv, Filled, OnDisk, Needed, ROUNDUP_DIV, IndirectPlace
<1>7. Sized'
  <2>1. \A g \in File : Needed(din[g].size) <= din[g].blocks
    BY <1>2 DEF SfsInv, Sized
  <2>. QED BY <1>2, <2>1 DEF Sized, Needed, ROUNDUP_DIV
<1>8. BlockAssertsHold'
  BY <1>2 DEF SfsInv, BlockAssertsHold
<1>. QED BY <1>3, <1>5, <1>6, <1>7, <1>8 DEF SfsInv

\* An inode moves between the disk and memory: what is in memory refers to the
\* same blocks.
Moves ==
  /\ op = Idle /\ UNCHANGED <<maps, op, halt>>
  /\ din' \in [File -> Inode] /\ disk' \in [File -> Inode]
  /\ dirty' \subseteq loaded' /\ loaded' \subseteq File
  /\ \A f \in File : /\ din'[f].direct = din[f].direct /\ din'[f].indirect = din[f].indirect
                      /\ din'[f].blocks <= din[f].blocks
                      /\ Needed(din'[f].size) <= din'[f].blocks
  /\ OnDisk'

LEMMA MovesKeep == ASSUME SfsInv, Moves PROVE SfsInv'
<1>1. /\ op = Idle /\ UNCHANGED <<freemap, unused_blocks, content, op, halt>> /\ OnDisk'
      /\ din' \in [File -> Inode] /\ din \in [File -> Inode]
  BY DEF Moves, maps, SfsInv, TypeOK
<1>2. TypeOK'
  BY <1>1 DEF Moves, SfsInv, TypeOK
<1>3. RefMap' = RefMap
  <2>1. \A f \in File : SameTable(f)
    BY <1>1 DEF Moves, SameTable
  <2>. QED BY <1>1, <2>1, SameFiles DEF SfsInv, TypeOK
<1>4. Exact(RefMap, freemap)' /\ (unused_blocks = Cardinality(freemap))' /\ BlockAssertsHold'
  BY <1>1, <1>3 DEF SfsInv, BlockAssertsHold
<1>5. Filled'
  <2>. SUFFICES ASSUME NEW f \in File
                PROVE  /\ din'[f].blocks <= IndirectPlace
                       /\ \A i \in 0 .. din'[f].blocks - 1 : RefMap'[f][i] # NoBlock
    BY DEF Filled, IndirectPlace
  <2>1. /\ din'[f].blocks \in Nat /\ din[f].blocks \in Nat /\ IndirectPlace \in Nat
        /\ din'[f].blocks <= din[f].blocks
    BY <1>1, SfsNumbers DEF Moves, Inode
  <2>2. /\ din[f].blocks <= IndirectPlace
        /\ \A i \in 0 .. din[f].blocks - 1 : RefMap[f][i] # NoBlock
    BY DEF SfsInv, Filled
  <2>3. \A i \in 0 .. din'[f].blocks - 1 : i \in 0 .. din[f].blocks - 1
    BY <2>1
  <2>4. din'[f].blocks <= IndirectPlace
    BY <2>1, <2>2
  <2>. QED BY <1>3, <2>2, <2>3, <2>4
<1>6. Sized'
  BY DEF Moves, Sized, Needed, ROUNDUP_DIV
<1>. QED BY <1>1, <1>2, <1>4, <1>5, <1>6 DEF SfsInv

\* Between the turns a file in memory has the blocks for its size.
LEMMA AtRest ==
  ASSUME SfsInv, op = Idle, NEW f \in File
  PROVE  /\ din[f] \in Inode /\ disk[f] \in Inode /\ Needed(din[f].size) <= din[f].blocks
         /\ Needed(disk[f].size) <= disk[f].blocks
         /\ f \notin dirty => /\ disk[f].direct = din[f].direct
                              /\ disk[f].indirect = din[f].indirect
                              /\ disk[f].blocks <= din[f].blocks
         /\ f \notin loaded => din[f] = disk[f]
         /\ din[f].blocks <= din[f].blocks /\ disk[f].blocks <= disk[f].blocks
<1>1. din[f] \in Inode /\ disk[f] \in Inode
  BY DEF SfsInv, TypeOK
<1>2. din[f].blocks \in Nat /\ disk[f].blocks \in Nat
  BY <1>1 DEF Inode
<1>. QED BY <1>1, <1>2 DEF SfsInv, Sized, OnDisk

LEMMA LoadStep == ASSUME SfsInv, NEW f \in File, Load(f) PROVE SfsInv'
<1>1. /\ op = Idle /\ f \notin loaded /\ loaded' = loaded \cup {f} /\ din' = [din EXCEPT ![f] = disk[f]]
      /\ UNCHANGED <<maps, disk, dirty, op, halt>>
      /\ din \in [File -> Inode] /\ disk \in [File -> Inode]
      /\ dirty \subseteq loaded /\ loaded \subseteq File
  BY DEF Load, SfsInv, TypeOK
<1>2. din' = din
  BY <1>1, AtRest
<1>3. OnDisk'
  BY <1>1, <1>2 DEF SfsInv, OnDisk, Needed, ROUNDUP_DIV
<1>4. Moves
  BY <1>1, <1>2, <1>3, AtRest DEF Moves
<1>. QED BY <1>4, MovesKeep

LEMMA FsyncStep == ASSUME SfsInv, NEW f \in File, Fsync(f) PROVE SfsInv'
<1>1. /\ op = Idle /\ f \in loaded /\ disk' = [disk EXCEPT ![f] = din[f]] /\ dirty' = dirty \ {f}
      /\ UNCHANGED <<maps, din, loaded, op, halt>>
      /\ din \in [File -> Inode] /\ disk \in [File -> Inode]
      /\ dirty \subseteq loaded /\ loaded \subseteq File
  BY DEF Fsync, SfsInv, TypeOK
<1>2. OnDisk'
  <2>. SUFFICES ASSUME NEW g \in File
                PROVE  /\ Needed(disk'[g].size) <= disk'[g].blocks
                       /\ g \notin dirty' => /\ disk'[g].direct = din'[g].direct
                                             /\ disk'[g].indirect = din'[g].indirect
                                             /\ disk'[g].blocks <= din'[g].blocks
                       /\ g \notin loaded' => din'[g] = disk'[g]
    BY DEF OnDisk, Needed, ROUNDUP_DIV
  <2>. QED BY <1>1, AtRest
<1>3. Moves
  BY <1>1, <1>2, AtRest DEF Moves
<1>. QED BY <1>3, MovesKeep

LEMMA ReclaimStep == ASSUME SfsInv, NEW f \in File, Reclaim(f) PROVE SfsInv'
<1>1. /\ op = Idle /\ f \in loaded /\ loaded' = loaded \ {f} /\ dirty' = dirty \ {f}
      /\ UNCHANGED <<maps, op, halt>>
      /\ IF f \in dirty
         THEN disk' = [disk EXCEPT ![f] = din[f]] /\ din' = din
         ELSE din' = [din EXCEPT ![f] = disk[f]] /\ disk' = disk
      /\ din \in [File -> Inode] /\ disk \in [File -> Inode]
      /\ dirty \subseteq loaded /\ loaded \subseteq File
  BY DEF Reclaim, SfsInv, TypeOK
<1>2. /\ din' \in [File -> Inode] /\ disk' \in [File -> Inode] /\ din'[f] = disk'[f]
      /\ din'[f] = din[f] \/ (f \notin dirty /\ din'[f] = disk[f])
      /\ \A g \in File : g # f => din'[g] = din[g] /\ disk'[g] = disk[g]
  BY <1>1
<1>3. ASSUME NEW g \in File
      PROVE  /\ din'[g].direct = din[g].direct /\ din'[g].indirect = din[g].indirect
             /\ din'[g].blocks <= din[g].blocks /\ Needed(din'[g].size) <= din'[g].blocks
  BY <1>1, <1>2, AtRest
<1>4. OnDisk'
  <2>. SUFFICES ASSUME NEW g \in File
                PROVE  /\ Needed(disk'[g].size) <= disk'[g].blocks
                       /\ g \notin dirty' => /\ disk'[g].direct = din'[g].direct
                                             /\ disk'[g].indirect = din'[g].indirect
                                             /\ disk'[g].blocks <= din'[g].blocks
                       /\ g \notin loaded' => din'[g] = disk'[g]
    BY DEF OnDisk, Needed, ROUNDUP_DIV
  <2>1. CASE g # f
    BY <1>1, <1>2, <2>1, AtRest
  <2>2. CASE g = f
    <3>1. disk'[f].blocks \in Nat
      BY <1>2 DEF Inode
    <3>2. disk'[f].blocks <= disk'[f].blocks
      BY <3>1
    <3>. QED BY <1>2, <1>3, <2>2, <3>2
  <2>. QED BY <2>1, <2>2
<1>5. Moves
  BY <1>1, <1>2, <1>3, <1>4 DEF Moves
<1>. QED BY <1>5, MovesKeep

-----------------------------------------------------------------------------
(* The theorems.                                                           *)

LEMMA SfsInit == Init => SfsInv
<1>. SUFFICES ASSUME Init PROVE SfsInv
  OBVIOUS
<1>. DEFINE node == [size |-> 0, blocks |-> 0, direct |-> [d \in Direct |-> NoBlock],
                     indirect |-> NoBlock]
<1>1. /\ node \in Inode /\ node.size = 0 /\ node.blocks = 0 /\ node.indirect = NoBlock
      /\ \A i \in Direct : node.direct[i] = NoBlock
  BY DEF Inode
<1>2. /\ din = [f \in File |-> node] /\ disk = [f \in File |-> node] /\ freemap = Block
      /\ unused_blocks = NBlock /\ loaded = {} /\ dirty = {} /\ op = Idle /\ halt = "no"
      /\ content = [b \in Block |-> [e \in Entry |-> NoBlock]]
  BY DEF Init
<1>. HIDE DEF node
<1>3. TypeOK
  BY <1>1, <1>2, SfsNumbers DEF TypeOK, Table
<1>4. \A f \in File, i \in Place : RefMap[f][i] = NoBlock
  BY <1>1, <1>2, <1>3, RefMapType DEF RefOf
<1>5. Exact(RefMap, freemap)
  BY <1>2, <1>4, SfsNumbers DEF Exact
<1>6. unused_blocks = Cardinality(freemap)
  <2>1. Cardinality(1 .. NBlock) = NBlock
    <3>1. 1 \in Int /\ NBlock \in Int /\ NBlock >= 0
      BY SfsNumbers
    <3>. QED BY <3>1, FS_Interval
  <2>. QED BY <1>2, <2>1 DEF Block
<1>7. Filled
  BY <1>1, <1>2, SfsNumbers DEF Filled
<1>8. Needed(0) = 0
  <2>1. SFS_BLKSIZE \in Nat /\ SFS_BLKSIZE > 0
    BY SfsAssumption
  <2>2. (SFS_BLKSIZE - 1) \div SFS_BLKSIZE = 0
    BY <2>1
  <2>3. 0 + SFS_BLKSIZE - 1 = SFS_BLKSIZE - 1
    BY <2>1
  <2>. QED BY <2>2, <2>3 DEF Needed, ROUNDUP_DIV
<1>9. Sized /\ OnDisk
  BY <1>1, <1>2, <1>8 DEF Sized, OnDisk
<1>. QED BY <1>2, <1>3, <1>5, <1>6, <1>7, <1>9 DEF SfsInv, BlockAssertsHold

LEMMA SfsStep == SfsInv /\ [Next]_vars => SfsInv'
<1>. SUFFICES ASSUME SfsInv, [Next]_vars PROVE SfsInv'
  OBVIOUS
<1>1. CASE TruncateCall
  BY <1>1, TruncateStep
<1>2. ASSUME NEW f \in File, Step(f) PROVE SfsInv'
  BY <1>2, GrowDirectStep, GrowEntryStep, GrowFoundStep, GrowIndirectStep, DiskFullStep,
     ShrinkDirectStep, ShrinkEntryStep, TruncatedStep DEF Step
<1>3. ASSUME NEW f \in File, Load(f) \/ Fsync(f) \/ Reclaim(f) PROVE SfsInv'
  BY <1>3, LoadStep, FsyncStep, ReclaimStep
<1>4. CASE UNCHANGED vars
  <2>1. UNCHANGED <<freemap, unused_blocks, content, disk, din, loaded, dirty, op, halt>>
    BY <1>4 DEF vars, maps, inodes
  <2>2. RefMap' = RefMap
    BY <2>1 DEF RefMap, RefOf, Place, IndirectPlace
  <2>. QED BY <2>1, <2>2 DEF SfsInv, TypeOK, BlockAssertsHold, Exact, Filled, Sized, OnDisk,
            Needed, ROUNDUP_DIV, Target, IndirectPlace
<1>. QED BY <1>1, <1>2, <1>3, <1>4 DEF Next, Halted

LEMMA SfsInvariant == Spec => []SfsInv
<1>. QED BY SfsInit, SfsStep, PTL DEF Spec

\* The reference of AllRefs that a place holds.
RefAt(f, i) ==
  IF i \in Direct THEN <<f, "direct", i, RefMap[f][i]>>
  ELSE IF i = IndirectPlace THEN <<f, "indirect", 0, RefMap[f][i]>>
  ELSE <<f, "entry", EntryOf(i), RefMap[f][i]>>

LEMMA RefsOfFile ==
  ASSUME SfsInv, NEW f \in File, NEW r
  PROVE  (r \in Refs(f) /\ r[4] # NoBlock)
         <=> \E i \in Place : r = RefAt(f, i) /\ RefMap[f][i] # NoBlock
<1>1. /\ TypeOK /\ din[f] \in Inode
      /\ \A i \in Place : RefMap[f][i] = RefOf(din[f], content, i)
  BY RefMapType DEF SfsInv, TypeOK
<1>2. ASSUME r \in Refs(f), r[4] # NoBlock
      PROVE  \E i \in Place : r = RefAt(f, i) /\ RefMap[f][i] # NoBlock
  <2>1. CASE r = <<f, "indirect", 0, din[f].indirect>>
    <3>1. IndirectPlace \in Place /\ RefMap[f][IndirectPlace] = din[f].indirect
      BY <1>1, SfsNumbers DEF RefOf
    <3>2. r = RefAt(f, IndirectPlace) /\ r[4] = RefMap[f][IndirectPlace]
      BY <2>1, <3>1, SfsNumbers DEF RefAt
    <3>. QED BY <1>2, <3>1, <3>2
  <2>2. ASSUME NEW d \in Direct, r = <<f, "direct", d, din[f].direct[d]>>
        PROVE  \E i \in Place : r = RefAt(f, i) /\ RefMap[f][i] # NoBlock
    <3>1. d \in Place /\ RefMap[f][d] = din[f].direct[d]
      BY <1>1, SfsNumbers DEF RefOf
    <3>2. r = RefAt(f, d) /\ r[4] = RefMap[f][d]
      BY <2>2, <3>1 DEF RefAt
    <3>. QED BY <1>2, <3>1, <3>2
  <2>3. ASSUME din[f].indirect # NoBlock, NEW e \in Entry,
               r = <<f, "entry", e, content[din[f].indirect][e]>>
        PROVE  \E i \in Place : r = RefAt(f, i) /\ RefMap[f][i] # NoBlock
    <3>. DEFINE i == e + SFS_NDIRECT
    <3>1. i \in Place /\ i \notin Direct /\ i # IndirectPlace /\ EntryOf(i) = e
      BY SfsNumbers DEF Entry, Place, Direct, EntryOf
    <3>. HIDE DEF i
    <3>2. RefMap[f][i] = content[din[f].indirect][e]
      BY <1>1, <2>3, <3>1 DEF RefOf
    <3>3. r = RefAt(f, i) /\ r[4] = RefMap[f][i]
      BY <2>3, <3>1, <3>2 DEF RefAt
    <3>. QED BY <1>2, <3>1, <3>3
  <2>4. \/ r = <<f, "indirect", 0, din[f].indirect>>
        \/ \E d \in Direct : r = <<f, "direct", d, din[f].direct[d]>>
        \/ din[f].indirect # NoBlock
           /\ \E e \in Entry : r = <<f, "entry", e, content[din[f].indirect][e]>>
    <3>1. CASE din[f].indirect = NoBlock
      BY <1>2, <3>1 DEF Refs
    <3>2. CASE din[f].indirect # NoBlock
      BY <1>2, <3>2 DEF Refs
    <3>. QED BY <3>1, <3>2
  <2>. QED BY <2>1, <2>2, <2>3, <2>4
<1>3. ASSUME NEW i \in Place, r = RefAt(f, i), RefMap[f][i] # NoBlock
      PROVE  r \in Refs(f) /\ r[4] # NoBlock
  <2>1. r[4] = RefMap[f][i]
    BY <1>3 DEF RefAt
  <2>2. CASE i \in Direct
    <3>1. r = <<f, "direct", i, din[f].direct[i]>>
      BY <1>1, <1>3, <2>2 DEF RefAt, RefOf
    <3>. QED BY <1>3, <2>1, <2>2, <3>1 DEF Refs
  <2>3. CASE i = IndirectPlace
    <3>1. r = <<f, "indirect", 0, din[f].indirect>>
      BY <1>1, <1>3, <2>3, SfsNumbers DEF RefAt, RefOf
    <3>. QED BY <1>3, <2>1, <3>1 DEF Refs
  <2>4. CASE i \notin Direct \cup {IndirectPlace}
    <3>1. EntryOf(i) \in Entry
      BY <2>4, SfsNumbers
    <3>2. din[f].indirect # NoBlock /\ RefMap[f][i] = content[din[f].indirect][EntryOf(i)]
      BY <1>1, <1>3, <2>4 DEF RefOf
    <3>3. r = <<f, "entry", EntryOf(i), content[din[f].indirect][EntryOf(i)]>>
      BY <1>3, <2>4, <3>2 DEF RefAt
    <3>. QED BY <1>3, <2>1, <3>1, <3>2, <3>3 DEF Refs
  <2>. QED BY <2>2, <2>3, <2>4
<1>. QED BY <1>2, <1>3

LEMMA AllRefsPlaces ==
  ASSUME SfsInv, NEW r
  PROVE  r \in AllRefs
         <=> \E f \in File, i \in Place : r = RefAt(f, i) /\ RefMap[f][i] # NoBlock
<1>1. r \in AllRefs <=> \E f \in File : r \in Refs(f) /\ r[4] # NoBlock
  BY DEF AllRefs
<1>. QED BY <1>1, RefsOfFile

\* A reference is to the block of its place.
LEMMA RefAtBlock == \A f \in File, i \in Place : RefAt(f, i)[4] = RefMap[f][i]
BY DEF RefAt

LEMMA InvExact == SfsInv => BlocksExact
<1>. SUFFICES ASSUME SfsInv PROVE BlocksExact
  OBVIOUS
<1>1. ASSUME NEW r \in AllRefs, NEW s \in AllRefs, r[4] = s[4] PROVE r = s
  <2>1. PICK f \in File, i \in Place : r = RefAt(f, i) /\ RefMap[f][i] # NoBlock
    BY AllRefsPlaces
  <2>2. PICK g \in File, j \in Place : s = RefAt(g, j) /\ RefMap[g][j] # NoBlock
    BY AllRefsPlaces
  <2>3. RefMap[f][i] = RefMap[g][j]
    BY <1>1, <2>1, <2>2, RefAtBlock
  <2>4. f = g /\ i = j
    BY <2>1, <2>3 DEF SfsInv, Exact
  <2>. QED BY <2>1, <2>2, <2>4
<1>2. ASSUME NEW b \in Block PROVE b \in freemap <=> ~\E r \in AllRefs : r[4] = b
  <2>1. b # NoBlock
    BY SfsNumbers
  <2>2. (\E r \in AllRefs : r[4] = b) <=> \E f \in File, i \in Place : RefMap[f][i] = b
    <3>1. ASSUME NEW r \in AllRefs, r[4] = b
          PROVE  \E f \in File, i \in Place : RefMap[f][i] = b
      BY <3>1, AllRefsPlaces, RefAtBlock
    <3>2. ASSUME NEW f \in File, NEW i \in Place, RefMap[f][i] = b
          PROVE  \E r \in AllRefs : r[4] = b
      <4>1. RefAt(f, i) \in AllRefs
        BY <2>1, <3>2, AllRefsPlaces
      <4>. QED BY <3>2, <4>1, RefAtBlock
    <3>. QED BY <3>1, <3>2
  <2>. QED BY <2>2 DEF SfsInv, Exact
<1>3. freemap \subseteq Block /\ TypeOK /\ unused_blocks = Cardinality(freemap)
  BY DEF SfsInv, Exact
<1>4. freemap = Block \ {r[4] : r \in AllRefs}
  BY <1>2, <1>3
<1>. QED BY <1>1, <1>3, <1>4 DEF BlocksExact

LEMMA InvNoHoles == SfsInv => NoHoles
<1>. SUFFICES ASSUME SfsInv, NEW f \in File
              PROVE  /\ \A i \in 0 .. din[f].blocks - 1 : bmap(f, i) # NoBlock
                     /\ op = Idle \/ op.file # f
                          => ROUNDUP_DIV(din[f].size, SFS_BLKSIZE) <= din[f].blocks
  BY DEF NoHoles
<1>1. ASSUME NEW i \in 0 .. din[f].blocks - 1 PROVE bmap(f, i) # NoBlock
  <2>1. i \in Place \ {IndirectPlace}
    BY RoomLeft, SfsNumbers DEF Place
  <2>2. RefMap[f][i] # NoBlock
    BY DEF SfsInv, Filled
  <2>. QED BY <2>1, <2>2, BmapPlace DEF SfsInv
<1>2. op = Idle \/ op.file # f => ROUNDUP_DIV(din[f].size, SFS_BLKSIZE) <= din[f].blocks
  BY DEF SfsInv, Sized, Needed
<1>. QED BY <1>1, <1>2

\* sfs_block_alloc, sfs_block_free and the loops of sfs_truncfile account for
\* every block of the disk: a free block is one that no inode refers to, no
\* block has two places, and the super block counts the free ones.
THEOREM BlocksAccounted == Spec => []BlocksExact
<1>. QED BY SfsInvariant, InvExact, PTL

\* A file has a block for every index below its number of blocks and for every
\* byte below its size, also after a growth that a full disk stopped and after
\* its inode was dropped and read again (sfs_truncfile, sfs_reclaim).
THEOREM FilesFilled == Spec => []NoHoles
<1>. QED BY SfsInvariant, InvNoHoles, PTL

\* The assertions of sfs_block_free, sfs_bmap_load_nolock and sfs_block_alloc
\* about blocks in use and the count of unused ones never fail.
THEOREM BlockAssertsNeverFail == Spec => []BlockAssertsHold
<1>1. SfsInv => BlockAssertsHold
  BY DEF SfsInv
<1>. QED BY <1>1, SfsInvariant, PTL

\* The index that sfs_bmap_get_nolock gets while a file grows is a direct block
\* or an entry of the indirect block: its panic for an index out of range is
\* out of reach on a disk that is smaller than a file can be.
IndexInRange == \A f \in File :
  Growing(f) => din[f].blocks \in Direct \/ EntryOf(din[f].blocks) \in Entry

THEOREM GrowthInRange == Spec => []IndexInRange
<1>1. SfsInv => IndexInRange
  <2>. SUFFICES ASSUME SfsInv, NEW f \in File
                PROVE  din[f].blocks \in Direct \/ EntryOf(din[f].blocks) \in Entry
    BY DEF IndexInRange
  <2>. QED BY RoomLeft, SfsNumbers DEF Place
<1>. QED BY <1>1, SfsInvariant, PTL
=============================================================================
