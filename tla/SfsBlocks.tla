------------------------------- MODULE SfsBlocks -------------------------------
(***************************************************************************)
(* The blocks of a simple file system (kern/fs/sfs): the map of free       *)
(* blocks, the direct and indirect blocks of each file, sfs_truncfile that *)
(* grows a file (a seek past its end) or empties it (an open with O_TRUNC  *)
(* or O_CREAT) block by block on a disk that may be full, and the inodes   *)
(* that come into memory, are written back and are dropped. The disk is in *)
(* memory and answers at once, so that operations never overlap; every     *)
(* turn of sfs_truncfile's loops is a step. Writing to a file is an        *)
(* exercise the source leaves open, and is left out.                       *)
(***************************************************************************)
EXTENDS Naturals, FiniteSetsExt

CONSTANTS
  File,              \* the files mksfs puts on the disk
  NBlock,            \* the blocks mksfs leaves unused
  SFS_NDIRECT,       \* direct blocks of an inode
  SFS_BLK_NENTRY,    \* entries of an indirect block
  SFS_BLKSIZE,       \* bytes in a block
  Position           \* where seeks go to, below SFS_MAX_FILE_SIZE

ASSUME SfsAssumption ==
  /\ NBlock \in Nat /\ Position \subseteq Nat
  /\ SFS_NDIRECT \in Nat \ {0} /\ SFS_BLK_NENTRY \in Nat \ {0}
  /\ SFS_BLKSIZE \in Nat \ {0}

\* The disk is full before a file runs out of entries: it has 120 blocks, and
\* an inode refers to 12 + 1024. So sfs_bmap_get_nolock's panic for an index out
\* of range is out of reach.
ASSUME DiskIsSmall == NBlock < SFS_NDIRECT + SFS_BLK_NENTRY + 1

Block == 1 .. NBlock
NoBlock == 0
Direct == 0 .. SFS_NDIRECT - 1
Entry  == 0 .. SFS_BLK_NENTRY - 1
Table  == [Entry -> Block \cup {NoBlock}]

Inode == [size : Position \cup {0}, blocks : Nat,
          direct : [Direct -> Block \cup {NoBlock}], indirect : Block \cup {NoBlock}]

VARIABLES
  freemap,        \* the free blocks
  unused_blocks,  \* super.unused_blocks
  content,        \* what each block holds, read as a table of block numbers
  disk,           \* the inode of every file on the disk
  din,            \* ... and in memory, for a file that is loaded
  loaded,         \* the files whose inode is in memory
  dirty,          \* the inodes in memory that were modified
  op,             \* the running sfs_truncfile: its file and length
  halt            \* the assertion that stopped the kernel, or "no"

maps == <<freemap, unused_blocks, content>>
inodes == <<disk, din, loaded, dirty>>
vars == <<maps, inodes, op, halt>>

Idle == [file |-> "none"]

\* mksfs may put empty files on the disk.
Init ==
  /\ freemap = Block
  /\ unused_blocks = NBlock
  /\ content = [b \in Block |-> [e \in Entry |-> NoBlock]]
  /\ disk = [f \in File |-> [size |-> 0, blocks |-> 0,
                             direct |-> [d \in Direct |-> NoBlock],
                             indirect |-> NoBlock]]
  /\ din = disk
  /\ loaded = {} /\ dirty = {}
  /\ op = Idle /\ halt = "no"

ROUNDUP_DIV(len, size) == (len + size - 1) \div size

KAssert(cond) == halt' = IF cond THEN halt ELSE "assert"

sfs_block_inuse(b) == b \in Block \ freemap
-----------------------------------------------------------------------------
(* Blocks.                                                                 *)

\* bitmap_alloc takes the lowest free block, here the k-th lowest for the
\* k-th call in a row.
bitmap_alloc(k) == CHOOSE b \in freemap : Cardinality({c \in freemap : c < b}) = k - 1

Empty == [e \in Entry |-> NoBlock]

\* Mutant: the block keeps what it held.
MutClear(new) == content

\* sfs_clear_block: the blocks that were allocated hold zeros.
Clear(new) == [b \in Block |-> IF b \in new THEN Empty ELSE content[b]]

\* sfs_block_alloc of every block of new.
Take(new) ==
  /\ freemap' = freemap \ new
  /\ unused_blocks' = unused_blocks - Cardinality(new)

\* Anything but a table of blocks: what a file wrote to one of its blocks.
Data == [e \in Entry |-> 1]

\* sfs_block_free. The data stays in the block.
Give(b) ==
  /\ freemap' = freemap \cup {b}
  /\ unused_blocks' = unused_blocks + 1

\* The inode of f in memory changes, and is dirty.
Modify(f, node) == din' = [din EXCEPT ![f] = node] /\ dirty' = dirty \cup {f}
-----------------------------------------------------------------------------
(* sfs_truncfile.                                                          *)

\* sfs_truncfile, up to its loops: for a size the file has already it checks
\* the number of blocks and returns.
Truncate(f, len) ==
  /\ op = Idle /\ f \in loaded
  /\ IF din[f].size = len
     THEN /\ halt' = IF ROUNDUP_DIV(len, SFS_BLKSIZE) = din[f].blocks THEN halt ELSE "size"
          /\ UNCHANGED op
     ELSE op' = [file |-> f, len |-> len] /\ UNCHANGED halt
  /\ UNCHANGED <<maps, inodes>>

\* O_TRUNC and O_CREAT truncate to nothing; sfs_tryseek truncates to a
\* position past the end.
TruncateCall ==
  \E f \in File, len \in Position \cup {0} :
    (len = 0 \/ len > din[f].size) /\ Truncate(f, len)

Target == ROUNDUP_DIV(op.len, SFS_BLKSIZE)

\* The file that grows, the index of the block it needs, and the entry of the
\* indirect block for an index past the direct blocks.
Growing(f) == op # Idle /\ op.file = f /\ din[f].blocks < Target
EntryOf(i) == i - SFS_NDIRECT
AtEntry(f) == din[f].blocks >= SFS_NDIRECT /\ EntryOf(din[f].blocks) \in Entry

\* The block sfs_bmap_get_nolock finds for the index i of f, if
\* any.
bmap(f, i) ==
  IF i \in Direct THEN din[f].direct[i]
  ELSE IF din[f].indirect = NoBlock THEN NoBlock
  ELSE content[din[f].indirect][EntryOf(i)]

\* sfs_bmap_load_nolock: the next block is a direct one.
GrowDirect(f) ==
  /\ Growing(f) /\ din[f].blocks \in Direct
  /\ bmap(f, din[f].blocks) = NoBlock /\ freemap # {}
  /\ LET b == bitmap_alloc(1)
     IN /\ Take({b}) /\ content' = Clear({b})
        /\ Modify(f, [din[f] EXCEPT !.direct[din[f].blocks] = b, !.blocks = @ + 1])
  /\ KAssert(unused_blocks > 0)
  /\ UNCHANGED <<disk, loaded, op>>

\* ... the indirect block is there and has no such entry. The inode is not
\* marked dirty, though it counts one block more.
GrowEntry(f) ==
  /\ Growing(f) /\ AtEntry(f)
  /\ din[f].indirect # NoBlock
  /\ bmap(f, din[f].blocks) = NoBlock /\ freemap # {}
  /\ LET b == bitmap_alloc(1)
     IN /\ Take({b})
        /\ content' = [Clear({b}) EXCEPT ![din[f].indirect][EntryOf(din[f].blocks)] = b]
  /\ din' = [din EXCEPT ![f].blocks = @ + 1]
  /\ KAssert(unused_blocks > 0)
  /\ UNCHANGED <<disk, loaded, dirty, op>>

\* ... the indirect block has the entry already: it was added before the
\* inode was dropped from memory and read again.
GrowFound(f) ==
  /\ Growing(f)
  /\ LET b == bmap(f, din[f].blocks)
     IN b # NoBlock /\ KAssert(sfs_block_inuse(b))
  /\ din' = [din EXCEPT ![f].blocks = @ + 1]
  /\ UNCHANGED <<maps, disk, loaded, dirty, op>>

\* ... there is no indirect block yet: it takes a block for it, and another.
GrowIndirect(f) ==
  /\ Growing(f) /\ AtEntry(f)
  /\ din[f].indirect = NoBlock /\ Cardinality(freemap) >= 2
  /\ LET ent == bitmap_alloc(1)
         b   == bitmap_alloc(2)
     IN /\ Take({ent, b})
        /\ content' = [Clear({ent, b}) EXCEPT ![ent][EntryOf(din[f].blocks)] = b]
        /\ Modify(f, [din[f] EXCEPT !.indirect = ent, !.blocks = @ + 1])
  /\ KAssert(unused_blocks > 1)
  /\ UNCHANGED <<disk, loaded, op>>

\* Mutant: the error is not passed on, and the file gets its new size.
MutDiskFull(f) ==
  /\ Growing(f) /\ bmap(f, din[f].blocks) = NoBlock
  /\ freemap = {}
  /\ Modify(f, [din[f] EXCEPT !.size = op.len])
  /\ op' = Idle
  /\ UNCHANGED <<maps, disk, loaded, halt>>

\* ... no block is free, or not two: the one that was taken for the indirect
\* block is given back, and sfs_truncfile returns -E_NO_MEM. The blocks it
\* added stay with the file, whose size is the old one.
DiskFull(f) ==
  /\ Growing(f) /\ bmap(f, din[f].blocks) = NoBlock
  /\ \/ freemap = {} /\ UNCHANGED content
     \/ /\ AtEntry(f) /\ din[f].indirect = NoBlock
        /\ Cardinality(freemap) = 1 /\ content' = Clear(freemap)
  /\ op' = Idle
  /\ UNCHANGED <<freemap, unused_blocks, inodes, halt>>

Shrinking(f) == op # Idle /\ op.file = f /\ din[f].blocks > Target

\* sfs_bmap_truncate_nolock: the last block is a direct one.
ShrinkDirect(f) ==
  /\ Shrinking(f) /\ din[f].blocks - 1 \in Direct
  /\ LET i == din[f].blocks - 1
         b == din[f].direct[i]
     IN /\ IF b # NoBlock
           THEN /\ Give(b) /\ content' = [content EXCEPT ![b] = Data]
                /\ KAssert(sfs_block_inuse(b))
           ELSE UNCHANGED <<maps, halt>>
        /\ Modify(f, [din[f] EXCEPT !.direct[i] = NoBlock, !.blocks = @ - 1])
  /\ UNCHANGED <<disk, loaded, op>>

\* ... or an entry of the indirect block, which the file keeps.
ShrinkEntry(f) ==
  /\ Shrinking(f) /\ din[f].blocks > SFS_NDIRECT
  /\ LET e   == EntryOf(din[f].blocks - 1)
         ent == din[f].indirect
         b   == bmap(f, din[f].blocks - 1)
     IN IF b # NoBlock
        THEN /\ Give(b)
             /\ content' = [content EXCEPT ![ent][e] = NoBlock, ![b] = Data]
             /\ KAssert(sfs_block_inuse(b) /\ sfs_block_inuse(ent))
        ELSE UNCHANGED <<maps, halt>>
  /\ Modify(f, [din[f] EXCEPT !.blocks = @ - 1])
  /\ UNCHANGED <<disk, loaded, op>>

\* The file has the blocks it needs: its size is set.
Truncated(f) ==
  /\ op # Idle /\ op.file = f /\ din[f].blocks = Target
  /\ Modify(f, [din[f] EXCEPT !.size = op.len])
  /\ op' = Idle
  /\ UNCHANGED <<maps, disk, loaded, halt>>

Step(f) ==
  \/ GrowDirect(f) \/ GrowEntry(f) \/ GrowFound(f) \/ GrowIndirect(f)
  \/ DiskFull(f)
  \/ ShrinkDirect(f) \/ ShrinkEntry(f) \/ Truncated(f)
-----------------------------------------------------------------------------
(* Inodes in memory.                                                       *)

\* sfs_load_inode of an inode that is not in memory.
Load(f) ==
  /\ op = Idle /\ f \notin loaded
  /\ loaded' = loaded \cup {f}
  /\ din' = [din EXCEPT ![f] = disk[f]]
  /\ UNCHANGED <<maps, disk, dirty, op, halt>>

\* sfs_fsync, at the last close of the file, at sync() and at fsync().
Fsync(f) ==
  /\ op = Idle /\ f \in loaded /\ f \in dirty
  /\ disk' = [disk EXCEPT ![f] = din[f]]
  /\ dirty' = dirty \ {f}
  /\ UNCHANGED <<maps, din, loaded, op, halt>>

\* Mutant: a dirty inode is dropped as it is.
MutReclaim(f) ==
  /\ op = Idle /\ f \in loaded
  /\ loaded' = loaded \ {f} /\ dirty' = dirty \ {f}
  /\ din' = [din EXCEPT ![f] = disk[f]]
  /\ UNCHANGED <<maps, disk, op, halt>>

\* sfs_reclaim, when nobody refers to the inode: it is written if it is dirty,
\* and freed. A file that is not in memory is shown as it is on the disk.
Reclaim(f) ==
  /\ op = Idle /\ f \in loaded
  /\ loaded' = loaded \ {f} /\ dirty' = dirty \ {f}
  /\ IF f \in dirty
     THEN disk' = [disk EXCEPT ![f] = din[f]] /\ UNCHANGED din
     ELSE din' = [din EXCEPT ![f] = disk[f]] /\ UNCHANGED disk
  /\ UNCHANGED <<maps, op, halt>>

\* The kernel has stopped.
Halted == halt # "no" /\ UNCHANGED vars

Next ==
  \/ halt = "no" /\ (TruncateCall \/ \E f \in File : Step(f) \/ Load(f) \/ Fsync(f) \/ Reclaim(f))
  \/ Halted

Spec == Init /\ [][Next]_vars

-----------------------------------------------------------------------------
TypeOK ==
  /\ freemap \subseteq Block /\ unused_blocks \in Nat
  /\ content \in [Block -> Table]
  /\ disk \in [File -> Inode] /\ din \in [File -> Inode]
  /\ dirty \subseteq loaded /\ loaded \subseteq File
  /\ op = Idle \/ (op.file \in loaded /\ op.len \in Position \cup {0})
  /\ halt \in {"no", "assert", "size"}

\* The blocks an inode refers to, each under the place where it does.
Refs(f) ==
  {<<f, "indirect", 0, din[f].indirect>>}
  \cup {<<f, "direct", d, din[f].direct[d]>> : d \in Direct}
  \cup (IF din[f].indirect = NoBlock THEN {}
        ELSE {<<f, "entry", e, content[din[f].indirect][e]>> : e \in Entry})

AllRefs == {r \in UNION {Refs(f) : f \in File} : r[4] # NoBlock}

\* No block belongs to two files, or to one file twice; a block is free if and
\* only if no inode, direct or by way of its indirect block, refers to it, and
\* the super block counts the free ones. So a full disk, a file that is cut
\* while its inode is not in step with the disk, and an indirect block that
\* was another file's data lose nothing.
BlocksExact ==
  /\ TypeOK
  /\ \A r, s \in AllRefs : r[4] = s[4] => r = s
  /\ freemap = Block \ {r[4] : r \in AllRefs}
  /\ unused_blocks = Cardinality(freemap)

\* A file has no holes: every index below blocks has a block, and every byte
\* below its size is in one of them, also in an inode that was read again from
\* the disk after a growth that failed.
NoHoles ==
  \A f \in File :
    /\ \A i \in 0 .. din[f].blocks - 1 : bmap(f, i) # NoBlock
    /\ op = Idle \/ op.file # f => ROUNDUP_DIV(din[f].size, SFS_BLKSIZE) <= din[f].blocks

\* The assertions about blocks hold: a block that is used or freed was
\* allocated, and one is counted as unused when one is free.
BlockAssertsHold == halt # "assert"

\* sfs_truncfile asserts of a file that has the length already that it also
\* has the blocks for it, and no more (sfs_inode.c:903).
SizeAssertHolds == halt # "size"
=============================================================================
