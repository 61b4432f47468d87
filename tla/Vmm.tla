--------------------------------- MODULE Vmm ---------------------------------
(***************************************************************************)
(* Address spaces (kern/mm/vmm.c, kern/mm/pmm.c, kern/process/proc.c): the *)
(* areas of an mm, its page tables of three levels, the frames behind them *)
(* and their reference counts, as execve builds them, fork copies them, a  *)
(* page fault adds to them and exit takes them down. An operation runs to  *)
(* its end before another one begins, as nothing in it blocks; each turn   *)
(* of its loops is a step. Pages are counted in pages, not bytes, and a    *)
(* directory or table has NENTRY entries where the hardware has 512.       *)
(*                                                                         *)
(* copy_range's body follows the hints of its exercise, load_icode is the  *)
(* one of lab7. No user program shares an mm (CLONE_VM), so that the lock  *)
(* of an mm is free. The heap that vma and mm structs come from is left    *)
(* out, and so are map_count and mmap_cache: the first is never read, the  *)
(* second is a vma that find_vma checks before it takes it.                *)
(***************************************************************************)
EXTENDS Naturals, Sequences, FiniteSets, SequencesExt

CONSTANTS
  Proc,            \* slots of user processes
  First,           \* the one that user_main runs in
  New,             \* the place of an mm no process has yet
  NULL,
  NFrame,          \* page frames
  NENTRY,          \* entries of a page table or directory
  KSTACKPAGE,      \* frames of a kernel stack
  USTACKPAGE,      \* pages of a user stack
  NPreload,        \* ... that load_icode allocates, from the top
  Program,         \* the programs execve may load
  Value,           \* what a page may hold
  Zero, Junk,      \* ... cleared, and of unknown origin
  Written          \* ... and what users write

Frame == 1 .. NFrame
NoFrame == 0

PTSIZE  == NENTRY               \* pages mapped by a page table
PDSIZE  == NENTRY * NENTRY      \* ... by a level 0 directory
USERTOP == NENTRY * PDSIZE
Page    == 0 .. USERTOP - 1
Index   == 0 .. NENTRY - 1

PTX(la)  == la % NENTRY
PDX0(la) == (la \div PTSIZE) % NENTRY
PDX1(la) == la \div PDSIZE

\* A program: is it an ELF file, and its segments, in the order of its
\* headers: pages start to end - 1, those before file from the file, which
\* hold data; write says VM_WRITE; bad says that a header is malformed
\* (p_filesz > p_memsz).
Segment == [start : Page, end : Page, file : Page, write : BOOLEAN, bad : BOOLEAN]

\* An area and an mm_struct.
Vma == [start : Page, end : 1 .. USERTOP, write : BOOLEAN]
Mm  == [pgdir : Frame, vmas : Seq(Vma), mm_count : Nat]

ASSUME VmmAssumption ==
  /\ NFrame \in Nat /\ NENTRY \in Nat \ {0}
  /\ KSTACKPAGE \in 1 .. NFrame
  /\ USTACKPAGE \in 1 .. USERTOP - 1 /\ USTACKPAGE <= NENTRY
  /\ NPreload \in 1 .. USTACKPAGE
  /\ {Zero, Junk} \cup Written \subseteq Value
  /\ First \in Proc /\ New \notin Proc
  /\ NULL \notin Proc \cup {New} /\ NULL \notin Mm /\ NULL \notin Program /\ NULL \notin Value
  /\ \A prog \in Program :
       /\ prog.magic \in BOOLEAN /\ prog.data \in Value
       /\ prog.segs \in Seq(Segment) /\ prog.segs # <<>>
       /\ \A i \in DOMAIN prog.segs : prog.segs[i].start < prog.segs[i].end

Table == [Index -> Frame \cup {NoFrame}]
Empty == [e \in Index |-> NoFrame]
Space == Proc \cup {New}

VARIABLES
  mm,       \* the mm of every process, and the one under construction
  state,    \* "none" (a free slot), "live", "zombie"
  kstack,   \* the first frame of a process's kernel stack
  free,     \* the free frames
  ref,      \* page->ref
  mem,      \* what a frame holds: a table or the value of a page
  op,       \* the operation under way
  lost,     \* page tables that nothing refers to any more
  halt,     \* "assert", "pgfault" and "swap" stop the kernel
  asked     \* history: the last step was a user's write <<p, la, v>>, or its
            \* exit or execve <<p>>; else NULL

frames == <<free, ref, mem>>
vars == <<mm, state, kstack, frames, op, lost, halt, asked>>

Idle == [pc |-> "idle"]
Running == halt = "no"

\* user_main, a kernel thread: it has a kernel stack and no mm.
Init ==
  /\ mm = [s \in Space |-> NULL]
  /\ state = [p \in Proc |-> IF p = First THEN "live" ELSE "none"]
  /\ kstack = [p \in Proc |-> IF p = First THEN 1 ELSE NoFrame]
  /\ free = KSTACKPAGE + 1 .. NFrame
  /\ ref = [f \in Frame |-> 0]
  /\ mem = [f \in Frame |-> Junk]
  /\ op = Idle /\ lost = {} /\ halt = "no" /\ asked = NULL

KAssert(cond) == halt' = IF cond THEN halt ELSE "assert"
-----------------------------------------------------------------------------
(* Frames and page tables.                                                 *)

\* alloc_page takes the lowest free frame; this is the one the k-th call in a
\* row gets.
alloc(k) == CHOOSE f \in free : Cardinality({g \in free : g < f}) = k - 1

Enough(n) == Cardinality(free) >= n

\* The level 0 directory, the page table and the frame of la, where the walk
\* of get_pte gets that far.
Pd0(pgdir, la) == mem[pgdir][PDX1(la)]
Pt(pgdir, la) ==
  IF Pd0(pgdir, la) = NoFrame THEN NoFrame ELSE mem[Pd0(pgdir, la)][PDX0(la)]
Pte(pgdir, la) ==
  IF Pt(pgdir, la) = NoFrame THEN NoFrame ELSE mem[Pt(pgdir, la)][PTX(la)]

\* The tables get_pte has to create on the way to la.
Missing(pgdir, la) ==
  IF Pd0(pgdir, la) = NoFrame THEN 2 ELSE IF Pt(pgdir, la) = NoFrame THEN 1 ELSE 0

\* get_pte with create, and page_insert: page goes to la, whose entry is empty,
\* and holds v; tables are the frames for the tables that are missing.
Map(pgdir, la, tables, page, v) ==
  LET pd0   == IF Pd0(pgdir, la) # NoFrame THEN Pd0(pgdir, la) ELSE tables[1]
      pt    == IF Pt(pgdir, la) # NoFrame THEN Pt(pgdir, la) ELSE Last(tables)
      old(f) == IF f \in ToSet(tables) THEN Empty ELSE mem[f]
  IN /\ mem' = [mem EXCEPT ![page] = v,
                           ![pgdir][PDX1(la)] = pd0,
                           ![pd0] = [old(pd0) EXCEPT ![PDX0(la)] = pt],
                           ![pt]  = [old(pt) EXCEPT ![PTX(la)] = page]]
     /\ ref' = [f \in Frame |-> IF f \in ToSet(tables) THEN 1
                                ELSE IF f = page THEN ref[f] + 1 ELSE ref[f]]
     /\ free' = free \ (ToSet(tables) \cup {page})

\* The page is taken first, then the tables (pgdir_alloc_page).
pgdir_alloc_page(pgdir, la, v) ==
  /\ Enough(1 + Missing(pgdir, la))
  /\ Map(pgdir, la, [k \in 1 .. Missing(pgdir, la) |-> alloc(k + 1)], alloc(1), v)

\* ... the tables are taken first (do_pgfault, copy_range).
TablesFirst(pgdir, la, v) ==
  LET n == Missing(pgdir, la)
  IN /\ Enough(1 + n)
     /\ Map(pgdir, la, [k \in 1 .. n |-> alloc(k)], alloc(n + 1), v)

\* Mutant: the reference is dropped, and nobody looks whether it was the last.
Mutpage_remove_pte(pgdir, la) ==
  LET f == Pte(pgdir, la)
  IN /\ ref' = [ref EXCEPT ![f] = @ - 1]
     /\ mem' = [mem EXCEPT ![Pt(pgdir, la)][PTX(la)] = NoFrame]
     /\ UNCHANGED free

page_remove_pte(pgdir, la) ==
  LET f == Pte(pgdir, la)
  IN /\ ref' = [ref EXCEPT ![f] = @ - 1]
     /\ free' = IF ref[f] = 1 THEN free \cup {f} ELSE free
     /\ mem' = [mem EXCEPT ![Pt(pgdir, la)][PTX(la)] = NoFrame,
                           ![f] = IF ref[f] = 1 THEN Junk ELSE @]
-----------------------------------------------------------------------------
(* Areas.                                                                  *)

Holds(vma, la) == vma.start <= la /\ la < vma.end

\* find_vma: an area that contains la; there is no "next" one.
find_vma(s, la) == {i \in DOMAIN mm[s].vmas : Holds(mm[s].vmas[i], la)}

\* Mutant: an area must not even begin where another one ends.
MutOverlaps(prev, next) == prev.end >= next.start

Overlaps(prev, next) == prev.end > next.start

\* Where the loop over the list stops: at the first area that starts higher.
StopsAt(vmas, start) ==
  LET higher == {i \in DOMAIN vmas : vmas[i].start > start}
  IN IF higher = {} THEN Len(vmas) + 1 ELSE Min(higher)

\* insert_vma_struct: the area goes there. Its assertions look at the neighbours.
insert_vma_struct(vma) ==
  LET vmas == mm[New].vmas
      at   == StopsAt(vmas, vma.start)
  IN /\ mm' = [mm EXCEPT ![New].vmas = InsertAt(vmas, at, vma)]
     /\ KAssert(/\ at > 1 => ~Overlaps(vmas[at - 1], vma)
                /\ at <= Len(vmas) => ~Overlaps(vma, vmas[at]))

At(pc) == Running /\ op.pc = pc

Begin(pc, p, prog, child) ==
  [pc |-> pc, proc |-> p, prog |-> prog, child |-> child, slot |-> p,
   i |-> 1, la |-> 0, gb |-> 0, free_pd0 |-> TRUE]

\* exit_mmap goes to its i-th area: first all areas are unmapped, then the
\* tables of all areas are freed.
RangeFrom(o, i) ==
  LET vmas == mm[o.slot].vmas
  IN IF i > Len(vmas) THEN [o EXCEPT !.pc = "put_pgdir"]
     ELSE [o EXCEPT !.pc = "exit_range", !.i = i, !.free_pd0 = TRUE,
                    !.la = vmas[i].start - (vmas[i].start % PTSIZE),
                    !.gb = vmas[i].start - (vmas[i].start % PDSIZE)]
UnmapFrom(o, i) ==
  LET vmas == mm[o.slot].vmas
  IN IF i > Len(vmas) THEN RangeFrom(o, 1)
     ELSE [o EXCEPT !.pc = "unmap", !.i = i, !.la = vmas[i].start]

Area == mm[op.slot].vmas[op.i]
Pgdir == mm[op.slot].pgdir

\* The next page of unmap_range and copy_range: where there is no table, the
\* first one of the next table.
After(pgdir, la) ==
  IF Pt(pgdir, la) = NoFrame THEN PTSIZE * (la \div PTSIZE + 1) ELSE la + 1

\* One turn of unmap_range.
Unmap ==
  /\ At("unmap")
  /\ LET next == After(Pgdir, op.la)
     IN op' = IF next < Area.end THEN [op EXCEPT !.la = next]
              ELSE UnmapFrom(op, op.i + 1)
  /\ IF Pte(Pgdir, op.la) # NoFrame THEN page_remove_pte(Pgdir, op.la)
     ELSE UNCHANGED frames
  /\ UNCHANGED <<mm, state, kstack, lost, halt>>

\* exit_range goes to the next directory, or exit_mmap to the next area.
NextDirectory ==
  IF op.gb + PDSIZE < Area.end
  THEN [op EXCEPT !.gb = @ + PDSIZE, !.la = op.gb + PDSIZE, !.free_pd0 = TRUE]
  ELSE RangeFrom(op, op.i + 1)

\* Mutant: an empty table stays, though its directory goes.
MutEmptied(pt) == FALSE

\* A page table is freed when it has no valid entry.
Emptied(pt) == pt # NoFrame /\ mem[pt] = Empty

\* One turn of exit_range: the page table at op.la, and after the last of this
\* area the directory it was in, unless an entry that was looked at had no
\* table. Entries beyond the area are not looked at: a table that one of them
\* refers to is lost.
ExitRange ==
  /\ At("exit_range")
  /\ LET pd0   == Pd0(Pgdir, op.gb)
         pt    == mem[pd0][PDX0(op.la)]
         whole == op.free_pd0 /\ pt # NoFrame
         next  == op.la + PTSIZE
         last  == next >= op.gb + PDSIZE \/ next >= Area.end
         freed == {f \in {pt} : Emptied(f)} \cup {f \in {pd0} : last /\ whole}
         left  == [mem[pd0] EXCEPT ![PDX0(op.la)] = IF Emptied(pt) THEN NoFrame ELSE @]
     IN IF pd0 = NoFrame
        THEN op' = NextDirectory /\ UNCHANGED <<frames, lost>>
        ELSE /\ free' = free \cup freed
             /\ ref' = [f \in Frame |-> IF f \in freed THEN 0 ELSE ref[f]]
             /\ mem' = [f \in Frame |->
                  IF f \in freed THEN Junk
                  ELSE IF f = pd0 THEN left
                  ELSE IF f = Pgdir /\ pd0 \in freed
                  THEN [mem[f] EXCEPT ![PDX1(op.gb)] = NoFrame] ELSE mem[f]]
             /\ lost' = lost \cup {f \in Frame : pd0 \in freed /\ \E e \in Index : left[e] = f}
             /\ op' = IF last THEN NextDirectory
                      ELSE [op EXCEPT !.la = next, !.free_pd0 = whole]
  /\ UNCHANGED <<mm, state, kstack, halt>>

\* The tables of the mm of s.
Pd0s(s) == {mem[mm[s].pgdir][e] : e \in Index} \ {NoFrame}
Pts(s)  == {mem[f][e] : f \in Pd0s(s), e \in Index} \ {NoFrame}

\* put_pgdir and mm_destroy. Tables that are still there are lost.
PutPgdir ==
  /\ At("put_pgdir")
  /\ free' = free \cup {Pgdir}
  /\ mem' = [mem EXCEPT ![Pgdir] = Junk]
  /\ lost' = lost \cup Pd0s(op.slot) \cup Pts(op.slot)
  /\ KAssert(mm[op.slot].mm_count = 0)
  /\ mm' = [mm EXCEPT ![op.slot] = NULL]
  /\ op' = [op EXCEPT !.pc = "dropped"]
  /\ UNCHANGED <<state, kstack, ref>>

\* The process gives up its mm, and takes it down when nobody else has it.
DropMm(p, o) ==
  IF mm[p] = NULL \/ mm[p].mm_count # 1
  THEN mm' = [mm EXCEPT ![p] = NULL] /\ op' = [o EXCEPT !.pc = "dropped"]
  ELSE mm' = [mm EXCEPT ![p].mm_count = 0] /\ op' = UnmapFrom(o, 1)

\* do_exit, as far as memory goes.
Exit(p) ==
  /\ Running /\ op = Idle /\ state[p] = "live" /\ mm[p] # NULL
  /\ DropMm(p, Begin("unmap", p, NULL, NULL))
  /\ UNCHANGED <<state, kstack, frames, lost, halt>>

\* do_execve, once the file is open.
Exec(p, prog) ==
  /\ Running /\ op = Idle /\ state[p] = "live"
  /\ DropMm(p, Begin("unmap", p, prog, NULL))
  /\ UNCHANGED <<state, kstack, frames, lost, halt>>

\* do_exit's end: of exit, or of an execve that failed.
Zombie ==
  /\ At("dropped") /\ (op.slot = New \/ op.prog = NULL)
  /\ state' = [state EXCEPT ![op.proc] = "zombie"]
  /\ op' = Idle
  /\ UNCHANGED <<mm, kstack, frames, lost, halt>>
-----------------------------------------------------------------------------
(* load_icode.                                                             *)

\* mm_create and setup_pgdir.
NewMm ==
  /\ Enough(1)
  /\ mm' = [mm EXCEPT ![New] = [pgdir |-> alloc(1), vmas |-> <<>>, mm_count |-> 0]]
  /\ mem' = [mem EXCEPT ![alloc(1)] = Empty]
  /\ free' = free \ {alloc(1)}
  /\ UNCHANGED ref

\* A file that is no ELF file: the new mm is taken down again.
CreateMm ==
  /\ At("dropped") /\ op.slot # New /\ op.prog # NULL
  /\ NewMm
  /\ op' = [op EXCEPT !.slot = New, !.i = 1,
                      !.pc = IF op.prog.magic THEN "segment" ELSE "put_pgdir"]
  /\ UNCHANGED <<state, kstack, lost, halt>>

Seg == op.prog.segs[op.i]

\* mm_map, which refuses an area when another one contains its first page; the
\* caller then takes down what it has built.
mm_map(vma, o) ==
  IF find_vma(New, vma.start) # {}
  THEN op' = UnmapFrom(op, 1) /\ UNCHANGED <<mm, halt>>
  ELSE insert_vma_struct(vma) /\ op' = o

MapSegment ==
  /\ At("segment")
  /\ IF Seg.bad THEN op' = UnmapFrom(op, 1) /\ UNCHANGED <<mm, halt>>
     ELSE mm_map([start |-> Seg.start, end |-> Seg.end, write |-> Seg.write],
                 [op EXCEPT !.pc = "load", !.la = Seg.start])
  /\ UNCHANGED <<state, kstack, frames, lost>>

\* Mutant: a page too many is loaded.
MutLoadPage ==
  /\ At("load")
  /\ pgdir_alloc_page(Pgdir, op.la, IF op.la < Seg.file THEN op.prog.data ELSE Zero)
  /\ op' = IF op.la < Seg.end THEN [op EXCEPT !.la = @ + 1]
           ELSE IF op.i < Len(op.prog.segs) THEN [op EXCEPT !.pc = "segment", !.i = @ + 1]
           ELSE [op EXCEPT !.pc = "stack"]
  /\ UNCHANGED <<mm, state, kstack, lost, halt>>

LoadPage ==
  /\ At("load")
  /\ pgdir_alloc_page(Pgdir, op.la, IF op.la < Seg.file THEN op.prog.data ELSE Zero)
  /\ op' = IF op.la + 1 < Seg.end THEN [op EXCEPT !.la = @ + 1]
           ELSE IF op.i < Len(op.prog.segs) THEN [op EXCEPT !.pc = "segment", !.i = @ + 1]
           ELSE [op EXCEPT !.pc = "stack"]
  /\ UNCHANGED <<mm, state, kstack, lost, halt>>

Stack == [start |-> USERTOP - USTACKPAGE, end |-> USERTOP, write |-> TRUE]

BuildStack ==
  /\ At("stack")
  /\ mm_map(Stack, [op EXCEPT !.pc = "preload", !.la = USERTOP - 1])
  /\ UNCHANGED <<state, kstack, frames, lost>>

PreloadPage ==
  /\ At("preload")
  /\ pgdir_alloc_page(Pgdir, op.la, Junk)
  /\ op' = IF op.la > USERTOP - NPreload THEN [op EXCEPT !.la = @ - 1]
           ELSE [op EXCEPT !.pc = "attach"]
  /\ UNCHANGED <<mm, state, kstack, lost, halt>>

\* The new mm becomes the one of the process, or of the child, which may run.
Attach ==
  /\ At("attach")
  /\ LET p == IF op.child = NULL THEN op.proc ELSE op.child
     IN /\ mm' = [mm EXCEPT ![p] = [mm[New] EXCEPT !.mm_count = @ + 1], ![New] = NULL]
        /\ state' = [state EXCEPT ![p] = "live"]
  /\ op' = Idle
  /\ UNCHANGED <<kstack, frames, lost, halt>>
-----------------------------------------------------------------------------
(* fork and wait.                                                          *)

\* Where a kernel stack fits.
Holes == {f \in free : f .. f + KSTACKPAGE - 1 \subseteq free}

\* do_fork up to setup_kstack. Without a hole it fails and changes nothing.
Fork(p, c) ==
  /\ Running /\ op = Idle /\ state[p] = "live" /\ mm[p] # NULL
  /\ state[c] = "none" /\ Holes # {}
  /\ LET base == CHOOSE f \in Holes : \A g \in Holes : f <= g
     IN /\ kstack' = [kstack EXCEPT ![c] = base]
        /\ free' = free \ (base .. base + KSTACKPAGE - 1)
  /\ op' = Begin("copy_mm", p, NULL, c)
  /\ UNCHANGED <<mm, state, ref, mem, lost, halt>>

\* dup_mmap goes backwards through the list.
CopyMm ==
  /\ At("copy_mm")
  /\ NewMm
  /\ op' = [op EXCEPT !.pc = "dup", !.slot = New, !.i = Len(mm[op.proc].vmas)]
  /\ UNCHANGED <<state, kstack, lost, halt>>

Source == mm[op.proc].vmas[op.i]
From   == mm[op.proc].pgdir

DupVma ==
  /\ At("dup")
  /\ insert_vma_struct(Source)
  /\ op' = [op EXCEPT !.pc = "copy", !.la = Source.start]
  /\ UNCHANGED <<state, kstack, frames, lost>>

\* Mutant: the page is shared.
MutReplica(la) ==
  LET n == Missing(Pgdir, la)
  IN /\ Enough(n)
     /\ Map(Pgdir, la, [k \in 1 .. n |-> alloc(k)], Pte(From, la), mem[Pte(From, la)])

\* The page gets a copy of its own in the new mm.
Replica(la) == TablesFirst(Pgdir, la, mem[Pte(From, la)])

\* One turn of copy_range.
CopyPage ==
  /\ At("copy")
  /\ LET next == After(From, op.la)
     IN op' = IF next < Source.end THEN [op EXCEPT !.la = next]
              ELSE IF op.i > 1 THEN [op EXCEPT !.pc = "dup", !.i = @ - 1]
              ELSE [op EXCEPT !.pc = "attach"]
  /\ IF Pte(From, op.la) = NoFrame THEN UNCHANGED frames ELSE Replica(op.la)
  /\ UNCHANGED <<mm, state, kstack, lost, halt>>

\* do_wait: put_kstack.
Reap(z) ==
  /\ Running /\ op = Idle /\ state[z] = "zombie"
  /\ free' = free \cup kstack[z] .. kstack[z] + KSTACKPAGE - 1
  /\ state' = [state EXCEPT ![z] = "none"]
  /\ kstack' = [kstack EXCEPT ![z] = NoFrame]
  /\ UNCHANGED <<mm, ref, mem, op, lost, halt>>
-----------------------------------------------------------------------------
(* User memory accesses.                                                   *)

Accesses(p, la) ==
  Running /\ op = Idle /\ state[p] = "live" /\ mm[p] # NULL /\ find_vma(p, la) # {}

Write(p, la, v) ==
  /\ Accesses(p, la) /\ Pte(mm[p].pgdir, la) # NoFrame
  /\ \A i \in find_vma(p, la) : mm[p].vmas[i].write
  /\ mem' = [mem EXCEPT ![Pte(mm[p].pgdir, la)] = v]
  /\ UNCHANGED <<mm, state, kstack, free, ref, op, lost, halt>>

\* do_pgfault: a page that nobody has touched yet.
PageFault(p, la) ==
  /\ Accesses(p, la) /\ Pte(mm[p].pgdir, la) = NoFrame
  /\ TablesFirst(mm[p].pgdir, la, Junk)
  /\ UNCHANGED <<mm, state, kstack, op, lost, halt>>

\* An access to no area fails in do_pgfault, and exception_handler panics. A
\* write to a page that may only be read gets there too: its entry is taken for
\* one of the swap device, and the page that swap_in should have set is NULL.
WrongAccess(p, la) ==
  /\ Running /\ op = Idle /\ state[p] = "live" /\ mm[p] # NULL
  /\ \/ find_vma(p, la) = {}
     \/ /\ Accesses(p, la) /\ Pte(mm[p].pgdir, la) # NoFrame
        /\ \E i \in find_vma(p, la) : ~mm[p].vmas[i].write
  /\ halt' = "pgfault"
  /\ UNCHANGED <<mm, state, kstack, frames, op, lost>>

\* The frames the next step takes.
Demand ==
  CASE op.pc \in {"load", "preload"} -> 1 + Missing(Pgdir, op.la)
    [] op.pc = "copy" /\ Pte(From, op.la) # NoFrame -> 1 + Missing(Pgdir, op.la)
    [] op.pc = "copy_mm" -> 1
    [] op.pc = "dropped" /\ op.slot # New /\ op.prog # NULL -> 1
    [] OTHER -> 0

\* alloc_pages without a free frame asks the swap manager for one, of the mm in
\* check_mm_struct, which is NULL: the kernel stops. No caller ever sees NULL.
OutOfMemory ==
  /\ \/ Running /\ ~Enough(Demand)
     \/ \E p \in Proc, la \in Page :
          /\ Accesses(p, la) /\ Pte(mm[p].pgdir, la) = NoFrame
          /\ ~Enough(1 + Missing(mm[p].pgdir, la))
  /\ halt' = "swap"
  /\ UNCHANGED <<mm, state, kstack, frames, op, lost>>

KernelStep ==
  \/ Unmap \/ ExitRange \/ PutPgdir \/ Zombie
  \/ CreateMm \/ MapSegment \/ LoadPage \/ BuildStack \/ PreloadPage \/ Attach
  \/ CopyMm \/ DupVma \/ CopyPage
  \/ OutOfMemory

\* Nobody asks for a change of what it sees.
Quiet ==
  \/ KernelStep
  \/ \E p \in Proc :
       \/ Reap(p)
       \/ \E c \in Proc : Fork(p, c)
       \/ \E la \in Page : PageFault(p, la) \/ WrongAccess(p, la)

Next ==
  \/ Quiet /\ asked' = NULL
  \/ \E p \in Proc : /\ Exit(p) \/ \E prog \in Program : Exec(p, prog)
                     /\ asked' = <<p>>
  \/ \E p \in Proc, la \in Page, v \in Written : Write(p, la, v) /\ asked' = <<p, la, v>>

Spec == Init /\ [][Next]_vars
-----------------------------------------------------------------------------
(* Properties.                                                             *)

Spaces == {s \in Space : mm[s] # NULL}

\* The entries of directories and tables: where they are and the frame they
\* refer to.
Entries ==
  LET all == {<<1, s, e, mem[mm[s].pgdir][e]>> : s \in Spaces, e \in Index}
             \cup {<<0, s, t, Pt(mm[s].pgdir, t * PTSIZE)>> : s \in Spaces, t \in 0 .. USERTOP \div PTSIZE - 1}
             \cup {<<2, s, la, Pte(mm[s].pgdir, la)>> : s \in Spaces, la \in Page}
  IN {e \in all : e[4] # NoFrame}

Pgdirs  == {mm[s].pgdir : s \in Spaces}
Kstack(p) == IF kstack[p] = NoFrame THEN {} ELSE kstack[p] .. kstack[p] + KSTACKPAGE - 1
Kstacks == UNION {Kstack(p) : p \in Proc}

\* Every frame has exactly one use, through forks, failed execs and exits: it
\* is free, or the directory of an mm, or in a kernel stack, or one entry
\* refers to it and its count is 1, or it is one of the tables exit_range is
\* known to lose. (get_pte, page_insert, page_remove_pte, exit_range, put_pgdir)
FramesExact ==
  LET entries == Entries
      used    == {e[4] : e \in entries}
  IN /\ Frame = free \cup Pgdirs \cup Kstacks \cup used \cup lost
     /\ NFrame = Cardinality(free) + Cardinality(Spaces) + Cardinality(entries)
                 + KSTACKPAGE * Cardinality({p \in Proc : kstack[p] # NoFrame})
                 + Cardinality(lost)
     /\ \A f \in used : ref[f] = 1

\* The areas of an mm are sorted and do not overlap, and no page outside them
\* is mapped. (insert_vma_struct, dup_mmap, do_pgfault)
VmasExact ==
  \A s \in Spaces :
    LET vmas == mm[s].vmas
    IN halt = "no" =>
       /\ \A i \in DOMAIN vmas : \A j \in 1 .. i - 1 : vmas[j].end <= vmas[i].start
       /\ \A la \in Page : find_vma(s, la) = {} => Pte(mm[s].pgdir, la) = NoFrame

\* An assertion on areas fails only in an execve, of a program one of whose
\* areas (the stack is the last) begins below an earlier one and runs into it:
\* mm_map looks for an area at the first page only. (mm_map, check_vma_overlap)
AssertsOnlyOnOverlap ==
  halt = "assert" =>
    /\ op.prog # NULL
    /\ LET areas == Append(op.prog.segs, Stack)
       IN \E j \in DOMAIN areas : \E i \in 1 .. j - 1 :
            areas[j].start < areas[i].start /\ areas[i].start < areas[j].end

\* The page tables the areas of an mm need.
Covers(vma) == {la \div PTSIZE : la \in vma.start .. vma.end - 1}
Spread(s) ==
  \E j \in DOMAIN mm[s].vmas : \E i \in 1 .. j - 1 :
    \E t \in Covers(mm[s].vmas[i]), u \in Covers(mm[s].vmas[j]) \ Covers(mm[s].vmas[i]) :
      t \div NENTRY = u \div NENTRY

\* Taking down an mm gives all of its tables back, unless two of its areas share
\* a directory and the later one needs a page table there that the earlier one
\* does not: the directory goes with the earlier one. (exit_range)
LossOnlyWhenSpread == [][lost' # lost => Spread(op.slot)]_vars

\* What the user sees of memory: each process its own pages, of which those
\* that are mapped hold something.
View ==
  [p \in Proc |-> [la \in Page |->
     IF mm[p] = NULL THEN NULL
     ELSE IF mm[p].mm_count = 0 \/ Pte(mm[p].pgdir, la) = NoFrame THEN NULL
     ELSE mem[Pte(mm[p].pgdir, la)]]]

\* The pages of a program, those of the file and those that are cleared.
Images ==
  {LET loaded == {la \in Page : \E i \in DOMAIN prog.segs : Holds(prog.segs[i], la)}
   IN [la \in loaded |->
         IF \E i \in DOMAIN prog.segs : Holds(prog.segs[i], la) /\ la < prog.segs[i].file
         THEN prog.data ELSE Zero] : prog \in Program}

M == INSTANCE MemSpec WITH Space <- Proc, Absent <- NULL, Image <- Images, Nothing <- NULL, memory <- View

\* A page holds what its process last wrote to it, or its parent before the
\* fork, or the program it was loaded from, whatever frames and tables do.
ImplementsMemSpec == M!Spec
=============================================================================
