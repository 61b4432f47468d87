-------------------------------- MODULE Swap --------------------------------
(***************************************************************************)
(* Page replacement of lab3: do_pgfault, alloc_pages and swap_out, swap_in *)
(* (kern/mm/vmm.c, pmm.c, swap.c, kern/fs/swapfs.c) with each of its three *)
(* managers (swap_fifo.c, swap_clock.c, swap_lru.c), for the one mm there  *)
(* is, check_mm_struct, and a client that reads and writes its pages, as   *)
(* check_swap does. Each turn of alloc_pages' and the clock's loops is a   *)
(* step. The pages are numbered by vaddr / PGSIZE; their page table exists *)
(* (check_swap sets it up). struct Page is known by its frame.             *)
(***************************************************************************)
EXTENDS Naturals, Sequences, FiniteSets, SequencesExt

CONSTANTS
  NFrame,           \* frames that check_swap leaves free
  NPage,            \* pages of the area
  MAX_SWAP_OFFSET,  \* slots of the swap device
  UNUSED,           \* the count of a page that is not in memory (9999)
  Written,          \* the pages the client writes to; it reads them all
  NUSE,             \* entries of lru_use (100)
  Used,             \* the pages the client tells _page_use of
  Value,            \* what a page may hold
  Junk,             \* ... of unknown origin
  NULL,
  HEAD              \* pra_list_head

Frame == 1 .. NFrame
Page  == 1 .. NPage
Slot  == 1 .. MAX_SWAP_OFFSET - 1

\* lru_use goes beyond the area; nobody uses page 0, whose count stays UNUSED.
Counted == 1 .. NUSE - 1

Link  == Frame \cup {HEAD}

ASSUME SwapAssumption ==
  /\ NFrame \in Nat \ {0, 1} /\ NPage \in Nat /\ UNUSED \in Nat \ {0, 1}
  /\ NUSE \in Nat /\ NPage < NUSE /\ Used \subseteq Counted
  /\ MAX_SWAP_OFFSET \in Nat /\ NPage + 1 < MAX_SWAP_OFFSET
  /\ Written \subseteq Page /\ Junk \in Value /\ NULL \notin Value /\ HEAD \notin Frame

VARIABLES
  manager,     \* "fifo", "clock", "lru"
  pte,         \* of every page: NoEntry, or in which frame or slot it is
  free,        \* the free frames
  mem,         \* what a frame holds
  disk,        \* what a slot of the swap device holds
  list,        \* pra_list_head: frames in their order
  hand,        \* curr_ptr, of the clock
  visited,     \* page->visited; that of HEAD is whatever lies before it
  pra_vaddr,   \* page->pra_vaddr
  lru_use,     \* how often a page was used
  op,          \* the page fault under way
  halt,        \* "wild": the head was taken for a page; "spin": a search goes on
  arrived,     \* history: the resident pages in the order they were mapped
  uses,        \* history: uses of a page since it left memory, UNUSED for more
  asked        \* history: the client's write <<"check", page, value>>, or NULL

lists == <<list, hand, visited>>
history == <<arrived, uses>>
vars == <<manager, pte, free, mem, disk, lists, pra_vaddr, lru_use, op, halt, history, asked>>

Entry(kind, n) == [kind |-> kind, at |-> n]
NoEntry == Entry("none", 0)

Idle == [pc |-> "idle"]
Running == halt = "no"
At(pc) == Running /\ op.pc = pc

Init ==
  /\ manager \in {"fifo", "clock", "lru"}
  /\ pte = [pg \in Page |-> NoEntry]
  /\ free = Frame
  /\ mem = [f \in Frame |-> Junk] /\ disk = [s \in Slot |-> Junk]
  /\ list = <<>> /\ hand = HEAD
  /\ \E b \in {0, 1} : visited = [l \in Link |-> IF l = HEAD /\ manager = "clock" THEN b ELSE 0]
  /\ pra_vaddr = [f \in Frame |-> 0]
  /\ lru_use = [pg \in Counted |-> UNUSED]
  /\ op = Idle /\ halt = "no"
  /\ arrived = <<>> /\ uses = [pg \in Counted |-> 0] /\ asked = NULL

Resident(pg) == pte[pg].kind = "frame"
FrameOf(pg)  == pte[pg].at

\* Where a link is in a list, and the list without it (list_del).
Index(q, l) == CHOOSE j \in DOMAIN q : q[j] = l
Without(q, l) == RemoveAt(q, Index(q, l))

\* list_next of a link of the list.
NextLink(l) ==
  IF l = HEAD THEN (IF list = <<>> THEN HEAD ELSE Head(list))
  ELSE IF Index(list, l) = Len(list) THEN HEAD
  ELSE list[Index(list, l) + 1]
-----------------------------------------------------------------------------
(* The managers.                                                           *)

\* list_add_before: l may be the head, then f becomes the last.
InsertBefore(f, l) ==
  IF l = HEAD THEN Append(list, f)
  ELSE InsertAt(list, Index(list, l), f)

map_swappable(f) ==
  IF manager = "clock"
  THEN /\ list' = InsertBefore(f, hand)
       /\ visited' = [visited EXCEPT ![f] = 1]
       /\ UNCHANGED hand
  ELSE list' = <<f>> \o list /\ UNCHANGED <<hand, visited>>

Victim(f) == op' = [op EXCEPT !.pc = "swap_out", !.victim = f]

\* Mutant: the page that came in last is taken.
MutFifoVictim == Victim(Head(list)) /\ list' = Tail(list)

\* The last of the list, whose pages are added in front.
FifoVictim == Victim(Last(list)) /\ list' = Front(list)

\* The page that is looked at: the last of the list is skipped.
ClockLook == IF NextLink(hand) = HEAD THEN NextLink(HEAD) ELSE hand

\* Mutant: a page that was visited stays visited.
MutClockTurn ==
  IF visited[ClockLook] = 1
  THEN hand' = NextLink(ClockLook) /\ UNCHANGED <<list, visited, op, halt>>
  ELSE IF ClockLook = HEAD
  THEN halt' = "wild" /\ UNCHANGED <<list, hand, visited, op>>
  ELSE /\ Victim(ClockLook) /\ list' = Without(list, ClockLook)
       /\ hand' = NextLink(ClockLook)
       /\ UNCHANGED <<visited, halt>>

\* One turn of the clock's loop. It may look at the head as if it were a page.
ClockTurn ==
  IF visited[ClockLook] = 1
  THEN /\ visited' = [visited EXCEPT ![ClockLook] = 0]
       /\ hand' = NextLink(ClockLook)
       /\ UNCHANGED <<list, op, halt>>
  ELSE IF ClockLook = HEAD
  THEN halt' = "wild" /\ UNCHANGED <<list, hand, visited, op>>
  ELSE /\ Victim(ClockLook) /\ list' = Without(list, ClockLook)
       /\ hand' = NextLink(ClockLook)
       /\ UNCHANGED <<visited, halt>>

\* The lowest of the pages with the least count: 0 when no count is below
\* UNUSED.
min_index ==
  IF \A pg \in Counted : lru_use[pg] = UNUSED THEN 0
  ELSE CHOOSE pg \in Counted :
         \A q \in Counted : lru_use[pg] < lru_use[q] \/ (lru_use[pg] = lru_use[q] /\ pg <= q)

\* Mutant: _page_unregister is forgotten.
MutLruVictim ==
  IF \E f \in ToSet(list) : pra_vaddr[f] = min_index
  THEN LET f == CHOOSE g \in ToSet(list) : pra_vaddr[g] = min_index
       IN /\ Victim(f) /\ list' = Without(list, f)
          /\ UNCHANGED <<lru_use, halt>>
  ELSE /\ halt' \in {"spin", "wild"}
       /\ UNCHANGED <<op, list, lru_use>>

\* The search for its frame goes round the list, and through the head, which it
\* may take for the frame of that page, until it finds it. _page_unregister.
LruVictim ==
  IF \E f \in ToSet(list) : pra_vaddr[f] = min_index
  THEN LET f == CHOOSE g \in ToSet(list) : pra_vaddr[g] = min_index
       IN /\ Victim(f) /\ list' = Without(list, f)
          /\ lru_use' = [lru_use EXCEPT ![min_index] = UNUSED]
          /\ UNCHANGED halt
  ELSE /\ halt' \in {"spin", "wild"}
       /\ UNCHANGED <<op, list, lru_use>>
-----------------------------------------------------------------------------
(* A page fault, from alloc_page to the page table.                        *)

\* alloc_pages finds no free frame: a turn of swap_out's search for a victim.
ChooseVictim ==
  /\ At("alloc") /\ free = {}
  /\ \/ manager = "fifo" /\ FifoVictim /\ UNCHANGED <<hand, visited, lru_use, halt>>
     \/ manager = "clock" /\ ClockTurn /\ UNCHANGED lru_use
     \/ manager = "lru" /\ LruVictim /\ UNCHANGED <<hand, visited>>
  /\ UNCHANGED <<manager, pte, free, mem, disk, pra_vaddr, history>>

SwapEntry(f) == pra_vaddr[f] + 1

\* Mutant: the victim is not written to its slot.
MutSwapOut ==
  /\ At("swap_out")
  /\ LET f == op.victim
         v == pra_vaddr[f]
     IN /\ pte' = [pte EXCEPT ![v] = Entry("swap", SwapEntry(f))]
        /\ free' = free \cup {f} /\ mem' = [mem EXCEPT ![f] = Junk]
        /\ arrived' = Without(arrived, v)
        /\ uses' = [uses EXCEPT ![v] = 0]
  /\ op' = [op EXCEPT !.pc = "alloc"]
  /\ UNCHANGED <<manager, disk, lists, pra_vaddr, lru_use, halt>>

\* swap_out writes the victim to its slot and frees it; a free frame may hold
\* anything.
SwapOut ==
  /\ At("swap_out")
  /\ LET f == op.victim
         v == pra_vaddr[f]
     IN /\ disk' = [disk EXCEPT ![SwapEntry(f)] = mem[f]]
        /\ pte' = [pte EXCEPT ![v] = Entry("swap", SwapEntry(f))]
        /\ free' = free \cup {f} /\ mem' = [mem EXCEPT ![f] = Junk]
        /\ arrived' = Without(arrived, v)
        /\ uses' = [uses EXCEPT ![v] = 0]
  /\ op' = [op EXCEPT !.pc = "alloc"]
  /\ UNCHANGED <<manager, lists, pra_vaddr, lru_use, halt>>

Mapped(f) == [pra_vaddr EXCEPT ![f] = op.page]

\* Mutant: a page that comes back is not made swappable again.
MutMapPage ==
  /\ At("alloc") /\ free # {}
  /\ LET f == CHOOSE g \in free : \A h \in free : g <= h
     IN /\ free' = free \ {f}
        /\ mem' = [mem EXCEPT ![f] = IF pte[op.page] = NoEntry THEN Junk ELSE disk[pte[op.page].at]]
        /\ pte' = [pte EXCEPT ![op.page] = Entry("frame", f)]
        /\ IF pte[op.page] = NoEntry THEN map_swappable(f) ELSE UNCHANGED lists
        /\ pra_vaddr' = Mapped(f)
  /\ arrived' = Append(arrived, op.page)
  /\ op' = Idle
  /\ UNCHANGED <<manager, disk, lru_use, halt, uses>>

\* pgdir_alloc_page for a page that nobody has touched yet, swap_in and
\* page_insert for one that was swapped out; then swap_map_swappable.
MapPage ==
  /\ At("alloc") /\ free # {}
  /\ LET f == CHOOSE g \in free : \A h \in free : g <= h
     IN /\ free' = free \ {f}
        /\ mem' = [mem EXCEPT ![f] = IF pte[op.page] = NoEntry THEN Junk ELSE disk[pte[op.page].at]]
        /\ pte' = [pte EXCEPT ![op.page] = Entry("frame", f)]
        /\ map_swappable(f)
        /\ pra_vaddr' = Mapped(f)
  /\ arrived' = Append(arrived, op.page)
  /\ op' = Idle
  /\ UNCHANGED <<manager, disk, lru_use, halt, uses>>

Fault(pg) ==
  /\ At("idle") /\ ~Resident(pg)
  /\ op' = [pc |-> "alloc", page |-> pg, victim |-> NULL]
  /\ UNCHANGED <<manager, pte, free, mem, disk, lists, pra_vaddr, lru_use, halt, history>>

Write(pg, v) ==
  /\ At("idle") /\ Resident(pg)
  /\ mem' = [mem EXCEPT ![FrameOf(pg)] = v]
  /\ UNCHANGED <<manager, pte, free, disk, lists, pra_vaddr, lru_use, op, halt, history>>

\* _page_use, which the client calls for a page it has just used, and also for
\* one it has not (0x6000, which is outside of the area). Nothing looks whether
\* the page is in memory. The count starts again from 1 after UNUSED.
PageUse(pg) ==
  /\ At("idle") /\ manager = "lru"
  /\ lru_use' = [lru_use EXCEPT ![pg] = IF @ = UNUSED THEN 1 ELSE @ + 1]
  /\ uses' = [uses EXCEPT ![pg] = IF @ = UNUSED THEN @ ELSE @ + 1]
  /\ UNCHANGED <<manager, pte, free, mem, disk, lists, pra_vaddr, op, halt, arrived>>

KernelStep == (ChooseVictim \/ SwapOut \/ MapPage) /\ asked' = NULL

Next ==
  \/ KernelStep
  \/ /\ \/ \E pg \in Page : Fault(pg)
        \/ \E pg \in Used : PageUse(pg)
     /\ asked' = NULL
  \/ \E pg \in Written, v \in Value : Write(pg, v) /\ asked' = <<"check", pg, v>>

Spec == Init /\ [][Next]_vars

\* The kernel goes on with a page fault it has begun to handle.
FairSpec == Spec /\ WF_vars(KernelStep)
-----------------------------------------------------------------------------
(* Properties.                                                             *)

\* The list holds exactly the frames in use, once each, but for the one that is
\* being swapped out, each knows the page that it holds, and the hand rests on
\* one of them or on the head: nothing is forgotten or found twice.
\* (map_swappable, swap_out_victim, swap_out, do_pgfault)
ListExact ==
  LET listed == ToSet(list)
      going  == IF op.pc = "swap_out" THEN {op.victim} ELSE {}
  IN /\ Len(list) = Cardinality(listed)
     /\ listed \cap going = {} /\ listed \cup going = Frame \ free
     /\ \A f \in listed \cup going : pte[pra_vaddr[f]] = Entry("frame", f)
     /\ hand \in listed \cup {HEAD}

\* FIFO takes the page that has been resident longest. The clock never takes
\* the page that came in last, once it has three. "LRU" takes one that was used
\* least often, as long as all were used and no count has gone round.
\* (_fifo_swap_out_victim, _clock_swap_out_victim, _lru_swap_out_victim)
VictimPolicy ==
  op.pc = "swap_out" =>
    LET v == pra_vaddr[op.victim]
    IN /\ manager = "fifo" => v = Head(arrived)
       /\ manager = "clock" /\ NFrame >= 3 => v # Last(arrived)
       /\ manager = "lru" /\ (\A pg \in ToSet(arrived) : uses[pg] \in 1 .. UNUSED - 1)
            => \A pg \in ToSet(arrived) : uses[v] <= uses[pg]

\* The head is taken for a page, and a search never ends, only: in the clock's
\* first search, as the hand does not come back to the head; and in LRU when no
\* resident page was used, or those that were have used up their counts, or
\* when the client has told _page_use of a page that is not in memory and whose
\* count is then the least. The count that a page had before it left memory never
\* misleads it. (_clock_swap_out_victim, _lru_swap_out_victim, _page_use)
StopsOnly ==
  halt # "no" =>
    LET resident == ToSet(arrived)
    IN \/ manager = "clock" /\ \A pg \in Page : pte[pg] = NoEntry \/ Resident(pg)
       \/ /\ manager = "lru"
          /\ \/ \A pg \in resident : uses[pg] \in {0, UNUSED}
             \/ \E q \in Counted \ resident :
                  /\ uses[q] # 0
                  /\ uses[q] = UNUSED \/ \A pg \in resident : uses[pg] = 0 \/ uses[q] <= uses[pg]

View ==
  [s \in {"check"} |-> [pg \in Page |->
     IF pte[pg] = NoEntry THEN NULL
     ELSE IF Resident(pg) THEN mem[FrameOf(pg)] ELSE disk[pte[pg].at]]]

M == INSTANCE MemSpec WITH Space <- {"check"}, Absent <- NULL, Image <- {}, Nothing <- NULL, memory <- View

\* A page holds what the client last wrote to it, wherever it has been meanwhile:
\* no fault, eviction or return changes or takes a page that holds something.
\* (do_pgfault, swap_out, swap_in)
ImplementsMemSpec == M!Spec

\* A page fault ends, whichever manager looks for a victim.
FaultEnds == op # Idle ~> op = Idle \/ ~Running
=============================================================================
