------------------------------- MODULE PagePool -------------------------------
(***************************************************************************)
(* The physical page allocators: default_pmm.c (first fit) of the kernel   *)
(* and best_fit_pmm.c of lab2 share the list of free blocks, kept by       *)
(* address, and all code but the choice of a block. The list is modelled   *)
(* with its links, because the loop that inserts a block goes on after it  *)
(* has linked one at the tail, and then links that block to itself. Every  *)
(* turn of a loop is a step; alloc_pages and free_pages of pmm.c run each  *)
(* operation with interrupts off, so that no two of them overlap.          *)
(***************************************************************************)
EXTENDS Integers, FiniteSets

CONSTANTS
  NPage,  \* number of pages that page_init hands to the allocator
  NoPage  \* the null pointer

ASSUME PoolAssumption == NPage \in Nat \ {0} /\ NoPage \notin Int

Page == 0 .. NPage - 1
Head == -1  \* the free_list
Node == Page \cup {Head}

VARIABLES
  pmm_manager,  \* the allocator, chosen at boot
  next, prev,   \* the links of free_list and of every page
  property,     \* the length of the free block a page heads
  flag,         \* the pages with PageProperty: they head a free block
  nr_free,      \* number of free pages
  used,         \* the pages the callers of alloc_pages own
  op,           \* what runs: "idle" or the part of an operation that is next
  le,           \* cursor of the operation's loop
  base, n,      \* the block it frees, or the number of pages it looks for
  page,         \* the block the search found, or NoPage
  doubled       \* history: some block was linked twice at the tail

links == <<next, prev>>
marks == <<property, flag, nr_free>>
args == <<le, base, n, page>>
vars == <<pmm_manager, links, marks, used, op, args, doubled>>

\* page_init gives the allocator one block: all the memory after the kernel.
Init ==
  /\ pmm_manager \in {"default", "best_fit"}
  /\ next = [x \in Node |-> CASE x = Head -> 0 [] x = 0 -> Head [] OTHER -> x]
  /\ prev = next
  /\ property = [p \in Page |-> IF p = 0 THEN NPage ELSE 0]
  /\ flag = {0}
  /\ nr_free = NPage
  /\ used = {}
  /\ op = "idle"
  /\ le = Head /\ base = 0 /\ n = 0 /\ page = NoPage
  /\ doubled = FALSE

\* An operation returns; its locals are gone.
Done ==
  op' = "idle" /\ le' = Head /\ base' = 0 /\ n' = 0 /\ page' = NoPage

-----------------------------------------------------------------------------
\* list_add(at, x): x follows at. list_add_before(at, x) is ListAdd(prev[at], x)
\* with the links of at.
ListAdd(nx, pv, x, at, succ) ==
  /\ next' = [nx EXCEPT ![at] = x, ![x] = succ]
  /\ prev' = [pv EXCEPT ![succ] = x, ![x] = at]

AfterDel(f, x, y) == [f EXCEPT ![x] = y]

ListDel(x) ==
  /\ next' = AfterDel(next, prev[x], next[x])
  /\ prev' = AfterDel(prev, next[x], prev[x])

-----------------------------------------------------------------------------
\* alloc_pages(k) with no more than nr_free pages asked for; otherwise it
\* returns NULL at once.
AllocCall(k) ==
  /\ op = "idle" /\ k <= nr_free
  /\ op' = "search"
  /\ n' = k /\ le' = Head /\ page' = NoPage
  /\ UNCHANGED <<pmm_manager, links, marks, used, base, doubled>>

\* First fit takes the first block that is long enough, best fit goes on and
\* takes the first of the shortest.
Fits(p) == property[p] >= n
\* Mutant: the last of the shortest blocks.
MutBetter(p) == Fits(p) /\ (page = NoPage \/ property[p] <= property[page])
Better(p) == Fits(p) /\ (page = NoPage \/ property[p] < property[page])

SearchStep ==
  /\ op = "search" /\ next[le] # Head
  /\ le' = next[le]
  /\ page' = IF Better(le') THEN le' ELSE page
  /\ op' = IF pmm_manager = "default" /\ Fits(le') THEN "take" ELSE op
  /\ UNCHANGED <<pmm_manager, links, marks, used, base, n, doubled>>

SearchEnd ==
  /\ op = "search" /\ next[le] = Head
  /\ op' = "take"
  /\ UNCHANGED <<pmm_manager, links, marks, used, args, doubled>>

\* No block is long enough: NULL.
AllocFails ==
  /\ op = "take" /\ page = NoPage
  /\ Done
  /\ UNCHANGED <<pmm_manager, links, marks, used, doubled>>

\* The pages from the front of the block go to the caller, the rest of the block
\* stays in its place on the list.
Take ==
  /\ op = "take" /\ page # NoPage
  /\ LET rest == page + n
         nx   == AfterDel(next, prev[page], next[page])
         pv   == AfterDel(prev, next[page], prev[page])
     IN  IF property[page] > n
           THEN /\ property' = [property EXCEPT ![rest] = property[page] - n]
                /\ flag' = (flag \cup {rest}) \ {page}
                /\ ListAdd(nx, pv, rest, prev[page], nx[prev[page]])
           ELSE /\ flag' = flag \ {page}
                /\ ListDel(page)
                /\ UNCHANGED property
  /\ nr_free' = nr_free - n
  /\ used' = used \cup (page .. page + n - 1)
  /\ Done
  /\ UNCHANGED <<pmm_manager, doubled>>

-----------------------------------------------------------------------------
\* free_pages(b, k) by the owner of the pages.
FreeCall(b, k) ==
  /\ op = "idle"
  /\ b .. b + k - 1 \subseteq used
  /\ used' = used \ (b .. b + k - 1)
  /\ base' = b
  /\ property' = [property EXCEPT ![b] = k]
  /\ flag' = (flag \ (b .. b + k - 1)) \cup {b}
  /\ nr_free' = nr_free + k
  /\ IF next[Head] = Head
       THEN op' = "merge_prev" /\ ListAdd(next, prev, b, Head, Head)
       ELSE op' = "insert" /\ UNCHANGED links
  /\ le' = Head
  /\ UNCHANGED <<pmm_manager, n, page, doubled>>

Inserting == op = "insert" /\ next[le] # Head

\* The block goes before the first one with a greater address.
InsertBefore ==
  /\ Inserting /\ base < next[le]
  /\ ListAdd(next, prev, base, prev[next[le]], next[le])
  /\ op' = "merge_prev"
  /\ UNCHANGED <<pmm_manager, marks, used, args, doubled>>

\* The block goes after the last one, but the loop does not stop: its next turn
\* finds the block itself at the tail.
InsertLast ==
  /\ Inserting /\ base >= next[le] /\ next[next[le]] = Head
  /\ ListAdd(next, prev, base, next[le], Head)
  /\ le' = next[le]
  /\ doubled' = TRUE
  /\ UNCHANGED <<pmm_manager, marks, used, op, base, n, page>>

\* Mutant: the cursor stays where it is.
MutInsertNext ==
  /\ Inserting /\ base >= next[le] /\ next[next[le]] # Head
  /\ UNCHANGED vars

InsertNext ==
  /\ Inserting /\ base >= next[le] /\ next[next[le]] # Head
  /\ le' = next[le]
  /\ UNCHANGED <<pmm_manager, links, marks, used, op, base, n, page, doubled>>

InsertEnd ==
  /\ op = "insert" /\ next[le] = Head
  /\ op' = "merge_prev"
  /\ UNCHANGED <<pmm_manager, links, marks, used, args, doubled>>

\* Mutant: the block goes on under its old first page.
MutMergePrev ==
  /\ op = "merge_prev"
  /\ LET p == prev[base]
     IN  IF p # Head /\ p + property[p] = base
           THEN /\ property' = [property EXCEPT ![p] = @ + property[base]]
                /\ flag' = flag \ {base}
                /\ ListDel(base)
           ELSE UNCHANGED <<property, flag, links>>
  /\ op' = "merge_next"
  /\ UNCHANGED <<pmm_manager, nr_free, used, args, doubled>>

\* The block that ends where this one begins takes it in.
MergePrev ==
  /\ op = "merge_prev"
  /\ LET p == prev[base]
     IN  IF p # Head /\ p + property[p] = base
           THEN /\ property' = [property EXCEPT ![p] = @ + property[base]]
                /\ flag' = flag \ {base}
                /\ ListDel(base)
                /\ base' = p
           ELSE UNCHANGED <<property, flag, links, base>>
  /\ op' = "merge_next"
  /\ UNCHANGED <<pmm_manager, nr_free, used, le, n, page, doubled>>

\* It takes in the block that begins where it ends.
MergeNext ==
  /\ op = "merge_next"
  /\ LET p == next[base]
     IN  IF p # Head /\ base + property[base] = p
           THEN /\ property' = [property EXCEPT ![base] = @ + property[p]]
                /\ flag' = flag \ {p}
                /\ ListDel(p)
           ELSE UNCHANGED <<property, flag, links>>
  /\ Done
  /\ UNCHANGED <<pmm_manager, nr_free, used, doubled>>

Turn ==
  \/ SearchStep \/ SearchEnd \/ AllocFails \/ Take
  \/ InsertBefore \/ InsertLast \/ InsertNext \/ InsertEnd
  \/ MergePrev \/ MergeNext

Next ==
  \/ Turn
  \/ \E k \in 1 .. NPage : AllocCall(k)
  \/ \E b \in Page : \E k \in 1 .. NPage - b : FreeCall(b, k)

\* With interrupts off an operation that began goes on.
Spec == Init /\ [][Next]_vars /\ WF_vars(Turn)

-----------------------------------------------------------------------------
TypeOK ==
  /\ pmm_manager \in {"default", "best_fit"}
  /\ next \in [Node -> Node] /\ prev \in [Node -> Node]
  /\ property \in [Page -> 0 .. NPage]
  /\ flag \subseteq Page /\ used \subseteq Page
  /\ nr_free \in 0 .. NPage
  /\ op \in {"idle", "search", "take", "insert", "merge_prev", "merge_next"}
  /\ le \in Node /\ base \in Page /\ n \in 0 .. NPage
  /\ page \in Page \cup {NoPage} /\ doubled \in BOOLEAN

\* The k-th block of the list, Head past its end.
Block(k) ==
  LET nth[i \in 1 .. NPage + 1] ==
        IF i = 1 THEN next[Head]
        ELSE IF nth[i - 1] = Head THEN Head ELSE next[nth[i - 1]]
  IN  nth[k]

Blocks == {Block(k) : k \in 1 .. NPage} \ {Head}

PagesOf(b) == b .. b + property[b] - 1
FreePages == UNION {PagesOf(b) : b \in Blocks}

\* The sum of the lengths of the blocks on the list.
Total ==
  LET sum[k \in 0 .. NPage] ==
        IF k = 0 THEN 0
        ELSE sum[k - 1] + IF Block(k) = Head THEN 0 ELSE property[Block(k)]
  IN  sum[NPage]

\* The consistency that default_check and best_fit_check assert first: the
\* blocks on the list are marked, and their lengths add up to nr_free.
TotalIsNrFree ==
  op = "idle" => Blocks \subseteq flag /\ Total = nr_free

\* Until a block is freed above all others, the list is what it is meant to be
\* between two operations: the blocks go up by address with a used page between
\* any two of them, both links agree, exactly the pages that nobody owns are in
\* a block, and only pages that head one are marked.
FreeListExact ==
  TypeOK /\ (op = "idle" /\ ~doubled =>
    /\ Block(NPage + 1) = Head
    /\ \A b \in Blocks :
         /\ prev[next[b]] = b /\ next[prev[b]] = b
         /\ next[b] # Head => b + property[b] < next[b]
    /\ FreePages = Page \ used
    /\ Total = nr_free
    /\ flag = Blocks)

\* The free runs of k pages, as the owners of the pages see them.
FreeRuns(k) == {b \in 0 .. NPage - k : (b .. b + k - 1) \cap used = {}}

\* The free runs that cannot be extended, by their first page and length.
MaximalRuns ==
  {r \in Page \X (1 .. NPage) :
     /\ r[1] \in FreeRuns(r[2])
     /\ r[1] = 0 \/ r[1] - 1 \in used
     /\ r[1] + r[2] = NPage \/ r[1] + r[2] \in used}

\* alloc_pages fails only when there is no run of that many free pages, first
\* fit takes the lowest run, best fit the front of a run no longer than any
\* other that would do, the lowest of these.
AllocAnswers ==
  op = "take" /\ ~doubled =>
    IF page = NoPage THEN FreeRuns(n) = {}
    ELSE CASE pmm_manager = "default" ->
                page \in FreeRuns(n) /\ \A b \in FreeRuns(n) : page <= b
           [] pmm_manager = "best_fit" ->
                \E k \in n .. NPage :
                  /\ <<page, k>> \in MaximalRuns
                  /\ \A r \in MaximalRuns :
                       r[2] >= n => k < r[2] \/ (k = r[2] /\ page <= r[1])

\* Every operation ends, the one that links a block to itself too.
OperationsEnd == op # "idle" ~> op = "idle"

\* Bound: nothing is begun after a block was linked twice.
FirstDoubling == doubled => op # "idle"
=============================================================================
