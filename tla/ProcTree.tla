------------------------------- MODULE ProcTree -------------------------------
(***************************************************************************)
(* The process table of kern/process/proc.c with its pointers: the child   *)
(* list of a process starts at cptr and goes on through optr to the older  *)
(* siblings, yptr leads back, and hash_list finds a process by its pid.    *)
(* GetPid keeps proc_list and gives the pids. Every operation here runs    *)
(* with interrupts off, do_exit's loop over the children one child a step. *)
(***************************************************************************)
EXTENDS GetPid

CONSTANTS
  Nil,         \* the null pointer
  Bucket,      \* the heads in hash_list
  pid_hashfn   \* the bucket of a pid

ASSUME TreeAssumption ==
  /\ Nil \notin 0 .. MAX_PID
  /\ pid_hashfn \in [Pid -> Bucket]

IdleprocPid == 0
Ptr == Pid \cup {IdleprocPid, Nil}

VARIABLES
  parent, cptr, yptr, optr,  \* the relations of each proc_struct
  hash_list,                 \* pids in each bucket, newest first
  zombie,                    \* processes whose state is PROC_ZOMBIE
  caller,                    \* the process in do_fork, or Nil
  exiting                    \* the process in do_exit's loop, or Nil

links == <<parent, cptr, yptr, optr>>
treeVars == <<links, hash_list, zombie, caller, exiting>>
vars == <<pidVars, treeVars>>

NoLinks == [p \in Pid \cup {IdleprocPid} |-> Nil]

TreeInit ==
  /\ Init
  /\ parent = NoLinks /\ cptr = NoLinks /\ yptr = NoLinks /\ optr = NoLinks
  /\ hash_list = [b \in Bucket |-> <<>>]
  /\ zombie = {}
  /\ caller = Nil /\ exiting = Nil

\* Assignment through a pointer that may be null.
Through(f, ptr, v) == IF ptr = Nil THEN f ELSE [f EXCEPT ![ptr] = v]

\* Mutant: yptr of the new child is not cleared.
MutLinkChild(c, p, child) ==
  /\ parent' = [parent EXCEPT ![c] = p]
  /\ yptr' = Through(yptr, child[p], c)
  /\ optr' = [optr EXCEPT ![c] = child[p]]
  /\ cptr' = [child EXCEPT ![p] = c]

\* Make c the newest child of p, with child is the cptr of every process then.
LinkChild(c, p, child) ==
  /\ parent' = [parent EXCEPT ![c] = p]
  /\ yptr' = Through([yptr EXCEPT ![c] = Nil], child[p], c)
  /\ optr' = [optr EXCEPT ![c] = child[p]]
  /\ cptr' = [child EXCEPT ![p] = c]

\* proc_init forks initproc, every other process is forked by one of the list.
MayFork(p) ==
  IF proc_list = <<>> THEN p = IdleprocPid ELSE p \in Used \ zombie

DoFork(p) ==
  /\ exiting = Nil /\ MayFork(p)
  /\ Enter
  /\ caller' = p
  /\ UNCHANGED <<links, hash_list, zombie, exiting>>

GetPidLoop ==
  /\ Collide \/ Pass
  /\ UNCHANGED treeVars

\* do_fork with its pid: hash_proc and set_links.
SetLinks ==
  /\ Return
  /\ LinkChild(last_pid, caller, [cptr EXCEPT ![last_pid] = Nil])
  /\ hash_list' = [hash_list EXCEPT ![pid_hashfn[last_pid]] = <<last_pid>> \o @]
  /\ caller' = Nil
  /\ UNCHANGED <<zombie, exiting>>

DoExit(p) ==
  /\ le = 0 /\ exiting = Nil
  /\ p \in Used \ (zombie \cup {InitprocPid})
  /\ zombie' = zombie \cup {p}
  /\ exiting' = p
  /\ UNCHANGED <<pidVars, links, hash_list, caller>>

\* The newest child left goes to initproc, newest child there.
MoveChild ==
  /\ exiting # Nil /\ cptr[exiting] # Nil
  /\ LET c == cptr[exiting]
     IN  LinkChild(c, InitprocPid, [cptr EXCEPT ![exiting] = optr[c]])
  /\ UNCHANGED <<pidVars, hash_list, zombie, caller, exiting>>

ExitEnd ==
  /\ exiting # Nil /\ cptr[exiting] = Nil
  /\ exiting' = Nil
  /\ UNCHANGED <<pidVars, links, hash_list, zombie, caller>>

\* The k-th child of p, the newest first, Nil past the end of the list.
Child(p, k) ==
  LET nth[i \in 1 .. MAX_PID] ==
        IF i = 1 THEN cptr[p]
        ELSE IF nth[i - 1] = Nil THEN Nil ELSE optr[nth[i - 1]]
  IN  nth[k]

\* do_wait of any child finds the first zombie on the child list.
FindAny(p, c) ==
  \E k \in 1 .. MAX_PID - 1 :
    /\ Child(p, k) = c /\ c \in zombie
    /\ \A j \in 1 .. k - 1 : Child(p, j) \notin zombie

find_proc(p) == p \in ToSet(hash_list[pid_hashfn[p]])

\* Mutant: the child is reaped whatever its state.
MutFindOne(p, c) == find_proc(c) /\ parent[c] = p

\* do_wait of one child looks it up by its pid.
FindOne(p, c) == find_proc(c) /\ parent[c] = p /\ c \in zombie

\* The siblings of c, or its parent, point past it.
remove_links(c) ==
  /\ optr' = [Through(optr, yptr[c], optr[c]) EXCEPT ![c] = Nil]
  /\ yptr' = [Through(yptr, optr[c], yptr[c]) EXCEPT ![c] = Nil]
  /\ cptr' = IF yptr[c] = Nil THEN [cptr EXCEPT ![parent[c]] = optr[c]] ELSE cptr
  /\ parent' = [parent EXCEPT ![c] = Nil]

\* The process leaves its bucket.
unhash_proc(c) ==
  hash_list' = [hash_list EXCEPT ![pid_hashfn[c]] = RemoveFirst(@, c)]

\* do_wait with a zombie: unhash_proc, remove_links, and the proc_struct is
\* freed, its own pointers are nobody's any more.
DoWait(p, c) ==
  /\ exiting = Nil /\ p \in Used \ zombie
  /\ FindAny(p, c) \/ FindOne(p, c)
  /\ \E i \in DOMAIN proc_list : proc_list[i] = c /\ Reap(i)
  /\ unhash_proc(c)
  /\ remove_links(c)
  /\ zombie' = zombie \ {c}
  /\ UNCHANGED <<caller, exiting>>

Busy == GetPidLoop \/ SetLinks \/ MoveChild \/ ExitEnd

TreeNext ==
  \/ Busy
  \/ \E p \in Pid \cup {IdleprocPid} : DoFork(p) \/ DoExit(p)
  \/ \E p, c \in Pid : DoWait(p, c)

\* Interrupts are off: an operation that began goes on.
TreeSpec == TreeInit /\ [][TreeNext]_vars /\ WF_vars(Busy)

-----------------------------------------------------------------------------
TreeTypeOK ==
  /\ TypeOK
  /\ parent \in [Pid \cup {IdleprocPid} -> Ptr]
  /\ cptr \in [Pid \cup {IdleprocPid} -> Ptr]
  /\ yptr \in [Pid \cup {IdleprocPid} -> Ptr]
  /\ optr \in [Pid \cup {IdleprocPid} -> Ptr]
  /\ hash_list \in [Bucket -> Seq(Pid)]
  /\ zombie \subseteq Used
  /\ caller \in Ptr /\ exiting \in zombie \cup {Nil}

Children(p) == {c \in Used : parent[c] = p}

\* The child list of a process holds each of its children once and nothing
\* else, and ends; do_wait and do_exit reach them all through it. This holds
\* between any two children do_exit moves too.
ChildListExact ==
  \A p \in Used \cup {IdleprocPid} :
    LET n == Cardinality(Children(p))
    IN  /\ {Child(p, k) : k \in 1 .. n} = Children(p)
        /\ Child(p, n + 1) = Nil

\* yptr is the way back along the child list, and null for the newest child
\* only, so that remove_links repairs the right pointer. The child list of an
\* exiting process may have a yptr to a child moved already.
YptrExact ==
  \A c \in Used : parent[c] # exiting =>
    IF yptr[c] = Nil THEN cptr[parent[c]] = c
                     ELSE parent[yptr[c]] = parent[c] /\ optr[yptr[c]] = c

\* find_proc finds the processes of proc_list and no process that was freed.
HashExact ==
  \A b \in Bucket :
    /\ ToSet(hash_list[b]) = {p \in Used : pid_hashfn[p] = b}
    /\ IsInjective(hash_list[b])

\* The pointers of the process table agree with each other, after any order of
\* forks, exits and waits. (set_links, remove_links, hash_proc, unhash_proc)
ListsExact == TreeTypeOK /\ ChildListExact /\ YptrExact /\ HashExact

\* The pointers implement the tree: do_exit hands over all children in what
\* is one step to everyone else.
ParentOf ==
  [p \in Used |-> IF parent[p] = exiting THEN InitprocPid ELSE parent[p]]
Family == INSTANCE FamilySpec
            WITH Initproc <- InitprocPid, Idleproc <- IdleprocPid,
                 parent <- ParentOf
ImplementsFamilySpec == Family!Spec
=============================================================================
