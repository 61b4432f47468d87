-------------------------------- MODULE GetPid --------------------------------
(***************************************************************************)
(* get_pid of kern/process/proc.c: the pid after the last one is taken at  *)
(* once while it is below next_safe, the least pid in use above it that    *)
(* the last scan saw; otherwise the process list is scanned again, one     *)
(* element per step. A process is known here by its pid alone, and the     *)
(* list keeps the newest process first, where set_links adds it.           *)
(***************************************************************************)
EXTENDS Naturals, SequencesExt

CONSTANTS
  MAX_PID,     \* one more than the greatest pid
  MAX_PROCESS  \* do_fork makes no more processes than this

\* static_assert(MAX_PID > MAX_PROCESS), and room for idleproc and initproc.
ASSUME PidAssumption ==
  /\ MAX_PID \in Nat /\ MAX_PROCESS \in Nat
  /\ MAX_PID > MAX_PROCESS /\ MAX_PROCESS >= 2

Pid == 1 .. MAX_PID - 1

InitprocPid == 1  \* proc_init asserts it

VARIABLES
  proc_list,   \* pids of the processes of proc_list, idleproc is not on it
  nr_process,  \* number of processes, idleproc included
  last_pid,    \* static: the pid get_pid returned last
  next_safe,   \* static: no pid in use is between last_pid and next_safe
  le           \* the element the scan is at, 0 outside get_pid

pidVars == <<proc_list, nr_process, last_pid, next_safe, le>>

Init ==
  /\ proc_list = <<>>
  /\ nr_process = 1
  /\ last_pid = MAX_PID
  /\ next_safe = MAX_PID
  /\ le = 0

\* le when the scan is through, or was not needed: get_pid returns last_pid.
Scanned == Len(proc_list) + 1

\* Mutant: a pid in use counts as safe.
MutNotSafe == last_pid + 1 > next_safe

\* The next pid may be in use: the list has to be scanned.
NotSafe == last_pid + 1 >= next_safe

\* Mutant: the pids do not wrap around.
MutNoWrap == IF last_pid + 1 >= MAX_PID THEN MAX_PID - 1 ELSE last_pid + 1

\* ++last_pid, from 1 again past the greatest pid.
NextPid == IF last_pid + 1 >= MAX_PID THEN 1 ELSE last_pid + 1

\* do_fork asks for a pid unless there are MAX_PROCESS processes.
Enter ==
  /\ le = 0 /\ nr_process < MAX_PROCESS
  /\ last_pid' = NextPid
  /\ IF last_pid + 1 >= MAX_PID \/ NotSafe
       THEN next_safe' = MAX_PID /\ le' = 1
       ELSE le' = Scanned /\ UNCHANGED next_safe
  /\ UNCHANGED <<proc_list, nr_process>>

Scanning == le \in 1 .. Len(proc_list)

\* The element has the candidate: try the next pid, from the start of the list
\* if that is not known to be safe.
Collide ==
  /\ Scanning /\ proc_list[le] = last_pid
  /\ last_pid' = NextPid
  /\ IF NotSafe
       THEN next_safe' = MAX_PID /\ le' = 1
       ELSE le' = le + 1 /\ UNCHANGED next_safe
  /\ UNCHANGED <<proc_list, nr_process>>

\* The element bounds the pids that are safe from above, or says nothing.
Pass ==
  /\ Scanning /\ proc_list[le] # last_pid
  /\ next_safe' = IF proc_list[le] > last_pid /\ next_safe > proc_list[le]
                    THEN proc_list[le] ELSE next_safe
  /\ le' = le + 1
  /\ UNCHANGED <<proc_list, nr_process, last_pid>>

\* get_pid returns, and do_fork enters the process in the list.
Return ==
  /\ le = Scanned
  /\ proc_list' = <<last_pid>> \o proc_list
  /\ nr_process' = nr_process + 1
  /\ le' = 0
  /\ UNCHANGED <<last_pid, next_safe>>

\* do_wait takes a zombie from the list; initproc never is one.
Reap(i) ==
  /\ le = 0
  /\ i \in DOMAIN proc_list /\ proc_list[i] # InitprocPid
  /\ proc_list' = RemoveAt(proc_list, i)
  /\ nr_process' = nr_process - 1
  /\ UNCHANGED <<last_pid, next_safe, le>>

Step == Collide \/ Pass \/ Return

Next == Enter \/ Step \/ \E i \in DOMAIN proc_list : Reap(i)

Spec == Init /\ [][Next]_pidVars

\* get_pid runs with interrupts off: once entered it goes on.
FairSpec == Spec /\ WF_pidVars(Step)

-----------------------------------------------------------------------------
Used == ToSet(proc_list)

TypeOK ==
  /\ proc_list \in Seq(Pid)
  /\ nr_process = Len(proc_list) + 1
  /\ last_pid \in 1 .. MAX_PID
  /\ next_safe \in 1 .. MAX_PID
  /\ le \in 0 .. Scanned

\* No two processes have one pid, however often the pids wrapped around and
\* whichever processes were reaped meanwhile.
PidsUnique == IsInjective(proc_list)

\* The fast path is sound: between two calls no process has a pid between
\* last_pid and next_safe.
SafeWindow ==
  le = 0 => \A p \in Used : ~(last_pid < p /\ p < next_safe)

\* What the scan knows of the elements it has passed: none has the candidate,
\* and none is between it and next_safe.
ScanSound ==
  le # 0 =>
    /\ nr_process < MAX_PROCESS
    /\ last_pid \in Pid /\ last_pid < next_safe
    /\ \A i \in 1 .. le - 1 :
         /\ proc_list[i] # last_pid
         /\ ~(last_pid < proc_list[i] /\ proc_list[i] < next_safe)

\* The first process gets the pid of initproc and keeps it.
InitprocFirst ==
  IF proc_list = <<>>
    THEN IF le = 0 THEN last_pid = MAX_PID ELSE last_pid = InitprocPid
    ELSE InitprocPid \in Used

\* The pids of the processes differ, initproc's is among them, no
\* more than MAX_PROCESS exist, and what get_pid remembers of the pids in use
\* between two calls, and within one, is true. It is inductive.
PidInv ==
  /\ TypeOK /\ nr_process <= MAX_PROCESS
  /\ PidsUnique /\ SafeWindow /\ ScanSound /\ InitprocFirst

\* get_pid allocates and do_wait releases as the abstract allocator does.
PidAlloc == INSTANCE PidSpec WITH used <- Used, number <- nr_process
ImplementsPidSpec == PidAlloc!Spec

\* get_pid returns: with fewer processes than pids the scan that starts over
\* at every collision comes to an end.
GetPidReturns == le # 0 ~> le = 0
=============================================================================
