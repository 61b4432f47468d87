-------------------------------- MODULE Files --------------------------------
(***************************************************************************)
(* The tables of open files of the processes and the counts that keep      *)
(* inodes in memory: kern/fs/file.c, kern/fs/fs.c, kern/fs/vfs/vfsfile.c,  *)
(* kern/fs/vfs/inode.c, and the calls of them in do_fork, do_execve,       *)
(* do_exit and do_wait (kern/process/proc.c). Every process has a table of *)
(* its own: no program can ask for CLONE_FS. Nothing in these operations   *)
(* waits, so that one runs at a time; each turn of the loops that copy and *)
(* close a table is a step. Between two steps an entry of a table is       *)
(* FD_OPENED, and shown as its inode, or FD_NONE, and shown as NULL.       *)
(*                                                                         *)
(* An open that fails and gives its reference back, and a fork that finds  *)
(* no memory, change nothing and are left out; creating a file is an       *)
(* operation the file system does not have.                                *)
(***************************************************************************)
EXTENDS Naturals, FiniteSetsExt

CONSTANTS
  Proc, Initproc,      \* the processes, initproc among them
  File,                \* the files on disk0
  Device,              \* stdin and stdout
  Root,                \* the root directory of disk0
  Table,               \* the files_structs there is memory for
  FILES_STRUCT_NENTRY, \* the entries of a table
  MaxLost,             \* bound: references and tables that are lost
  NULL

ASSUME FilesAssumption ==
  /\ Initproc \in Proc
  /\ FILES_STRUCT_NENTRY \in Nat /\ FILES_STRUCT_NENTRY > 2
  /\ MaxLost \in Nat
  /\ IsFiniteSet(Table)
  /\ Root \notin Device
  /\ NULL \notin File \cup Device \cup {Root} \cup Table

Node == File \cup Device \cup {Root}
Fd   == 0 .. FILES_STRUCT_NENTRY - 1

VARIABLES
  state,       \* proc->state
  mm,          \* whether proc->mm is set
  filesp,      \* proc->filesp
  used,        \* the files_structs that are allocated
  files_count, fd_array, pwd,  \* their fields
  ref_count, open_count,       \* those of the inodes; a file whose ref_count
                               \* is 0 is not in memory
  op,          \* the operation that runs
  halt,        \* whether an assertion stopped the kernel
  lost,        \* history: the references an open of an existing file lost
  abandoned    \* history: the tables of processes that died without an mm

procs  == <<state, mm, filesp>>
tables == <<used, files_count, fd_array, pwd>>
counts == <<ref_count, open_count>>
history == <<lost, abandoned>>
vars   == <<procs, tables, counts, op, halt, history>>

Idle == [kind |-> "none"]
NoFiles == [fd \in Fd |-> NULL]

\* init_main has set the file system to boot from and forked user_main: the root
\* directory is bootfs_node and the directory of both, and the list of devices
\* refers to the devices.
Init ==
  \E u \in Proc \ {Initproc}, s, t \in Table :
    /\ s # t
    /\ state = [p \in Proc |-> IF p \in {Initproc, u} THEN "RUNNABLE" ELSE "NONE"]
    /\ mm = [p \in Proc |-> FALSE]
    /\ filesp = [p \in Proc |-> CASE p = Initproc -> s [] p = u -> t [] OTHER -> NULL]
    /\ used = {s, t}
    /\ files_count = [v \in Table |-> IF v \in used THEN 1 ELSE 0]
    /\ fd_array = [v \in Table |-> NoFiles]
    /\ pwd = [v \in Table |-> IF v \in used THEN Root ELSE NULL]
    /\ ref_count = [n \in Node |-> CASE n = Root -> 3 [] n \in Device -> 1 [] OTHER -> 0]
    /\ open_count = [n \in Node |-> 0]
    /\ op = Idle /\ halt = "no"
    /\ lost = [f \in File |-> 0] /\ abandoned = {}
-----------------------------------------------------------------------------
(* Inodes and entries.                                                     *)

KAssert(cond) == halt' = IF cond THEN halt ELSE "assert"

\* p makes a system call.
Calls(p) == halt = "no" /\ op = Idle /\ state[p] = "RUNNABLE"

\* The running operation is of this kind.
Runs(kind) == halt = "no" /\ op.kind = kind

Opened(t) == {fd \in Fd : fd_array[t][fd] # NULL}

\* Mutant: the copy of an entry is not counted as a reference.
MutUse(t, fd, n) ==
  /\ fd_array' = [fd_array EXCEPT ![t][fd] = n]
  /\ open_count' = [open_count EXCEPT ![n] = @ + 1]
  /\ UNCHANGED ref_count

\* vop_ref_inc, vop_open_inc and fd_array_open: the entry fd of t refers to n.
Use(t, fd, n) ==
  /\ fd_array' = [fd_array EXCEPT ![t][fd] = n]
  /\ ref_count' = [ref_count EXCEPT ![n] = @ + 1]
  /\ open_count' = [open_count EXCEPT ![n] = @ + 1]

\* Mutant: the inode is open as often as before.
MutCloseFd(t, fd) ==
  LET n == fd_array[t][fd]
  IN /\ KAssert(open_count[n] > 0 /\ ref_count[n] > 0)
     /\ ref_count' = [ref_count EXCEPT ![n] = @ - 1]
     /\ fd_array' = [fd_array EXCEPT ![t][fd] = NULL]
     /\ UNCHANGED open_count

\* fd_array_close, vfs_close: vop_open_dec, which syncs the inode at its last
\* close, and vop_ref_dec, which reclaims it at the last reference. Their
\* assertions and those of inode_kill: a device cannot be reclaimed.
CloseFd(t, fd) ==
  LET n == fd_array[t][fd]
  IN /\ KAssert(/\ open_count[n] > 0 /\ ref_count[n] > 0
                /\ ref_count[n] = 1 => open_count[n] = 1 /\ n \notin Device)
     /\ open_count' = [open_count EXCEPT ![n] = @ - 1]
     /\ ref_count' = [ref_count EXCEPT ![n] = @ - 1]
     /\ fd_array' = [fd_array EXCEPT ![t][fd] = NULL]
-----------------------------------------------------------------------------
(* open, close, dup.                                                       *)

\* file_open with the lowest free entry, as fd_array_alloc finds it.
Open(p, n) ==
  /\ Calls(p) /\ mm[p]
  /\ Opened(filesp[p]) # Fd
  /\ Use(filesp[p], Min(Fd \ Opened(filesp[p])), n)
  /\ KAssert(ref_count[n] >= open_count[n])
  /\ UNCHANGED <<procs, used, files_count, pwd, op, history>>

LostRefs == MapThenSumSet(LAMBDA f : lost[f], File)

\* vfs_open with O_CREAT and O_EXCL finds the file there: it returns
\* -E_EXISTS and keeps the reference vfs_lookup took.
OpenExists(p, f) ==
  /\ Calls(p) /\ mm[p]
  /\ Opened(filesp[p]) # Fd
  /\ LostRefs < MaxLost
  /\ ref_count' = [ref_count EXCEPT ![f] = @ + 1]
  /\ lost' = [lost EXCEPT ![f] = @ + 1]
  /\ UNCHANGED <<procs, tables, open_count, op, halt, abandoned>>

\* file_close.
Close(p, fd) ==
  /\ Calls(p) /\ mm[p]
  /\ fd \in Opened(filesp[p])
  /\ CloseFd(filesp[p], fd)
  /\ UNCHANGED <<procs, used, files_count, pwd, op, history>>

\* file_dup to an entry that is free.
Dup(p, fd1, fd2) ==
  /\ Calls(p) /\ mm[p]
  /\ fd1 \in Opened(filesp[p]) /\ fd2 \notin Opened(filesp[p])
  /\ Use(filesp[p], fd2, fd_array[filesp[p]][fd1])
  /\ UNCHANGED <<procs, used, files_count, pwd, op, halt, history>>
-----------------------------------------------------------------------------
(* do_fork.                                                                *)

\* copy_files up to the loop of dup_files.
Fork(p, c, t) ==
  /\ Calls(p) /\ mm[p]
  /\ state[c] = "NONE" /\ t \notin used
  /\ KAssert(files_count[filesp[p]] > 0)
  /\ used' = used \cup {t}
  /\ files_count' = [files_count EXCEPT ![t] = 0]
  /\ fd_array' = [fd_array EXCEPT ![t] = NoFiles]
  /\ pwd' = [pwd EXCEPT ![t] = pwd[filesp[p]]]
  /\ ref_count' = [ref_count EXCEPT ![pwd[filesp[p]]] = @ + 1]
  /\ op' = [kind |-> "dup", proc |-> c, parent |-> p, table |-> t]
  /\ UNCHANGED <<procs, open_count, history>>

\* The entries the loop of dup_files has yet to copy.
ToCopy == Opened(filesp[op.parent]) \ Opened(op.table)

\* One turn of it, which passes over entries that are free.
DupFiles ==
  /\ Runs("dup") /\ ToCopy # {}
  /\ LET fd == Min(ToCopy)
     IN Use(op.table, fd, fd_array[filesp[op.parent]][fd])
  /\ UNCHANGED <<procs, used, files_count, pwd, op, halt, history>>

\* copy_files returns, and the child may run.
Forked ==
  /\ Runs("dup") /\ ToCopy = {}
  /\ files_count' = [files_count EXCEPT ![op.table] = @ + 1]
  /\ filesp' = [filesp EXCEPT ![op.proc] = op.table]
  /\ mm' = [mm EXCEPT ![op.proc] = mm[op.parent]]
  /\ state' = [state EXCEPT ![op.proc] = "RUNNABLE"]
  /\ op' = Idle
  /\ UNCHANGED <<used, fd_array, pwd, counts, halt, history>>
-----------------------------------------------------------------------------
(* do_execve.                                                              *)

\* do_execve up to the loop of files_closeall. The user_main thread has no mm
\* yet.
Exec(p, n) ==
  /\ Calls(p) /\ p # Initproc
  /\ KAssert(files_count[filesp[p]] > 0)
  /\ op' = [kind |-> "closeall", proc |-> p, node |-> n]
  /\ UNCHANGED <<procs, tables, counts, history>>

\* files_closeall leaves stdin and stdout open.
Kept(fd) == fd < 2

ToClose == {fd \in Opened(filesp[op.proc]) : ~Kept(fd)}

CloseAll ==
  /\ Runs("closeall") /\ ToClose # {}
  /\ CloseFd(filesp[op.proc], Min(ToClose))
  /\ UNCHANGED <<procs, used, files_count, pwd, op, history>>

\* sysfile_open of the program; then the address space is dropped.
ExecOpen ==
  /\ Runs("closeall") /\ ToClose = {}
  /\ LET p  == op.proc
         fd == Min(Fd \ Opened(filesp[p]))
     IN /\ Use(filesp[p], fd, op.node)
        /\ mm' = [mm EXCEPT ![p] = FALSE]
        /\ op' = [kind |-> "load", proc |-> p, fd |-> fd]
  /\ UNCHANGED <<state, filesp, used, files_count, pwd, halt, history>>

\* There is no such program: do_exit, with the address space.
ExecNoFile ==
  /\ Runs("closeall") /\ ToClose = {}
  /\ op' = [kind |-> "exit", proc |-> op.proc]
  /\ UNCHANGED <<procs, tables, counts, halt, history>>

\* load_icode, an exercise, sets up an address space. It may close the program
\* or leave that to the process.
LoadIcode ==
  /\ Runs("load")
  /\ mm' = [mm EXCEPT ![op.proc] = TRUE]
  /\ op' = Idle
  /\ \/ CloseFd(filesp[op.proc], op.fd)
     \/ UNCHANGED <<fd_array, counts, halt>>
  /\ UNCHANGED <<state, filesp, used, files_count, pwd, history>>

\* load_icode fails: do_exit, without an address space.
LoadFails ==
  /\ Runs("load")
  /\ op' = [kind |-> "exit", proc |-> op.proc]
  /\ UNCHANGED <<procs, tables, counts, halt, history>>
-----------------------------------------------------------------------------
(* do_exit and do_wait.                                                    *)

\* sys_exit.
Exit(p) ==
  /\ Calls(p) /\ mm[p]
  /\ op' = [kind |-> "exit", proc |-> p]
  /\ UNCHANGED <<procs, tables, counts, halt, history>>

\* do_exit of a process with an mm: put_files, up to the loop of
\* files_destroy. Nobody shares the table, and its count goes to zero.
PutFiles ==
  /\ Runs("exit") /\ mm[op.proc]
  /\ LET t == filesp[op.proc]
     IN /\ files_count' = [files_count EXCEPT ![t] = @ - 1]
        /\ KAssert(files_count[t] = 1 /\ ref_count[pwd[t]] > 0)
        /\ ref_count' = [ref_count EXCEPT ![pwd[t]] = @ - 1]
  /\ mm' = [mm EXCEPT ![op.proc] = FALSE]
  /\ op' = [op EXCEPT !.kind = "destroy"]
  /\ UNCHANGED <<state, filesp, used, fd_array, pwd, open_count, history>>

\* One turn of that loop.
DestroyFiles ==
  /\ Runs("destroy") /\ Opened(filesp[op.proc]) # {}
  /\ CloseFd(filesp[op.proc], Min(Opened(filesp[op.proc])))
  /\ UNCHANGED <<procs, used, files_count, pwd, op, history>>

\* Mutant: the table is not freed.
MutFreed(t) == used

\* kfree(filesp).
Freed(t) == used \ {t}

Destroyed ==
  /\ Runs("destroy") /\ Opened(filesp[op.proc]) = {}
  /\ used' = Freed(filesp[op.proc])
  /\ state' = [state EXCEPT ![op.proc] = "ZOMBIE"]
  /\ op' = Idle
  /\ UNCHANGED <<mm, filesp, files_count, fd_array, pwd, counts, halt, history>>

\* do_exit of a process without an mm keeps its table.
ExitWithoutMm ==
  /\ Runs("exit") /\ ~mm[op.proc]
  /\ Cardinality(abandoned) < MaxLost
  /\ state' = [state EXCEPT ![op.proc] = "ZOMBIE"]
  /\ abandoned' = abandoned \cup {filesp[op.proc]}
  /\ op' = Idle
  /\ UNCHANGED <<mm, filesp, tables, counts, halt, lost>>

\* do_wait frees the proc_struct.
Wait(z) ==
  /\ halt = "no" /\ op = Idle /\ state[z] = "ZOMBIE"
  /\ state' = [state EXCEPT ![z] = "NONE"]
  /\ filesp' = [filesp EXCEPT ![z] = NULL]
  /\ UNCHANGED <<mm, tables, counts, op, halt, history>>

Next ==
  \/ \E p \in Proc :
       \/ \E n \in File \cup Device : Open(p, n)
       \/ \E f \in File : OpenExists(p, f) \/ Exec(p, f)
       \/ \E fd \in Fd : Close(p, fd) \/ \E fd2 \in Fd : Dup(p, fd, fd2)
       \/ \E c \in Proc, t \in Table : Fork(p, c, t)
       \/ Exit(p) \/ Wait(p)
  \/ DupFiles \/ Forked
  \/ CloseAll \/ ExecOpen \/ ExecNoFile \/ LoadIcode \/ LoadFails
  \/ PutFiles \/ DestroyFiles \/ Destroyed \/ ExitWithoutMm

Spec == Init /\ [][Next]_vars
-----------------------------------------------------------------------------
TypeOK ==
  /\ state \in [Proc -> {"NONE", "RUNNABLE", "ZOMBIE"}]
  /\ mm \in [Proc -> BOOLEAN]
  /\ filesp \in [Proc -> Table \cup {NULL}]
  /\ used \subseteq Table
  /\ files_count \in [Table -> Nat]
  /\ fd_array \in [Table -> [Fd -> Node \cup {NULL}]]
  /\ pwd \in [Table -> {Root, NULL}]
  /\ ref_count \in [Node -> Nat] /\ open_count \in [Node -> Nat]
  /\ halt \in {"no", "assert"}
  /\ lost \in [File -> Nat] /\ abandoned \subseteq Table

\* The entries that refer to n, and the tables whose directory is n: a table
\* that is being destroyed has let go of its directory.
Entries(n) == {e \in used \X Fd : fd_array[e[1]][e[2]] = n}
Dirs(n)    == {t \in used : pwd[t] = n /\ ~(op.kind = "destroy" /\ filesp[op.proc] = t)}

\* bootfs_node and the list of devices.
Pins(n) == IF n \in Device \cup {Root} THEN 1 ELSE 0

\* The counts of an inode are what refers to it, through any history of opens,
\* forks, execs that fail halfway and exits: no inode is reclaimed while an
\* entry refers to it, and the only references nobody can give back are those
\* of an exclusive open of a file that exists.
CountsExact ==
  TypeOK /\ \A n \in Node :
    /\ open_count[n] = Cardinality(Entries(n))
    /\ ref_count[n] = Cardinality(Entries(n)) + Cardinality(Dirs(n)) + Pins(n)
                      + (IF n \in File THEN lost[n] ELSE 0)

\* Every table in use is that of one process that runs, and counted once, or
\* one that an exec left behind when it failed in a process that had no address
\* space yet, or had dropped its own. So a process that was waited for has
\* given back the others.
TablesOwned ==
  LET live  == {p \in Proc : state[p] = "RUNNABLE"}
      owned == {filesp[p] : p \in live}
  IN /\ \A p, q \in live : filesp[p] = filesp[q] => p = q
     /\ \A t \in owned : files_count[t] = (IF op.kind = "destroy" /\ filesp[op.proc] = t
                                           THEN 0 ELSE 1)
     /\ owned \cap abandoned = {}
     /\ used = owned \cup abandoned \cup (IF op.kind = "dup" THEN {op.table} ELSE {})

\* The assertions about files, tables and inodes hold: a count never goes
\* below zero, an inode is referred to as often as it is open, and is neither
\* open when it is freed nor a device.
FileAssertsHold == halt = "no"
=============================================================================
