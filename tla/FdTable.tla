------------------------------ MODULE FdTable -------------------------------
(***************************************************************************)
(* The descriptor tables of the processes and the reference counts of the  *)
(* open files they share: files_struct of process.c, struct file and the   *)
(* descriptor calls of fs/vfs.c, fcntl of syscall.c and the closing loop   *)
(* of exec.  Every call is one step, because it runs with interrupts off   *)
(* and none of these sleeps.                                               *)
(***************************************************************************)
EXTENDS Integers, FiniteSets

CONSTANTS
  Task,
  InitTask,    \* the process that exists at first
  File,        \* the objects file_cache can hand out
  NULL,
  OPEN_MAX     \* descriptors of a table

ASSUME FdTableConstants ==
  /\ InitTask \in Task /\ IsFiniteSet(Task)
  /\ NULL \notin File
  /\ OPEN_MAX \in Nat \ {0}

Fd == 0 .. OPEN_MAX - 1
EMFILE == -24
ENOMEM == -12
EBADF == -9

VARIABLES
  live,           \* the processes
  fd,             \* files->fd of each
  close_on_exec,  \* files->close_on_exec of each
  freed,          \* processes whose files_struct has been freed under them
  f_refcount,     \* 0: the object is free
  wild,           \* processes whose fcntl has written outside its table
  ret             \* what the latest call returned

vars == <<live, fd, close_on_exec, freed, f_refcount, wild, ret>>

Empty == [i \in Fd |-> NULL]

Init ==
  /\ live = {InitTask}
  /\ fd = [t \in Task |-> Empty]
  /\ close_on_exec = [t \in Task |-> {}]
  /\ freed = {}
  /\ f_refcount = [f \in File |-> 0]
  /\ wild = {}
  /\ ret = 0

-----------------------------------------------------------------------------
(* Files.                                                                  *)

\* How many descriptors of table refer to f.
Refs(table, f) == Cardinality({i \in Fd : table[i] = f})

file_get(refs, f) == [refs EXCEPT ![f] = @ + 1]

\* file_put, with file_free when the count reaches zero.
file_put(refs, f) == [refs EXCEPT ![f] = @ - 1]

\* files_clone and files_destroy: file_get and file_put for every descriptor.
files_clone(refs, table) == [f \in File |-> refs[f] + Refs(table, f)]
files_destroy(refs, table) == [f \in File |-> refs[f] - Refs(table, f)]

\* The descriptors files_alloc_fd may return: the lowest free one, or none.
files_alloc_fd(table) ==
  {i \in Fd : table[i] = NULL /\ \A j \in 0 .. i - 1 : table[j] # NULL}

Calls(t) == t \in live /\ t \notin freed /\ wild = {}

\* t fails with error e, and nothing has changed.
Fails(e) == ret' = e /\ UNCHANGED <<live, fd, close_on_exec, freed, f_refcount, wild>>

\* Descriptor i of t becomes f.  The bit in close_on_exec is not touched.
Install(t, i, f) ==
  /\ fd' = [fd EXCEPT ![t][i] = f]
  /\ UNCHANGED <<live, close_on_exec, freed, wild>>

-----------------------------------------------------------------------------
(* The calls.                                                              *)

\* sys_open, once vfs_open has found the file.
sys_open(t) ==
  /\ Calls(t)
  /\ \E f \in File :
       /\ f_refcount[f] = 0
       /\ \/ \E i \in files_alloc_fd(fd[t]) :
               /\ Install(t, i, f)
               /\ f_refcount' = [f_refcount EXCEPT ![f] = 1]
               /\ ret' = i
          \/ /\ files_alloc_fd(fd[t]) = {}
             /\ f_refcount' = file_put([f_refcount EXCEPT ![f] = 1], f)
             /\ ret' = EMFILE
             /\ UNCHANGED <<live, fd, close_on_exec, freed, wild>>

\* sys_close, by files_free_fd.
sys_close(t, i) ==
  /\ Calls(t) /\ fd[t][i] # NULL
  /\ Install(t, i, NULL)
  /\ f_refcount' = file_put(f_refcount, fd[t][i])
  /\ ret' = 0

\* sys_dup, also fcntl's F_DUPFD.
sys_dup(t, i) ==
  /\ Calls(t) /\ fd[t][i] # NULL
  /\ \/ \E j \in files_alloc_fd(fd[t]) :
          /\ Install(t, j, fd[t][i])
          /\ f_refcount' = file_get(f_refcount, fd[t][i])
          /\ ret' = j
     \/ files_alloc_fd(fd[t]) = {} /\ Fails(EMFILE)

\* Faulty: the file that was open at j is forgotten instead of closed.
sys_dup2_over(t, i, j) ==
  /\ Calls(t) /\ fd[t][i] # NULL /\ i # j
  /\ Install(t, j, fd[t][i])
  /\ f_refcount' = file_get(f_refcount, fd[t][i])
  /\ ret' = j

sys_dup2(t, i, j) ==
  /\ Calls(t) /\ fd[t][i] # NULL /\ i # j
  /\ Install(t, j, fd[t][i])
  /\ LET closed == IF fd[t][j] = NULL THEN f_refcount ELSE file_put(f_refcount, fd[t][j])
     IN  f_refcount' = file_get(closed, fd[t][i])
  /\ ret' = j

\* Faulty: when there is no descriptor for the write end, the read end keeps its.
sys_pipe_half(t) ==
  /\ Calls(t)
  /\ \E r, w \in File :
       /\ r # w /\ f_refcount[r] = 0 /\ f_refcount[w] = 0
       /\ \E i \in files_alloc_fd(fd[t]) :
            /\ files_alloc_fd([fd[t] EXCEPT ![i] = r]) = {}
            /\ Install(t, i, r)
            /\ f_refcount' = [f_refcount EXCEPT ![r] = 1]
            /\ ret' = EMFILE

\* sys_pipe.  vfs_pipe makes two files, or has no memory.  Without a descriptor
\* for the read end both are put.  Without one for the write end, which is
\* looked for once the read end is installed, the read end goes by
\* files_free_fd and the write end is put.
sys_pipe(t) ==
  /\ Calls(t)
  /\ \/ Fails(ENOMEM)
     \/ \E r, w \in File :
          LET made == [f_refcount EXCEPT ![r] = 1, ![w] = 1] IN
          /\ r # w /\ f_refcount[r] = 0 /\ f_refcount[w] = 0
          /\ \/ /\ files_alloc_fd(fd[t]) = {}
                /\ f_refcount' = file_put(file_put(made, r), w)
                /\ ret' = EMFILE
                /\ UNCHANGED <<live, fd, close_on_exec, freed, wild>>
             \/ \E rfd \in files_alloc_fd(fd[t]) :
                  LET one == [fd[t] EXCEPT ![rfd] = r] IN
                  /\ \/ /\ files_alloc_fd(one) = {}
                        /\ fd' = [fd EXCEPT ![t] = [one EXCEPT ![rfd] = NULL]]
                        /\ f_refcount' = file_put(file_put(made, one[rfd]), w)
                        /\ ret' = EMFILE
                     \/ \E wfd \in files_alloc_fd(one) :
                          /\ fd' = [fd EXCEPT ![t] = [one EXCEPT ![wfd] = w]]
                          /\ f_refcount' = made
                          /\ ret' = 0
                  /\ UNCHANGED <<live, close_on_exec, freed, wild>>

\* fcntl, F_SETFD.
fcntl_setfd(t, i, on) ==
  /\ Calls(t) /\ fd[t][i] # NULL
  /\ close_on_exec' = [close_on_exec EXCEPT ![t] = IF on THEN @ \cup {i} ELSE @ \ {i}]
  /\ ret' = 0
  /\ UNCHANGED <<live, fd, freed, f_refcount, wild>>

\* fcntl with a number that is no descriptor.  It is not compared with
\* OPEN_MAX: the word read in place of the file may be NULL, and if it is not,
\* F_SETFD changes a word outside close_on_exec.
fcntl_outside(t) ==
  /\ Calls(t)
  /\ \/ Fails(EBADF)
     \/ wild' = {t} /\ ret' = 0 /\ UNCHANGED <<live, fd, close_on_exec, freed, f_refcount>>

\* The loop near the end of sys_exec.
sys_exec(t) ==
  /\ Calls(t)
  /\ LET closed == {i \in close_on_exec[t] : fd[t][i] # NULL}
         gone   == [i \in Fd |-> IF i \in closed THEN fd[t][i] ELSE NULL]
     IN  /\ fd' = [fd EXCEPT ![t] = [i \in Fd |-> IF i \in closed THEN NULL ELSE @[i]]]
         /\ f_refcount' = files_destroy(f_refcount, gone)
  /\ ret' = 0
  /\ UNCHANGED <<live, close_on_exec, freed, wild>>

\* sys_fork: files_create gives the child a clear close_on_exec.
sys_fork(t, u) ==
  /\ Calls(t) /\ u \notin live
  /\ live' = live \cup {u}
  /\ fd' = [fd EXCEPT ![u] = fd[t]]
  /\ f_refcount' = files_clone(f_refcount, fd[t])
  /\ close_on_exec' = [close_on_exec EXCEPT ![u] = {}]
  /\ ret' = 0
  /\ UNCHANGED <<freed, wild>>

\* sys_fork that fails.  The child began as a copy of its parent.  If mm_clone
\* fails, child->files is still the parent's, and it is what err destroys; if
\* files_clone fails it is NULL; later it is the child's own.  A process whose
\* table is gone is not followed further.
sys_fork_err(t) ==
  /\ Calls(t)
  /\ \/ /\ f_refcount' = files_destroy(f_refcount, fd[t])
        /\ fd' = [fd EXCEPT ![t] = Empty]
        /\ freed' = freed \cup {t}
        /\ ret' = ENOMEM
        /\ UNCHANGED <<live, close_on_exec, wild>>
     \/ Fails(ENOMEM)
     \/ /\ f_refcount' = files_destroy(files_clone(f_refcount, fd[t]), fd[t])
        /\ ret' = ENOMEM
        /\ UNCHANGED <<live, fd, close_on_exec, freed, wild>>

\* sys_exit, and the parent's waitpid, which makes the task free for reuse.
sys_exit(t) ==
  /\ Calls(t)
  /\ live' = live \ {t}
  /\ fd' = [fd EXCEPT ![t] = Empty]
  /\ f_refcount' = files_destroy(f_refcount, fd[t])
  /\ close_on_exec' = [close_on_exec EXCEPT ![t] = {}]
  /\ ret' = 0
  /\ UNCHANGED <<freed, wild>>

Next ==
  \E t \in Task :
    \/ sys_open(t) \/ sys_pipe(t) \/ sys_exec(t) \/ sys_exit(t) \/ sys_fork_err(t)
    \/ fcntl_outside(t)
    \/ \E u \in Task : sys_fork(t, u)
    \/ \E i \in Fd :
         \/ sys_close(t, i) \/ sys_dup(t, i)
         \/ \E j \in Fd : sys_dup2(t, i, j)
         \/ \E on \in BOOLEAN : fcntl_setfd(t, i, on)

Spec == Init /\ [][Next]_vars

-----------------------------------------------------------------------------
(* Properties.                                                             *)

\* Descriptors hold files, no count is negative, and a count is never larger
\* than all tables together could make it.
TypeOK ==
  /\ live \subseteq Task /\ freed \subseteq Task /\ wild \subseteq Task
  /\ fd \in [Task -> [Fd -> File \cup {NULL}]]
  /\ close_on_exec \in [Task -> SUBSET Fd]
  /\ f_refcount \in [File -> 0 .. Cardinality(Task) * OPEN_MAX]
  /\ ret \in Fd \cup {EMFILE, ENOMEM, EBADF}

\* Types are right and f_refcount is the number of descriptors, over all
\* processes, that refer to the file: a file in use is never freed, and the
\* last close frees it.  Nothing is said once fcntl has written outside the
\* table; there the memory of the files_struct is no longer known.
RefsExact ==
  wild = {} =>
    /\ TypeOK
    /\ \A f \in File :
         f_refcount[f] = Cardinality({p \in live \X Fd : fd[p[1]][p[2]] = f})

\* A call that fails, for want of a descriptor, of memory or of a file behind
\* its descriptor, leaves every descriptor and every count as it was: sys_open
\* puts the file it opened, sys_pipe takes back the read end it has installed
\* and puts both files once, sys_fork destroys the table it has cloned.  The
\* fork whose mm_clone fails is the exception: it frees its caller's table.
FailureLeavesNoTrace ==
  [][ret' < 0 /\ freed' = freed => UNCHANGED <<live, fd, close_on_exec, f_refcount>>]_vars

=============================================================================
