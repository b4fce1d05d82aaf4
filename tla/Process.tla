------------------------------ MODULE Process ------------------------------
(***************************************************************************)
(* The life of a process, kernel/process.c: fork, exit, waitpid, kill,     *)
(* sigaction and signal_deliver, on the runqueue, the task list, the       *)
(* family lists and the wait queues, all at the level of their pointers.   *)
(* One wait queue is waitpid's, which nothing ever wakes; the other stands *)
(* for the queue of a pipe or of the serial line, which a writer or an     *)
(* interrupt wakes.  Task structs come from a slab and are used again: a   *)
(* freed one keeps its contents and whatever still points to it.           *)
(*                                                                         *)
(* The kernel runs with interrupts off, so a step is the code from one     *)
(* point at which the CPU can change hands to the next.  Interrupts and    *)
(* their acknowledgement are in module Sched.                              *)
(***************************************************************************)
EXTENDS KList, Integers, FiniteSets

CONSTANTS
  Task,       \* the task structs of the slab
  InitTask,   \* the one that kmain fills in for pid 1
  KT,         \* kernel_task
  NULL,
  RQ, TL, WQ, \* runqueue, task_list and waitpid's wait_q
  DQ,         \* the wait queue of a device or pipe
  Sig,        \* the signals that processes send
  PID_MAX,
  MAX_CALLS   \* bound on the calls of fork, kill, sigaction and read together

ASSUME ProcessConstants ==
  /\ InitTask \in Task
  /\ {KT, NULL, RQ, TL, WQ, DQ} \cap Task = {} /\ WQ # DQ
  /\ Sig \subseteq {"KILL", "TERM", "CHLD", "STOP"}
  /\ PID_MAX \in Nat \ (0 .. 2)
  /\ MAX_CALLS \in Nat

VARIABLES
  free,      \* task structs on the slab's free list
  state,
  pid,
  next_pid,
  parent,
  rq,        \* links of run_list
  tl,        \* links of task_list
  family,    \* links of children and sibling
  wq,        \* links of wait_entry
  pending,   \* pending signals
  actions,   \* sa_handler of each signal; a handler does no more than IGN
  current,
  pc,        \* where the task goes on
  wanted,    \* the pid argument and the WNOHANG option of its waitpid
  switched,  \* it left the CPU in context_switch, which delivers signals
  crash,     \* why the kernel has stopped, or why what follows is undefined
  stale,     \* history: a wait_entry that its task had left on a queue was met
  calls      \* the calls of fork, kill, sigaction and read so far

vars == <<free, state, pid, next_pid, parent, rq, tl, family, wq, pending,
          actions, current, pc, wanted, switched, crash, stale, calls>>

RNode == Task \cup {RQ}
WNode == Task \cup {WQ, DQ}
LNode == Task \cup {KT, TL}
Children(t) == <<"children", t>>
Sibling(t)  == <<"sibling", t>>
FNode == {Children(t) : t \in Task \cup {KT}} \cup {Sibling(t) : t \in Task}

AnyPid == 0   \* waitpid(-1)
NoWait == [pid |-> AnyPid, hang |-> TRUE]

\* list_init of one node that is about to be used.
init_node(L, n) ==
  [next |-> [L.next EXCEPT ![n] = n], prev |-> [L.prev EXCEPT ![n] = n]]

\* The nodes a list_for_each visits: the circle from h, without h.
Visited(L, h) ==
  LET step[k \in Nat] == IF k = 0 THEN L.next[h] ELSE L.next[step[k - 1]]
      ends == CHOOSE k \in 0 .. Cardinality(DOMAIN L.next) :
                step[k] = h /\ \A j \in 0 .. k - 1 : step[j] # h
  IN  [k \in 1 .. ends |-> step[k - 1]]

TaskOf(n) == n[2]

\* sched_init, then kmain's task_create, sched_add and schedule for init.
Init ==
  /\ free = Task \ {InitTask}
  /\ state = [t \in Task |-> IF t = InitTask THEN "RUNNING" ELSE "ZOMBIE"]
  /\ pid = [t \in Task |-> IF t = InitTask THEN 1 ELSE 0]
  /\ next_pid = 2
  /\ parent = [t \in Task |-> IF t = InitTask THEN KT ELSE NULL]
  /\ rq = list_add_tail(list_init(RNode), InitTask, RQ)
  /\ tl = list_add_tail(list_add(list_init(LNode), KT, TL), InitTask, TL)
  /\ family = list_add_tail(list_init(FNode), Sibling(InitTask), Children(KT))
  /\ wq = list_init(WNode)
  /\ pending = [t \in Task |-> {}]
  /\ actions = [t \in Task |-> [s \in Sig |-> "DFL"]]
  /\ current = InitTask
  /\ pc = [t \in Task |-> "user"]
  /\ wanted = [t \in Task |-> NoWait]
  /\ switched = [t \in Task |-> FALSE]
  /\ crash = "no"
  /\ stale = FALSE
  /\ calls = 0

-----------------------------------------------------------------------------
(* The scheduler, as these operations use it.                              *)

Bounded == calls < MAX_CALLS

At(p) == crash = "no" /\ pc[current] = p /\ ~switched[current]

Rotated(r) == list_add_tail(list_del(r, r.next[RQ]), r.next[RQ], RQ)

\* schedule() when the runqueue links are r.  An empty runqueue and a caller
\* that is chosen itself return at once; otherwise the caller leaves the CPU
\* and will go on, after signal_deliver, at p.
schedule_then(r, p) ==
  /\ rq' = IF list_empty(r, RQ) THEN r ELSE Rotated(r)
  /\ pc' = [pc EXCEPT ![current] = p]
  /\ IF list_empty(r, RQ) \/ r.next[RQ] = current
     THEN /\ switched' = [switched EXCEPT ![current] = FALSE]
          /\ UNCHANGED current
     ELSE /\ current' = r.next[RQ]
          /\ switched' = [switched EXCEPT ![current] = TRUE]

\* The tick that ends the time slice of the current program.
sched_tick ==
  /\ At("user")
  /\ schedule_then(rq, "user")
  /\ UNCHANGED <<free, state, pid, next_pid, parent, tl, family, wq, pending,
                 actions, wanted, crash, stale, calls>>

-----------------------------------------------------------------------------
(* fork.                                                                   *)

\* Faulty: the child is not put on its parent's list.
fork_family_no_sibling(t) == init_node(init_node(family, Children(t)), Sibling(t))

\* The family links when t is forked by the current task.
fork_family(t) ==
  list_add_tail(init_node(init_node(family, Children(t)), Sibling(t)),
                Sibling(t), Children(current))

\* alloc_pid's successor.
pid_after(p) == IF p + 1 >= PID_MAX THEN 2 ELSE p + 1

sys_fork(t) ==
  /\ At("user") /\ t \in free /\ Bounded
  /\ calls' = calls + 1
  /\ free' = free \ {t}
  /\ pid' = [pid EXCEPT ![t] = next_pid]
  /\ next_pid' = pid_after(next_pid)
  /\ state' = [state EXCEPT ![t] = "RUNNING"]
  /\ parent' = [parent EXCEPT ![t] = current]
  /\ tl' = list_add_tail(init_node(tl, t), t, TL)
  /\ family' = fork_family(t)
  /\ wq' = init_node(wq, t)
  /\ rq' = list_add_tail(init_node(rq, t), t, RQ)
  /\ pending' = [pending EXCEPT ![t] = pending[current]]
  /\ actions' = [actions EXCEPT ![t] = actions[current]]
  /\ pc' = [pc EXCEPT ![t] = "user"]
  /\ switched' = [switched EXCEPT ![t] = FALSE]
  /\ UNCHANGED <<current, wanted, crash, stale>>

\* An allocation of sys_fork fails: the copy of the address space, of the
\* files, of the signals, or the kernel stack.  The child's struct began as a
\* copy of its parent's, and what has not been replaced in it by then is freed
\* through it: the parent's kernel stack in all cases but the last, in which
\* all that is freed is the child's.
sys_fork_fails(t, what) ==
  /\ At("user") /\ t \in free /\ Bounded
  /\ calls' = calls + 1
  /\ next_pid' = pid_after(next_pid)
  /\ tl' = init_node(tl, t)
  /\ family' = init_node(init_node(family, Children(t)), Sibling(t))
  /\ wq' = init_node(wq, t)
  /\ rq' = init_node(rq, t)
  /\ crash' = IF what = "kstack" THEN crash ELSE "freed"
  /\ UNCHANGED <<free, state, pid, parent, pending, actions, current, pc, wanted,
                 switched, stale>>

-----------------------------------------------------------------------------
(* Signals.                                                                *)

\* find_task_by_pid: the first of the task list with that pid, or NULL.
find_task_by_pid(p) ==
  LET seq  == Visited(tl, TL)
      hits == {i \in DOMAIN seq :
                 IF seq[i] = KT THEN p = 0 ELSE pid[seq[i]] = p}
  IN  IF hits = {} THEN NULL
      ELSE seq[CHOOSE i \in hits : \A j \in hits : i <= j]

\* wake_up_process on the state and runqueue values that a call has reached.
woken(st, t) == [st EXCEPT ![t] = "RUNNING"]
queued(r, t) == list_add_tail(r, t, RQ)

\* sys_kill of a task that exists.
sys_kill(p, s) ==
  /\ At("user") /\ Bounded /\ calls' = calls + 1
  /\ LET t == find_task_by_pid(p)
     IN  /\ t \in Task
         /\ pending' = [pending EXCEPT ![t] = @ \cup {s}]
         /\ IF state[t] = "SLEEPING"
            THEN state' = woken(state, t) /\ rq' = queued(rq, t)
            ELSE UNCHANGED <<state, rq>>
  /\ UNCHANGED <<free, pid, next_pid, parent, tl, family, wq, actions, current,
                 pc, wanted, switched, crash, stale>>

sys_sigaction(s, h) ==
  /\ At("user") /\ Bounded /\ calls' = calls + 1
  /\ s \notin {"KILL", "STOP"}
  /\ actions' = [actions EXCEPT ![current][s] = h]
  /\ UNCHANGED <<free, state, pid, next_pid, parent, rq, tl, family, wq,
                 pending, current, pc, wanted, switched, crash, stale>>

-----------------------------------------------------------------------------
(* exit.                                                                   *)

\* Faulty: the children keep their parent.
exit_parent_kept == parent

\* The parents after the loop that reparents the children to init.
exit_parent ==
  LET seq  == Visited(family, Children(current))
      kids == {TaskOf(seq[i]) : i \in DOMAIN seq}
  IN  [t \in Task |-> IF t \in kids THEN find_task_by_pid(1) ELSE parent[t]]

\* Faulty: the runqueue stays as it is.
exit_runqueue_stays(r) == r

\* The runqueue when sys_exit has woken its parent and removed itself.
exit_runqueue(r) == list_del(queued(r, parent[current]), current)

\* sys_exit of the current task, whose signals are then pend.  The parent gets
\* SIGCHLD, which wakes it if it sleeps, and is woken again.  init's parent is
\* kernel_task, which has no signal_struct for sys_kill to lock.
sys_exit(pend) ==
  IF parent[current] = KT
  THEN /\ crash' = "null"
       /\ state' = [state EXCEPT ![current] = "ZOMBIE"]
       /\ pending' = pend
       /\ UNCHANGED <<rq, parent, current, pc, switched, stale>>
  ELSE LET tgt == find_task_by_pid(pid[parent[current]])
           st  == [state EXCEPT ![current] = "ZOMBIE"]
           asleep == st[tgt] = "SLEEPING"
       IN  /\ pending' = [pend EXCEPT ![tgt] = @ \cup {"CHLD"}]
           /\ state' = woken(IF asleep THEN woken(st, tgt) ELSE st,
                             parent[current])
           /\ parent' = exit_parent
           /\ schedule_then(exit_runqueue(IF asleep THEN queued(rq, tgt) ELSE rq),
                            "bug")
           /\ stale' = (stale \/ wq.next[current] # current)
           /\ UNCHANGED crash

exit_syscall ==
  /\ At("user")
  /\ sys_exit(pending)
  /\ UNCHANGED <<free, pid, next_pid, tl, family, wq, actions, wanted, calls>>

\* schedule() has returned to sys_exit.
exit_bug ==
  /\ At("bug")
  /\ crash' = "bug"
  /\ UNCHANGED <<free, state, pid, next_pid, parent, rq, tl, family, wq,
                 pending, actions, current, pc, wanted, switched, stale, calls>>

\* The current task is back from context_switch: signal_deliver.  A fatal
\* signal has a smaller number than SIGCHLD and SIGSTOP and is met first.  A
\* handler is a plain call.
signal_deliver ==
  LET acts(s) == s \in pending[current] /\ actions[current][s] = "DFL"
  IN  \/ /\ acts("KILL") \/ acts("TERM")
         /\ sys_exit([pending EXCEPT ![current] = {}])
      \/ /\ ~acts("KILL") /\ ~acts("TERM")
         /\ pending' = [pending EXCEPT ![current] = {}]
         /\ IF acts("STOP")
            THEN /\ state' = [state EXCEPT ![current] = "STOPPED"]
                 /\ rq' = list_del(rq, current)
            ELSE UNCHANGED <<state, rq>>
         /\ switched' = [switched EXCEPT ![current] = FALSE]
         /\ UNCHANGED <<parent, current, pc, crash, stale>>

resume ==
  /\ crash = "no" /\ switched[current]
  /\ signal_deliver
  /\ UNCHANGED <<free, pid, next_pid, tl, family, wq, actions, wanted, calls>>

-----------------------------------------------------------------------------
(* waitpid.                                                                *)

sys_waitpid(p, hang) ==
  /\ At("user")
  /\ pc' = [pc EXCEPT ![current] = "wait"]
  /\ wanted' = [wanted EXCEPT ![current] = [pid |-> p, hang |-> hang]]
  /\ UNCHANGED <<free, state, pid, next_pid, parent, rq, tl, family, wq,
                 pending, actions, current, switched, crash, stale, calls>>

\* Faulty: any child that matches, dead or not.
zombie_any_state ==
  LET seq  == Visited(family, Children(current))
      hits == {i \in DOMAIN seq :
                 wanted[current].pid \in {AnyPid, pid[TaskOf(seq[i])]}}
  IN  IF hits = {} THEN NULL
      ELSE TaskOf(seq[CHOOSE i \in hits : \A j \in hits : i <= j])

\* The first zombie among the children that match, or NULL.
zombie_child ==
  LET seq  == Visited(family, Children(current))
      hits == {i \in DOMAIN seq :
                 /\ wanted[current].pid \in {AnyPid, pid[TaskOf(seq[i])]}
                 /\ state[TaskOf(seq[i])] = "ZOMBIE"}
  IN  IF hits = {} THEN NULL
      ELSE TaskOf(seq[CHOOSE i \in hits : \A j \in hits : i <= j])

\* The contents that the next fork of a freed task struct writes anew.
Wiped(t) ==
  /\ pid' = [pid EXCEPT ![t] = 0]
  /\ parent' = [parent EXCEPT ![t] = NULL]
  /\ pending' = [pending EXCEPT ![t] = {}]
  /\ actions' = [actions EXCEPT ![t] = [s \in Sig |-> "DFL"]]

\* Faulty: the task list keeps the reaped child.
reap_keeps_listed(t) ==
  /\ family' = list_del(family, Sibling(t))
  /\ free' = free \cup {t}
  /\ Wiped(t)
  /\ UNCHANGED tl

\* A zombie is unlinked and destroyed.
reap(t) ==
  /\ tl' = list_del(tl, t)
  /\ family' = list_del(family, Sibling(t))
  /\ free' = free \cup {t}
  /\ Wiped(t)

waitpid_reaps ==
  /\ At("wait") /\ zombie_child # NULL
  /\ reap(zombie_child)
  /\ pc' = [pc EXCEPT ![current] = "user"]
  /\ wanted' = [wanted EXCEPT ![current] = NoWait]
  /\ UNCHANGED <<state, next_pid, rq, wq, current, switched, crash, stale, calls>>

waitpid_nohang ==
  /\ At("wait") /\ zombie_child = NULL /\ ~wanted[current].hang
  /\ pc' = [pc EXCEPT ![current] = "user"]
  /\ wanted' = [wanted EXCEPT ![current] = NoWait]
  /\ UNCHANGED <<free, state, pid, next_pid, parent, rq, tl, family, wq,
                 pending, actions, current, switched, crash, stale, calls>>

\* sleep_on_interruptible(&wait_q), whose result is ignored.
waitpid_sleeps ==
  /\ At("wait") /\ zombie_child = NULL /\ wanted[current].hang
  /\ state' = [state EXCEPT ![current] = "SLEEPING"]
  /\ wq' = list_add_tail(wq, current, WQ)
  /\ schedule_then(list_del(rq, current), "wait")
  /\ stale' = (stale \/ wq.next[current] # current)
  /\ UNCHANGED <<free, pid, next_pid, parent, tl, family, pending, actions,
                 wanted, crash, calls>>

-----------------------------------------------------------------------------
(* The wait queue of a device.                                             *)

\* A read that finds nothing: sleep_on_interruptible(&DQ), when it is called
\* and each time it finds nothing again.  When the runqueue is empty it goes
\* on at once, still linked.
read_sleeps ==
  /\ \/ At("user") /\ Bounded /\ calls' = calls + 1
     \/ At("read") /\ UNCHANGED calls
  /\ state' = [state EXCEPT ![current] = "SLEEPING"]
  /\ wq' = list_add_tail(wq, current, DQ)
  /\ schedule_then(list_del(rq, current), "read")
  /\ stale' = (stale \/ wq.next[current] # current)
  /\ UNCHANGED <<free, pid, next_pid, parent, tl, family, pending, actions,
                 wanted, crash>>

\* It has found something, or a signal is pending.
read_returns ==
  /\ At("read")
  /\ pc' = [pc EXCEPT ![current] = "user"]
  /\ UNCHANGED <<free, state, pid, next_pid, parent, rq, tl, family, wq, pending,
                 actions, current, wanted, switched, crash, stale, calls>>

\* wake_up(&DQ): a program writes to the pipe, or an interrupt arrives while a
\* program runs or schedule() idles.  It takes the first of the queue, if that
\* is a task at all.
wake_up ==
  /\ crash = "no" /\ ~switched[current]
  /\ pc[current] = "user" \/ state[current] = "SLEEPING"
  /\ ~list_empty(wq, DQ)
  /\ LET t == wq.next[DQ]
     IN  IF t \in Task
         THEN /\ wq' = list_del(wq, t)
              /\ state' = woken(state, t)
              /\ rq' = queued(rq, t)
              /\ stale' = (stale \/ state[t] # "SLEEPING")
              /\ UNCHANGED crash
         ELSE crash' = "wild" /\ UNCHANGED <<wq, state, rq, stale>>
  /\ UNCHANGED <<free, pid, next_pid, parent, tl, family, pending, actions, current,
                 pc, wanted, switched, calls>>

-----------------------------------------------------------------------------
Pids == {pid[t] : t \in Task \ free}

KernelStep ==
  \/ resume
  \/ exit_bug
  \/ waitpid_reaps
  \/ waitpid_nohang
  \/ waitpid_sleeps
  \/ read_returns

Next ==
  \/ sched_tick
  \/ \E t \in Task : sys_fork(t)
  \/ \E t \in Task, what \in {"mm", "files", "signal", "kstack"} : sys_fork_fails(t, what)
  \/ \E p \in Pids, s \in Sig : sys_kill(p, s)
  \/ \E s \in Sig, h \in {"DFL", "IGN"} : sys_sigaction(s, h)
  \/ exit_syscall
  \/ \E p \in {AnyPid} \cup Pids, hang \in BOOLEAN : sys_waitpid(p, hang)
  \/ read_sleeps
  \/ wake_up
  \/ KernelStep

Spec == Init /\ [][Next]_vars

-----------------------------------------------------------------------------
(* Properties.                                                             *)

Live == Task \ free

\* Every variable holds what its C counterpart can hold.
TypeOK ==
  /\ free \subseteq Task
  /\ state \in [Task -> {"RUNNING", "SLEEPING", "STOPPED", "ZOMBIE"}]
  /\ pid \in [Task -> 0 .. PID_MAX - 1]
  /\ next_pid \in 1 .. PID_MAX - 1
  /\ parent \in [Task -> Task \cup {KT, NULL}]
  /\ rq \in Lists(RNode) /\ tl \in Lists(LNode)
  /\ family \in Lists(FNode) /\ wq \in Lists(WNode)
  /\ pending \in [Task -> SUBSET (Sig \cup {"CHLD"})]
  /\ actions \in [Task -> [Sig -> {"DFL", "IGN"}]]
  /\ current \in Task
  /\ pc \in [Task -> {"user", "wait", "read", "bug"}]
  /\ switched \in [Task -> BOOLEAN]
  /\ crash \in {"no", "null", "bug", "freed", "wild"} /\ stale \in BOOLEAN
  /\ calls \in 0 .. MAX_CALLS

\* A list is one intact circle through its head and exactly the nodes of S.
Circle(L, h, S) ==
  \E q \in [1 .. Cardinality(S) -> S] : IsList(L, S \cup {h}, h, q)

\* Types are right and the task list, in which find_task_by_pid looks, holds
\* the kernel task and exactly the task structs in use.
TaskListExact == TypeOK /\ Circle(tl, TL, Live \cup {KT})

\* No task struct is freed while a task still calls it its parent, and an
\* exiting task leaves no child behind that still names it: what sys_exit
\* dereferences through current->parent is a task that has not exited.  (Once
\* a left-over wait_entry was met, a task can be woken that has exited.)
ParentsLive ==
  crash = "no" /\ ~stale =>
    \A t \in Live \ {InitTask} :
      parent[t] \in Live /\ state[parent[t]] # "ZOMBIE"

\* The children of a task that has not exited, init excepted, are exactly the
\* ones on its list: sys_exit reparents all of them and waitpid sees each.
\* With the same exception.
ChildrenListed ==
  ~stale =>
    \A p \in Live \ {InitTask} :
      state[p] # "ZOMBIE" =>
        Circle(family, Children(p), {Sibling(t) : t \in {u \in Live : parent[u] = p}})

\* waitpid destroys a task struct only when its task has exited, and only its
\* parent does.
ReapsOwnZombies ==
  [][\A t \in free' \ free : state[t] = "ZOMBIE" /\ parent[t] = current]_vars

\* sys_kill, sys_exit and an idle schedule() let a sleeper go on and leave its
\* wait_entry on its queue.  That does no harm until the entry is met again: as
\* long as no task has slept or exited with such an entry and no wake_up has
\* found one, no freed task struct gets the CPU, and none is what the next
\* wake_up of a pipe or of the serial line will find.
RunsLive == ~stale => current \in Live /\ wq.next[DQ] \in Live \cup {DQ}

=============================================================================
