-------------------------------- MODULE Pipe --------------------------------
(***************************************************************************)
(* Anonymous pipes, fs/pipe.c, with the file references of fs/vfs.c that   *)
(* decide when an end is released and the sleep queues of process.c at     *)
(* pointer level.                                                          *)
(*                                                                         *)
(* System calls run with interrupts off, so a call is one step up to the   *)
(* point where it sleeps, and one more step each time it is resumed.  Any  *)
(* task that is RUNNING may be the next to get the CPU, and so may tasks   *)
(* that have nothing to do with the pipe.                                  *)
(*                                                                         *)
(* When a task goes to sleep and no task at all is runnable, schedule()    *)
(* idles: it turns interrupts on, halts until one arrives and returns to   *)
(* the sleeper, which goes on although it is SLEEPING and queued.  From    *)
(* there until it returns to its program its call can be interrupted.      *)
(***************************************************************************)
EXTENDS KList, Integers, Sequences, FiniteSets, FiniteSetsExt

CONSTANTS
  Task,
  RD, WR,            \* rd_wait and wr_wait
  Readers, Writers,  \* the tasks that hold the ends at first
  Signals,           \* what other tasks send: "ignored", "fatal"
  CAPACITY,          \* PIPE_BUF
  Counts,            \* the counts of read and write calls
  MAX_KILLS,         \* bound: signals sent by kill
  MAX_IDLES,         \* bound: how often schedule() idles
  LABELS             \* a byte is its place in the stream modulo LABELS

ASSUME PipeConstants ==
  /\ Readers \subseteq Task /\ Readers # {}
  /\ Writers \subseteq Task /\ Writers # {}
  /\ RD # WR /\ {RD, WR} \cap Task = {}
  /\ Signals \subseteq {"ignored", "fatal"}
  /\ CAPACITY \in Nat \ {0}
  /\ Counts \subseteq Nat \ {0} /\ IsFiniteSet(Counts) /\ Counts # {}
  /\ MAX_KILLS \in Nat /\ MAX_IDLES \in Nat
  /\ LABELS \in Nat \ 0 .. CAPACITY

VARIABLES
  buf, head, tail, size, readers, writers,   \* struct pipe_inode_info
  waits,      \* links of wait_entry, in rd_wait and wr_wait
  rfile,      \* the tasks with the read end open: its f_refcount is their number
  wfile,      \* the same for the write end
  state,      \* state of each task, "unborn" before it is forked
  pc,         \* where it is: "user", "exited", in a call ("read", "write"), or
              \* there between a look at the ring and sleep_on
  count,      \* the count argument of its call
  written,    \* what its pipe_write has written
  pending,    \* its pending signals
  kills,      \* bound and history: the signals sent by kill
  idles,      \* bound and history: the times schedule() has idled
  awake,      \* the task that schedule() idled for and that has the CPU since
  kif,        \* the tasks whose call runs with interrupts on
  sent,       \* label of the next byte written
  got         \* history: the bytes the latest pipe_read returned

ring == <<buf, head, tail, size, sent, got>>
ends == <<readers, writers, rfile, wfile>>
procs == <<waits, state, pc, count, written, pending, kills>>
cpu == <<idles, awake, kif>>
vars == <<ring, ends, procs, cpu>>

Node == Task \cup {RD, WR}
Slot == 0 .. CAPACITY - 1

\* The places in pipe_read and pipe_write: asleep or at the top of the loop,
\* and with interrupts on also before sleep_on and before the loop's next turn.
InCall == {"read", "read_sleep", "write", "write_sleep", "write_again"}

\* vfs_pipe, when the programs have passed the ends on and closed the rest.
Init ==
  /\ buf = [k \in Slot |-> 0]
  /\ head = 0 /\ tail = 0 /\ size = 0
  /\ readers = 1 /\ writers = 1
  /\ waits = list_init(Node)
  /\ rfile = Readers /\ wfile = Writers
  /\ state = [t \in Task |-> IF t \in Readers \cup Writers THEN "RUNNING" ELSE "unborn"]
  /\ pc = [t \in Task |-> "user"]
  /\ count = [t \in Task |-> 0]
  /\ written = [t \in Task |-> 0]
  /\ pending = [t \in Task |-> {}]
  /\ kills = 0
  /\ idles = 0 /\ awake = {} /\ kif = {}
  /\ sent = 0
  /\ got = <<>>

-----------------------------------------------------------------------------
(* sleep_on and wake_up on w, the wait queues and the states of the tasks. *)

Now == [links |-> waits, state |-> state]

\* Followed as long as each queue is empty or begins with a task: what wake_up
\* does on one that is broken so far that it does not is not modelled.
Becomes(w) ==
  /\ \A q \in {RD, WR} : w.links.next[q] \in Task \cup {q}
  /\ waits' = w.links /\ state' = w.state

\* sleep_on up to its call of schedule().
sleep_on(w, t, q) ==
  [links |-> list_add_tail(w.links, t, q),
   state |-> [w.state EXCEPT ![t] = "SLEEPING"]]


\* The first task of the queue only.
wake_up(w, q) ==
  IF list_empty(w.links, q) THEN w
  ELSE LET t == w.links.next[q]
       IN  [links |-> list_del(w.links, t),
            state |-> [w.state EXCEPT ![t] = "RUNNING"]]

-----------------------------------------------------------------------------
(* The ring.                                                               *)

\* The bytes in the ring, oldest first.
Contents == [i \in 1 .. size |-> buf[(tail + i - 1) % CAPACITY]]

\* Faulty: the free space is counted one too large.
pipe_avail_plus_one == CAPACITY - size + 1

pipe_avail == CAPACITY - size

\* The copying loop of pipe_write: n bytes from head on.
ring_put(n) ==
  /\ buf' = [k \in Slot |-> LET i == (k - head) % CAPACITY
                            IN  IF i < n THEN (sent + i) % LABELS ELSE buf[k]]
  /\ head' = (head + n) % CAPACITY
  /\ size' = size + n
  /\ sent' = (sent + n) % LABELS
  /\ UNCHANGED <<tail, got>>

\* The copying loop of pipe_read.
ring_get(n) ==
  /\ got' = [i \in 1 .. n |-> buf[(tail + i - 1) % CAPACITY]]
  /\ tail' = (tail + n) % CAPACITY
  /\ size' = size - n
  /\ UNCHANGED <<buf, head, sent>>

-----------------------------------------------------------------------------
(* read and write.                                                         *)

Return(t) ==
  /\ pc' = [pc EXCEPT ![t] = "user"]
  /\ count' = [count EXCEPT ![t] = 0]
  /\ written' = [written EXCEPT ![t] = 0]
  /\ kif' = kif \ {t}
  /\ UNCHANGED <<idles, awake>>

\* The call of t is at p, with done of its n bytes transferred.
Stop(t, p, n, done) ==
  /\ pc' = [pc EXCEPT ![t] = p]
  /\ count' = [count EXCEPT ![t] = n]
  /\ written' = [written EXCEPT ![t] = done]

\* schedule() when t has gone to sleep: another task gets the CPU or, when
\* none is runnable, t itself goes on after sti and hlt.
schedule(t) ==
  \/ awake' = {} /\ UNCHANGED <<idles, kif>>
  \/ /\ \A u \in Task : state'[u] # "RUNNING"
     /\ idles < MAX_IDLES /\ idles' = idles + 1
     /\ awake' = {t} /\ kif' = kif \cup {t}

\* pipe_read of n bytes, from the top of its loop until it returns or sleeps.
\* With interrupts on, t may lose the CPU before it sleeps.
pipe_read(t, n) ==
  \/ /\ size > 0
     /\ ring_get(Min({n, size}))
     /\ Becomes(wake_up(Now, WR))
     /\ Return(t)
  \/ /\ size = 0 /\ writers = 0   \* EOF
     /\ Return(t)
     /\ UNCHANGED <<ring, waits, state>>
  \/ /\ size = 0 /\ writers # 0 /\ t \notin kif
     /\ Becomes(sleep_on(Now, t, RD))
     /\ Stop(t, "read", n, 0)
     /\ schedule(t)
     /\ UNCHANGED ring
  \/ /\ size = 0 /\ writers # 0 /\ t \in kif
     /\ Stop(t, "read_sleep", n, 0)
     /\ UNCHANGED <<ring, waits, state, cpu>>

\* Faulty: pipe_write does not wake a reader.
pipe_write_silent(t, n, done) ==
  LET k == Min({n - done, pipe_avail})
  IN  /\ IF k > 0 THEN ring_put(k) ELSE UNCHANGED ring
      /\ \/ done + k = n /\ Return(t) /\ UNCHANGED <<waits, state>>
         \/ /\ done + k # n /\ t \notin kif
            /\ Becomes(sleep_on(Now, t, WR))
            /\ Stop(t, "write", n, done + k)
            /\ schedule(t)

\* pipe_write of n bytes with done of them written, from the top of its loop.
\* When bytes remain the ring is full, and with interrupts off the loop's next
\* turn sleeps.  With interrupts on, t may lose the CPU before that turn, and
\* between the turn's look at the ring and sleep_on.
pipe_write(t, n, done) ==
  LET k    == Min({n - done, pipe_avail})
      woke == IF k > 0 THEN wake_up(Now, RD) ELSE Now
  IN  /\ IF k > 0 THEN ring_put(k) ELSE UNCHANGED ring
      /\ \/ done + k = n /\ Return(t) /\ Becomes(woke)
         \/ /\ done + k # n /\ t \notin kif
            /\ Becomes(sleep_on(woke, t, WR))
            /\ Stop(t, "write", n, done + k)
            /\ schedule(t)
         \/ /\ done + k # n /\ t \in kif
            /\ Becomes(woke)
            /\ Stop(t, IF k > 0 THEN "write_again" ELSE "write_sleep", n, done + k)
            /\ UNCHANGED cpu

\* t has the CPU: it came back from an idle schedule(), or it is runnable.
Runs(t) == IF awake = {} THEN state[t] = "RUNNING" ELSE t \in awake

InUser(t) == Runs(t) /\ pc[t] = "user"

sys_read(t, n) ==
  /\ InUser(t) /\ t \in rfile
  /\ pipe_read(t, n)
  /\ UNCHANGED <<ends, pending, kills>>

sys_write(t, n) ==
  /\ InUser(t) /\ t \in wfile /\ readers # 0
  /\ pipe_write(t, n, 0)
  /\ UNCHANGED <<ends, pending, kills>>

\* No reader is left: sys_kill with SIGPIPE, and -EPIPE.
sys_write_epipe(t) ==
  /\ InUser(t) /\ t \in wfile /\ readers = 0
  /\ pending' = [pending EXCEPT ![t] = @ \cup {"fatal"}]
  /\ state' = [state EXCEPT ![t] = "RUNNING"]
  /\ UNCHANGED <<ring, ends, waits, pc, count, written, kills, cpu>>

-----------------------------------------------------------------------------
(* close and exit.                                                         *)


\* The queues after t has closed the write end, or the read end, on w.  Only
\* the last reference releases it.
pipe_write_release(w, t) == IF wfile = {t} THEN wake_up(w, RD) ELSE w
pipe_read_release(w, t) == IF rfile = {t} THEN wake_up(w, WR) ELSE w

\* Faulty: every close of the read end counts as a reader less.
closes_read_each(t) ==
  /\ rfile' = rfile \ {t}
  /\ readers' = IF t \in rfile THEN Max({readers - 1, 0}) ELSE readers

closes_read(t) ==
  /\ rfile' = rfile \ {t}
  /\ readers' = IF rfile = {t} THEN readers - 1 ELSE readers

closes_write(t) ==
  /\ wfile' = wfile \ {t}
  /\ writers' = IF wfile = {t} THEN writers - 1 ELSE writers

sys_close_read(t) ==
  /\ InUser(t) /\ t \in rfile
  /\ closes_read(t)
  /\ Becomes(pipe_read_release(Now, t))
  /\ UNCHANGED <<ring, writers, wfile, pc, count, written, pending, kills, cpu>>

sys_close_write(t) ==
  /\ InUser(t) /\ t \in wfile
  /\ closes_write(t)
  /\ Becomes(pipe_write_release(Now, t))
  /\ UNCHANGED <<ring, readers, rfile, pc, count, written, pending, kills, cpu>>

\* sys_exit: files_destroy closes what is open, the read end first.
sys_exit(t) ==
  /\ closes_read(t)
  /\ closes_write(t)
  /\ LET dead == [Now EXCEPT !.state[t] = "ZOMBIE"]
     IN  Becomes(pipe_write_release(pipe_read_release(dead, t), t))
  /\ pc' = [pc EXCEPT ![t] = "exited"]
  /\ count' = [count EXCEPT ![t] = 0]
  /\ written' = [written EXCEPT ![t] = 0]
  /\ pending' = [pending EXCEPT ![t] = {}]
  /\ awake' = {} /\ kif' = kif \ {t}
  /\ UNCHANGED <<ring, kills, idles>>

exit(t) == InUser(t) /\ sys_exit(t)

\* sys_fork: the child gets a reference to each end its parent has open.
sys_fork(t, u) ==
  /\ InUser(t) /\ state[u] = "unborn"
  /\ state' = [state EXCEPT ![u] = "RUNNING"]
  /\ rfile' = IF t \in rfile THEN rfile \cup {u} ELSE rfile
  /\ wfile' = IF t \in wfile THEN wfile \cup {u} ELSE wfile
  /\ pending' = [pending EXCEPT ![u] = pending[t]]
  /\ UNCHANGED <<ring, readers, writers, waits, pc, count, written, kills, cpu>>

-----------------------------------------------------------------------------
(* Signals and the CPU.                                                    *)

\* sys_kill, by another task or by t itself.  A sleeper is made RUNNING, and
\* stays queued.
sys_kill(t, s) ==
  /\ kills < MAX_KILLS /\ kills' = kills + 1
  /\ \A u \in awake : pc[u] = "user"
  /\ state[t] \in {"RUNNING", "SLEEPING"} /\ pc[t] # "exited"
  /\ pending' = [pending EXCEPT ![t] = @ \cup {s}]
  /\ state' = [state EXCEPT ![t] = "RUNNING"]
  /\ UNCHANGED <<ring, ends, waits, pc, count, written, cpu>>

\* The rest of a call.
continues(t) ==
  \/ pc[t] = "read" /\ pipe_read(t, count[t])
  \/ pc[t] \in {"write", "write_again"} /\ pipe_write(t, count[t], written[t])
  \/ \E c \in {<<"read_sleep", "read", RD>>, <<"write_sleep", "write", WR>>} :
       /\ pc[t] = c[1]
       /\ Becomes(sleep_on(Now, t, c[3]))
       /\ Stop(t, c[2], count[t], written[t])
       /\ schedule(t)
       /\ UNCHANGED ring

\* t is switched to: signal_deliver, which leaves nothing pending, and then
\* the rest of sleep_on_interruptible, which looks for pending signals.
resume(t) ==
  /\ awake = {} /\ state[t] = "RUNNING"
  /\ \/ /\ "fatal" \in pending[t] /\ pc[t] # "exited"
        /\ sys_exit(t)
     \/ /\ "fatal" \notin pending[t]
        /\ pending' = [pending EXCEPT ![t] = {}]
        /\ \/ continues(t)
           \/ /\ pc[t] = "user" /\ pending[t] # {}
              /\ UNCHANGED <<ring, waits, state, pc, count, written, cpu>>
        /\ UNCHANGED <<ends, kills>>

\* schedule() has idled for t, and t goes on.  Nobody was switched to, so no
\* signal was delivered, and sleep_on_interruptible may find one: -EINTR, or
\* the count of what is written.
goes_on(t) ==
  /\ t \in awake
  /\ \/ /\ pc[t] \in {"read", "write"} /\ pending[t] # {}
        /\ Return(t)
        /\ UNCHANGED <<ring, waits, state>>
     \/ /\ pc[t] \in {"read", "write"} => pending[t] = {}
        /\ continues(t)
  /\ UNCHANGED <<ends, pending, kills>>

\* A timer interrupt takes the CPU from a task that schedule() idled for.  It
\* is not on the runqueue, and gets the CPU back when it is woken.
interrupted(t) ==
  /\ t \in awake
  /\ awake' = {}
  /\ UNCHANGED <<ring, ends, procs, idles, kif>>

Program(t) ==
  \/ \E n \in Counts : sys_read(t, n) \/ sys_write(t, n)
  \/ sys_write_epipe(t)
  \/ sys_close_read(t)
  \/ sys_close_write(t)
  \/ exit(t)
  \/ \E u \in Task : sys_fork(t, u)

Next ==
  \E t \in Task :
    \/ Program(t)
    \/ resume(t)
    \/ goes_on(t)
    \/ interrupted(t)
    \/ \E s \in Signals : sys_kill(t, s)

Spec == Init /\ [][Next]_vars

\* A task that is runnable gets the CPU, and no program computes for ever.
LiveSpec == Spec /\ \A t \in Task : WF_vars(resume(t)) /\ WF_vars(Program(t))

-----------------------------------------------------------------------------
(* Properties.                                                             *)

\* The ring's indices stay in the buffer and its size within the capacity,
\* and the counts of readers and writers do not go below zero.
TypeOK ==
  /\ buf \in [Slot -> 0 .. LABELS - 1]
  /\ head \in Slot /\ tail \in Slot
  /\ size \in 0 .. CAPACITY
  /\ readers \in 0 .. 1 /\ writers \in 0 .. 1
  /\ waits \in Lists(Node)
  /\ rfile \subseteq Task /\ wfile \subseteq Task
  /\ state \in [Task -> {"unborn", "RUNNING", "SLEEPING", "ZOMBIE"}]
  /\ pc \in [Task -> InCall \cup {"user", "exited"}]
  /\ count \in [Task -> 0 .. Max(Counts)]
  /\ written \in [Task -> 0 .. Max(Counts)]
  /\ pending \in [Task -> SUBSET {"ignored", "fatal"}]
  /\ kills \in 0 .. MAX_KILLS /\ idles \in 0 .. MAX_IDLES
  /\ awake \subseteq Task /\ kif \subseteq Task
  /\ sent \in 0 .. LABELS - 1
  /\ got \in UNION {[1 .. n -> 0 .. LABELS - 1] : n \in 0 .. CAPACITY}

Stream == INSTANCE ByteStream WITH queue <- Contents

\* The pipe is a bounded stream: whatever calls interleave, wherever the ring
\* wraps and whatever signals arrive, pipe_read returns the bytes in the order
\* in which pipe_write stored them, none lost, none twice.
IsStream == Stream!Spec

\* The pipe, its buffer and its wait queues are freed only when nobody is in
\* pipe_read or pipe_write.
FreedUnused ==
  readers = 0 /\ writers = 0 => \A t \in Task : pc[t] \notin InCall

\* Types are right and, as long as no kill has woken a sleeper and schedule()
\* has not idled, the tasks that sleep in pipe_read are the ones on rd_wait,
\* those that sleep in pipe_write the ones on wr_wait: both queues are intact
\* circles, and a wake_up finds somebody who waits.  (A sleeper that idled
\* goes on with its wait_entry linked, and links it again when it sleeps.)
QueuesExactUntilIdle ==
  LET asleep(p) == {t \in Task : state[t] = "SLEEPING" /\ pc[t] = p}
      holds(q, S) == \E r \in [1 .. Cardinality(S) -> S] : IsList(waits, S \cup {q}, q, r)
  IN  /\ TypeOK
      /\ kills = 0 /\ idles = 0 =>
           /\ holds(RD, asleep("read"))
           /\ holds(WR, asleep("write"))
           /\ \A t \in Task : state[t] # "SLEEPING" => waits.next[t] = t

\* The ends are still with the tasks that got them first.
Unshared == \A t \in Task : state[t] # "unborn" => t \in Readers \cup Writers

\* Between one reader and one writer nobody sleeps for nothing, as long as no
\* kill has woken a sleeper and schedule() has not idled: while a task sleeps
\* in pipe_read there is nothing to read and a writer is left, or it has been
\* woken and not yet run; while one sleeps in pipe_write the ring is full.
\* (wake_up wakes one task and the woken one passes nothing on, so among
\* several readers or writers this does not hold; after an idle, a reader can
\* lose the CPU between its look at the ring and sleep_on.)
NoLostWakeupUntilIdle ==
  kills = 0 /\ idles = 0 /\ Unshared =>
    /\ (\E t \in Task : state[t] = "SLEEPING" /\ pc[t] = "read") =>
         \/ size = 0 /\ writers > 0
         \/ \E t \in Task : state[t] = "RUNNING" /\ pc[t] = "read"
    /\ (\E t \in Task : state[t] = "SLEEPING" /\ pc[t] = "write") =>
         \/ size = CAPACITY
         \/ \E t \in Task : state[t] = "RUNNING" /\ pc[t] = "write"


=============================================================================
