------------------------------- MODULE Sched -------------------------------
(***************************************************************************)
(* The scheduler and the wait queues of kernel/process.c, with what calls  *)
(* them: the timer interrupt, the interrupt dispatcher and its EOI, a      *)
(* device that wakes a sleeping reader (drivers/serial.c), and the system  *)
(* calls nanosleep (the only caller of sched_yield), read and fork.        *)
(*                                                                         *)
(* There is one CPU.  A system call runs with interrupts off (the int 0x80 *)
(* gate is an interrupt gate), so only the code after the sti of           *)
(* schedule()'s idle path can be interrupted inside the kernel.  pc[t] is  *)
(* where task t stands in its system call; a kernel step is the code       *)
(* between two points at which an interrupt could come in.  Signals, exit  *)
(* and waitpid are in module Process.                                      *)
(***************************************************************************)
EXTENDS KList, Integers, FiniteSets

CONSTANTS
  Task,        \* task structs, kernel_task excepted
  InitTask,    \* the task kmain starts
  RQ, WQ,      \* the heads of the runqueue and of the device's wait queue
  Readers,     \* tasks whose program reads from the device
  Nappers,     \* tasks whose program calls nanosleep
  SLICE,       \* ticks in a time slice (20)
  MAX_NAP,     \* longest nanosleep, in ticks
  SERIAL_BUF,  \* bytes in the device's ring buffer
  BURST        \* most bytes one device interrupt drains from the UART

ASSUME SchedConstants ==
  /\ IsFiniteSet(Task) /\ InitTask \in Task
  /\ RQ \notin Task /\ WQ \notin Task
  /\ Readers \subseteq Task /\ Nappers \subseteq Task
  /\ SLICE \in Nat \ {0}
  /\ MAX_NAP \in Nat
  /\ SERIAL_BUF \in Nat \ {0}
  /\ BURST \in Nat \ {0}

VARIABLES
  rq,          \* the links of run_list and runqueue
  wq,          \* the links of wait_entry and the wait queue
  state,       \* task state; NONE for a task struct not in use
  current,
  time_slice,
  pc,          \* where the task stands
  kif,         \* interrupts are on in the task's kernel code
  irq,         \* the timer handler lies on the task's stack, unfinished
  halted,      \* the CPU waits in hlt
  isr0,        \* IRQ0 is in service at the PIC: no EOI yet
  nap,         \* end - jiffies of the task's nanosleep
  data,        \* bytes in the device's ring buffer
  idled        \* history: schedule() has found the runqueue empty

vars == <<rq, wq, state, current, time_slice, pc, kif, irq, halted, isr0, nap,
          data, idled>>

RNode == Task \cup {RQ}
WNode == Task \cup {WQ}

PC == {"user", "rd_check", "rd_more", "rd_sleep", "rd_sched", "nano"}

\* The state of the machine when kmain's schedule() has switched to init.
Init ==
  /\ rq = list_add_tail(list_init(RNode), InitTask, RQ)
  /\ wq = list_init(WNode)
  /\ state = [t \in Task |-> IF t = InitTask THEN "RUNNING" ELSE "NONE"]
  /\ current = InitTask
  /\ time_slice = [t \in Task |-> SLICE]
  /\ pc = [t \in Task |-> "user"]
  /\ kif = [t \in Task |-> FALSE]
  /\ irq = [t \in Task |-> FALSE]
  /\ halted = FALSE
  /\ isr0 = FALSE
  /\ nap = [t \in Task |-> 0]
  /\ data = 0
  /\ idled = FALSE

-----------------------------------------------------------------------------
\* The current task executes at p.
At(p) == pc[current] = p /\ ~irq[current] /\ ~halted

\* The CPU takes an interrupt: the flag is on, and no unacknowledged IRQ0
\* masks the other lines.
irqs_enabled ==
  /\ ~isr0
  /\ ~irq[current]
  /\ pc[current] = "user" \/ kif[current]

\* schedule() will find the runqueue empty; it will pick its caller.
Idles == list_empty(rq, RQ)
Stays == rq.next[RQ] = current

\* Faulty: the chosen task goes to the head of the queue again.
schedule_lifo(ts) ==
  IF Idles
  THEN /\ halted' = TRUE /\ idled' = TRUE
       /\ time_slice' = ts
       /\ UNCHANGED <<rq, current>>
  ELSE LET next == rq.next[RQ]
       IN  /\ rq' = list_add(list_del(rq, next), next, RQ)
           /\ current' = next
           /\ time_slice' = IF Stays THEN ts ELSE [ts EXCEPT ![next] = SLICE]
           /\ halted' = FALSE
           /\ UNCHANGED idled

\* schedule(), called with time slices ts: halt, or move the first task to
\* the tail and switch to it.
schedule(ts) ==
  IF Idles
  THEN /\ halted' = TRUE /\ idled' = TRUE
       /\ time_slice' = ts
       /\ UNCHANGED <<rq, current>>
  ELSE LET next == rq.next[RQ]
       IN  /\ rq' = list_add_tail(list_del(rq, next), next, RQ)
           /\ current' = next
           /\ time_slice' = IF Stays THEN ts ELSE [ts EXCEPT ![next] = SLICE]
           /\ halted' = FALSE
           /\ UNCHANGED idled

\* schedule() called from kernel code of the current task that goes on at p
\* when the call returns.  The idle path returns with interrupts on.
schedule_then(ts, p) ==
  /\ schedule(ts)
  /\ pc' = [pc EXCEPT ![current] = p]
  /\ kif' = [kif EXCEPT ![current] = @ \/ Idles]

sched_yield_then(p) ==
  schedule_then([time_slice EXCEPT ![current] = 0], p)

sched_add(t) ==
  /\ rq' = list_add_tail(rq, t, RQ)
  /\ state' = [state EXCEPT ![t] = "RUNNING"]

\* wake_up of the device's queue: the first waiter, if there is one.
wake_up ==
  IF list_empty(wq, WQ) THEN UNCHANGED <<rq, wq, state>>
  ELSE LET t == wq.next[WQ]
       IN  wq' = list_del(wq, t) /\ sched_add(t)

-----------------------------------------------------------------------------
(* System calls of the current task.                                       *)

\* Faulty: a trap gate.
int80_trap_gate == TRUE

\* The state of the interrupt flag at the start of a system call: the
\* int 0x80 gate is an interrupt gate.
int80_gate_if == FALSE

\* The scheduler's part of sys_fork: the child has the parent's slice, goes
\* to the tail of the runqueue and starts in user mode.
sys_fork(t) ==
  /\ At("user") /\ state[t] = "NONE"
  /\ sched_add(t)
  /\ time_slice' = [time_slice EXCEPT ![t] = time_slice[current]]
  /\ UNCHANGED <<wq, current, pc, kif, irq, halted, isr0, nap, data, idled>>

sys_nanosleep(n) ==
  /\ At("user") /\ current \in Nappers
  /\ pc' = [pc EXCEPT ![current] = "nano"]
  /\ kif' = [kif EXCEPT ![current] = int80_gate_if]
  /\ nap' = [nap EXCEPT ![current] = n]
  /\ UNCHANGED <<rq, wq, state, current, time_slice, irq, halted, isr0, data,
                 idled>>

\* One turn of nanosleep's loop.
nanosleep_loop ==
  /\ At("nano") /\ nap[current] > 0
  /\ sched_yield_then("nano")
  /\ UNCHANGED <<wq, state, irq, isr0, nap, data>>

\* The current task moves to p and the rest of the machine stays.
Goto(p) ==
  /\ pc' = [pc EXCEPT ![current] = p]
  /\ UNCHANGED <<rq, wq, state, current, time_slice, irq, halted, isr0, nap,
                 idled>>

nanosleep_return ==
  /\ At("nano") /\ nap[current] = 0
  /\ Goto("user") /\ UNCHANGED <<kif, data>>

sys_read ==
  /\ At("user") /\ current \in Readers
  /\ Goto("rd_check")
  /\ kif' = [kif EXCEPT ![current] = int80_gate_if]
  /\ UNCHANGED data

\* serial_read_file under rx_buf.lock: a byte is taken.  It is the last
\* (count reached, or a newline), or the loop goes on.
read_byte ==
  /\ At("rd_check") \/ At("rd_more")
  /\ data > 0
  /\ data' = data - 1
  /\ \E p \in {"user", "rd_more"} : Goto(p)
  /\ UNCHANGED kif

\* The buffer is empty: return what there is, or block.
read_empty ==
  /\ data = 0
  /\ \/ At("rd_more") /\ Goto("user")
     \/ At("rd_check") /\ Goto("rd_sleep")
  /\ UNCHANGED <<kif, data>>

\* Faulty: the sleeper stays on the runqueue.
sleep_on_stays_queued ==
  /\ At("rd_sleep")
  /\ state' = [state EXCEPT ![current] = "SLEEPING"]
  /\ wq' = list_add_tail(wq, current, WQ)
  /\ pc' = [pc EXCEPT ![current] = "rd_sched"]
  /\ UNCHANGED <<rq, current, time_slice, kif, irq, halted, isr0, nap, data,
                 idled>>

\* sleep_on under the queue's lock.
sleep_on ==
  /\ At("rd_sleep")
  /\ state' = [state EXCEPT ![current] = "SLEEPING"]
  /\ wq' = list_add_tail(wq, current, WQ)
  /\ rq' = list_del(rq, current)
  /\ pc' = [pc EXCEPT ![current] = "rd_sched"]
  /\ UNCHANGED <<current, time_slice, kif, irq, halted, isr0, nap, data, idled>>

\* sleep_on's call of schedule(), and back to the top of the read loop.
sleep_on_schedule ==
  /\ At("rd_sched")
  /\ schedule_then(time_slice, "rd_check")
  /\ UNCHANGED <<wq, state, irq, isr0, nap, data>>

-----------------------------------------------------------------------------
(* Interrupts.  irq_handler_dispatch calls the handler, then sends the EOI. *)

\* The time slices after the tick; a slice that runs out starts again.
Expires == time_slice[current] <= 1

Ticked == [time_slice EXCEPT ![current] = IF Expires THEN SLICE ELSE @ - 1]

\* timer_irq: jiffies moves, sched_tick runs, and unless schedule() leaves
\* the task the EOI and the return from the interrupt follow.
timer_irq ==
  /\ irqs_enabled
  /\ nap' = [t \in Task |-> IF nap[t] > 0 THEN nap[t] - 1 ELSE 0]
  /\ \/ /\ Expires
        /\ schedule(Ticked)
        /\ irq' = [irq EXCEPT ![current] = ~Stays]
        /\ isr0' = ~Stays
     \/ /\ ~Expires
        /\ time_slice' = Ticked
        /\ halted' = FALSE
        /\ UNCHANGED <<rq, current, irq, isr0, idled>>
  /\ UNCHANGED <<wq, state, pc, kif, data>>

\* Faulty: no EOI.
irq_return_no_eoi ==
  /\ irq[current] /\ ~halted
  /\ irq' = [irq EXCEPT ![current] = FALSE]
  /\ UNCHANGED <<rq, wq, state, current, time_slice, pc, kif, halted, isr0, nap,
                 data, idled>>

\* A task that the timer took the CPU from is switched to again: schedule()
\* returns into the handler, which ends with the EOI and the iret.
irq_return ==
  /\ irq[current] /\ ~halted
  /\ irq' = [irq EXCEPT ![current] = FALSE]
  /\ isr0' = FALSE
  /\ UNCHANGED <<rq, wq, state, current, time_slice, pc, kif, halted, nap,
                 data, idled>>

\* serial_irq_handler: n bytes arrive, those that do not fit are dropped,
\* and one waiter is woken.
serial_irq_handler(n) ==
  /\ irqs_enabled
  /\ data' = IF data + n <= SERIAL_BUF THEN data + n ELSE SERIAL_BUF
  /\ wake_up
  /\ halted' = FALSE
  /\ UNCHANGED <<current, time_slice, pc, kif, irq, isr0, nap, idled>>

-----------------------------------------------------------------------------
KernelStep ==
  \/ nanosleep_loop
  \/ nanosleep_return
  \/ read_byte
  \/ read_empty
  \/ sleep_on
  \/ sleep_on_schedule
  \/ irq_return

Next ==
  \/ \E t \in Task : sys_fork(t)
  \/ \E n \in 0 .. MAX_NAP : sys_nanosleep(n)
  \/ sys_read
  \/ KernelStep
  \/ timer_irq
  \/ \E n \in 1 .. BURST : serial_irq_handler(n)

Spec == Init /\ [][Next]_vars

\* The CPU does not stop inside the kernel.
CpuRuns == WF_vars(KernelStep)

\* Every program naps sooner or later, and so yields of its own accord.
ProgramsYield == SF_vars(\E n \in 1 .. MAX_NAP : sys_nanosleep(n))

CooperativeSpec == Spec /\ CpuRuns /\ ProgramsYield

-----------------------------------------------------------------------------
(* Properties.                                                             *)

\* Every variable holds what its C counterpart can hold.
TypeOK ==
  /\ rq \in Lists(RNode)
  /\ wq \in Lists(WNode)
  /\ state \in [Task -> {"NONE", "RUNNING", "SLEEPING"}]
  /\ current \in Task
  /\ time_slice \in [Task -> 0 .. SLICE]
  /\ pc \in [Task -> PC]
  /\ kif \in [Task -> BOOLEAN]
  /\ irq \in [Task -> BOOLEAN]
  /\ halted \in BOOLEAN
  /\ isr0 \in BOOLEAN
  /\ nap \in [Task -> 0 .. MAX_NAP]
  /\ data \in 0 .. SERIAL_BUF
  /\ idled \in BOOLEAN

InState(s) == {t \in Task : state[t] = s}

\* The sequences a list without repetition can hold.
Queues == UNION {[1 .. n -> Task] : n \in 0 .. Cardinality(Task)}

\* A list is intact and holds exactly the tasks of S.
Holds(L, Node, h, S) ==
  \E q \in Queues :
    IsList(L, Node, h, q) /\ S = {q[i] : i \in 1 .. Len(q)}

\* process.h: TASK_RUNNING is "on runqueue or currently executing".  The
\* runqueue is one intact circle of exactly the RUNNING tasks.
RunQueueExact == Holds(rq, RNode, RQ, InState("RUNNING"))

\* The wait queue is one intact circle of exactly the SLEEPING tasks.
WaitQueueExact == Holds(wq, WNode, WQ, InState("SLEEPING"))

\* Types are right, and as long as schedule() has never found the runqueue empty, both queues are
\* intact and agree with the task states, whatever the order of system
\* calls, ticks, preemptions and device interrupts.
QueuesExactUntilIdle == TypeOK /\ (~idled => RunQueueExact /\ WaitQueueExact)

\* When the machine is left with IRQ0 unacknowledged, so that no interrupt
\* can come in, a runnable task has the EOI ahead of it: giving the CPU
\* round once repairs it.
EoiOwed ==
  ~idled /\ isr0 => \E t \in Task : irq[t] /\ state[t] = "RUNNING"

\* A byte that lies in the buffer is not overslept: if a reader sleeps, some
\* reader is awake and has yet to look at the buffer.
NoLostWakeup ==
  data > 0 /\ InState("SLEEPING") # {} =>
    \E t \in InState("RUNNING") : pc[t] \in {"rd_check", "rd_more"}

\* serial_read and the serial interrupt lose no wakeup as long as schedule()
\* has not idled and left a sleeping reader running, and each interrupt brings
\* one byte (BURST = 1) or there is one reader: wake_up wakes one waiter.
NoLostWakeupUntilIdle == ~idled => NoLostWakeup

\* Round robin: a runnable task gets the CPU.
RunnableRuns ==
  \A t \in Task :
    state[t] = "RUNNING" ~> (current = t \/ state[t] # "RUNNING" \/ idled)

=============================================================================
