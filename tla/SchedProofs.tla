---------------------------- MODULE SchedProofs ----------------------------
(***************************************************************************)
(* The scheduler keeps its queues exact for every set of tasks, as long as *)
(* schedule() has not taken the idle path.  The list facts come from       *)
(* KListProofs; here they are restated for the set of tasks a list holds,  *)
(* and one lemma per action shows that the inductive invariant survives.   *)
(***************************************************************************)
EXTENDS Sched, KListProofs, FiniteSetTheorems, FunctionTheorems

-----------------------------------------------------------------------------
(* Lists that hold a set of tasks.                                         *)

\* A sequence that a list holds is one of those that Holds quantifies over:
\* it has no repetition, so it is no longer than there are tasks.
LEMMA ListSequenceIsQueue ==
  ASSUME SchedConstants, NEW h, h \notin Task, NEW L,
         NEW q \in Seq(Task \cup {h}), IsList(L, Task \cup {h}, h, q)
  PROVE  q \in Queues
  <1>1. Len(q) \in Nat /\ DOMAIN q = 1 .. Len(q)
    OBVIOUS
  <1>2. \A i \in 1 .. Len(q) : q[i] \in Task
    BY DEF IsList
  <1>3. q \in [1 .. Len(q) -> Task]
    BY <1>1, <1>2
  <1>4. q \in Injection(1 .. Len(q), Task)
    BY <1>3 DEF Injection, IsInjective, IsList
  <1>5. IsFiniteSet(Task)
    BY DEF SchedConstants
  <1>6. Cardinality(1 .. Len(q)) <= Cardinality(Task)
    BY <1>4, <1>5, FS_Injection
  <1>7. Cardinality(1 .. Len(q)) = Len(q)
    <2>1. 1 \in Int /\ Len(q) \in Int
      BY <1>1
    <2>2. Cardinality(1 .. Len(q)) = IF 1 > Len(q) THEN 0 ELSE Len(q) - 1 + 1
      BY <2>1, FS_Interval
    <2> QED
      BY <1>1, <2>2
  <1>8. Len(q) \in 0 .. Cardinality(Task)
    BY <1>1, <1>5, <1>6, <1>7, FS_CardinalityType
  <1> QED
    BY <1>3, <1>8 DEF Queues

\* The witness of Holds, a function on an interval, is a sequence over the
\* nodes, as the lemmas on list_add_tail and list_del take it.
LEMMA QueueIsSequence ==
  ASSUME SchedConstants, NEW q \in Queues
  PROVE  q \in Seq(Task)
  <1>1. PICK n \in 0 .. Cardinality(Task) : q \in [1 .. n -> Task]
    BY DEF Queues
  <1>2. Cardinality(Task) \in Nat
    BY FS_CardinalityType DEF SchedConstants
  <1> QED
    BY <1>1, <1>2

\* The initialised list holds nobody.
LEMMA HoldsNone ==
  ASSUME SchedConstants, NEW h, h \notin Task
  PROVE  /\ list_init(Task \cup {h}) \in Lists(Task \cup {h})
         /\ Holds(list_init(Task \cup {h}), Task \cup {h}, h, {})
  <1>1. /\ list_init(Task \cup {h}) \in Lists(Task \cup {h})
        /\ IsList(list_init(Task \cup {h}), Task \cup {h}, h, <<>>)
    BY InitIsEmpty
  <1>2. PICK q : q = <<>>
    OBVIOUS
  <1>3. q \in Seq(Task \cup {h}) /\ {} = {q[i] : i \in 1 .. Len(q)}
    BY <1>2
  <1>4. IsList(list_init(Task \cup {h}), Task \cup {h}, h, q)
    BY <1>1, <1>2
  <1>5. q \in Queues
    BY <1>3, <1>4, ListSequenceIsQueue
  <1> QED
    BY <1>1, <1>3, <1>4, <1>5 DEF Holds

\* list_add_tail of a task that is not in the list.
LEMMA HoldsAdd ==
  ASSUME SchedConstants, NEW h, h \notin Task, NEW L \in Lists(Task \cup {h}),
         NEW S \in SUBSET Task, Holds(L, Task \cup {h}, h, S),
         NEW t \in Task \ S
  PROVE  /\ list_add_tail(L, t, h) \in Lists(Task \cup {h})
         /\ Holds(list_add_tail(L, t, h), Task \cup {h}, h, S \cup {t})
  <1> DEFINE Node == Task \cup {h}
             M == list_add_tail(L, t, h)
  <1>1. PICK q \in Queues : /\ IsList(L, Node, h, q)
                            /\ S = {q[i] : i \in 1 .. Len(q)}
    BY DEF Holds
  <1>2. q \in Seq(Task) /\ q \in Seq(Node)
    BY QueueIsSequence
  <1>3. \A i \in 1 .. Len(q) : q[i] # t
    BY <1>1
  <1>4. h \in Node /\ t \in Node \ {h}
    OBVIOUS
  <1>5. IsList(M, Node, h, Append(q, t))
    BY <1>1, <1>2, <1>3, <1>4, AddTailAppends
  <1>6. Append(q, t) \in Seq(Node)
    BY <1>2, <1>4
  <1>7. Append(q, t) \in Queues
    BY <1>5, <1>6, ListSequenceIsQueue
  <1>8. S \cup {t} = {Append(q, t)[i] : i \in 1 .. Len(Append(q, t))}
    <2>1. /\ Len(q) \in Nat /\ Len(Append(q, t)) = Len(q) + 1
          /\ \A i \in 1 .. Len(q) : Append(q, t)[i] = q[i]
          /\ Append(q, t)[Len(q) + 1] = t
      BY <1>2
    <2>2. ASSUME NEW x \in S \cup {t}
          PROVE  \E i \in 1 .. Len(q) + 1 : x = Append(q, t)[i]
      <3>1. CASE x \in S
        <4>1. PICK i \in 1 .. Len(q) : x = q[i]
          BY <3>1, <1>1
        <4> QED
          BY <4>1, <2>1
      <3> QED
        BY <3>1, <2>1
    <2>3. ASSUME NEW i \in 1 .. Len(q) + 1
          PROVE  Append(q, t)[i] \in S \cup {t}
      <3>1. CASE i = Len(q) + 1
        BY <3>1, <2>1
      <3>2. CASE i # Len(q) + 1
        BY <3>2, <2>1, <1>1
      <3> QED
        BY <3>1, <3>2
    <2> QED
      BY <2>1, <2>2, <2>3
  <1>9. M \in Lists(Node)
    BY <1>4, OpsType
  <1> QED
    BY <1>5, <1>7, <1>8, <1>9 DEF Holds

\* list_del of a task that is in the list.
LEMMA HoldsDel ==
  ASSUME SchedConstants, NEW h, h \notin Task, NEW L \in Lists(Task \cup {h}),
         NEW S \in SUBSET Task, Holds(L, Task \cup {h}, h, S),
         NEW t \in S
  PROVE  /\ list_del(L, t) \in Lists(Task \cup {h})
         /\ Holds(list_del(L, t), Task \cup {h}, h, S \ {t})
  <1> DEFINE Node == Task \cup {h}
             M == list_del(L, t)
  <1>1. PICK q \in Queues : /\ IsList(L, Node, h, q)
                            /\ S = {q[i] : i \in 1 .. Len(q)}
    BY DEF Holds
  <1>2. q \in Seq(Node) /\ Len(q) \in Nat
    BY QueueIsSequence
  <1>3. PICK k \in 1 .. Len(q) : t = q[k]
    BY <1>1
  <1> DEFINE r == Without(q, k)
  <1>4. IsList(M, Node, h, r) /\ r \in Seq(Node) /\ Len(r) = Len(q) - 1
    BY <1>1, <1>2, <1>3, DelRemoves
  <1>5. r \in Queues
    BY <1>4, ListSequenceIsQueue
  <1>6. \A i \in 1 .. Len(r) : r[i] = IF i < k THEN q[i] ELSE q[i + 1]
    BY <1>2, <1>4 DEF Without
  <1> HIDE DEF r
  <1>7. S \ {t} = {r[i] : i \in 1 .. Len(r)}
    <2>1. ASSUME NEW x \in S \ {t}
          PROVE  \E i \in 1 .. Len(r) : x = r[i]
      <3>1. PICK j \in 1 .. Len(q) : x = q[j]
        BY <1>1
      <3>2. j # k
        BY <3>1, <1>3
      <3>3. CASE j < k
        BY <3>1, <3>3, <1>2, <1>4, <1>6
      <3>4. CASE j > k
        <4>1. j - 1 \in 1 .. Len(r) /\ ~(j - 1 < k) /\ (j - 1) + 1 = j
          BY <3>4, <1>2, <1>4
        <4> QED
          BY <4>1, <3>1, <1>6
      <3> QED
        BY <3>2, <3>3, <3>4
    <2>2. ASSUME NEW i \in 1 .. Len(r)
          PROVE  r[i] \in S \ {t}
      <3> DEFINE j == IF i < k THEN i ELSE i + 1
      <3>1. j \in 1 .. Len(q) /\ j # k /\ r[i] = q[j]
        BY <1>2, <1>4, <1>6
      <3> QED
        BY <3>1, <1>1, <1>3 DEF IsList
    <2> QED
      BY <2>1, <2>2
  <1>8. M \in Lists(Node)
    BY OpsType
  <1> QED
    BY <1>4, <1>5, <1>7, <1>8 DEF Holds

\* The head's next pointer is a task of the list, unless the list is empty.
LEMMA HoldsFirst ==
  ASSUME SchedConstants, NEW h, h \notin Task, NEW L,
         NEW S \in SUBSET Task, Holds(L, Task \cup {h}, h, S)
  PROVE  IF list_empty(L, h) THEN S = {} ELSE L.next[h] \in S
  <1>1. PICK q \in Queues : /\ IsList(L, Task \cup {h}, h, q)
                            /\ S = {q[i] : i \in 1 .. Len(q)}
    BY DEF Holds
  <1>2. Len(q) \in Nat
    BY QueueIsSequence
  <1>3. CASE Len(q) = 0
    BY <1>1, <1>3 DEF IsList, list_empty
  <1>4. CASE Len(q) # 0
    <2>1. 1 \in 1 .. Len(q)
      BY <1>2, <1>4
    <2>2. L.next[h] = q[1] /\ q[1] # h /\ q[1] \in S
      BY <1>1, <1>4, <2>1 DEF IsList
    <2> QED
      BY <2>2 DEF list_empty
  <1> QED
    BY <1>3, <1>4

\* schedule()'s rotation keeps the set of tasks.
LEMMA HoldsRotate ==
  ASSUME SchedConstants, NEW h, h \notin Task, NEW L \in Lists(Task \cup {h}),
         NEW S \in SUBSET Task, Holds(L, Task \cup {h}, h, S),
         NEW t \in S
  PROVE  /\ list_add_tail(list_del(L, t), t, h) \in Lists(Task \cup {h})
         /\ Holds(list_add_tail(list_del(L, t), t, h), Task \cup {h}, h, S)
  <1> DEFINE M == list_del(L, t)
  <1>1. /\ M \in Lists(Task \cup {h})
        /\ Holds(M, Task \cup {h}, h, S \ {t})
    BY HoldsDel
  <1> HIDE DEF M
  <1>2. S \ {t} \in SUBSET Task /\ t \in Task \ (S \ {t}) /\ (S \ {t}) \cup {t} = S
    OBVIOUS
  <1>3. /\ list_add_tail(M, t, h) \in Lists(Task \cup {h})
        /\ Holds(list_add_tail(M, t, h), Task \cup {h}, h, (S \ {t}) \cup {t})
    BY <1>1, <1>2, HoldsAdd
  <1> QED
    BY <1>2, <1>3 DEF M

-----------------------------------------------------------------------------
(* The inductive invariant.                                                *)

\* What holds until the idle path is taken.  Interrupts are off in all
\* kernel code, so only the current task can stand between leaving the
\* runqueue and calling schedule(), and only a task taken from user mode has
\* an interrupt handler on its stack.
Sound ==
  /\ RunQueueExact
  /\ WaitQueueExact
  /\ ~halted
  /\ \A t \in Task : kif[t] = FALSE
  /\ \A t \in Task : irq[t] => state[t] = "RUNNING"
  /\ \A t \in Task : pc[t] = "rd_sched" => t = current /\ state[t] = "SLEEPING"
  /\ state[current] = "SLEEPING" => pc[current] = "rd_sched"
  /\ state[current] # "NONE"
  /\ isr0 => \E t \in Task : irq[t]

IInv == TypeOK /\ (~idled => Sound)

-----------------------------------------------------------------------------
(* The operators the actions share.                                        *)

\* schedule() keeps the types, in whatever state the lists are.
LEMMA ScheduleType ==
  ASSUME TypeOK, NEW ts \in [Task -> 0 .. SLICE], schedule(ts)
  PROVE  /\ rq' \in Lists(RNode)
         /\ current' \in Task
         /\ time_slice' \in [Task -> 0 .. SLICE]
         /\ halted' \in BOOLEAN
         /\ idled' \in BOOLEAN
  <1>1. CASE Idles
    BY <1>1 DEF schedule, TypeOK
  <1>2. CASE ~Idles
    <2> DEFINE next == rq.next[RQ]
    <2>1. next \in Task
      BY <1>2, SchedConstants DEF Idles, list_empty, TypeOK, Lists, RNode
    <2>2. RQ \in RNode /\ next \in RNode
      BY <2>1 DEF RNode
    <2>3. list_del(rq, next) \in Lists(RNode)
      BY <2>2, OpsType DEF TypeOK
    <2>4. list_add_tail(list_del(rq, next), next, RQ) \in Lists(RNode)
      BY <2>2, <2>3, OpsType
    <2>5. SLICE \in 0 .. SLICE
      BY SchedConstants DEF SchedConstants
    <2> QED
      BY <1>2, <2>1, <2>4, <2>5 DEF schedule, TypeOK
  <1> QED
    BY <1>1, <1>2

\* schedule() rotates an exact runqueue and runs a RUNNING task.
LEMMA ScheduleExact ==
  ASSUME TypeOK, RunQueueExact, NEW ts, schedule(ts), ~idled'
  PROVE  /\ ~Idles /\ ~halted' /\ ~idled
         /\ current' = rq.next[RQ]
         /\ current' \in Task /\ state[current'] = "RUNNING"
         /\ Holds(rq', RNode, RQ, InState("RUNNING"))
  <1> DEFINE next == rq.next[RQ]
             S == InState("RUNNING")
  <1>1. ~Idles /\ ~halted' /\ ~idled /\ current' = next
        /\ rq' = list_add_tail(list_del(rq, next), next, RQ)
    BY DEF schedule
  <1>2. /\ RQ \notin Task /\ S \in SUBSET Task
        /\ rq \in Lists(Task \cup {RQ})
        /\ Holds(rq, Task \cup {RQ}, RQ, S)
    BY SchedConstants DEF SchedConstants, TypeOK, RNode, RunQueueExact, InState
  <1>3. next \in S
    BY <1>1, <1>2, SchedConstants, HoldsFirst DEF Idles
  <1>4. Holds(rq', Task \cup {RQ}, RQ, S)
    BY <1>1, <1>2, <1>3, SchedConstants, HoldsRotate
  <1> QED
    BY <1>1, <1>3, <1>4 DEF RNode, InState

\* sched_add keeps the types.
LEMMA SchedAddType ==
  ASSUME TypeOK, NEW t \in Task, sched_add(t)
  PROVE  /\ rq' \in Lists(RNode)
         /\ state' \in [Task -> {"NONE", "RUNNING", "SLEEPING"}]
  <1>1. t \in RNode /\ RQ \in RNode
    BY DEF RNode
  <1>2. list_add_tail(rq, t, RQ) \in Lists(RNode)
    BY <1>1, OpsType DEF TypeOK
  <1> QED
    BY <1>2 DEF sched_add, TypeOK

\* sched_add of a task that is not RUNNING keeps the runqueue exact.
LEMMA SchedAddExact ==
  ASSUME TypeOK, RunQueueExact, NEW t \in Task, state[t] # "RUNNING",
         sched_add(t)
  PROVE  RunQueueExact'
  <1> DEFINE S == InState("RUNNING")
  <1>1. /\ RQ \notin Task /\ S \in SUBSET Task /\ t \in Task \ S
        /\ rq \in Lists(Task \cup {RQ})
        /\ Holds(rq, Task \cup {RQ}, RQ, S)
    BY SchedConstants DEF SchedConstants, TypeOK, RNode, RunQueueExact, InState
  <1>2. Holds(rq', Task \cup {RQ}, RQ, S \cup {t})
    BY <1>1, SchedConstants, HoldsAdd DEF sched_add
  <1>3. InState("RUNNING")' = S \cup {t}
    BY DEF InState, sched_add, TypeOK
  <1> QED
    BY <1>2, <1>3 DEF RunQueueExact, RNode

\* A step that leaves the queues and the states alone keeps them exact.
LEMMA ExactUnchanged ==
  ASSUME RunQueueExact, WaitQueueExact, UNCHANGED <<rq, wq, state>>
  PROVE  RunQueueExact' /\ WaitQueueExact'
  BY DEF RunQueueExact, WaitQueueExact, InState, Holds, Queues

\* A step that leaves the serial line's wait queue and the task states alone
\* leaves what the queue should hold alone.
LEMMA WaitUnchanged ==
  ASSUME WaitQueueExact, UNCHANGED wq, InState("SLEEPING")' = InState("SLEEPING")
  PROVE  WaitQueueExact'
  BY DEF WaitQueueExact, Holds, Queues

-----------------------------------------------------------------------------
(* Initially, and step by step.                                            *)

\* The state in which kmain enters the scheduler satisfies IInv.
LEMMA InitIInv ==
  ASSUME Init
  PROVE  IInv
  <1>1. RQ \notin Task /\ WQ \notin Task /\ InitTask \in Task
    BY SchedConstants DEF SchedConstants
  <1>2. /\ list_init(Task \cup {RQ}) \in Lists(Task \cup {RQ})
        /\ Holds(list_init(Task \cup {RQ}), Task \cup {RQ}, RQ, {})
    BY <1>1, SchedConstants, HoldsNone
  <1>3. /\ list_init(Task \cup {WQ}) \in Lists(Task \cup {WQ})
        /\ Holds(list_init(Task \cup {WQ}), Task \cup {WQ}, WQ, {})
    BY <1>1, SchedConstants, HoldsNone
  <1>4. {} \in SUBSET Task /\ InitTask \in Task \ {}
    BY <1>1
  <1>5. /\ rq \in Lists(Task \cup {RQ})
        /\ Holds(rq, Task \cup {RQ}, RQ, {} \cup {InitTask})
    BY <1>1, <1>2, <1>4, SchedConstants, HoldsAdd DEF Init, RNode
  <1>6. InState("RUNNING") = {} \cup {InitTask} /\ InState("SLEEPING") = {}
    BY <1>1 DEF InState, Init
  <1>7. RunQueueExact
    BY <1>5, <1>6 DEF RunQueueExact, RNode
  <1>8. WaitQueueExact
    BY <1>3, <1>6 DEF WaitQueueExact, WNode, Init
  <1>9. TypeOK
    <2>1. 0 \in 0 .. SLICE /\ SLICE \in 0 .. SLICE /\ 0 \in 0 .. MAX_NAP
          /\ 0 \in 0 .. SERIAL_BUF
      BY SchedConstants DEF SchedConstants
    <2>2. rq \in Lists(RNode) /\ wq \in Lists(WNode)
      BY <1>3, <1>5 DEF Init, RNode, WNode
    <2>3. /\ time_slice \in [Task -> 0 .. SLICE]
          /\ nap \in [Task -> 0 .. MAX_NAP]
      BY <2>1 DEF Init
    <2>4. /\ state \in [Task -> {"NONE", "RUNNING", "SLEEPING"}]
          /\ pc \in [Task -> PC]
      BY DEF Init, PC
    <2>5. kif \in [Task -> BOOLEAN] /\ irq \in [Task -> BOOLEAN]
      BY DEF Init
    <2> QED
      BY <1>1, <2>1, <2>2, <2>3, <2>4, <2>5 DEF TypeOK, Init
  <1>10. Sound
    BY <1>1, <1>7, <1>8 DEF Sound, Init
  <1> QED
    BY <1>9, <1>10 DEF IInv

\* A call of schedule() from kernel code, with the states left alone: what
\* it needs is that its caller is runnable or has just gone to sleep.
LEMMA ScheduleThenStep ==
  ASSUME IInv, NEW ts \in [Task -> 0 .. SLICE],
         NEW p \in {"user", "nano", "rd_check"}, schedule_then(ts, p),
         UNCHANGED <<wq, state, irq, isr0, nap, data>>
  PROVE  IInv'
  <1>1. TypeOK
    BY DEF IInv
  <1>2. schedule(ts)
    BY DEF schedule_then
  <1>3. /\ rq' \in Lists(RNode) /\ current' \in Task
        /\ time_slice' \in [Task -> 0 .. SLICE]
        /\ halted' \in BOOLEAN /\ idled' \in BOOLEAN
    BY <1>1, <1>2, ScheduleType
  <1>4. pc' \in [Task -> PC] /\ kif' \in [Task -> BOOLEAN]
    BY <1>1 DEF schedule_then, TypeOK, PC
  <1>5. TypeOK'
    BY <1>1, <1>3, <1>4 DEF TypeOK
  <1>6. ASSUME ~idled' PROVE Sound'
    <2>1. ~idled
      BY <1>2, <1>6 DEF schedule
    <2>2. Sound
      BY <2>1 DEF IInv
    <2>3. /\ ~Idles /\ ~halted' /\ current' \in Task
          /\ state[current'] = "RUNNING"
          /\ Holds(rq', RNode, RQ, InState("RUNNING"))
      BY <1>1, <1>2, <1>6, <2>2, ScheduleExact DEF Sound
    <2>4. InState("RUNNING")' = InState("RUNNING")
          /\ InState("SLEEPING")' = InState("SLEEPING")
      BY DEF InState
    <2>5. RunQueueExact' /\ WaitQueueExact'
      BY <2>2, <2>3, <2>4, WaitUnchanged DEF Sound, RunQueueExact
    <2>6. kif' = kif
      BY <1>1, <2>3 DEF schedule_then, TypeOK
    <2>7. pc' = [pc EXCEPT ![current] = p]
      BY DEF schedule_then
    <2>8. \A t \in Task : pc'[t] # "rd_sched"
      BY <1>1, <2>2, <2>7 DEF Sound, TypeOK
    <2> QED
      BY <2>2, <2>3, <2>5, <2>6, <2>8 DEF Sound
  <1> QED
    BY <1>5, <1>6 DEF IInv

\* sched_yield, as nanosleep calls it, keeps IInv.
LEMMA YieldStep ==
  ASSUME IInv, NEW p \in {"user", "nano", "rd_check"}, sched_yield_then(p),
         UNCHANGED <<wq, state, irq, isr0, nap, data>>
  PROVE  IInv'
  <1>1. [time_slice EXCEPT ![current] = 0] \in [Task -> 0 .. SLICE]
    BY SchedConstants DEF IInv, TypeOK, SchedConstants
  <1> QED
    BY <1>1, ScheduleThenStep DEF sched_yield_then

\* sys_fork.
LEMMA ForkStep ==
  ASSUME IInv, NEW t \in Task, sys_fork(t)
  PROVE  IInv'
  <1>1. TypeOK /\ sched_add(t) /\ state[t] = "NONE"
    BY DEF IInv, sys_fork
  <1>2. /\ rq' \in Lists(RNode)
        /\ state' \in [Task -> {"NONE", "RUNNING", "SLEEPING"}]
    BY <1>1, SchedAddType
  <1>3. TypeOK'
    BY <1>1, <1>2 DEF TypeOK, sys_fork
  <1>4. ASSUME ~idled' PROVE Sound'
    <2>1. Sound
      BY <1>4 DEF IInv, sys_fork
    <2>2. RunQueueExact'
      BY <1>1, <2>1, SchedAddExact DEF Sound
    <2>3. state' = [state EXCEPT ![t] = "RUNNING"]
      BY <1>1 DEF sched_add
    <2>4. InState("SLEEPING")' = InState("SLEEPING")
      BY <1>1, <2>3 DEF InState, TypeOK
    <2>5. WaitQueueExact'
      BY <2>1, <2>4, WaitUnchanged DEF Sound, sys_fork
    <2> QED
      BY <1>1, <2>1, <2>2, <2>3, <2>5 DEF Sound, sys_fork, TypeOK
  <1> QED
    BY <1>3, <1>4 DEF IInv

\* Steps that only move the program counter (and the flag of a system call
\* that starts, the nap, the byte count).
LEMMA GotoStep ==
  ASSUME IInv, NEW p \in PC \ {"rd_sched"}, pc[current] # "rd_sched",
         pc' = [pc EXCEPT ![current] = p],
         kif' = kif \/ kif' = [kif EXCEPT ![current] = int80_gate_if],
         nap' \in [Task -> 0 .. MAX_NAP], data' \in 0 .. SERIAL_BUF,
         UNCHANGED <<rq, wq, state, current, time_slice, irq, halted, isr0,
                     idled>>
  PROVE  IInv'
  <1>1. TypeOK
    BY DEF IInv
  <1>2. pc' \in [Task -> PC] /\ kif' \in [Task -> BOOLEAN]
    BY <1>1 DEF TypeOK, int80_gate_if
  <1>3. TypeOK'
    BY <1>1, <1>2 DEF TypeOK
  <1>4. ASSUME ~idled' PROVE Sound'
    <2>1. Sound
      BY <1>4 DEF IInv
    <2>2. RunQueueExact' /\ WaitQueueExact'
      BY <2>1, ExactUnchanged DEF Sound
    <2>3. \A t \in Task : kif'[t] = FALSE
      BY <1>1, <2>1 DEF Sound, TypeOK, int80_gate_if
    <2>4. \A t \in Task : pc'[t] # "rd_sched"
      BY <1>1, <2>1 DEF Sound, TypeOK
    <2> QED
      BY <1>1, <2>1, <2>2, <2>3, <2>4 DEF Sound, TypeOK
  <1> QED
    BY <1>3, <1>4 DEF IInv

\* sleep_on, up to its unlock.
LEMMA SleepStep ==
  ASSUME IInv, sleep_on
  PROVE  IInv'
  <1>1. TypeOK /\ At("rd_sleep")
    BY DEF IInv, sleep_on
  <1>2. current \in RNode /\ current \in WNode /\ WQ \in WNode /\ RQ \in RNode
    BY <1>1 DEF TypeOK, RNode, WNode
  <1>3. rq' \in Lists(RNode) /\ wq' \in Lists(WNode)
    BY <1>1, <1>2, OpsType DEF TypeOK, sleep_on
  <1>4. /\ pc' = [pc EXCEPT ![current] = "rd_sched"]
        /\ state' = [state EXCEPT ![current] = "SLEEPING"]
    BY DEF sleep_on
  <1>5. pc' \in [Task -> PC]
    BY <1>1, <1>4 DEF TypeOK, PC
  <1>6. TypeOK'
    BY <1>1, <1>3, <1>4, <1>5 DEF TypeOK, sleep_on
  <1>7. ASSUME ~idled' PROVE Sound'
    <2>1. Sound
      BY <1>7 DEF IInv, sleep_on
    <2>2. state[current] = "RUNNING"
      BY <1>1, <2>1 DEF Sound, At, TypeOK
    <2> DEFINE R == InState("RUNNING")
               S == InState("SLEEPING")
    <2>3. /\ R \in SUBSET Task /\ S \in SUBSET Task
          /\ current \in R /\ current \in Task \ S
      BY <1>1, <2>2 DEF InState, TypeOK
    <2>4. R' = R \ {current} /\ S' = S \cup {current}
      BY <1>1, <1>4 DEF InState, TypeOK
    <2>5. /\ RQ \notin Task /\ WQ \notin Task
          /\ rq \in Lists(Task \cup {RQ}) /\ Holds(rq, Task \cup {RQ}, RQ, R)
          /\ wq \in Lists(Task \cup {WQ}) /\ Holds(wq, Task \cup {WQ}, WQ, S)
      BY <1>1, <2>1, SchedConstants
         DEF Sound, TypeOK, RNode, WNode, RunQueueExact, WaitQueueExact,
             SchedConstants
    <2>6. rq' = list_del(rq, current) /\ wq' = list_add_tail(wq, current, WQ)
      BY DEF sleep_on
    <2> HIDE DEF R, S
    <2>7. Holds(rq', Task \cup {RQ}, RQ, R \ {current})
      BY <2>3, <2>5, <2>6, SchedConstants, HoldsDel
    <2>8. Holds(wq', Task \cup {WQ}, WQ, S \cup {current})
      BY <2>3, <2>5, <2>6, SchedConstants, HoldsAdd
    <2>9. RunQueueExact' /\ WaitQueueExact'
      BY <2>4, <2>7, <2>8 DEF RunQueueExact, WaitQueueExact, RNode, WNode, R, S
    <2>10. ~irq[current]
      BY <1>1 DEF At
    <2>11. \A t \in Task : pc'[t] = "rd_sched" => t = current
      BY <1>1, <1>4, <2>1 DEF Sound, TypeOK
    <2>12. UNCHANGED <<current, kif, irq, halted, isr0>>
      BY DEF sleep_on
    <2> QED
      BY <1>1, <1>4, <2>1, <2>9, <2>10, <2>11, <2>12 DEF Sound, TypeOK
  <1> QED
    BY <1>6, <1>7 DEF IInv

\* The timer interrupt.  It comes in user mode, so the task it takes the CPU
\* from is RUNNING.
LEMMA TimerStep ==
  ASSUME IInv, timer_irq
  PROVE  IInv'
  <1>1. TypeOK /\ irqs_enabled
    BY DEF IInv, timer_irq
  <1>2. Ticked \in [Task -> 0 .. SLICE]
    <2>1. SLICE \in 0 .. SLICE
      BY SchedConstants DEF SchedConstants
    <2>2. ~Expires => time_slice[current] - 1 \in 0 .. SLICE
      BY <1>1, SchedConstants DEF Expires, TypeOK, SchedConstants
    <2> QED
      BY <1>1, <2>1, <2>2 DEF Ticked, TypeOK
  <1>3. nap' \in [Task -> 0 .. MAX_NAP]
    <2>1. \A t \in Task : (IF nap[t] > 0 THEN nap[t] - 1 ELSE 0) \in 0 .. MAX_NAP
      BY <1>1, SchedConstants DEF TypeOK, SchedConstants
    <2> QED
      BY <2>1 DEF timer_irq
  <1>4. UNCHANGED <<wq, state, pc, kif, data>>
    BY DEF timer_irq
  <1>5. CASE /\ Expires /\ schedule(Ticked)
             /\ irq' = [irq EXCEPT ![current] = ~Stays] /\ isr0' = ~Stays
    <2>1. /\ rq' \in Lists(RNode) /\ current' \in Task
          /\ time_slice' \in [Task -> 0 .. SLICE]
          /\ halted' \in BOOLEAN /\ idled' \in BOOLEAN
      BY <1>1, <1>2, <1>5, ScheduleType
    <2>2. irq' \in [Task -> BOOLEAN] /\ isr0' \in BOOLEAN
      BY <1>1, <1>5 DEF TypeOK
    <2>3. TypeOK'
      BY <1>1, <1>3, <1>4, <2>1, <2>2 DEF TypeOK
    <2>4. ASSUME ~idled' PROVE Sound'
      <3>1. ~idled /\ Sound
        BY <1>5, <2>4 DEF schedule, IInv
      <3>2. pc[current] = "user" /\ state[current] = "RUNNING"
        BY <1>1, <3>1 DEF Sound, irqs_enabled, TypeOK
      <3>3. /\ ~halted' /\ current' \in Task /\ state[current'] = "RUNNING"
            /\ Holds(rq', RNode, RQ, InState("RUNNING"))
        BY <1>1, <1>5, <2>4, <3>1, ScheduleExact DEF Sound
      <3>4. InState("RUNNING")' = InState("RUNNING")
            /\ InState("SLEEPING")' = InState("SLEEPING")
        BY <1>4 DEF InState
      <3>5. RunQueueExact' /\ WaitQueueExact'
        BY <1>4, <3>1, <3>3, <3>4, WaitUnchanged DEF Sound, RunQueueExact
      <3>6. \A t \in Task : irq'[t] => state[t] = "RUNNING"
        BY <1>1, <1>5, <3>1, <3>2 DEF Sound, TypeOK
      <3>7. isr0' => irq'[current]
        BY <1>1, <1>5 DEF TypeOK
      <3>8. \A t \in Task : pc[t] # "rd_sched"
        BY <3>1, <3>2 DEF Sound
      <3> QED
        BY <1>1, <1>4, <3>1, <3>3, <3>5, <3>6, <3>7, <3>8 DEF Sound, TypeOK
    <2> QED
      BY <2>3, <2>4 DEF IInv
  <1>6. CASE /\ ~Expires /\ time_slice' = Ticked /\ halted' = FALSE
             /\ UNCHANGED <<rq, current, irq, isr0, idled>>
    <2>1. TypeOK'
      BY <1>1, <1>2, <1>3, <1>4, <1>6 DEF TypeOK
    <2>2. ASSUME ~idled' PROVE Sound'
      <3>1. Sound
        BY <1>6, <2>2 DEF IInv
      <3>2. RunQueueExact' /\ WaitQueueExact'
        BY <1>4, <1>6, <3>1, ExactUnchanged DEF Sound
      <3> QED
        BY <1>4, <1>6, <3>1, <3>2 DEF Sound
    <2> QED
      BY <2>1, <2>2 DEF IInv
  <1> QED
    BY <1>5, <1>6 DEF timer_irq

\* The end of a preempted handler.
LEMMA IrqReturnStep ==
  ASSUME IInv, irq_return
  PROVE  IInv'
  <1>1. TypeOK
    BY DEF IInv
  <1>2. TypeOK'
    BY <1>1 DEF TypeOK, irq_return
  <1>3. ASSUME ~idled' PROVE Sound'
    <2>1. Sound
      BY <1>3 DEF IInv, irq_return
    <2>2. RunQueueExact' /\ WaitQueueExact'
      BY <2>1, ExactUnchanged DEF Sound, irq_return
    <2>3. \A t \in Task : irq'[t] => irq[t]
      BY <1>1 DEF irq_return, TypeOK
    <2> QED
      BY <2>1, <2>2, <2>3 DEF Sound, irq_return
  <1> QED
    BY <1>2, <1>3 DEF IInv

\* The device interrupt.
LEMMA SerialStep ==
  ASSUME IInv, NEW n \in 1 .. BURST, serial_irq_handler(n)
  PROVE  IInv'
  <1>1. TypeOK /\ irqs_enabled /\ wake_up
    BY DEF IInv, serial_irq_handler
  <1>2. data' \in 0 .. SERIAL_BUF
    BY <1>1, SchedConstants DEF TypeOK, serial_irq_handler, SchedConstants
  <1>3. UNCHANGED <<current, time_slice, pc, kif, irq, isr0, nap, idled>>
        /\ halted' = FALSE
    BY DEF serial_irq_handler
  <1>4. CASE list_empty(wq, WQ)
    <2>1. UNCHANGED <<rq, wq, state>>
      BY <1>1, <1>4 DEF wake_up
    <2>2. TypeOK'
      BY <1>1, <1>2, <1>3, <2>1 DEF TypeOK
    <2>3. ASSUME ~idled' PROVE Sound'
      <3>1. Sound
        BY <1>3, <2>3 DEF IInv
      <3>2. RunQueueExact' /\ WaitQueueExact'
        BY <2>1, <3>1, ExactUnchanged DEF Sound
      <3> QED
        BY <1>3, <2>1, <3>1, <3>2 DEF Sound
    <2> QED
      BY <2>2, <2>3 DEF IInv
  <1>5. CASE ~list_empty(wq, WQ)
    <2> DEFINE t == wq.next[WQ]
    <2>1. wq' = list_del(wq, t) /\ sched_add(t)
      BY <1>1, <1>5 DEF wake_up
    <2>2. t \in Task /\ t \in WNode /\ WQ \in WNode
      BY <1>1, <1>5 DEF TypeOK, Lists, WNode, list_empty
    <2>3. wq' \in Lists(WNode)
      BY <1>1, <2>1, <2>2, OpsType DEF TypeOK
    <2>4. /\ rq' \in Lists(RNode)
          /\ state' \in [Task -> {"NONE", "RUNNING", "SLEEPING"}]
      BY <1>1, <2>1, <2>2, SchedAddType
    <2>5. TypeOK'
      BY <1>1, <1>2, <1>3, <2>3, <2>4 DEF TypeOK
    <2>6. ASSUME ~idled' PROVE Sound'
      <3>1. Sound
        BY <1>3, <2>6 DEF IInv
      <3> DEFINE S == InState("SLEEPING")
      <3>2. /\ WQ \notin Task /\ S \in SUBSET Task
            /\ wq \in Lists(Task \cup {WQ}) /\ Holds(wq, Task \cup {WQ}, WQ, S)
        BY <1>1, <3>1, SchedConstants
           DEF Sound, TypeOK, WNode, WaitQueueExact, InState, SchedConstants
      <3>3. t \in S
        BY <1>5, <3>2, SchedConstants, HoldsFirst
      <3>4. Holds(wq', Task \cup {WQ}, WQ, S \ {t})
        BY <2>1, <3>2, <3>3, SchedConstants, HoldsDel
      <3>5. state[t] = "SLEEPING" /\ state' = [state EXCEPT ![t] = "RUNNING"]
        BY <2>1, <3>3 DEF InState, sched_add
      <3>6. S' = S \ {t}
        BY <1>1, <2>2, <3>5 DEF InState, TypeOK
      <3>7. WaitQueueExact'
        BY <3>4, <3>6 DEF WaitQueueExact, WNode
      <3>8. RunQueueExact'
        BY <1>1, <2>1, <2>2, <3>1, <3>5, SchedAddExact DEF Sound
      <3>9. pc[current] = "user" /\ \A u \in Task : pc[u] # "rd_sched"
        BY <1>1, <3>1 DEF Sound, irqs_enabled, TypeOK
      <3>10. t # current
        BY <3>1, <3>5, <3>9 DEF Sound
      <3>11. \A u \in Task : u # t => state'[u] = state[u]
        BY <1>1, <3>5 DEF TypeOK
      <3>12. state'[t] = "RUNNING"
        BY <1>1, <2>2, <3>5 DEF TypeOK
      <3> HIDE DEF t
      <3> QED
        BY <1>1, <1>3, <3>1, <3>7, <3>8, <3>9, <3>10, <3>11, <3>12
           DEF Sound, TypeOK
    <2> QED
      BY <2>5, <2>6 DEF IInv
  <1> QED
    BY <1>4, <1>5

\* Every step keeps the invariant.
LEMMA NextIInv ==
  ASSUME IInv, [Next]_vars
  PROVE  IInv'
  <1>2. ASSUME NEW t \in Task, sys_fork(t) PROVE IInv'
    BY <1>2, ForkStep
  <1>3. ASSUME NEW n \in 0 .. MAX_NAP, sys_nanosleep(n) PROVE IInv'
    <2>1. nap' \in [Task -> 0 .. MAX_NAP]
      BY <1>3 DEF sys_nanosleep, IInv, TypeOK
    <2>2. data' \in 0 .. SERIAL_BUF
      BY <1>3 DEF sys_nanosleep, IInv, TypeOK
    <2>3. "nano" \in PC \ {"rd_sched"} /\ pc[current] # "rd_sched"
      BY <1>3 DEF PC, sys_nanosleep, At
    <2> QED
      BY <1>3, <2>1, <2>2, <2>3, GotoStep DEF sys_nanosleep
  <1>4. CASE sys_read
    <2>1. nap' \in [Task -> 0 .. MAX_NAP] /\ data' \in 0 .. SERIAL_BUF
      BY <1>4 DEF sys_read, Goto, IInv, TypeOK
    <2>2. "rd_check" \in PC \ {"rd_sched"} /\ pc[current] # "rd_sched"
      BY <1>4 DEF PC, sys_read, At
    <2> QED
      BY <1>4, <2>1, <2>2, GotoStep DEF sys_read, Goto
  <1>5. CASE nanosleep_loop
    BY <1>5, YieldStep DEF nanosleep_loop
  <1>6. CASE nanosleep_return
    <2>1. nap' \in [Task -> 0 .. MAX_NAP] /\ data' \in 0 .. SERIAL_BUF
      BY <1>6 DEF nanosleep_return, Goto, IInv, TypeOK
    <2>2. "user" \in PC \ {"rd_sched"} /\ pc[current] # "rd_sched"
      BY <1>6 DEF PC, nanosleep_return, At
    <2> QED
      BY <1>6, <2>1, <2>2, GotoStep DEF nanosleep_return, Goto
  <1>7. CASE read_byte
    <2>1. PICK p \in {"user", "rd_more"} : Goto(p)
      BY <1>7 DEF read_byte
    <2>2. nap' \in [Task -> 0 .. MAX_NAP]
      BY <2>1 DEF Goto, IInv, TypeOK
    <2>3. data' \in 0 .. SERIAL_BUF
      BY <1>7, SchedConstants DEF read_byte, IInv, TypeOK, SchedConstants
    <2>4. p \in PC \ {"rd_sched"} /\ pc[current] # "rd_sched"
      BY <1>7, <2>1 DEF PC, read_byte, At
    <2> QED
      BY <1>7, <2>1, <2>2, <2>3, <2>4, GotoStep DEF read_byte, Goto
  <1>8. CASE read_empty
    <2>1. PICK p \in {"user", "rd_sleep"} : Goto(p)
      BY <1>8 DEF read_empty
    <2>2. nap' \in [Task -> 0 .. MAX_NAP] /\ data' \in 0 .. SERIAL_BUF
      BY <1>8, <2>1 DEF read_empty, Goto, IInv, TypeOK
    <2>3. p \in PC \ {"rd_sched"} /\ pc[current] # "rd_sched"
      BY <1>8, <2>1 DEF PC, read_empty, At
    <2> QED
      BY <1>8, <2>1, <2>2, <2>3, GotoStep DEF read_empty, Goto
  <1>9. CASE sleep_on
    BY <1>9, SleepStep
  <1>10. CASE sleep_on_schedule
    BY <1>10, ScheduleThenStep DEF sleep_on_schedule, IInv, TypeOK
  <1>11. CASE irq_return
    BY <1>11, IrqReturnStep
  <1>12. CASE timer_irq
    BY <1>12, TimerStep
  <1>13. ASSUME NEW n \in 1 .. BURST, serial_irq_handler(n) PROVE IInv'
    BY <1>13, SerialStep
  <1>14. CASE UNCHANGED vars
    <2>1. TypeOK'
      BY <1>14 DEF vars, IInv, TypeOK
    <2>2. ASSUME ~idled' PROVE Sound'
      <3>1. Sound
        BY <1>14, <2>2 DEF vars, IInv
      <3>2. RunQueueExact' /\ WaitQueueExact'
        BY <1>14, <3>1, ExactUnchanged DEF vars, Sound
      <3> QED
        BY <1>14, <3>1, <3>2 DEF vars, Sound
    <2> QED
      BY <2>1, <2>2 DEF IInv
  <1> QED
    BY <1>2, <1>3, <1>4, <1>5, <1>6, <1>7, <1>8, <1>9, <1>10, <1>11,
       <1>12, <1>13, <1>14 DEF Next, KernelStep

-----------------------------------------------------------------------------
(* Theorems.                                                               *)

\* The invariant holds in every reachable state.
THEOREM SchedInductive == Spec => []IInv
  BY InitIInv, NextIInv, PTL DEF Spec

\* No order of system calls and interrupts takes a variable out of its type,
\* not even after the idle path has corrupted the lists: every pointer that
\* schedule() and wake_up follow is a task.
THEOREM SchedTypeCorrect == Spec => []TypeOK
  <1>1. IInv => TypeOK
    BY DEF IInv
  <1> QED
    BY <1>1, SchedInductive, PTL

\* Until schedule() first finds the runqueue empty, sched_add, sched_remove,
\* sleep_on, wake_up and the rotation in schedule() keep both queues intact
\* and in agreement with the task states, for any number of tasks.
THEOREM SchedQueuesExact == Spec => []QueuesExactUntilIdle
  <1>1. IInv => QueuesExactUntilIdle
    BY DEF IInv, Sound, QueuesExactUntilIdle
  <1> QED
    BY <1>1, SchedInductive, PTL

\* Until then an IRQ0 without its EOI always has a runnable task that will
\* send it.
THEOREM SchedEoiOwed == Spec => []EoiOwed
  <1>1. IInv => EoiOwed
    BY DEF IInv, Sound, EoiOwed
  <1> QED
    BY <1>1, SchedInductive, PTL

=============================================================================
