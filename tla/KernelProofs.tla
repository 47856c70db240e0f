----------------------------- MODULE KernelProofs -----------------------------
(***************************************************************************)
(* Proofs about the clock and the scheduler of Kernel, for every interval, *)
(* every size of the task table, every order of the bootstrap's stores,    *)
(* every placement of the interrupts in the boot thread and every delay in *)
(* serving them.                                                           *)
(***************************************************************************)
EXTENDS Kernel, WellFoundedInduction, TLAPS

USE IntervalAssumption

ClockTypes ==
  /\ time \in Nat /\ armed \in Nat /\ enabled \in BOOLEAN
  /\ ticks \in Nat /\ next \in Nat /\ now \in Nat /\ epoch \in Nat
  /\ ipc \in {"off", "arm", "sched"}

\* Interrupts are enabled only after clock_init has programmed the first deadline,
\* and outside the handler the timer holds g_next_deadline.
Armed ==
  /\ pc \in BootPoints
  /\ enabled => pc \notin {"trap_test", "ebreak", "trap_check", "clock_read", "clock_arm",
                           "clock_enable", "halted"}
  /\ ipc # "off" => enabled
  /\ pc = "clock_enable" => armed = next
  /\ enabled /\ ipc # "arm" => armed = next

ClockInv == ClockTypes /\ Armed /\ now <= time /\ TicksTrackTime

\* What the skip of clock_program_deadline computes: the first point of the
\* deadline's grid after the time read.
LEMMA CatchUpBounds ==
  ASSUME NEW d \in Nat, NEW t \in Nat, d <= t + Interval
  PROVE  /\ CatchUp(d, t) \in Nat /\ CatchUp(d, t) > t
         /\ CatchUp(d, t) <= t + Interval /\ CatchUp(d, t) >= d
<1>1. CASE d <= t
  <2> DEFINE a == t - d
             q == a \div Interval
  <2>1. a \in Nat
    BY <1>1
  <2>2. q \in Nat /\ q * Interval <= a /\ a < (q + 1) * Interval
    BY <2>1
  <2>3. (q + 1) * Interval \in Nat /\ (q + 1) * Interval = q * Interval + Interval
    BY <2>2
  <2>4. CatchUp(d, t) = d + (q + 1) * Interval
    BY <1>1 DEF CatchUp
  <2> HIDE DEF q
  <2> QED BY <2>2, <2>3, <2>4
<1>2. CASE d > t
  BY <1>2 DEF CatchUp
<1> QED BY <1>1, <1>2

\* A tick counts an interval that has passed, and moves the deadline into the future.
LEMMA TickStep ==
  ASSUME ClockInv, ipc = "off", Pending, clock_handle_timer_interrupt, ipc' = "arm",
         UNCHANGED pc
  PROVE  ClockInv'
<1> USE DEF ClockInv
<1>1. ClockStarted /\ armed = next /\ time >= armed /\ enabled
  BY DEF Pending, Armed, ClockStarted
<1>2. ClockTypes
  OBVIOUS
<1>3. next + Interval \in Nat /\ next + Interval <= time + Interval /\ time \in Nat
  BY <1>1, <1>2 DEF ClockTypes
<1> DEFINE r == CatchUp(next + Interval, time)
<1>4. r \in Nat /\ r > time /\ r <= time + Interval /\ r >= next + Interval
  BY <1>3, CatchUpBounds
<1> HIDE DEF r
<1>5. /\ ticks' = ticks + 1 /\ now' = time /\ next' = r
      /\ UNCHANGED <<time, armed, enabled, epoch>>
  BY DEF clock_handle_timer_interrupt, r
<1>6. ClockTypes'
  BY <1>2, <1>4, <1>5 DEF ClockTypes
<1>7. Armed'
  BY <1>1, <1>5 DEF Armed
<1>8. TicksTrackTime'
  <2>1. (ticks + 1) * Interval <= next - epoch
    BY <1>1 DEF TicksTrackTime
  <2>2. (ticks + 1 + 1) * Interval = (ticks + 1) * Interval + Interval
        /\ (ticks + 1) * Interval \in Nat
    BY <1>2 DEF ClockTypes
  <2> QED BY <1>1, <1>2, <1>4, <1>5, <2>1, <2>2 DEF TicksTrackTime, ClockTypes
<1> QED BY <1>2, <1>5, <1>6, <1>7, <1>8 DEF ClockTypes

\* The boot thread starts the clock once, before it enables interrupts.
LEMMA BootStep ==
  ASSUME ClockInv, Boot
  PROVE  ClockInv'
<1> USE DEF ClockInv
<1>1. CASE ClockStep("clock_read", clock_init_read, "clock_arm")
  <2>1. /\ ticks' = 0 /\ next' = time + Interval /\ now' = time /\ epoch' = time
        /\ UNCHANGED <<time, armed, enabled, ipc>>
        /\ pc = "clock_read" /\ pc' = "clock_arm" /\ ipc = "off"
    BY <1>1 DEF ClockStep, clock_init_read, At, Goto
  <2>2. ClockTypes'
    BY <2>1 DEF ClockTypes
  <2>3. Armed'
    BY <2>1 DEF Armed, BootPoints
  <2>4. TicksTrackTime'
    BY <2>1 DEF TicksTrackTime, ClockTypes
  <2> QED BY <2>1, <2>2, <2>3, <2>4 DEF ClockTypes
<1>2. CASE ClockStep("clock_arm", clock_init_arm, "clock_enable")
  <2>1. /\ armed' = next /\ UNCHANGED <<time, enabled, ticks, next, now, epoch, ipc>>
        /\ pc = "clock_arm" /\ pc' = "clock_enable" /\ ipc = "off"
    BY <1>2 DEF ClockStep, clock_init_arm, riscv_timer_set_deadline, At, Goto
  <2> QED BY <2>1 DEF ClockTypes, Armed, BootPoints, TicksTrackTime, ClockStarted
<1>3. CASE ClockStep("clock_enable", riscv_timer_enable_interrupts, "sched_init")
  <2>1. /\ enabled' = TRUE /\ UNCHANGED <<time, armed, ticks, next, now, epoch, ipc>>
        /\ pc = "clock_enable" /\ pc' = "sched_init" /\ ipc = "off"
    BY <1>3 DEF ClockStep, riscv_timer_enable_interrupts, At, Goto
  <2> QED BY <2>1 DEF ClockTypes, Armed, BootPoints, TicksTrackTime, ClockStarted
<1>4. CASE trap_test_trigger \/ trap_dispatch_exception \/ TrapChecked
  <2>1. /\ UNCHANGED <<clockVars, ipc>> /\ pc' \in BootPoints /\ ipc = "off"
        /\ pc \in {"trap_test", "ebreak", "trap_check"}
        /\ pc' \in {"ebreak", "trap_check", "clock_read", "halted"}
    BY <1>4 DEF trap_test_trigger, trap_dispatch_exception, TrapChecked, At, Goto, BootPoints
  <2> QED BY <2>1 DEF clockVars, ClockTypes, Armed, TicksTrackTime, ClockStarted
<1>5. CASE BootstrapInit \/ BootstrapCreate \/ BootstrapStore \/ BootstrapReturn
           \/ demo_window_app_register
  <2>1. /\ UNCHANGED <<clockVars, ipc>>
        /\ pc \in {"sched_init", "create_1", "create_2", "enqueue", "demo"}
        /\ pc' \in {"create_1", "create_2", "enqueue", "demo", "shell"}
    BY <1>5 DEF BootstrapInit, BootstrapCreate, BootstrapStore, BootstrapReturn,
                demo_window_app_register, CreateStep, At, Goto
  <2> QED BY <2>1 DEF clockVars, ClockTypes, Armed, BootPoints, TicksTrackTime, ClockStarted
<1> QED BY <1>1, <1>2, <1>3, <1>4, <1>5 DEF Boot, clock_init

\* g_tick_count never runs ahead of the time passed and the deadline never runs
\* more than an interval ahead, however late interrupts are served.
THEOREM ClockTracksTime == Spec => []TicksTrackTime
<1>1. Init => ClockInv
  <2> SUFFICES ASSUME Init PROVE ClockInv
    OBVIOUS
  <2>1. /\ time = 0 /\ armed = 0 /\ enabled = FALSE /\ ticks = 0 /\ next = 0 /\ now = 0
        /\ epoch = 0 /\ ipc = "off" /\ pc = "trap_test"
    BY DEF Init, ClockReset
  <2>2. ClockTypes /\ Armed
    BY <2>1 DEF ClockTypes, Armed, BootPoints
  <2>3. TicksTrackTime /\ now <= time
    BY <2>1 DEF TicksTrackTime, ClockStarted
  <2> QED BY <2>2, <2>3 DEF ClockInv
<1>2. ClockInv /\ [Next]_vars => ClockInv'
  <2> SUFFICES ASSUME ClockInv, [Next]_vars PROVE ClockInv'
    OBVIOUS
  <2> USE DEF ClockInv
  <2>1. CASE Boot
    BY <2>1, BootStep
  <2>2. CASE trap_dispatch_interrupt
    <3>1. CASE ipc = "off" /\ Pending /\ clock_handle_timer_interrupt /\ ipc' = "arm"
               /\ UNCHANGED <<schedVars, pc, stores, trapArmed, trapPassed>>
      BY <3>1, TickStep
    <3>2. CASE ipc = "arm" /\ ProgramDeadline /\ ipc' = "sched"
               /\ UNCHANGED <<schedVars, pc, stores, trapArmed, trapPassed>>
      <4>1. /\ armed' = next /\ UNCHANGED <<time, enabled, ticks, next, now, epoch, pc>>
            /\ ipc = "arm" /\ ipc' = "sched"
        BY <3>2 DEF ProgramDeadline, riscv_timer_set_deadline
      <4> QED BY <4>1 DEF ClockTypes, Armed, TicksTrackTime, ClockStarted
    <3>3. CASE ipc = "sched" /\ sched_handle_timer_interrupt /\ ipc' = "off"
               /\ UNCHANGED <<clockVars, pc, stores, trapArmed, trapPassed>>
      BY <3>3 DEF clockVars, ClockTypes, Armed, TicksTrackTime, ClockStarted
    <3> QED BY <2>2, <3>1, <3>2, <3>3 DEF trap_dispatch_interrupt
  <2>3. CASE Advance
    <3>1. time' = time + 1 /\ UNCHANGED <<armed, enabled, ticks, next, now, epoch, pc, ipc>>
      BY <2>3 DEF Advance, bootVars
    <3>2. ticks * Interval \in Nat
      BY DEF ClockTypes
    <3>3. ClockTypes' /\ Armed' /\ now' <= time'
      BY <3>1 DEF ClockTypes, Armed
    <3>4. TicksTrackTime'
      BY <3>1, <3>2 DEF ClockTypes, TicksTrackTime, ClockStarted
    <3> QED BY <3>3, <3>4
  <2>4. CASE UNCHANGED vars
    BY <2>4 DEF vars, clockVars, bootVars, ClockTypes, Armed, TicksTrackTime, ClockStarted
  <2> QED BY <2>1, <2>2, <2>3, <2>4 DEF Next
<1>3. ClockInv => TicksTrackTime
  BY DEF ClockInv
<1> QED BY <1>1, <1>2, <1>3, PTL DEF Spec

-------------------------------------------------------------------------------
(* The scheduler *)

SchedTypes ==
  /\ tasks \in [Ids -> TaskRecord] /\ queue \in [Slots -> 0 .. MaxTasks]
  /\ count \in 0 .. MaxTasks /\ cur \in Slots \cup {NoSlot}
  /\ pc \in BootPoints /\ stores \subseteq AllStores
  /\ making \in Nat /\ fields \subseteq TaskFields

\* task_create fills an entry that has never run, and that no slot of the queue
\* names.
Making ==
  /\ making = 0 => fields = {}
  /\ making # 0 =>
       /\ pc \in {"create_1", "create_2", "demo"} /\ making \in Ids /\ tasks[making].runs = 0
       /\ pc = "demo" /\ MaxTasks >= 2 => making \notin {1, 2}

\* Before the scheduler is initialised there is no task and nothing runs ...
NotYet ==
  pc \notin {"create_1", "create_2", "enqueue", "demo", "shell"} =>
    tasks = [id \in Ids |-> Unused] /\ count = 0 /\ ~running

\* ... then the two tasks are created, first the one, then the other, each runnable
\* from the store of its state on ...
Created(id) == \/ pc = "create_2" /\ id = 1
               \/ making = id /\ "state" \notin fields
Creating ==
  pc \in {"create_1", "create_2"} =>
    /\ tasks = [id \in Ids |-> IF Created(id) THEN Fresh ELSE Unused]
    /\ making \in {0, IF pc = "create_1" THEN 1 ELSE 2}
    /\ queue = [s \in Slots |-> 0] /\ count = 0 /\ cur = NoSlot /\ ~running

\* ... and then the queue is what the stores made so far have put into it: the
\* stores may come in any order, but each of them says what it has done.
Filling ==
  pc \in {"enqueue", "demo", "shell"} =>
    IF MaxTasks >= 2
      THEN /\ tasks[1].state = "runnable" /\ tasks[2].state = "runnable"
           /\ queue[0] = (IF "queue0" \in stores THEN 0 ELSE 1)
           /\ queue[1] = (IF "queue1" \in stores THEN 0 ELSE 2)
           /\ count = (IF "count1" \in stores THEN 0 ELSE IF "count2" \in stores THEN 1 ELSE 2)
           /\ "count1" \in stores => "count2" \in stores
           /\ cur = NoSlot \/ (cur < count /\ queue[cur] = cur + 1)
      ELSE count = 0 /\ cur = NoSlot /\ ~running /\ stores \subseteq {"bootstrapped"}

\* The counters of an entry that is not used are zero, and no task is left in the
\* state it has inside the handler.
Entries ==
  \A id \in Ids : /\ tasks[id].state # "running"
                  /\ tasks[id].state = "unused" => tasks[id].runs = 0

SchedInv ==
  /\ SchedTypes /\ Making /\ NotYet /\ Creating /\ Filling /\ Entries
  /\ SwitchAccounting /\ OnlyQueuedRun

\* A non-empty set of numbers has a least one.
LEMMA LeastNat ==
  ASSUME NEW T, T \subseteq Nat, T # {}
  PROVE  \E x \in T : \A y \in T : x <= y
<1>1. \E R : /\ IsWellFoundedOn(R, Nat)
             /\ \A x, y \in Nat : x < y => <<x, y>> \in R
  <2>1. \A x, y \in Nat : x < y => <<x, y>> \in OpToRel(<, Nat)
    BY DEF OpToRel
  <2> QED BY <2>1, NatLessThanWellFounded, Zenon
<1>2. PICK R : /\ IsWellFoundedOn(R, Nat)
               /\ \A x, y \in Nat : x < y => <<x, y>> \in R
  BY <1>1
<1>3. IsWellFoundedOn(R, Nat)
  BY <1>2
<1>4. PICK x \in T : \A y \in T : ~ (<<y, x>> \in R)
  <2>1. \A Q, S, U : IsWellFoundedOn(Q, S) /\ U \subseteq S /\ U # {}
                       => \E x \in U : \A y \in U : ~ (<<y, x>> \in Q)
    BY WFMin, Zenon
  <2>2. \E x \in T : \A y \in T : ~ (<<y, x>> \in R)
    BY <1>3, <2>1
  <2> QED BY <2>2, Zenon
<1>5. \A y \in T : ~ (y < x)
  BY <1>2, <1>4, Zenon
<1> QED BY <1>5

\* task_create finds the first entry that is not used, if there is one.
LEMMA FreeTaskIs ==
  ASSUME NEW ts \in [Ids -> TaskRecord]
  PROVE  \/ FreeTask(ts) = 0 /\ \A id \in Ids : ts[id].state # "unused"
         \/ /\ FreeTask(ts) \in Ids /\ ts[FreeTask(ts)].state = "unused"
            /\ \A i \in 1 .. FreeTask(ts) - 1 : ts[i].state # "unused"
<1> USE SchedAssumption
<1>1. CASE ~ \E id \in Ids : ts[id].state = "unused"
  BY <1>1 DEF FreeTask
<1>2. CASE \E id \in Ids : ts[id].state = "unused"
  <2> DEFINE T == {id \in Ids : ts[id].state = "unused"}
  <2>1. T \subseteq Nat /\ T # {}
    BY <1>2 DEF Ids
  <2>2. \E x \in T : \A y \in T : x <= y
    BY <2>1, LeastNat
  <2>3. \E id \in Ids : /\ ts[id].state = "unused"
                        /\ \A i \in 1 .. id - 1 : ts[i].state # "unused"
    BY <2>2 DEF Ids
  <2> QED BY <1>2, <2>3 DEF FreeTask
<1> QED BY <1>1, <1>2

\* The task that ran last is the one at the current slot, once a slot was chosen.
LEMMA PrevIs ==
  ASSUME SchedInv
  PROVE  IF pc \in {"enqueue", "demo", "shell"} /\ cur # NoSlot
           THEN MaxTasks >= 2 /\ cur \in {0, 1} /\ cur < count /\ Prev = cur + 1
           ELSE Prev = 0
<1> USE SchedAssumption DEF SchedInv
<1>1. CASE pc \in {"enqueue", "demo", "shell"} /\ cur # NoSlot
  <2>1. MaxTasks >= 2 /\ cur < count /\ queue[cur] = cur + 1
    BY <1>1 DEF Filling
  <2>2. cur \in {0, 1}
    BY <1>1, <2>1 DEF Filling, SchedTypes, Slots
  <2>3. cur + 1 \in Ids /\ tasks[cur + 1].state = "runnable"
    BY <1>1, <2>1, <2>2 DEF Filling, Ids
  <2>4. Prev = cur + 1
    BY <1>1, <2>1, <2>2, <2>3 DEF Prev, TaskFromSlot, task_find, SchedTypes
  <2> QED BY <1>1, <2>1, <2>2, <2>4
<1>2. CASE cur = NoSlot
  BY <1>2 DEF Prev, TaskFromSlot
<1>3. CASE pc \notin {"enqueue", "demo", "shell"}
  <2>1. count = 0
    BY <1>3 DEF NotYet, Creating
  <2> QED BY <1>3, <2>1 DEF Prev, TaskFromSlot, SchedTypes, Slots
<1> QED BY <1>1, <1>2, <1>3

\* Switching out the task that ran last settles its account.
LEMMA OutIs ==
  ASSUME SchedInv, NEW out, out = task_context_switch_out(tasks, Prev)
  PROVE  /\ out \in [Ids -> TaskRecord]
         /\ \A id \in Ids : /\ out[id].state = tasks[id].state
                            /\ out[id].runs = tasks[id].runs
                            /\ out[id].ins = tasks[id].runs /\ out[id].outs = tasks[id].runs
<1> USE SchedAssumption DEF SchedInv
<1>1. tasks \in [Ids -> TaskRecord]
  BY DEF SchedTypes
<1>2. Prev = 0 \/ Prev \in Ids
  BY DEF Prev, TaskFromSlot, task_find
<1>3. CASE Prev = 0
  <2>1. out = tasks /\ \A id \in Ids : Prev # id
    BY <1>3 DEF task_context_switch_out, Ids
  <2>2. ASSUME NEW id \in Ids
        PROVE  tasks[id].ins = tasks[id].runs /\ tasks[id].outs = tasks[id].runs
    BY <1>1, <2>1 DEF SwitchAccounting, TaskRecord
  <2> QED BY <1>1, <2>1, <2>2
<1>4. CASE Prev \in Ids
  <2>1. Prev # 0 /\ tasks[Prev] \in TaskRecord /\ tasks[Prev].state # "running"
    BY <1>1, <1>4 DEF Ids, Entries
  <2> DEFINE settled == [tasks[Prev] EXCEPT !.outs = tasks[Prev].outs + 1]
  <2>2. out = [tasks EXCEPT ![Prev] = settled]
    BY <1>1, <1>4, <2>1 DEF task_context_switch_out, TaskRecord
  <2>3. settled \in TaskRecord
    BY <2>1 DEF TaskRecord
  <2>4. out \in [Ids -> TaskRecord]
    BY <1>1, <2>2, <2>3
  <2>5. ASSUME NEW id \in Ids
        PROVE  /\ out[id].state = tasks[id].state /\ out[id].runs = tasks[id].runs
               /\ out[id].ins = tasks[id].runs /\ out[id].outs = tasks[id].runs
    <3>1. CASE id = Prev
      BY <1>1, <1>4, <2>1, <2>2, <3>1 DEF SwitchAccounting, TaskRecord
    <3>2. CASE id # Prev
      BY <1>1, <2>2, <3>2 DEF SwitchAccounting, TaskRecord
    <3> QED BY <3>1, <3>2
  <2> QED BY <2>4, <2>5
<1> QED BY <1>2, <1>3, <1>4

\* The slot chosen next holds a task, and once the queue is filled it is not the
\* slot of the task that ran last.
LEMMA NextSlotIs ==
  ASSUME SchedInv, pc \in {"enqueue", "demo", "shell"}, MaxTasks >= 2,
         NEW ts, \A id \in Ids : ts[id].state = tasks[id].state,
         NEW slot, slot = sched_find_next_slot(ts), slot # NoSlot
  PROVE  /\ slot \in {0, 1} /\ slot < count /\ queue[slot] = slot + 1
         /\ TaskFromSlot(slot) = slot + 1 /\ (stores = {} => slot # cur)
<1> USE SchedAssumption DEF SchedInv
<1>1. /\ tasks[1].state = "runnable" /\ tasks[2].state = "runnable"
      /\ queue[0] \in {0, 1} /\ queue[1] \in {0, 2} /\ count \in {0, 1, 2}
      /\ cur = NoSlot \/ (cur \in {0, 1} /\ cur < count)
      /\ stores = {} => queue[0] = 1 /\ queue[1] = 2 /\ count = 2
  BY DEF Filling, SchedTypes, Slots
<1>2. 1 \in Ids /\ 2 \in Ids /\ ts[1].state = "runnable" /\ ts[2].state = "runnable"
  BY <1>1 DEF Ids
<1>3. ASSUME NEW i \in {0, 1}, i < count
      PROVE  /\ TaskFromSlot(i) = queue[i] /\ (queue[i] # 0 => queue[i] = i + 1)
             /\ Runnable(ts, i) <=> queue[i] # 0
  <2>1. queue[i] = 0 \/ queue[i] = i + 1
    BY <1>1
  <2>2. i # NoSlot /\ ~(i >= count)
    BY <1>1, <1>3
  <2>3. TaskFromSlot(i) = queue[i]
    BY <1>1, <1>2, <2>1, <2>2 DEF TaskFromSlot, task_find, Ids
  <2> QED BY <1>2, <2>1, <2>3 DEF Runnable
<1>4. ASSUME NEW k \in 0 .. count - 1
      PROVE  /\ k \in {0, 1} /\ SlotAfter(k) \in {0, 1} /\ SlotAfter(k) < count
             /\ count = 2 /\ k = 0 => SlotAfter(k) # cur
  BY <1>1 DEF SlotAfter
<1>5. \E k \in 0 .. count - 1 : Runnable(ts, SlotAfter(k))
  BY DEF sched_find_next_slot
<1> DEFINE P(k) == /\ Runnable(ts, SlotAfter(k))
                   /\ \A j \in 0 .. k - 1 : ~Runnable(ts, SlotAfter(j))
<1>6. \E k \in 0 .. count - 1 : P(k)
  <2>1. PICK k \in 0 .. count - 1 : Runnable(ts, SlotAfter(k))
    BY <1>5
  <2>2. CASE Runnable(ts, SlotAfter(0))
    <3>1. 0 \in 0 .. count - 1 /\ P(0)
      BY <1>1, <2>1, <2>2
    <3> QED BY <3>1
  <2>3. CASE ~Runnable(ts, SlotAfter(0))
    <3>1. k = 1 /\ \A j \in 0 .. k - 1 : j = 0
      BY <1>4, <2>1, <2>3
    <3> QED BY <2>1, <2>3, <3>1
  <2> QED BY <2>2, <2>3
<1>7. PICK k \in 0 .. count - 1 : P(k) /\ slot = SlotAfter(k)
  <2>1. slot = SlotAfter(CHOOSE k \in 0 .. count - 1 : P(k))
    BY <1>5 DEF sched_find_next_slot
  <2> QED BY <1>6, <2>1
<1>8. slot \in {0, 1} /\ slot < count /\ Runnable(ts, slot)
  BY <1>4, <1>7
<1>9. stores = {} => slot # cur
  <2> SUFFICES ASSUME stores = {} PROVE slot # cur
    OBVIOUS
  <2>1. 0 \in 0 .. count - 1 /\ count = 2 /\ queue[0] = 1 /\ queue[1] = 2
    BY <1>1
  <2>2. SlotAfter(0) \in {0, 1} /\ SlotAfter(0) < count /\ SlotAfter(0) # cur
    BY <1>4, <2>1
  <2>3. Runnable(ts, SlotAfter(0))
    BY <1>3, <2>1, <2>2
  <2>4. k = 0
    BY <1>4, <1>7, <2>3
  <2> QED BY <1>7, <2>2, <2>4
<1> QED BY <1>3, <1>8, <1>9

\* Once the queue has two tasks, a task that ran before is a candidate itself, so
\* that the handler never switches a task out and none in.
LEMMA SomeSlot ==
  ASSUME SchedInv, pc \in {"enqueue", "demo", "shell"}, cur # NoSlot,
         NEW ts, \A id \in Ids : ts[id].state = tasks[id].state
  PROVE  sched_find_next_slot(ts) # NoSlot
<1> USE SchedAssumption DEF SchedInv
<1>1. MaxTasks >= 2 /\ cur \in {0, 1} /\ cur < count /\ Prev = cur + 1
  BY PrevIs
<1>2. count \in {1, 2}
  BY <1>1 DEF Filling
<1>3. \E k \in 0 .. count - 1 : SlotAfter(k) = cur
  BY <1>1, <1>2 DEF SlotAfter
<1>4. Runnable(ts, cur)
  <2>1. TaskFromSlot(cur) = cur + 1 /\ cur + 1 \in Ids
    BY <1>1 DEF Prev, Ids
  <2>2. tasks[cur + 1].state = "runnable"
    BY <1>1 DEF Filling
  <2>3. ts[cur + 1].state = "runnable" /\ cur + 1 # 0
    BY <1>1, <2>1, <2>2
  <2> QED BY <2>1, <2>3 DEF Runnable
<1>5. ASSUME NEW k \in 0 .. count - 1 PROVE SlotAfter(k) \in Nat
  BY <1>1, <1>2 DEF SlotAfter
<1> DEFINE P(k) == /\ Runnable(ts, SlotAfter(k))
                   /\ \A j \in 0 .. k - 1 : ~Runnable(ts, SlotAfter(j))
<1>6. \E k \in 0 .. count - 1 : Runnable(ts, SlotAfter(k))
  BY <1>3, <1>4
<1>7. \E k \in 0 .. count - 1 : P(k)
  <2>1. CASE Runnable(ts, SlotAfter(0))
    BY <1>2, <2>1
  <2>2. CASE ~Runnable(ts, SlotAfter(0))
    BY <1>2, <1>6, <2>2
  <2> QED BY <2>1, <2>2
<1>8. sched_find_next_slot(ts) = SlotAfter(CHOOSE k \in 0 .. count - 1 : P(k))
  BY <1>6 DEF sched_find_next_slot
<1> QED BY <1>5, <1>7, <1>8

\* What one interrupt does to the task it runs.
LEMMA RunIs ==
  ASSUME NEW out \in [Ids -> TaskRecord], NEW slot, NEW id \in Ids,
         TaskFromSlot(slot) = id, RunSlot(slot, out)
  PROVE  /\ cur' = slot /\ tasks' \in [Ids -> TaskRecord]
         /\ tasks'[id].state = "runnable" /\ tasks'[id].runs = out[id].runs + 1
         /\ tasks'[id].ins = out[id].ins + 1 /\ tasks'[id].outs = out[id].outs
         /\ \A i \in Ids \ {id} : tasks'[i] = out[i]
<1> DEFINE entered == task_context_switch_in(out, id)
           moved == [out[id] EXCEPT !.ins = out[id].ins + 1, !.state = "running"]
<1>1. out[id] \in TaskRecord
  OBVIOUS
<1>2. entered = [out EXCEPT ![id] = moved]
  BY <1>1 DEF task_context_switch_in, TaskRecord
<1>3. /\ entered \in [Ids -> TaskRecord]
      /\ entered[id].ins = out[id].ins + 1 /\ entered[id].runs = out[id].runs
      /\ entered[id].outs = out[id].outs /\ \A i \in Ids \ {id} : entered[i] = out[i]
  <2>1. /\ moved \in TaskRecord /\ moved.ins = out[id].ins + 1
        /\ moved.runs = out[id].runs /\ moved.outs = out[id].outs
    <3>1. ASSUME NEW r \in TaskRecord, NEW m,
                 m = [r EXCEPT !.ins = r.ins + 1, !.state = "running"]
          PROVE  m \in TaskRecord /\ m.ins = r.ins + 1 /\ m.runs = r.runs /\ m.outs = r.outs
      <4>1. r.ins + 1 \in Nat /\ r.runs \in Nat /\ r.outs \in Nat
        BY <3>1 DEF TaskRecord
      <4>2. m = [state |-> "running", runs |-> r.runs, ins |-> r.ins + 1, outs |-> r.outs]
        BY <3>1 DEF TaskRecord
      <4> QED BY <4>1, <4>2 DEF TaskRecord
    <3> QED BY <1>1, <3>1
  <2> HIDE DEF moved, entered
  <2> QED BY <1>2, <2>1
<1>4. cur' = slot
      /\ tasks' = [entered EXCEPT ![id].runs = @ + 1, ![id].state = "runnable"]
  BY DEF RunSlot
<1> HIDE DEF entered
<1>5. tasks' = [entered EXCEPT ![id] = [entered[id] EXCEPT !.runs = entered[id].runs + 1,
                                                        !.state = "runnable"]]
  BY <1>3, <1>4 DEF TaskRecord
<1> QED BY <1>3, <1>4, <1>5 DEF TaskRecord

\* What TurnsAlternate asks of a step.
NoSecondTurn ==
  stores = {} => \A id \in Ids : tasks'[id].runs # tasks[id].runs => id # Prev

\* An interrupt runs one queued task, whatever part of the queue is filled.
LEMMA HandlerStep ==
  ASSUME SchedInv, sched_handle_timer_interrupt, UNCHANGED <<pc, stores>>
  PROVE  SchedInv' /\ NoSecondTurn
<1> USE SchedAssumption
<1> DEFINE out == task_context_switch_out(tasks, Prev)
           slot == sched_find_next_slot(out)
<1>1. UNCHANGED <<queue, count, running, bootstrapped, making, fields, pc, stores>>
  BY DEF sched_handle_timer_interrupt
<1>2. CASE UNCHANGED <<tasks, cur>>
  <2>1. Prev' = Prev
    BY <1>1, <1>2 DEF Prev, TaskFromSlot, task_find
  <2>2. SchedInv'
    <3>1. SchedTypes' /\ Making' /\ NotYet' /\ Creating' /\ Filling'
      BY <1>1, <1>2 DEF SchedInv, SchedTypes, Making, NotYet, Creating, Created, Filling
    <3>2. Entries' /\ SwitchAccounting' /\ OnlyQueuedRun'
      BY <1>1, <1>2, <2>1 DEF SchedInv, Entries, SwitchAccounting, OnlyQueuedRun
    <3> QED BY <3>1, <3>2 DEF SchedInv
  <2> QED BY <1>2, <2>2 DEF NoSecondTurn
<1>3. CASE running /\ count # 0
  <2>1. pc \in {"enqueue", "demo", "shell"} /\ MaxTasks >= 2
    BY <1>3 DEF SchedInv, NotYet, Creating, Filling
  <2>2. out \in [Ids -> TaskRecord]
        /\ \A id \in Ids : /\ out[id].state = tasks[id].state
                           /\ out[id].runs = tasks[id].runs
                           /\ out[id].ins = tasks[id].runs /\ out[id].outs = tasks[id].runs
    BY OutIs
  <2> HIDE DEF out
  <2>3. CASE slot = NoSlot
    <3>1. cur = NoSlot
      BY <2>1, <2>2, <2>3, SomeSlot
    <3>2. Prev = 0
      BY <3>1 DEF Prev, TaskFromSlot
    <3>3. tasks' = tasks /\ cur' = cur
      BY <1>3, <2>3, <3>2 DEF sched_handle_timer_interrupt, task_context_switch_out, out
    <3> QED BY <1>2, <3>3
  <2>4. CASE slot # NoSlot
    <3>1. /\ slot \in {0, 1} /\ slot < count /\ queue[slot] = slot + 1
          /\ TaskFromSlot(slot) = slot + 1 /\ (stores = {} => slot # cur)
      BY <2>1, <2>2, <2>4, NextSlotIs
    <3> DEFINE id == slot + 1
    <3> HIDE DEF slot
    <3>2. id \in Ids /\ id \in {1, 2} /\ slot \in Slots
      BY <2>1, <3>1 DEF Ids, Slots
    <3>3. RunSlot(slot, out)
      BY <1>3, <2>4 DEF sched_handle_timer_interrupt, out, slot
    <3>4. /\ cur' = slot /\ tasks' \in [Ids -> TaskRecord]
          /\ tasks'[id].state = "runnable" /\ tasks'[id].runs = out[id].runs + 1
          /\ tasks'[id].ins = out[id].ins + 1 /\ tasks'[id].outs = out[id].outs
          /\ \A i \in Ids \ {id} : tasks'[i] = out[i]
      BY <2>2, <3>1, <3>2, <3>3, RunIs
    <3> HIDE DEF id
    <3>5. Prev' = id
      BY <1>1, <3>1, <3>2, <3>4 DEF Prev, TaskFromSlot, task_find, id
    <3>6. SchedTypes' /\ NotYet' /\ Creating'
      BY <1>1, <2>1, <3>2, <3>4 DEF SchedInv, SchedTypes, NotYet, Creating
    <3>7. Filling'
      <4>1. 1 \in Ids /\ 2 \in Ids
        BY <2>1 DEF Ids
      <4>2. tasks'[1].state = "runnable" /\ tasks'[2].state = "runnable"
        BY <2>1, <2>2, <3>4, <4>1 DEF SchedInv, Filling
      <4> QED BY <1>1, <2>1, <3>1, <3>4, <4>2 DEF SchedInv, Filling
    <3>12. Making'
      <4>1. CASE making = 0
        BY <1>1, <4>1 DEF SchedInv, Making
      <4>2. CASE making # 0
        <5>1. making \in Ids \ {id} /\ tasks[making].runs = 0 /\ pc = "demo" /\ making \notin {1, 2}
          BY <2>1, <3>2, <4>2 DEF SchedInv, Making
        <5>2. tasks'[making].runs = 0
          BY <2>2, <3>4, <5>1
        <5> QED BY <1>1, <4>2, <5>1, <5>2 DEF SchedInv, Making
      <4> QED BY <4>1, <4>2
    <3>8. Entries'
      BY <2>2, <3>4 DEF SchedInv, Entries
    <3>9. SwitchAccounting'
      BY <2>2, <3>2, <3>4, <3>5 DEF SwitchAccounting, TaskRecord
    <3>10. OnlyQueuedRun'
      BY <1>1, <2>2, <3>1, <3>2, <3>4 DEF SchedInv, OnlyQueuedRun, id
    <3>11. NoSecondTurn
      <4>1. ASSUME NEW i \in Ids, tasks'[i].runs # tasks[i].runs
            PROVE  i = id
        BY <2>2, <3>4, <4>1
      <4>2. stores = {} => Prev # id
        BY <3>1, PrevIs DEF id
      <4> QED BY <4>1, <4>2 DEF NoSecondTurn
    <3> QED BY <3>6, <3>7, <3>8, <3>9, <3>10, <3>11, <3>12 DEF SchedInv
  <2> QED BY <2>3, <2>4
<1>4. CASE ~running \/ count = 0
  BY <1>2, <1>4 DEF sched_handle_timer_interrupt
<1> QED BY <1>3, <1>4

\* A field that task_create stores into an entry that has never run: its counters
\* are zero already, and its state becomes the one of a task that may run.
LEMMA FieldIs ==
  ASSUME NEW old \in TaskRecord, old.runs = 0, old.ins = 0, old.outs = 0,
         NEW f \in TaskFields, NEW new, new = [old EXCEPT ![f] = Fresh[f]]
  PROVE  /\ new \in TaskRecord /\ new.runs = 0 /\ new.ins = 0 /\ new.outs = 0
         /\ new.state = IF f = "state" THEN "runnable" ELSE old.state
<1>1. Fresh = [state |-> "runnable", runs |-> 0, ins |-> 0, outs |-> 0]
  BY DEF Fresh, Unused
<1>2. old = [state |-> old.state, runs |-> 0, ins |-> 0, outs |-> 0]
      /\ old.state \in {"unused", "runnable", "running"}
  BY DEF TaskRecord
<1>3. CASE f = "state"
  <2>1. new = [old EXCEPT !.state = "runnable"]
    BY <1>1, <1>3
  <2> QED BY <1>2, <1>3, <2>1 DEF TaskRecord
<1>4. CASE f = "runs"
  <2>1. new = [old EXCEPT !.runs = 0]
    BY <1>1, <1>4
  <2> QED BY <1>2, <1>4, <2>1 DEF TaskRecord
<1>5. CASE f = "ins"
  <2>1. new = [old EXCEPT !.ins = 0]
    BY <1>1, <1>5
  <2> QED BY <1>2, <1>5, <2>1 DEF TaskRecord
<1>6. CASE f = "outs"
  <2>1. new = [old EXCEPT !.outs = 0]
    BY <1>1, <1>6
  <2> QED BY <1>2, <1>6, <2>1 DEF TaskRecord
<1> QED BY <1>3, <1>4, <1>5, <1>6 DEF TaskFields

\* The two task_create calls of the bootstrap find the first and the second entry,
\* and the second call fails on a table of one entry only.
LEMMA FirstCreates ==
  ASSUME SchedInv, pc \in {"create_1", "create_2"}, making = 0
  PROVE  /\ pc = "create_1" => FreeTask(tasks) = 1
         /\ pc = "create_2" => FreeTask(tasks) = IF MaxTasks >= 2 THEN 2 ELSE 0
<1> USE SchedAssumption
<1>1. tasks \in [Ids -> TaskRecord]
      /\ tasks = [id \in Ids |-> IF pc = "create_2" /\ id = 1 THEN Fresh ELSE Unused]
  BY DEF SchedInv, SchedTypes, Creating, Created, Ids
<1>2. ASSUME NEW id \in Ids
      PROVE  tasks[id].state = "unused" <=> ~(pc = "create_2" /\ id = 1)
  BY <1>1 DEF Fresh, Unused
<1>3. \/ FreeTask(tasks) = 0 /\ \A id \in Ids : tasks[id].state # "unused"
      \/ /\ FreeTask(tasks) \in Ids /\ tasks[FreeTask(tasks)].state = "unused"
         /\ \A i \in 1 .. FreeTask(tasks) - 1 : tasks[i].state # "unused"
  BY <1>1, FreeTaskIs
<1>4. CASE pc = "create_1"
  <2>1. 1 \in Ids /\ tasks[1].state = "unused"
    BY <1>2, <1>4 DEF Ids
  <2> QED BY <1>3, <1>4, <2>1 DEF Ids
<1>5. CASE pc = "create_2"
  <2>1. 1 \in Ids /\ tasks[1].state # "unused"
    BY <1>2, <1>5 DEF Ids
  <2>2. CASE MaxTasks >= 2
    <3>1. 2 \in Ids /\ tasks[2].state = "unused"
      BY <1>2, <1>5, <2>2 DEF Ids
    <3> QED BY <1>3, <1>5, <2>1, <2>2, <3>1 DEF Ids
  <2>3. CASE MaxTasks = 1
    BY <1>3, <1>5, <2>1, <2>3 DEF Ids
  <2> QED BY <1>5, <2>2, <2>3
<1> QED BY <1>4, <1>5

\* A table whose entries were all just set up balances.
LEMMA IdleTable ==
  ASSUME Prev' = 0, \A id \in Ids : tasks'[id] \in {Unused, Fresh}
  PROVE  Entries' /\ SwitchAccounting' /\ OnlyQueuedRun'
  BY SchedAssumption DEF Entries, SwitchAccounting, OnlyQueuedRun, Unused, Fresh, Ids

\* A step of one of the two task_create calls of the bootstrap.
LEMMA CreatesStep ==
  ASSUME SchedInv, BootstrapCreate
  PROVE  SchedInv' /\ NoSecondTurn
<1> USE SchedAssumption
<1>1. /\ pc \in {"create_1", "create_2"} /\ UNCHANGED <<queue, count, cur, running>>
      /\ \/ (TaskTaken \/ TaskFieldStored) /\ pc' = pc /\ stores' = stores
         \/ TaskReturned /\ pc = "create_1" /\ pc' = "create_2" /\ stores' = stores
         \/ /\ TaskReturned /\ pc = "create_2" /\ pc' = "enqueue"
            /\ stores' = IF making = 0 THEN {"bootstrapped"} ELSE AllStores
  BY DEF BootstrapCreate, CreateStep, At, Goto
<1> DEFINE first == IF pc = "create_1" THEN 1 ELSE 2
<1>2. /\ tasks = [id \in Ids |-> IF Created(id) THEN Fresh ELSE Unused]
      /\ queue = [s \in Slots |-> 0] /\ count = 0 /\ cur = NoSlot /\ ~running
      /\ making \in {0, first}
  BY <1>1 DEF SchedInv, Creating
<1>3. Prev' = 0
  BY <1>1, <1>2 DEF Prev, TaskFromSlot
<1>4. /\ Fresh \in TaskRecord /\ Unused \in TaskRecord /\ Fresh.runs = 0 /\ Unused.runs = 0
      /\ Fresh.ins = 0 /\ Unused.ins = 0 /\ Fresh.outs = 0 /\ Unused.outs = 0
      /\ Fresh.state = "runnable"
  BY DEF Fresh, Unused, TaskRecord
<1>5. ASSUME tasks' \in [Ids -> {Unused, Fresh}]
      PROVE  /\ Entries' /\ SwitchAccounting' /\ OnlyQueuedRun' /\ NoSecondTurn
             /\ tasks' \in [Ids -> TaskRecord] /\ \A id \in Ids : tasks'[id].runs = 0
  <2>1. \A id \in Ids : tasks'[id] \in {Unused, Fresh}
    BY <1>5
  <2>2. Entries' /\ SwitchAccounting' /\ OnlyQueuedRun'
    BY <1>3, <2>1, IdleTable
  <2>3. \A id \in Ids : tasks'[id].runs = 0 /\ tasks[id].runs = 0
    BY <1>2, <1>4, <2>1
  <2> QED BY <1>4, <1>5, <2>2, <2>3 DEF NoSecondTurn
<1>6. CASE TaskTaken
  <2>1. /\ making = 0 /\ FreeTask(tasks) # 0 /\ making' = FreeTask(tasks)
        /\ fields' = TaskFields /\ tasks' = tasks /\ pc' = pc /\ stores' = stores
    BY <1>1, <1>6 DEF TaskTaken, TaskReturned
  <2>2. making' = first /\ first \in Ids
    BY <1>1, <2>1, FirstCreates DEF Ids
  <2>3. \A id \in Ids : Created(id)' <=> Created(id)
    BY <2>1 DEF Created, TaskFields, Ids
  <2>4. tasks' = [id \in Ids |-> IF Created(id)' THEN Fresh ELSE Unused]
    BY <1>2, <2>1, <2>3
  <2>5. tasks' \in [Ids -> {Unused, Fresh}]
    BY <2>4
  <2>6. SchedTypes'
    BY <1>1, <1>5, <2>1, <2>2, <2>5 DEF SchedInv, SchedTypes, Ids
  <2>7. Making' /\ NotYet' /\ Filling'
    BY <1>1, <1>5, <2>1, <2>2, <2>5 DEF Making, NotYet, Filling, Ids
  <2>8. Creating'
    BY <1>1, <1>2, <2>1, <2>2, <2>4 DEF Creating
  <2> QED BY <1>5, <2>5, <2>6, <2>7, <2>8 DEF SchedInv
<1>7. CASE TaskFieldStored
  <2>1. PICK f \in fields : /\ tasks' = [tasks EXCEPT ![making] = [@ EXCEPT ![f] = Fresh[f]]]
                            /\ fields' = fields \ {f} /\ making' = making
    BY <1>7 DEF TaskFieldStored
  <2>2. making = first /\ making \in Ids /\ making # 0 /\ f \in TaskFields
    BY <1>2, <2>1 DEF SchedInv, SchedTypes, Making
  <2>3. pc' = pc /\ stores' = stores
    BY <1>1, <2>1, <2>2 DEF TaskReturned
  <2> DEFINE new == [tasks[making] EXCEPT ![f] = Fresh[f]]
  <2>4. tasks[making] \in {Unused, Fresh} /\ tasks' = [tasks EXCEPT ![making] = new]
    BY <1>2, <2>1, <2>2
  <2>5. /\ new \in TaskRecord /\ new.runs = 0 /\ new.ins = 0 /\ new.outs = 0
        /\ new.state = IF f = "state" THEN "runnable" ELSE tasks[making].state
    <3>1. /\ tasks[making] \in TaskRecord /\ tasks[making].runs = 0 /\ tasks[making].ins = 0
          /\ tasks[making].outs = 0
      BY <1>4, <2>4
    <3> QED BY <2>2, <3>1, FieldIs
  <2> HIDE DEF new
  <2>6. Created(making) <=> "state" \notin fields
    BY <1>1, <2>2 DEF Created
  <2>7. Created(making)' <=> "state" \notin fields \/ f = "state"
    BY <1>1, <2>1, <2>2, <2>3 DEF Created
  <2>8. new = IF Created(making)' THEN Fresh ELSE Unused
    <3>1. tasks[making] = IF Created(making) THEN Fresh ELSE Unused
      BY <1>2, <2>2
    <3>2. new.state = IF Created(making)' THEN "runnable" ELSE "unused"
      BY <2>5, <2>6, <2>7, <3>1 DEF Fresh, Unused
    <3>3. new = [state |-> new.state, runs |-> 0, ins |-> 0, outs |-> 0]
      BY <2>5 DEF TaskRecord
    <3> QED BY <3>2, <3>3 DEF Fresh, Unused
  <2>9. \A id \in Ids \ {making} : Created(id)' <=> Created(id)
    BY <2>1, <2>3 DEF Created
  <2>10. tasks' = [id \in Ids |-> IF Created(id)' THEN Fresh ELSE Unused]
    <3>1. \A id \in Ids : tasks'[id] = IF Created(id)' THEN Fresh ELSE Unused
      BY <1>2, <2>1, <2>2, <2>4, <2>8, <2>9
    <3>2. tasks' \in [Ids -> {Unused, Fresh}]
      BY <1>2, <2>2, <2>4, <2>8
    <3> QED BY <3>1, <3>2
  <2>11. tasks' \in [Ids -> {Unused, Fresh}]
    BY <2>10
  <2>12. SchedTypes'
    BY <1>1, <1>5, <2>1, <2>3, <2>11 DEF SchedInv, SchedTypes
  <2>13. Making' /\ NotYet' /\ Filling'
    BY <1>1, <1>5, <2>1, <2>2, <2>3, <2>11 DEF Making, NotYet, Filling
  <2>14. Creating'
    BY <1>1, <1>2, <2>1, <2>3, <2>10 DEF Creating
  <2> QED BY <1>5, <2>11, <2>12, <2>13, <2>14 DEF SchedInv
<1>8. CASE TaskReturned
  <2>1. fields = {} /\ (making = 0 => FreeTask(tasks) = 0) /\ making' = 0 /\ UNCHANGED <<tasks, fields>>
    BY <1>8 DEF TaskReturned
  <2>2. CASE TaskFieldStored
    BY <2>1, <2>2 DEF TaskFieldStored
  <2>3. CASE TaskTaken
    BY <1>6, <2>3
  <2>4. ASSUME ~TaskTaken, ~TaskFieldStored
        PROVE  /\ pc = "create_1" => pc' = "create_2" /\ stores' = stores
               /\ pc = "create_2" => /\ pc' = "enqueue"
                                     /\ stores' = IF making = 0 THEN {"bootstrapped"} ELSE AllStores
    BY <1>1, <2>4
  <2>5. tasks' \in [Ids -> {Unused, Fresh}]
    BY <1>2, <2>1
  <2>6. CASE pc = "create_1" /\ ~TaskTaken /\ ~TaskFieldStored
    <3>1. making = 1 /\ pc' = "create_2" /\ stores' = stores
      BY <1>2, <2>1, <2>4, <2>6, FirstCreates
    <3>2. \A id \in Ids : Created(id)' <=> Created(id)
      BY <2>1, <2>6, <3>1 DEF Created, Ids
    <3>3. tasks' = [id \in Ids |-> IF Created(id)' THEN Fresh ELSE Unused]
      BY <1>2, <2>1, <3>2
    <3>4. SchedTypes'
      BY <1>1, <1>5, <2>1, <2>5, <3>1 DEF SchedInv, SchedTypes, BootPoints
    <3>5. Making' /\ NotYet' /\ Creating' /\ Filling'
      BY <1>1, <1>2, <2>1, <3>1, <3>3 DEF Making, NotYet, Creating, Filling
    <3> QED BY <1>5, <2>5, <3>4, <3>5 DEF SchedInv
  <2>7. CASE pc = "create_2" /\ ~TaskTaken /\ ~TaskFieldStored
    <3>1. pc' = "enqueue" /\ stores' = IF making = 0 THEN {"bootstrapped"} ELSE AllStores
      BY <2>4, <2>7
    <3>2. making = IF MaxTasks >= 2 THEN 2 ELSE 0
      <4>1. CASE making = 0
        BY <2>1, <2>7, <4>1, FirstCreates
      <4>2. CASE making # 0
        <5>1. making = 2 /\ 2 \in Ids
          BY <1>2, <2>7, <4>2 DEF SchedInv, Making
        <5> QED BY <5>1 DEF Ids
      <4> QED BY <4>1, <4>2
    <3>3. SchedTypes'
      BY <1>1, <1>5, <2>1, <2>5, <3>1 DEF SchedInv, SchedTypes, BootPoints, AllStores
    <3>4. Making' /\ NotYet' /\ Creating'
      BY <2>1, <3>1 DEF Making, NotYet, Creating
    <3>5. Filling'
      <4>1. CASE MaxTasks >= 2
        <5>1. 1 \in Ids /\ 2 \in Ids /\ 0 \in Slots /\ 1 \in Slots
          BY <4>1 DEF Ids, Slots
        <5>2. Created(1) /\ Created(2)
          BY <2>1, <2>7, <3>2, <4>1 DEF Created
        <5>3. tasks'[1].state = "runnable" /\ tasks'[2].state = "runnable"
              /\ queue'[0] = 0 /\ queue'[1] = 0
          BY <1>1, <1>2, <1>4, <2>1, <5>1, <5>2
        <5>4. stores' = AllStores /\ count' = 0 /\ cur' = NoSlot
          BY <1>1, <1>2, <3>1, <3>2, <4>1
        <5> QED BY <4>1, <5>3, <5>4 DEF Filling, AllStores
      <4>2. CASE ~(MaxTasks >= 2)
        <5>1. stores' = {"bootstrapped"} /\ count' = 0 /\ cur' = NoSlot /\ ~running'
          BY <1>1, <1>2, <3>1, <3>2, <4>2
        <5> QED BY <4>2, <5>1 DEF Filling
      <4> QED BY <4>1, <4>2
    <3> QED BY <1>5, <2>5, <3>3, <3>4, <3>5 DEF SchedInv
  <2> QED BY <1>1, <1>7, <2>2, <2>3, <2>6, <2>7
<1> QED BY <1>1, <1>6, <1>7, <1>8

\* The bootstrap sets the tables up while no task runs.
LEMMA SetUpStep ==
  ASSUME SchedInv, BootstrapInit \/ BootstrapCreate
  PROVE  SchedInv' /\ NoSecondTurn
<1> USE SchedAssumption
<1>1. CASE BootstrapInit
  <2>1. /\ tasks' = [id \in Ids |-> Unused] /\ queue' = [s \in Slots |-> 0] /\ count' = 0
        /\ cur' = NoSlot /\ running' = FALSE /\ pc = "sched_init" /\ pc' = "create_1"
        /\ UNCHANGED <<stores, making, fields>> /\ making = 0
    BY <1>1 DEF BootstrapInit, sched_init, task_system_init, At, Goto, SchedInv, Making
  <2>2. SchedTypes'
    BY <2>1 DEF SchedInv, SchedTypes, TaskRecord, Unused, BootPoints
  <2>3. Prev' = 0
    BY <2>1 DEF Prev, TaskFromSlot
  <2>4. Entries' /\ SwitchAccounting' /\ OnlyQueuedRun'
    BY <2>1, <2>3, IdleTable
  <2>5. Making' /\ NotYet' /\ Creating' /\ Filling'
    BY <2>1 DEF SchedInv, Making, NotYet, Creating, Created, Filling, Ids
  <2>6. tasks' = tasks
    BY <2>1 DEF SchedInv, NotYet
  <2> QED BY <2>2, <2>4, <2>5, <2>6 DEF SchedInv, NoSecondTurn
<1>2. CASE BootstrapCreate
  BY <1>2, CreatesStep
<1> QED BY <1>1, <1>2

\* Whatever order the stores of the bootstrap come in, the part of the queue that
\* is filled names tasks that exist.
LEMMA StoreStep ==
  ASSUME SchedInv, BootstrapStore
  PROVE  SchedInv' /\ NoSecondTurn
<1> USE SchedAssumption
<1>1. PICK s \in stores : Store(s)
  BY DEF BootstrapStore
<1>2. pc = "enqueue" /\ UNCHANGED <<tasks, cur, pc, making, fields>>
  BY DEF BootstrapStore, At
<1>3. s \in AllStores
  BY DEF SchedInv, SchedTypes
<1>4. NoSecondTurn
  BY <1>2 DEF NoSecondTurn
<1>5. CASE ~(MaxTasks >= 2)
  <2>1. count = 0 /\ cur = NoSlot /\ ~running /\ stores \subseteq {"bootstrapped"}
    BY <1>2, <1>5 DEF SchedInv, Filling
  <2>2. UNCHANGED <<queue, count>> /\ ~running' /\ stores' \subseteq stores
    BY <1>1, <2>1 DEF Store
  <2>3. Prev' = Prev
    BY <1>2, <2>2 DEF Prev, TaskFromSlot, task_find
  <2>4. SchedTypes' /\ Making' /\ NotYet' /\ Creating' /\ Filling'
    BY <1>2, <1>5, <2>1, <2>2 DEF SchedInv, SchedTypes, Making, NotYet, Creating, Filling
  <2>5. Entries' /\ SwitchAccounting' /\ OnlyQueuedRun'
    BY <1>2, <2>2, <2>3 DEF SchedInv, Entries, SwitchAccounting, OnlyQueuedRun
  <2> QED BY <1>4, <2>4, <2>5 DEF SchedInv
<1>6. CASE MaxTasks >= 2
  <2>1. 0 \in Slots /\ 1 \in Slots /\ queue \in [Slots -> 0 .. MaxTasks]
        /\ 1 \in Ids /\ 2 \in Ids
    BY <1>6 DEF SchedInv, SchedTypes, Slots, Ids
  <2>2. /\ queue[0] = (IF "queue0" \in stores THEN 0 ELSE 1)
        /\ queue[1] = (IF "queue1" \in stores THEN 0 ELSE 2)
        /\ count = (IF "count1" \in stores THEN 0 ELSE IF "count2" \in stores THEN 1 ELSE 2)
        /\ "count1" \in stores => "count2" \in stores
        /\ tasks[1].state = "runnable" /\ tasks[2].state = "runnable"
        /\ cur = NoSlot \/ (cur < count /\ queue[cur] = cur + 1)
    BY <1>2, <1>6 DEF SchedInv, Filling
  <2>3. /\ queue' \in [Slots -> 0 .. MaxTasks]
        /\ queue'[0] = (IF "queue0" \in stores' THEN 0 ELSE 1)
        /\ queue'[1] = (IF "queue1" \in stores' THEN 0 ELSE 2)
        /\ \A i \in Slots : queue'[i] = queue[i] \/ (queue[i] = 0 /\ queue'[i] # 0)
    <3>1. CASE s = "queue0"
      BY <1>1, <1>6, <2>1, <2>2, <3>1 DEF Store
    <3>2. CASE s = "queue1"
      BY <1>1, <1>6, <2>1, <2>2, <3>2 DEF Store
    <3>3. CASE s \notin {"queue0", "queue1"}
      BY <1>1, <1>6, <2>1, <2>2, <3>3 DEF Store
    <3> QED BY <3>1, <3>2, <3>3
  <2>4. /\ count' = (IF "count1" \in stores' THEN 0 ELSE IF "count2" \in stores' THEN 1 ELSE 2)
        /\ "count1" \in stores' => "count2" \in stores'
        /\ count <= count' /\ stores' \subseteq stores
    <3>1. CASE s = "count1"
      BY <1>1, <2>2, <3>1 DEF Store
    <3>2. CASE s = "count2"
      BY <1>1, <2>2, <3>2 DEF Store
    <3>3. CASE s \notin {"count1", "count2"}
      BY <1>1, <2>2, <3>3 DEF Store
    <3> QED BY <3>1, <3>2, <3>3
  <2>5. cur' = NoSlot \/ (cur' \in {0, 1} /\ cur' < count' /\ cur < count
                          /\ queue[cur] = cur + 1 /\ queue'[cur'] = cur' + 1)
    BY <1>2, <2>1, <2>2, <2>3, <2>4 DEF SchedInv, SchedTypes, Slots
  <2>6. Prev' = Prev
    <3>1. CASE cur = NoSlot
      BY <1>2, <3>1 DEF Prev, TaskFromSlot
    <3>2. CASE cur # NoSlot
      <4>1. /\ cur \in {0, 1} /\ cur' = cur /\ ~(cur >= count) /\ ~(cur' >= count')
            /\ queue'[cur'] = queue[cur]
        BY <1>2, <2>2, <2>4, <2>5, <3>2
      <4> QED BY <1>2, <3>2, <4>1 DEF Prev, TaskFromSlot, task_find
    <3> QED BY <3>1, <3>2
  <2>7. SchedTypes'
    BY <1>2, <1>6, <2>3, <2>4 DEF SchedInv, SchedTypes
  <2>8. Making' /\ NotYet' /\ Creating' /\ Filling'
    BY <1>2, <1>6, <2>2, <2>3, <2>4, <2>5 DEF SchedInv, Making, NotYet, Creating, Filling
  <2>9. Entries' /\ SwitchAccounting'
    BY <1>2, <2>6 DEF SchedInv, Entries, SwitchAccounting
  <2>10. OnlyQueuedRun'
    BY <1>2, <2>3 DEF SchedInv, OnlyQueuedRun, Ids
  <2> QED BY <1>4, <2>7, <2>8, <2>9, <2>10 DEF SchedInv
<1> QED BY <1>5, <1>6

\* The demo application's task takes an entry that is not used, and is not queued:
\* an interrupt that finds it half filled leaves it alone.
LEMMA DemoStep ==
  ASSUME SchedInv, demo_window_app_register
  PROVE  SchedInv' /\ NoSecondTurn
<1> USE SchedAssumption
<1>1. /\ pc = "demo" /\ UNCHANGED <<queue, count, cur, running, stores>>
      /\ \/ (TaskTaken \/ TaskFieldStored) /\ pc' = "demo"
         \/ TaskReturned /\ pc' = "shell"
  BY DEF demo_window_app_register, CreateStep, At, Goto
<1>2. /\ tasks \in [Ids -> TaskRecord]
      /\ MaxTasks >= 2 => 1 \in Ids /\ 2 \in Ids
      /\ MaxTasks >= 2 => tasks[1].state = "runnable" /\ tasks[2].state = "runnable"
  BY <1>1 DEF SchedInv, SchedTypes, Filling, Ids
<1>3. CASE UNCHANGED tasks
  <2>1. /\ making' \in Nat /\ fields' \subseteq TaskFields /\ Making'
    <3>1. CASE TaskTaken
      <4>1. FreeTask(tasks) \in Ids /\ tasks[FreeTask(tasks)].state = "unused"
        BY <1>2, <3>1, FreeTaskIs DEF TaskTaken
      <4>2. tasks[FreeTask(tasks)].runs = 0
        BY <4>1 DEF SchedInv, Entries
      <4>3. MaxTasks >= 2 => FreeTask(tasks) \notin {1, 2}
        BY <1>2, <4>1
      <4>4. making' = FreeTask(tasks) /\ fields' = TaskFields /\ making' \in Nat /\ making' # 0
        BY <3>1, <4>1 DEF TaskTaken, Ids
      <4>5. pc' = "demo" \/ TaskReturned
        BY <1>1
      <4>6. pc' = "demo"
        BY <3>1, <4>4, <4>5 DEF TaskReturned
      <4> QED BY <1>3, <4>1, <4>2, <4>3, <4>4, <4>6 DEF Making
    <3>2. CASE TaskFieldStored
      <4>1. making' = making /\ fields' \subseteq fields /\ fields # {}
        BY <3>2 DEF TaskFieldStored
      <4>2. making # 0
        BY <4>1 DEF SchedInv, Making
      <4>3. pc' = "demo"
        BY <1>1, <4>1 DEF TaskReturned
      <4> QED BY <1>1, <1>3, <4>1, <4>2, <4>3 DEF SchedInv, SchedTypes, Making
    <3>3. CASE TaskReturned
      BY <3>3 DEF TaskReturned, Making, SchedInv, SchedTypes
    <3> QED BY <1>1, <3>1, <3>2, <3>3
  <2>2. pc' \in {"demo", "shell"}
    BY <1>1
  <2>3. SchedTypes' /\ NotYet' /\ Creating' /\ Filling'
    BY <1>1, <1>3, <2>1, <2>2 DEF SchedInv, SchedTypes, NotYet, Creating, Filling, BootPoints
  <2>4. Prev' = Prev
    BY <1>1, <1>3 DEF Prev, TaskFromSlot, task_find
  <2>5. Entries' /\ SwitchAccounting' /\ OnlyQueuedRun'
    BY <1>1, <1>3, <2>4 DEF SchedInv, Entries, SwitchAccounting, OnlyQueuedRun
  <2> QED BY <1>3, <2>1, <2>3, <2>5 DEF SchedInv, NoSecondTurn
<1>4. CASE TaskFieldStored
  <2>1. PICK f \in fields : /\ tasks' = [tasks EXCEPT ![making] = [@ EXCEPT ![f] = Fresh[f]]]
                            /\ fields' = fields \ {f} /\ making' = making
    BY <1>4 DEF TaskFieldStored
  <2>2. /\ making \in Ids /\ making # 0 /\ f \in TaskFields /\ tasks[making].runs = 0
        /\ MaxTasks >= 2 => making \notin {1, 2}
    BY <1>1, <2>1 DEF SchedInv, SchedTypes, Making
  <2>3. pc' = "demo"
    BY <1>1, <2>1, <2>2 DEF TaskReturned
  <2>4. Prev # making
    <3>1. Prev = 0 \/ (MaxTasks >= 2 /\ Prev \in {1, 2})
      BY PrevIs
    <3> QED BY <2>2, <3>1
  <2>5. tasks[making].ins = 0 /\ tasks[making].outs = 0
    BY <2>2, <2>4 DEF SchedInv, SwitchAccounting
  <2> DEFINE new == [tasks[making] EXCEPT ![f] = Fresh[f]]
  <2>6. tasks' = [tasks EXCEPT ![making] = new]
    BY <1>2, <2>1, <2>2
  <2>7. /\ new \in TaskRecord /\ new.runs = 0 /\ new.ins = 0 /\ new.outs = 0
        /\ new.state = IF f = "state" THEN "runnable" ELSE tasks[making].state
    <3>1. tasks[making] \in TaskRecord
      BY <1>2, <2>2
    <3> QED BY <2>2, <2>5, <3>1, FieldIs
  <2> HIDE DEF new
  <2>8. /\ tasks' \in [Ids -> TaskRecord] /\ tasks'[making] = new
        /\ \A id \in Ids \ {making} : tasks'[id] = tasks[id]
    BY <1>2, <2>2, <2>6, <2>7
  <2>9. SchedTypes' /\ NotYet' /\ Creating'
    BY <1>1, <2>1, <2>2, <2>3, <2>8 DEF SchedInv, SchedTypes, NotYet, Creating, BootPoints
  <2>10. Making'
    BY <2>1, <2>2, <2>3, <2>7, <2>8 DEF Making
  <2>11. MaxTasks >= 2 => tasks'[1] = tasks[1] /\ tasks'[2] = tasks[2]
    BY <1>2, <2>2, <2>8
  <2>12. Filling'
    BY <1>1, <2>3, <2>11 DEF SchedInv, Filling
  <2>13. Prev' = Prev
    <3>1. CASE cur = NoSlot
      BY <1>1, <3>1 DEF Prev, TaskFromSlot
    <3>2. CASE cur # NoSlot
      <4>1. MaxTasks >= 2 /\ cur \in {0, 1} /\ cur < count /\ queue[cur] = cur + 1 /\ Prev = cur + 1
        BY <1>1, <3>2, PrevIs DEF SchedInv, Filling
      <4>2. cur + 1 \in Ids /\ tasks'[cur + 1].state = "runnable"
        BY <1>2, <2>11, <4>1 DEF Ids
      <4> QED BY <1>1, <3>2, <4>1, <4>2 DEF Prev, TaskFromSlot, task_find
    <3> QED BY <3>1, <3>2
  <2>14. Entries'
    BY <2>7, <2>8 DEF SchedInv, Entries
  <2>15. SwitchAccounting'
    <3>1. ASSUME NEW id \in Ids
          PROVE  /\ tasks'[id].ins = tasks'[id].runs
                 /\ tasks'[id].outs = tasks'[id].runs - (IF Prev = id THEN 1 ELSE 0)
      <4>1. CASE id = making
        BY <2>4, <2>7, <2>8, <4>1
      <4>2. CASE id # making
        BY <2>8, <4>2 DEF SchedInv, SwitchAccounting
      <4> QED BY <4>1, <4>2
    <3> QED BY <2>13, <3>1 DEF SwitchAccounting
  <2>16. OnlyQueuedRun'
    BY <1>1, <2>7, <2>8 DEF SchedInv, OnlyQueuedRun
  <2>17. NoSecondTurn
    BY <2>2, <2>7, <2>8 DEF NoSecondTurn
  <2> QED BY <2>9, <2>10, <2>12, <2>14, <2>15, <2>16, <2>17 DEF SchedInv
<1> QED BY <1>1, <1>3, <1>4 DEF TaskTaken, TaskReturned

\* A step that leaves the scheduler alone and stays on its side of the bootstrap.
LEMMA ElsewhereStep ==
  ASSUME SchedInv, UNCHANGED <<schedVars, stores>>, pc' \in BootPoints,
         \/ pc' = pc
         \/ pc' \notin {"create_1", "create_2", "enqueue", "demo", "shell"}
            /\ pc \notin {"create_1", "create_2", "enqueue", "demo", "shell"}
         \/ pc = "enqueue" /\ pc' = "demo"
  PROVE  SchedInv' /\ NoSecondTurn
<1>1. UNCHANGED <<tasks, queue, count, cur, running, making, fields>>
  BY DEF schedVars
<1>2. Prev' = Prev
  BY <1>1 DEF Prev, TaskFromSlot, task_find
<1>3. SchedTypes' /\ Making' /\ NotYet' /\ Creating' /\ Filling'
  BY <1>1 DEF SchedInv, SchedTypes, Making, NotYet, Creating, Created, Filling
<1>4. Entries' /\ SwitchAccounting' /\ OnlyQueuedRun'
  BY <1>1, <1>2 DEF SchedInv, Entries, SwitchAccounting, OnlyQueuedRun
<1> QED BY <1>1, <1>3, <1>4 DEF SchedInv, NoSecondTurn

LEMMA SchedStep ==
  ASSUME SchedInv, [Next]_vars
  PROVE  SchedInv' /\ NoSecondTurn
<1>1. CASE Boot
  <2>1. CASE trap_test_trigger \/ trap_dispatch_exception \/ TrapChecked \/ clock_init
    <3>1. /\ UNCHANGED <<schedVars, stores>> /\ pc' \in BootPoints
          /\ pc' \notin {"create_1", "create_2", "enqueue", "demo", "shell"}
          /\ pc \notin {"create_1", "create_2", "enqueue", "demo", "shell"}
      BY <2>1 DEF trap_test_trigger, trap_dispatch_exception, TrapChecked, clock_init,
                  ClockStep, At, Goto, BootPoints
    <3> QED BY <3>1, ElsewhereStep
  <2>2. CASE BootstrapReturn
    <3>1. UNCHANGED <<schedVars, stores>> /\ pc = "enqueue" /\ pc' = "demo"
          /\ pc' \in BootPoints
      BY <2>2 DEF BootstrapReturn, At, Goto, BootPoints
    <3> QED BY <3>1, ElsewhereStep
  <2> QED BY <1>1, <2>1, <2>2, SetUpStep, StoreStep, DemoStep DEF Boot
<1>2. CASE trap_dispatch_interrupt
  <2>1. pc' = pc /\ stores' = stores /\ pc \in BootPoints
    BY <1>2 DEF trap_dispatch_interrupt, SchedInv, SchedTypes
  <2>2. CASE sched_handle_timer_interrupt
    BY <2>1, <2>2, HandlerStep
  <2>3. CASE UNCHANGED schedVars
    BY <2>1, <2>3, ElsewhereStep
  <2> QED BY <1>2, <2>2, <2>3 DEF trap_dispatch_interrupt
<1>3. CASE Advance \/ UNCHANGED vars
  <2>1. UNCHANGED <<schedVars, stores, pc>> /\ pc \in BootPoints
    BY <1>3 DEF Advance, vars, bootVars, SchedInv, SchedTypes
  <2> QED BY <2>1, ElsewhereStep
<1> QED BY <1>1, <1>2, <1>3 DEF Next

LEMMA SchedStart ==
  ASSUME Init
  PROVE  SchedInv
<1> USE SchedAssumption
<1>1. /\ tasks = [id \in Ids |-> Unused] /\ queue = [s \in Slots |-> 0] /\ count = 0
      /\ cur = 0 /\ running = FALSE /\ pc = "trap_test" /\ stores = {}
      /\ making = 0 /\ fields = {}
  BY DEF Init
<1>2. SchedTypes
  BY <1>1 DEF SchedTypes, TaskRecord, Unused, BootPoints, Slots
<1>3. Prev = 0
  BY <1>1 DEF Prev, TaskFromSlot
<1>4. Making /\ NotYet /\ Creating /\ Filling
  BY <1>1 DEF Making, NotYet, Creating, Filling
<1>5. Entries /\ SwitchAccounting /\ OnlyQueuedRun
  BY <1>1, <1>3 DEF Entries, SwitchAccounting, OnlyQueuedRun, Unused, Ids
<1> QED BY <1>2, <1>4, <1>5 DEF SchedInv

\* The switch counters of sched_handle_timer_interrupt agree with the runs of every
\* task, wherever the interrupts fall, also between the stores of the bootstrap.
THEOREM SwitchesBalance == Spec => []SwitchAccounting
<1>1. Init => SchedInv
  BY SchedStart
<1>2. SchedInv /\ [Next]_vars => SchedInv'
  BY SchedStep
<1>3. SchedInv => SwitchAccounting
  BY DEF SchedInv
<1> QED BY <1>1, <1>2, <1>3, PTL DEF Spec

\* No interrupt runs a task that sched_enqueue_task did not put into the queue,
\* the demo application's included.
THEOREM OnlyQueuedTasksRun == Spec => []OnlyQueuedRun
<1>1. Init => SchedInv
  BY SchedStart
<1>2. SchedInv /\ [Next]_vars => SchedInv'
  BY SchedStep
<1>3. SchedInv => OnlyQueuedRun
  BY DEF SchedInv
<1> QED BY <1>1, <1>2, <1>3, PTL DEF Spec

\* Once the bootstrap has made its stores, the round robin never gives a task two
\* turns in a row.
THEOREM NoTwoTurns == Spec => TurnsAlternate
<1>1. Init => SchedInv
  BY SchedStart
<1>2. SchedInv /\ [Next]_vars => SchedInv'
  BY SchedStep
<1>3. SchedInv /\ [Next]_vars =>
        [stores = {} /\ tasks' # tasks =>
           \A id \in Ids : tasks'[id].runs # tasks[id].runs => id # Prev]_vars
  BY SchedStep DEF NoSecondTurn
<1> QED BY <1>1, <1>2, <1>3, PTL DEF Spec, TurnsAlternate
===============================================================================
