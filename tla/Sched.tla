-------------------------------- MODULE Sched ---------------------------------
(***************************************************************************)
(* The task table of kernel/task/task.c and the round-robin scheduler of   *)
(* kernel/sched/rr.c.  A task is named by its id, which is its place in    *)
(* g_tasks plus one; 0 stands for the null task pointer.  The log lines,   *)
(* their limits and the saved mepc and mcause are left out.                *)
(***************************************************************************)
EXTENDS Integers

CONSTANTS
  MaxTasks,       \* TASK_MAX_TASKS
  NoSlot,         \* SCHED_NO_SLOT
  AltTarget       \* SCHED_ALT_SWITCH_TARGET

ASSUME SchedAssumption ==
  MaxTasks \in Nat \ {0} /\ NoSlot \notin Nat /\ AltTarget \in Nat \ {0}

VARIABLES
  tasks,          \* g_tasks
  queue, count,   \* g_runnable_queue, g_runnable_count
  cur,            \* g_current_slot
  alternating,    \* g_alternating_switches
  reported,       \* g_alternation_reported
  running,        \* g_scheduler_running
  bootstrapped,   \* g_bootstrapped
  making, fields  \* task_create: the entry it fills (0: none), the fields still to store

schedVars == <<tasks, queue, count, cur, alternating, reported, running, bootstrapped,
               making, fields>>

Ids == 1 .. MaxTasks
Slots == 0 .. MaxTasks - 1
Unused == [state |-> "unused", runs |-> 0, ins |-> 0, outs |-> 0]
Fresh == [Unused EXCEPT !.state = "runnable"]

task_system_init == tasks' = [id \in Ids |-> Unused]

\* task_create takes the first unused entry, and fails without one.
FreeTask(ts) ==
  IF \E id \in Ids : ts[id].state = "unused"
    THEN CHOOSE id \in Ids : /\ ts[id].state = "unused"
                             /\ \A i \in 1 .. id - 1 : ts[i].state # "unused"
    ELSE 0

\* It fills the entry field by field, in an order that the compiler chooses, and an
\* interrupt may fall between any two stores.
TaskFields == {"state", "runs", "ins", "outs"}
TaskTaken == /\ making = 0 /\ FreeTask(tasks) # 0
             /\ making' = FreeTask(tasks) /\ fields' = TaskFields /\ UNCHANGED tasks
TaskFieldStored == \E f \in fields :
  /\ tasks' = [tasks EXCEPT ![making] = [@ EXCEPT ![f] = Fresh[f]]]
  /\ fields' = fields \ {f} /\ UNCHANGED making
\* It returns the filled entry, or null when there was none to fill.
TaskReturned == /\ fields = {} /\ (making = 0 => FreeTask(tasks) = 0)
                /\ making' = 0 /\ UNCHANGED <<tasks, fields>>

task_find(id) == IF id \in Ids /\ tasks[id].state # "unused" THEN id ELSE 0

\* Mutant: A lookup that takes the slot for the place in g_tasks.
TaskAtSlot(slot) == IF slot = NoSlot \/ slot >= count THEN 0 ELSE task_find(slot + 1)

\* A null slot is larger than any count.
TaskFromSlot(slot) == IF slot = NoSlot \/ slot >= count THEN 0 ELSE task_find(queue[slot])

\* Mutant: A switch-out that counts only tasks still marked running.
switch_out_running_only(ts, id) ==
  IF id = 0 \/ ts[id].state # "running" THEN ts
  ELSE [ts EXCEPT ![id].outs = @ + 1, ![id].state = "runnable"]

task_context_switch_out(ts, id) ==
  IF id = 0 THEN ts
  ELSE [ts EXCEPT ![id].outs = @ + 1,
                  ![id].state = IF @ = "running" THEN "runnable" ELSE @]

task_context_switch_in(ts, id) ==
  [ts EXCEPT ![id].ins = @ + 1, ![id].state = "running"]

\* Mutant: A scan that starts at the current slot.
SlotFrom(k) ==
  LET start == IF cur = NoSlot \/ cur >= count THEN 0 ELSE cur
  IN IF start + k >= count THEN start + k - count ELSE start + k

\* The slot reached k places after the current one, and the first runnable one.
SlotAfter(k) ==
  LET start == IF cur = NoSlot \/ cur + 1 >= count THEN 0 ELSE cur + 1
  IN IF start + k >= count THEN start + k - count ELSE start + k
Runnable(ts, slot) == TaskFromSlot(slot) # 0 /\ ts[TaskFromSlot(slot)].state = "runnable"
sched_find_next_slot(ts) ==
  IF \E k \in 0 .. count - 1 : Runnable(ts, SlotAfter(k))
    THEN SlotAfter(CHOOSE k \in 0 .. count - 1 :
                     /\ Runnable(ts, SlotAfter(k))
                     /\ \A j \in 0 .. k - 1 : ~Runnable(ts, SlotAfter(j)))
    ELSE NoSlot

sched_init ==
  /\ task_system_init
  /\ queue' = [s \in Slots |-> 0] /\ count' = 0 /\ cur' = NoSlot
  /\ alternating' = 0 /\ reported' = FALSE
  /\ running' = FALSE /\ bootstrapped' = FALSE
  /\ UNCHANGED <<making, fields>>

\* The task that ran last, as sched_handle_timer_interrupt reads it.
Prev == TaskFromSlot(cur)

\* The rest of the handler, once a next slot is chosen: the task's entry runs to
\* its end inside the handler and leaves the task runnable.
RunSlot(slot, out) ==
  LET id == TaskFromSlot(slot)
      turn == {Prev, id} = {1, 2}
      entered == task_context_switch_in(out, id)
  IN /\ cur' = slot
     /\ alternating' = IF turn THEN alternating + 1 ELSE alternating
     /\ reported' = (reported \/ (turn /\ alternating + 1 >= AltTarget))
     /\ tasks' = [entered EXCEPT ![id].runs = @ + 1, ![id].state = "runnable"]

sched_handle_timer_interrupt ==
  LET out == task_context_switch_out(tasks, Prev)
      slot == sched_find_next_slot(out)
  IN /\ \/ /\ ~running \/ count = 0
           /\ UNCHANGED <<tasks, cur, alternating, reported>>
        \/ /\ running /\ count # 0 /\ slot = NoSlot
           /\ tasks' = out /\ UNCHANGED <<cur, alternating, reported>>
        \/ /\ running /\ count # 0 /\ slot # NoSlot
           /\ RunSlot(slot, out)
     /\ UNCHANGED <<queue, count, running, bootstrapped, making, fields>>
===============================================================================
