-------------------------------- MODULE Kernel --------------------------------
(***************************************************************************)
(* The boot thread of kernel/main.c, interrupted by the timer.  The        *)
(* machine has one hart and trap_vector runs with interrupts masked, so a  *)
(* handler runs to its end once it is entered, and the boot thread only    *)
(* executes while no interrupt is pending.  pc is the next call of the     *)
(* boot thread, ipc the next part of trap_handle.                          *)
(*                                                                         *)
(* The scheduler's globals are not volatile.  Inside task_create, and      *)
(* between the return of the second one and the call of line_io_write that *)
(* ends the bootstrap, nothing orders the stores, so the compiler may emit *)
(* them in any order and an interrupt may fall between any two: fields and *)
(* stores are the sets of those still to be made.                          *)
(***************************************************************************)
EXTENDS Clock, Sched

CONSTANTS
  HandlerTime,    \* the most time a handler takes from its read of the time
  MaxTime         \* bound: time stops here

ASSUME HandlerAssumption == HandlerTime \in Nat /\ HandlerTime < Interval /\ MaxTime \in Nat

VARIABLES pc, ipc, stores, trapArmed, trapPassed

bootVars == <<pc, ipc, stores, trapArmed, trapPassed>>
vars == <<clockVars, schedVars, bootVars>>

AllStores == {"queue0", "queue1", "count1", "count2", "running", "bootstrapped"}
BootPoints == {"trap_test", "ebreak", "trap_check", "clock_read", "clock_arm", "clock_enable",
               "sched_init", "create_1", "create_2", "enqueue", "demo", "shell", "halted"}

Init ==
  /\ ClockReset
  /\ tasks = [id \in Ids |-> Unused]
  /\ queue = [s \in Slots |-> 0] /\ count = 0 /\ cur = 0
  /\ alternating = 0 /\ reported = FALSE /\ running = FALSE /\ bootstrapped = FALSE
  /\ making = 0 /\ fields = {}
  /\ pc = "trap_test" /\ ipc = "off" /\ stores = {} /\ trapArmed = FALSE /\ trapPassed = FALSE

\* The hart executes the boot thread.
At(p) == pc = p /\ ipc = "off" /\ ~Pending
Goto(p) == pc' = p /\ UNCHANGED ipc

\* Mutant: A self-test that executes the breakpoint without announcing it.
trap_test_unarmed ==
  /\ At("trap_test") /\ Goto("ebreak") /\ trapPassed' = FALSE
  /\ UNCHANGED <<clockVars, schedVars, stores, trapArmed>>

trap_test_trigger ==
  /\ At("trap_test") /\ Goto("ebreak")
  /\ trapArmed' = TRUE /\ trapPassed' = FALSE
  /\ UNCHANGED <<clockVars, schedVars, stores>>

\* trap_handle on the breakpoint: an armed one is skipped, any other halts.
trap_dispatch_exception ==
  /\ At("ebreak")
  /\ IF trapArmed THEN trapArmed' = FALSE /\ trapPassed' = TRUE /\ Goto("trap_check")
                  ELSE Goto("halted") /\ UNCHANGED <<trapArmed, trapPassed>>
  /\ UNCHANGED <<clockVars, schedVars, stores>>

TrapChecked ==
  /\ At("trap_check") /\ Goto(IF trapPassed THEN "clock_read" ELSE "halted")
  /\ UNCHANGED <<clockVars, schedVars, stores, trapArmed, trapPassed>>

ClockStep(p, action, q) ==
  At(p) /\ action /\ Goto(q) /\ UNCHANGED <<schedVars, stores, trapArmed, trapPassed>>

clock_init ==
  \/ ClockStep("clock_read", clock_init_read, "clock_arm")
  \/ ClockStep("clock_arm", clock_init_arm, "clock_enable")
  \/ ClockStep("clock_enable", riscv_timer_enable_interrupts, "sched_init")

BootstrapInit ==
  /\ At("sched_init") /\ ~bootstrapped
  /\ sched_init /\ Goto("create_1")
  /\ UNCHANGED <<clockVars, stores, trapArmed, trapPassed>>

\* A step of the task_create that is called at p; the last one leads to q.
CreateStep(p, q) ==
  /\ At(p)
  /\ \/ (TaskTaken \/ TaskFieldStored) /\ Goto(p)
     \/ TaskReturned /\ Goto(q)
  /\ UNCHANGED <<clockVars, queue, count, cur, alternating, reported, running, bootstrapped,
                 trapArmed, trapPassed>>

\* The two task_create calls; a null second task fails the bootstrap, which then
\* only sets g_bootstrapped.
BootstrapCreate ==
  \/ CreateStep("create_1", "create_2") /\ UNCHANGED stores
  \/ CreateStep("create_2", "enqueue")
     /\ stores' = IF pc' = "create_2" THEN stores
                  ELSE IF making = 0 THEN {"bootstrapped"} ELSE AllStores

\* One store of sched_enqueue_task or of the end of the bootstrap.  The count may
\* pass through 1 or be written once.
Store(s) ==
  /\ stores' = stores \ (IF s = "count2" THEN {"count1", "count2"} ELSE {s})
  /\ queue' = CASE s = "queue0" -> [queue EXCEPT ![0] = 1]
                [] s = "queue1" -> [queue EXCEPT ![1] = 2]
                [] OTHER -> queue
  /\ count' = CASE s = "count1" -> 1 [] s = "count2" -> 2 [] OTHER -> count
  /\ running' = (running \/ s = "running")
  /\ bootstrapped' = (bootstrapped \/ s = "bootstrapped")

BootstrapStore ==
  /\ At("enqueue") /\ \E s \in stores : Store(s)
  /\ UNCHANGED <<clockVars, tasks, cur, alternating, reported, making, fields, pc, ipc,
                 trapArmed, trapPassed>>

\* sched_bootstrap_test_tasks returns; it does nothing on a second call.
BootstrapReturn ==
  /\ At("enqueue") /\ stores = {} /\ Goto("demo")
  /\ UNCHANGED <<clockVars, schedVars, stores, trapArmed, trapPassed>>

\* Later in kernel_main the demo application adds a task that it never enqueues
\* (and runs once itself).
demo_window_app_register == CreateStep("demo", "shell") /\ UNCHANGED stores

Boot ==
  \/ trap_test_trigger \/ trap_dispatch_exception \/ TrapChecked \/ clock_init
  \/ BootstrapInit \/ BootstrapCreate \/ BootstrapStore \/ BootstrapReturn
  \/ demo_window_app_register

\* trap_handle on a timer interrupt: the clock, then the scheduler, then sret.
trap_dispatch_interrupt ==
  \/ /\ ipc = "off" /\ Pending /\ clock_handle_timer_interrupt /\ ipc' = "arm"
     /\ UNCHANGED <<schedVars, pc, stores, trapArmed, trapPassed>>
  \/ /\ ipc = "arm" /\ ProgramDeadline /\ ipc' = "sched"
     /\ UNCHANGED <<schedVars, pc, stores, trapArmed, trapPassed>>
  \/ /\ ipc = "sched" /\ sched_handle_timer_interrupt /\ ipc' = "off"
     /\ UNCHANGED <<clockVars, pc, stores, trapArmed, trapPassed>>

\* Time passes: any amount while the hart runs (the host may stall the machine with
\* an interrupt pending), less than an interval during a handler.
Advance ==
  /\ time < MaxTime /\ time' = time + 1
  /\ ipc # "off" => time < now + HandlerTime
  /\ UNCHANGED <<armed, enabled, ticks, next, now, epoch, schedVars, bootVars>>

Next == Boot \/ trap_dispatch_interrupt \/ Advance

Spec == Init /\ [][Next]_vars

\* The hart keeps executing.  A handler is shorter than an interval, so the boot
\* thread gets to execute again and again (strong fairness).
FairSpec == Spec /\ SF_vars(Boot) /\ WF_vars(trap_dispatch_interrupt)

-------------------------------------------------------------------------------
(* Properties *)

TaskRecord == [state : {"unused", "runnable", "running"}, runs : Nat, ins : Nat, outs : Nat]

\* Every variable has its type.
TypeOK ==
  /\ time \in Nat /\ armed \in Nat /\ enabled \in BOOLEAN /\ ticks \in Nat
  /\ next \in Nat /\ now \in Nat /\ epoch \in Nat
  /\ tasks \in [Ids -> TaskRecord] /\ queue \in [Slots -> 0 .. MaxTasks]
  /\ count \in 0 .. MaxTasks /\ cur \in Slots \cup {NoSlot}
  /\ alternating \in Nat /\ reported \in BOOLEAN
  /\ running \in BOOLEAN /\ bootstrapped \in BOOLEAN
  /\ making \in 0 .. MaxTasks /\ fields \subseteq TaskFields
  /\ pc \in BootPoints /\ ipc \in {"off", "arm", "sched"} /\ stores \subseteq AllStores
  /\ trapArmed \in BOOLEAN /\ trapPassed \in BOOLEAN

ClockStarted == pc \notin {"trap_test", "ebreak", "trap_check", "clock_read", "halted"}

\* However late the interrupts are served, g_tick_count never runs ahead of the
\* time that has really passed, and the next deadline is at most one interval
\* away: late ticks are skipped, never made up for.
TicksTrackTime ==
  ClockStarted =>
    /\ ticks * Interval <= time - epoch
    /\ next > now /\ next <= now + Interval
    /\ (ticks + 1) * Interval <= next - epoch

\* The counters of a task agree: it was switched in once per run and switched out
\* once per run, but for the run of the current task.
SwitchAccounting ==
  \A id \in Ids : /\ tasks[id].ins = tasks[id].runs
                  /\ tasks[id].outs = tasks[id].runs - (IF Prev = id THEN 1 ELSE 0)

\* A task outside the queue never runs, the demo application's task included,
\* whatever part of the queue an interrupt finds filled.
OnlyQueuedRun == \A id \in Ids : tasks[id].runs > 0 => \E s \in Slots : queue[s] = id

\* Once the queue is filled, no task is given two turns in a row.
TurnsAlternate ==
  [][stores = {} /\ tasks' # tasks =>
       \A id \in Ids : tasks'[id].runs # tasks[id].runs => id # Prev]_vars

\* The boot thread reaches the shell: it does not halt in the trap self-test, whose
\* breakpoint is answered only while it is armed, nor wait in any step for a handler.
BootCompletes == <>(pc = "shell")
===============================================================================
