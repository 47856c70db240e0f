-------------------------------- MODULE Clock ---------------------------------
(***************************************************************************)
(* kernel/clock.c over the supervisor timer of arch/riscv/timer.c.  time   *)
(* is the time CSR, armed the deadline held by the SBI timer and enabled   *)
(* the pair sie.STIE / sstatus.SIE.  Time may pass between any two steps,  *)
(* so reading the time and programming the deadline are separate actions.  *)
(* g_tick_log_count only limits log lines and is left out.                 *)
(***************************************************************************)
EXTENDS Integers

CONSTANT Interval   \* CLOCK_INTERVAL_TICKS

ASSUME IntervalAssumption == Interval \in Nat \ {0}

VARIABLES
  time, armed, enabled,
  ticks,      \* g_tick_count
  next,       \* g_next_deadline
  now,        \* the local of clock_program_deadline: the last time read
  epoch       \* history: the time read by clock_init

clockVars == <<time, armed, enabled, ticks, next, now, epoch>>

ClockReset ==
  /\ time = 0 /\ armed = 0 /\ enabled = FALSE
  /\ ticks = 0 /\ next = 0 /\ now = time /\ epoch = time

\* The timer interrupt is raised as long as the deadline has passed.
Pending == enabled /\ time >= armed

riscv_timer_set_deadline(deadline) == armed' = deadline

\* clock_init in three steps: read the time, program the deadline, enable.
clock_init_read ==
  /\ ticks' = 0 /\ next' = time + Interval
  /\ now' = time /\ epoch' = time
  /\ UNCHANGED <<time, armed, enabled>>

clock_init_arm ==
  riscv_timer_set_deadline(next) /\ UNCHANGED <<time, enabled, ticks, next, now, epoch>>

riscv_timer_enable_interrupts ==
  enabled' = TRUE /\ UNCHANGED <<time, armed, ticks, next, now, epoch>>

\* Mutant: clock_program_deadline that forgets the interval under way.
CatchUpTooLate(deadline, t) ==
  IF deadline <= t THEN deadline + ((t - deadline) \div Interval) * Interval ELSE deadline

\* clock_program_deadline: the next point of the grid after the time read.
CatchUp(deadline, t) ==
  IF deadline <= t
    THEN deadline + ((t - deadline) \div Interval + 1) * Interval
    ELSE deadline

\* clock_handle_timer_interrupt up to the read of the time in
\* clock_program_deadline ...
clock_handle_timer_interrupt ==
  /\ ticks' = ticks + 1
  /\ now' = time
  /\ next' = CatchUp(next + Interval, time)
  /\ UNCHANGED <<time, armed, enabled, epoch>>

\* ... and the call of the firmware that ends it.
ProgramDeadline ==
  riscv_timer_set_deadline(next) /\ UNCHANGED <<time, enabled, ticks, next, now, epoch>>
===============================================================================
