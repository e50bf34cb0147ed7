--------------------------- MODULE ArduinoPlatform ---------------------------
(***************************************************************************)
(* The unthreaded Arduino support of lf_arduino_support.c: the 64-bit     *)
(* clock rebuilt from the 32-bit micros() counter, the nested critical    *)
(* sections that disable interrupts, and the busy-wait sleep that an      *)
(* interrupt cuts short through lf_platform_notify_of_event.              *)
(*                                                                         *)
(* Actors: the hardware timer, the single runtime thread (its loop is     *)
(* written from the contract of spec 4.1: enter a critical section, pick  *)
(* the next wakeup, sleep, handle the result, leave) and an interrupt     *)
(* service routine that schedules a physical action stamped with the      *)
(* clock and notifies.  The ISR runs atomically and only while interrupts *)
(* are enabled.  The timer is Width bits wide instead of 32.               *)
(***************************************************************************)
EXTENDS Integers, FiniteSets, FiniteSetsExt

CONSTANTS
    Width,        \* bits of the micros() counter (32 on the board)
    MaxTicks,     \* bound on timer ticks
    MaxPhysical,  \* bound on interrupts that schedule a physical action
    TimerTime     \* the runtime's next timer event, in nanoseconds

ASSUME Width \in Nat \ {0} /\ MaxTicks \in Nat /\ MaxPhysical \in Nat
ASSUME TimerTime \in Nat

Wrap == 2^Width

VARIABLES
    micros,                            \* hardware counter read by micros()
    _lf_time_us_high, _lf_time_us_low_last,
    _lf_async_event, _lf_num_nested_critical_sections,
    irq_enabled,                       \* interrupts enabled (noInterrupts/interrupts)
    pc, wakeup, ret,                   \* runtime thread
    event_q,                           \* physical actions scheduled by the ISR
    ticks, isr_count,                  \* bounds
    since_read,                        \* ticks since the last clock reading
    last_read                          \* history: the previous clock reading

clock == <<micros, _lf_time_us_high, _lf_time_us_low_last, ticks, since_read, last_read>>
vars == <<clock, _lf_async_event, _lf_num_nested_critical_sections,
          irq_enabled, pc, wakeup, ret, event_q, isr_count>>

Init ==
    /\ micros = 0 /\ _lf_time_us_high = 0 /\ _lf_time_us_low_last = 0
    /\ _lf_async_event = FALSE /\ _lf_num_nested_critical_sections = 0
    /\ irq_enabled = TRUE
    /\ pc = "idle" /\ wakeup = 0 /\ ret = 0
    /\ event_q = {} /\ ticks = 0 /\ isr_count = 0 /\ since_read = 0 /\ last_read = 0

-----------------------------------------------------------------------------
(* lf_clock_gettime: a wrap is detected when the low word is below the    *)
(* last one, which the function never stores.                              *)

NowUsHigh ==
    IF micros < _lf_time_us_low_last THEN _lf_time_us_high + 1 ELSE _lf_time_us_high

\* COMBINE_HI_LO(high, low) * 1000: microseconds to nanoseconds.
Now == (NowUsHigh * Wrap + micros) * 1000

lf_clock_gettime ==
    /\ _lf_time_us_high' = NowUsHigh
    /\ UNCHANGED _lf_time_us_low_last
    /\ last_read' = Now /\ since_read' = 0

-----------------------------------------------------------------------------
(* Nested critical sections.                                               *)

\* Mutant: interrupts are disabled on the second nesting level, not the first.
lf_platform_enable_interrupts_nested_off_by_one ==
    /\ _lf_num_nested_critical_sections' = _lf_num_nested_critical_sections + 1
    /\ irq_enabled' = IF _lf_num_nested_critical_sections = 1 THEN FALSE ELSE irq_enabled

\* Enter: the 0 -> 1 transition disables interrupts.
lf_platform_enable_interrupts_nested ==
    /\ _lf_num_nested_critical_sections' = _lf_num_nested_critical_sections + 1
    /\ irq_enabled' = IF _lf_num_nested_critical_sections = 0 THEN FALSE ELSE irq_enabled

\* Mutant: the counter is not decremented on exit.
lf_platform_disable_interrupts_nested_no_decrement ==
    IF _lf_num_nested_critical_sections <= 0
    THEN UNCHANGED <<_lf_num_nested_critical_sections, irq_enabled>>
    ELSE /\ UNCHANGED _lf_num_nested_critical_sections
         /\ irq_enabled' = IF _lf_num_nested_critical_sections = 1 THEN TRUE ELSE irq_enabled

\* Exit: an exit without an enter is refused (returns 1); the 1 -> 0
\* transition enables interrupts.
lf_platform_disable_interrupts_nested ==
    IF _lf_num_nested_critical_sections <= 0
    THEN UNCHANGED <<_lf_num_nested_critical_sections, irq_enabled>>
    ELSE /\ _lf_num_nested_critical_sections' = _lf_num_nested_critical_sections - 1
         /\ irq_enabled' = IF _lf_num_nested_critical_sections = 1 THEN TRUE ELSE irq_enabled

\* lf_platform_notify_of_event: a sleep in progress must end.
lf_platform_notify_of_event == _lf_async_event' = TRUE

-----------------------------------------------------------------------------
(* The runtime thread.                                                     *)

\* Enter a critical section and pick the earliest pending event.
Plan ==
    /\ pc = "idle"
    /\ lf_platform_enable_interrupts_nested
    /\ wakeup' = Min(event_q \cup {TimerTime})
    /\ pc' = "locked"
    /\ UNCHANGED <<clock, _lf_async_event, ret, event_q, isr_count>>

\* lf_sleep_until_locked, first part: clear the flag, leave the section.
SleepBegin ==
    /\ pc = "locked"
    /\ _lf_async_event' = FALSE
    /\ lf_platform_disable_interrupts_nested
    /\ pc' = "busy"
    /\ UNCHANGED <<clock, wakeup, ret, event_q, isr_count>>

\* Mutant: the busy loop keeps spinning until an event, past the wakeup.
BusyPoll_or ==
    /\ pc = "busy"
    /\ lf_clock_gettime
    /\ pc' = IF Now < wakeup \/ ~_lf_async_event THEN "busy" ELSE "waking"
    /\ UNCHANGED <<micros, ticks, _lf_async_event, _lf_num_nested_critical_sections,
                   irq_enabled, wakeup, ret, event_q, isr_count>>

\* One iteration of the busy loop: read the clock, test the condition.
BusyPoll ==
    /\ pc = "busy"
    /\ lf_clock_gettime
    /\ pc' = IF Now < wakeup /\ ~_lf_async_event THEN "busy" ELSE "waking"
    /\ UNCHANGED <<micros, ticks, _lf_async_event, _lf_num_nested_critical_sections,
                   irq_enabled, wakeup, ret, event_q, isr_count>>

\* Re-enter the critical section; -1 (and clear the flag) if an event came.
SleepEnd ==
    /\ pc = "waking"
    /\ lf_platform_enable_interrupts_nested
    /\ ret' = IF _lf_async_event THEN -1 ELSE 0
    /\ _lf_async_event' = FALSE
    /\ pc' = "ret"
    /\ UNCHANGED <<clock, wakeup, event_q, isr_count>>

\* The runtime handles the result: on 0 it processes the event at wakeup
\* (the run ends with the timer event), on -1 it re-plans; it leaves the
\* critical section either way.
Handle ==
    /\ pc = "ret"
    /\ lf_platform_disable_interrupts_nested
    /\ \/ /\ ret = 0
          /\ event_q' = event_q \ {wakeup}
          /\ pc' = IF wakeup = TimerTime THEN "done" ELSE "idle"
       \/ /\ ret = -1
          /\ pc' = "idle" /\ UNCHANGED event_q
    /\ UNCHANGED <<clock, _lf_async_event, wakeup, ret, isr_count>>

-----------------------------------------------------------------------------
(* Hardware and interrupts.                                                *)

\* The counter advances; the clock is read at least once per wrap period
\* (the precondition documented at lf_clock_gettime).
Tick ==
    /\ ticks < MaxTicks /\ since_read < Wrap - 1
    /\ micros' = (micros + 1) % Wrap /\ ticks' = ticks + 1
    /\ since_read' = since_read + 1
    /\ UNCHANGED <<_lf_time_us_high, _lf_time_us_low_last, last_read,
                   _lf_async_event, _lf_num_nested_critical_sections,
                   irq_enabled, pc, wakeup, ret, event_q, isr_count>>

\* An interrupt schedules a physical action at the current clock reading
\* (its nested enter/exit leave the counter as it was) and notifies.
Isr ==
    /\ irq_enabled /\ pc # "done" /\ isr_count < MaxPhysical
    /\ lf_clock_gettime
    /\ event_q' = event_q \cup {Now}
    /\ lf_platform_notify_of_event
    /\ isr_count' = isr_count + 1
    /\ UNCHANGED <<micros, ticks, _lf_num_nested_critical_sections, irq_enabled,
                   pc, wakeup, ret>>

Finished == pc = "done" /\ UNCHANGED vars

Runtime == Plan \/ SleepBegin \/ BusyPoll \/ SleepEnd \/ Handle

Next == Runtime \/ Tick \/ Isr \/ Finished

\* The runtime thread and the hardware timer always make progress.
Spec == Init /\ [][Next]_vars /\ WF_vars(Runtime) /\ WF_vars(Tick)

-----------------------------------------------------------------------------
(* Properties.                                                             *)

TypeOK ==
    /\ micros \in 0..(Wrap - 1) /\ _lf_time_us_high \in Nat
    /\ _lf_async_event \in BOOLEAN /\ _lf_num_nested_critical_sections \in 0..2
    /\ irq_enabled \in BOOLEAN
    /\ pc \in {"idle", "locked", "busy", "waking", "ret", "done"}
    /\ ret \in {0, -1} /\ event_q \subseteq Nat

\* When lf_sleep_until_locked returns 0 the runtime handles the event at
\* wakeup, and no physical action scheduled by an interrupt is pending
\* earlier than that: the critical section, the flag cleared before leaving
\* it and the notification together never let an interrupt's event be
\* overtaken.
NoEventOvertaken ==
    (pc = "ret" /\ ret = 0) => \A e \in event_q : e >= wakeup

\* The runtime eventually handles its timer event: a busy-wait sleep whose
\* wakeup comes before the micros() counter first wraps ends, at its
\* wakeup or at an interrupt's notification, whatever the interrupts do.
\* A wakeup past a wrap need not be reached at all: lf_clock_gettime never
\* counts the wrap (see ClockMonotonic), so this is checked only with
\* TimerTime below the first wrap.
SleepsEnd == <>(pc = "done")

\* lf_clock_gettime is monotonic (spec 4.1), given at least one reading
\* per wrap of the counter.
ClockMonotonic == [][last_read' >= last_read]_last_read

=============================================================================
