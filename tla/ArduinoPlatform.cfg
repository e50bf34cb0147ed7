\* Runtime loop, one timer event and two interrupts, all before the 3-bit
\* counter wraps: SleepsEnd is claimed only for wakeups before the first
\* wrap (past it the clock_wrap finding applies).
CONSTANTS
    Width = 3
    MaxTicks = 7
    MaxPhysical = 2
    TimerTime = 6000
SPECIFICATION Spec
INVARIANT TypeOK
INVARIANT NoEventOvertaken
PROPERTY SleepsEnd
