\* A 2-bit counter that wraps; the clock is read at least once per wrap.
CONSTANTS
    Width = 2
    MaxTicks = 6
    MaxPhysical = 0
    TimerTime = 6000
SPECIFICATION Spec
PROPERTY ClockMonotonic
