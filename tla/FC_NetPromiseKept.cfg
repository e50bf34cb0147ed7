\* Downstream-only federate: NET(t) is sent and __next_event_time returns
\* at once; a physical action may then interrupt the wait for physical time.
CONSTANTS
    StopTime = 3
    MaxUpstreamMsgs = 0
    MaxPhysical = 1
    InitialEvents = {2}
SPECIFICATION Spec
PROPERTY NetPromiseKept
