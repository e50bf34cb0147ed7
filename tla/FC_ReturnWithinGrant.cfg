CONSTANTS
    StopTime = 3
    MaxUpstreamMsgs = 1
    MaxPhysical = 1
    InitialEvents = {2}
SPECIFICATION Spec
INVARIANT ReturnWithinGrant
