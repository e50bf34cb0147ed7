\* Every combination of upstream and downstream federates: the NET / TAG / LTC
\* protocol, a relayed message, a physical action and STOP.
CONSTANTS
    StopTime = 3
    MaxUpstreamMsgs = 1
    MaxPhysical = 1
    InitialEvents = {2}
SPECIFICATION Spec
INVARIANT TypeOK
INVARIANT GrantCoversLogicalTime
INVARIANT ReaderFramesHandled
PROPERTY CausalDelivery
PROPERTY Termination
