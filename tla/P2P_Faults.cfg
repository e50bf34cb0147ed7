CONSTANTS
    Peers = {p1, p2, p3}
    Strays = {s1}
    BadPeers = {p1}
    AcceptFailures = TRUE
    MaxMsgs = 1
    FDs = {1, 2, 3, 4}
SPECIFICATION Spec
CHECK_DEADLOCK FALSE
INVARIANT TypeOK
INVARIANT ForeignReadNeedsBadType
 
