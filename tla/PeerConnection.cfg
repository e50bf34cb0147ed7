CONSTANTS
    CONNECT_NUM_RETRIES = 2
SPECIFICATION Spec
INVARIANT TypeOK
PROPERTY ConnectEndsAtPeer
