CONSTANTS
    STARTING_PORT = 1
    PORT_RANGE_LIMIT = 1
    CONNECT_NUM_RETRIES = 1
    RtiPortArg = 0
    ServerPortArg = 0
    Extra = 2
SPECIFICATION Spec
PROPERTY ReachesRtiInRange
