SPECIFICATION Spec
CONSTANTS
    Layers = {"SDP", "TCP"}
    TIMER_MAX = 3
    TIMER_MAX_10s = 4
    TIMER_MAX_15s = 5
    SEQ_MOD = 8
    RequestLens = {1, 2}
    EVSE_WINDOW = 1
    PORTS = 2
PROPERTIES
    RequestFollowsAck
