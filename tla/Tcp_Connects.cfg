SPECIFICATION Spec
CONSTANTS
    Layers = {"SDP", "TCP"}
    TIMER_MAX = 3
    TIMER_MAX_10s = 4
    TIMER_MAX_15s = 5
    SEQ_MOD = 4
    RequestLens = {1}
    EVSE_WINDOW = 0
    PORTS = 2
PROPERTIES
    ComesUp
