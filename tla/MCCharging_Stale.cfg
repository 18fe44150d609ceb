SPECIFICATION Spec
CONSTANTS
    Layers <- UpperLayers
    TIMER_MAX = 4
    TIMER_MAX_10s = 10
    TIMER_MAX_15s = 15
    StrayMessages <- NoStrays
    LossyRequests = FALSE
    PENDING_MAX = 1
    MIN_CYCLES = 2
    LIMIT_DEFAULT = 3
    LIMIT_PARAM = 4
    LIMIT_CABLE = 5
    LIMIT_PRECHARGE = 5
    LIMIT_POWER = 5
    LIMIT_CURRENT = 4
    PRECHARGE_DELAY = 1
    BULB_DELAY = 1
    AUTH_MAX = 1
    PARAM_MAX = 1
    CABLE_MAX = 1
    SOC_START = 1
    SOC_FULL = 4
    SOC_MAX = 4
    CYCLE_WRAP = 8
    LinkMayFail = FALSE
    LateSdp = FALSE
PROPERTIES
    AnswersAreCurrent
