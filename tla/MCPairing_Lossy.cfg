SPECIFICATION Spec
CONSTANTS
    Layers <- LowerLayers
    TIMER_MAX = 12
    TIMER_MAX_10s = 14
    TIMER_MAX_15s = 18
    MOFI_DELAY = 1
    PARAM_CYCLES = 2
    TOO_LONG = 19
    START_ATTEN = 1
    SOUNDS = 2
    MATCH_DELAY = 1
    RESTART_DELAY = 4
    CHECK_CYCLES = 2
    RECHECK_DELAY = 2
    MISSING_MAX = 4
    SDP_RETRIES = 5
    SDP_DELAY = 4
    Lossy = TRUE
    LateReplies <- NoneLate
    FastReplies = TRUE
    RestartTimes <- ShortRestart
    LinkMayFail = FALSE
PROPERTIES
    PairedMeansAnswered
    SlacIsLeft
    SdpAsksToTheEnd
    
