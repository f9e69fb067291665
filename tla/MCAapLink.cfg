SPECIFICATION AapWatchSpec
CONSTANTS
    Keys = {key}
    Values = {v, w}
    NoValue = NoValue
    NAME_KEY = name
    SETTLE = 1
    BATTERY_WATCHDOG = 1
    MAX_NOTIF_RESENDS = 1
    IDLE_TIMEOUT = 2
    IDLE_PROBE_GRACE = 1
    VERIFY_DEBOUNCE = 1
    VERIFY_BUDGET = 2
    READBACK_WINDOW = 1
    Pinned = TRUE
    MaxEvents = 2
    MaxGeneration = 3
VIEW AapView
SYMMETRY Symmetry
INVARIANT SocketIsCurrent OneAutomaticDial SilenceBounded
PROPERTY CommandActsOnItsLink VerdictIsTrue
