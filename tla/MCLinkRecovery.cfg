SPECIFICATION LinkLiveSpec
CONSTANTS
    Hosts = {mac}
    AppleOuis = {mac}
    Allowed = TRUE
    EVICTION_WINDOW = 0
    REJOIN_DELAY = 0
    MANUAL_QUIET = 0
    BUSY_RETRY <- BusyRetry
    REJOIN_ATTEMPTS = 2
    RATE_LIMIT = 0
    LOOP_WINDOW = 0
    KNOWN_HOSTS_CAP = 1
    AutoEnabled = TRUE
    SETTLE = 0
    ABSENCE = 1
    FALLBACK_FIRST = 0
    FALLBACK_INTERVAL = 0
    FALLBACK_BUDGET = 1
    ADVERT_FRESH = 0
    RETRY_BACKOFF <- RetryBackoff
    AUTO_ATTEMPTS = 2
    DropReasons = {"Remote", "Local"}
    MaxSignals = 1
    MaxRejoins = 1
    MaxAutos = 1
VIEW LinkView
CONSTRAINT SignalsBounded
PROPERTY OnePagerHolds RejoinCallsStand RejoinEnds AutoEnds
