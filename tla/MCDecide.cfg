CONSTANTS
    Hosts = {mac, pc}
    AppleOuis = {mac}
    Allowed = TRUE
    EVICTION_WINDOW = 0
    REJOIN_DELAY = 1
    MANUAL_QUIET = 2
    BUSY_RETRY <- BusyRetry
    MAX_ATTEMPTS = 3
    RATE_LIMIT = 2
    LOOP_WINDOW = 2
    KNOWN_HOSTS_CAP = 1
    AutoEnabled = TRUE
    SETTLE = 1
    ABSENCE = 3
    FALLBACK_FIRST = 4
    FALLBACK_INTERVAL = 9
    FALLBACK_BUDGET = 24
    ADVERT_FRESH = 2
    RETRY_BACKOFF <- RetryBackoff
    AUTO_ATTEMPTS = 4
    Addresses = {a1, a2}
    AirPods = {a1}
    Reference = FALSE
    WATCHED_CAP = 1
    SCAN_RETRY = 1
    SCAN_RETRY_MAX = 2
    LE_RECHECK = 2
    ADAPTER_RECHECK = 1
    ADAPTER_SETTLE = 1
    MAX_UNREAD = 3
    MAX_FAILURES = 3
    A2dp = {t1}
    HandsFree = {t2}
    MAX_SIGNALS = 5
SPECIFICATION DecideSpec
VIEW DecideView
INVARIANT ScanResumes AdvertIsSeen ReportIsTrue
PROPERTY PageAnswersEviction SequencesSpaced PingPongStops EvidenceUsedOnce UserDecisionSticks AdvertPageNeedsArrival FallbackBounded
