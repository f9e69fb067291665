CONSTANTS
    A2dp = {"a2dp-sink"}
    Plain = "a2dp-sink"
    Retries = 1
    MaxEvents = 1
    MaxClaims = 1
    BusyRetries = 1
    Players = {p, q}
    NoPlayer = NoPlayer
    SETTLE = 1
    RESUME_WINDOW = 2
    MaxQueue = 1
SPECIFICATION MediaSpec
VIEW MediaView
INVARIANT RouteLanded
PROPERTY ReleaseAfterOff ClaimWhileOwner OnlyOwnPauseUndone ResumeAnswersPause
