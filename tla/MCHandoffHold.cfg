SPECIFICATION HSpec
CONSTANTS
    Hosts = {mac}
    Players = {p1, p2}
    Local = Local
    NoHost = NoHost
    NoPlayer = NoPlayer
    TakeOverOnPlay = TRUE
    PLAY_DEBOUNCE = 1
    PAUSE_HOLD = 1
    AUDIO_CHANGE_HOLD = 1
    OPENING_WINDOW = 1
    OPENING_WINDOW_MAX = 2
    REQUEST_RECENT = 2
    STREAM_CHECK = 1
    STREAM_GRACE = 2
    PLAYBACK_STOPPED = 1
VIEW HoldView
CONSTRAINT TransportUnknown
INVARIANT OneRepausePerRequest
PROPERTY TakeOverAnswersAFreshPlay RepauseOnlyWhileYielded
