SPECIFICATION SSpec
CONSTANTS
    Hosts = {mac}
    Players = {p1}
    Local = Local
    NoHost = NoHost
    NoPlayer = NoPlayer
    TakeOverOnPlay = FALSE
    PLAY_DEBOUNCE = 1
    PAUSE_HOLD = 1
    AUDIO_CHANGE_HOLD = 1
    OPENING_WINDOW = 1
    OPENING_WINDOW_MAX = 2
    REQUEST_RECENT = 1
    STREAM_CHECK = 1
    STREAM_GRACE = 3
    PLAYBACK_STOPPED = 1
VIEW GraceView
PROPERTY StopNeverWithinGrace
