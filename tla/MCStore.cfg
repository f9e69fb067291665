CONSTANTS
    Devices = {d1, d2}
    NoDevice = NoDevice
    Cells = {"left", "right"}
    PRIMARY_BUD = "auto"
    RECENT = 1
    FRESHNESS = 1
    Clients = {c1, c2}
    MAX_CLIENTS = 2
    CMD_QUEUE = 1
    COMMAND_DEADLINE = 1
    Writers = {w1, w2}
    VERIFY_WAIT = 1
    MAX_LINES = 2
    Names <- Texts
    OPACK_SHORT_STRING = 32
SPECIFICATION StoreSpec
SYMMETRY Alike
INVARIANT FactsAreOwn FreshMeansLive EarOnItsSide AnswerIsTrue WatchersCatchUp WireKeepsMeaning VerdictIsNotOlder
PROPERTY InertOnceAnswered
