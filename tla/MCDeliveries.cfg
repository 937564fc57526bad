CONSTANTS
    Hooks = {h1, h2}
    Attempts = 3
    Reconnects = 1
    Kept = 2
    MaxEvents = 2
    MaxSignals = 6
SPECIFICATION Spec
INVARIANTS AcknowledgedOrTried EachPartyIsWritten HeardOnce UnreadCounted
PROPERTY EventsAreSettled
CHECK_DEADLOCK FALSE
