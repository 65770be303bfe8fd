\* A one-shot and a persistent timer.
CONSTANTS
    Handlers = {"f", "g", "h"}
    Owners = {"raise", "bounce"}
    Persistent = {"bounce"}
    Delays = {0, 2}
    NoHandler = "none"
    MaxTime = 4

SPECIFICATION Spec

INVARIANT QueueIsSound

PROPERTIES
    WalkIsExact
    OverdueFires

CHECK_DEADLOCK FALSE
