\* Three windows, any of them a transient of another.
CONSTANTS
    Frames = {"u", "v", "w"}
    Icons = {}
    Levels <- MCLevels
    Reuse = FALSE
    NoFrame = "none"
    MaxDepth = 3

SPECIFICATION FairSpec

INVARIANT Linked

PROPERTIES
    TransientsStayOver
    RaiseEnds
    OneFrameAtATime

CHECK_DEADLOCK FALSE
