\* Two icons of the dock and a window: moves between levels, and bouncing.
CONSTANTS
    Frames = {"v", "i", "j"}
    Icons = {"i", "j"}
    Levels <- MCLevels
    Reuse = FALSE
    NoFrame = "none"
    MaxDepth = 3

SPECIFICATION Spec

INVARIANTS
    TypeOK
    CommitFits
    ServerAgrees

CHECK_DEADLOCK FALSE
