\* A hidden application loses the window that had the focus, and is shown again.
CONSTANTS
    Windows = {"v", "w"}
    LeaderOf <- MCLeaderOf
    Workspaces = {0, 1}
    Initial = {"v", "w"}
    NoWindow = "none"
    MaxEvents = 3
    MaxLives = 2

SPECIFICATION Spec

INVARIANT LastFocusedIsManaged

CHECK_DEADLOCK FALSE
