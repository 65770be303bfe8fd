\* Two windows of one application, both there at the start; the leader is "v".
CONSTANTS
    Windows = {"v", "w"}
    LeaderOf <- MCLeaderOf
    Workspaces = {0, 1}
    Initial = {"v", "w"}
    NoWindow = "none"
    MaxEvents = 4
    MaxLives = 2

SPECIFICATION Spec

INVARIANTS
    TypeOK
    FocusedIsHead
    NoWindowIsLost
    HiddenHasApplication
    NoOrphan

CHECK_DEADLOCK FALSE
