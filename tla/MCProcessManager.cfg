\* Every kind of application, and an operation that comes and goes beside them.
CONSTANTS
    Pids = {"ws", "e1", "x1", "x2"}
    Names = {"Workspace", "Edit", "xterm"}
    NameOf <- MCNameOf
    XApps = {"xterm"}
    SystemApps = {"Workspace"}
    Anonymous = {"x2"}
    Initial = {"ws"}
    Operations = {o1}
    MaxNotices = 1

SPECIFICATION FairSpec

INVARIANTS
    TypeOK
    KnownIsListed
    StaleIsExplained
    FlagsFollowLogOut
    NothingIsLeftBehind

PROPERTY
    LogOutIsAnswered

CHECK_DEADLOCK FALSE
