\* An exception of -stop: leaves isQuitting set.
CONSTANTS
    Pids = {"ws", "e1", "x1", "x2"}
    Names = {"Workspace", "Edit", "xterm"}
    NameOf <- MCNameOf
    XApps = {"xterm"}
    SystemApps = {"Workspace"}
    Anonymous = {"x2"}
    Initial = {"ws", "e1"}
    Operations = {o1}
    MaxNotices = 1

SPECIFICATION Spec

INVARIANT
    QuittingMeansLogOut

CHECK_DEADLOCK FALSE
