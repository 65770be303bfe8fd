\* The end of one instance takes the entry of the others away.
CONSTANTS
    Pids = {"ws", "e1", "x1", "x2"}
    Names = {"Workspace", "Edit", "xterm"}
    NameOf <- MCNameOf
    XApps = {"xterm"}
    SystemApps = {"Workspace"}
    Anonymous = {"x2"}
    Initial = {"ws", "e1"}
    Operations = {o1}
    MaxNotices = 1

SPECIFICATION Spec

INVARIANT
    RunningIsListed

CHECK_DEADLOCK FALSE
