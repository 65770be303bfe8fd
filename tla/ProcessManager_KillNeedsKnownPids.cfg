\* The Kill button of an entry that gains the PID -1.
CONSTANTS
    Pids = {"ws", "e1", "x1", "x2"}
    Names = {"Workspace", "Edit", "xterm"}
    NameOf <- MCNameOf
    XApps = {"xterm"}
    SystemApps = {"Workspace"}
    Anonymous = {"x2"}
    Initial = {"ws", "e1"}
    Operations = {o1}
    MaxNotices = 1

SPECIFICATION Spec

INVARIANT
    KillNeedsKnownPids

CHECK_DEADLOCK FALSE
