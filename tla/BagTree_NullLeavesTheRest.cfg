\* NULL is set where there is nothing.
CONSTANTS
    Nodes = {"a", "b", "c"}
    Nil = "nil"
    Indexes <- MCIndexes
    Items = {"x", "y"}
    NoItem = "NULL"
    Small = 3

SPECIFICATION Spec

PROPERTY NullLeavesTheRest

CHECK_DEADLOCK FALSE
