\* Elements are taken from bags of four.
CONSTANTS
    Nodes = {"a", "b", "c", "d"}
    Nil = "nil"
    Indexes <- MCIndexes
    Items = {"x"}
    NoItem = "NULL"
    Small = 4

SPECIFICATION Spec

PROPERTY IsBag

CHECK_DEADLOCK FALSE
