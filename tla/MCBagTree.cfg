\* Five nodes under four indexes; elements are taken from bags of three.
CONSTANTS
    Nodes = {"a", "b", "c", "d", "e"}
    Nil = "nil"
    Indexes <- MCIndexes
    Items = {"x", "y"}
    NoItem = "NULL"
    Small = 3

SPECIFICATION Spec

PROPERTIES
    IsBag
    InsertionBalances

CHECK_DEADLOCK FALSE
