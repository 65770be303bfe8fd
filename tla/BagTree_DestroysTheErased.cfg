\* The erased node has two children.
CONSTANTS
    Nodes = {"a", "b", "c"}
    Nil = "nil"
    Indexes <- MCIndexes
    Items = {"x", "y"}
    NoItem = "NULL"
    Small = 3

SPECIFICATION Spec

PROPERTY DestroysTheErased

CHECK_DEADLOCK FALSE
