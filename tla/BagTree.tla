------------------------------ MODULE BagTree ------------------------------
(***************************************************************************)
(* WMBag, the red-black tree of WINGs/bagtree.c.  Window Maker keeps the   *)
(* lists of its stacking order in one, under the window levels.            *)
(*                                                                         *)
(* The tree is a record that the operators below take and return, as every *)
(* function of the code does with its W_Bag and the nodes.  A child is     *)
(* child[side][node]; the code spells both sides out.  Pointers are        *)
(* assigned in the order of the code, for the sentinel is written as well. *)
(***************************************************************************)
EXTENDS Integers, FiniteSets, Sequences

CONSTANTS
    Nodes,      \* addresses of nodes; as many elements fit
    Nil,        \* the sentinel of the bag
    Indexes,    \* the indexes, WBNotFound is none of them
    Items,      \* what is put into the bag
    NoItem,     \* NULL
    Small       \* bound: elements are taken only from bags of at most so many

ASSUME BagTreeAssumption ==
    /\ IsFiniteSet(Nodes)
    /\ Nil \notin Nodes
    /\ Indexes \subseteq Nat
    /\ NoItem \notin Items
    /\ Small \in Nat

VARIABLES
    tree,
    items,      \* what a walk of the tree finds, see Contents
    destroyed   \* what the last call handed to the destructor

vars == <<tree, items, destroyed>>

Sides == {"left", "right"}
Other(side) == IF side = "left" THEN "right" ELSE "left"
Pointers == Nodes \cup {Nil}

\* A color that was never set is the zero that wmalloc leaves.
Colors == {"R", "B", "zero"}

Trees == [root : Pointers,
          parent : [Pointers -> Pointers],
          child : [Sides -> [Pointers -> Pointers]],
          color : [Pointers -> Colors],
          index : [Nodes -> Indexes \cup {-1}],
          data : [Nodes -> Items \cup {NoItem}],
          used : SUBSET Nodes,      \* nodes that are not free
          count : 0 .. Cardinality(Nodes),
          sentinel : {"live", "freed"}]

\* WMCreateTreeBag.
Init ==
    /\ tree = [root |-> Nil,
               parent |-> [n \in Pointers |-> Nil],
               child |-> [side \in Sides |-> [n \in Pointers |-> Nil]],
               color |-> [n \in Pointers |-> "zero"],
               index |-> [n \in Nodes |-> -1],
               data |-> [n \in Nodes |-> NoItem],
               used |-> {},
               count |-> 0,
               sentinel |-> "live"]
    /\ items = <<>>
    /\ destroyed = <<>>

-----------------------------------------------------------------------------
(* Rotation, insertion and deletion. *)

\* IS_LEFT, IS_RIGHT.
Is(t, n, side) == n = t.child[side][t.parent[n]]
SideOf(t, n) == IF Is(t, n, "left") THEN "left" ELSE "right"

\* m becomes the child of p on a side.
Adopt(t, p, side, m) == [t EXCEPT !.child[side][p] = m, !.parent[m] = p]

\* m takes the place of n under the parent of n.
Replace(t, n, m) ==
    LET up == [t EXCEPT !.parent[m] = t.parent[n]] IN
    IF t.parent[n] = Nil THEN [up EXCEPT !.root = m]
    ELSE [up EXCEPT !.child[SideOf(t, n)][t.parent[n]] = m]

\* leftRotate and rightRotate: the other child of n takes the place of n.
Rotate(t, n, side) ==
    LET m == t.child[Other(side)][n] IN
    Adopt(Replace(Adopt(t, n, Other(side), t.child[side][m]), n, m), m, side, n)

BlackRoot(t) == [t EXCEPT !.color[t.root] = "B"]

\* Where the search of treeInsert for index i ends.
RECURSIVE Leaf(_, _, _)
Leaf(t, x, i) ==
    LET next == t.child[IF i <= t.index[x] THEN "left" ELSE "right"][x]
    IN  IF next = Nil THEN x ELSE Leaf(t, next, i)

\* treeInsert
TreeInsert(t, n) ==
    IF t.root = Nil THEN [t EXCEPT !.root = n, !.parent[n] = Nil]
    ELSE LET y == Leaf(t, t.root, t.index[n]) IN
         [t EXCEPT !.parent[n] = y,
                   !.child[IF t.index[n] <= t.index[y] THEN "left" ELSE "right"][y] = n]

\* The parent of n turns black and the grandparent red, which turns down.
TurnUp(t, n, side) ==
    LET p == t.parent[n]
        g == t.parent[p]
    IN  Rotate([t EXCEPT !.color[p] = "B", !.color[g] = "R"], g, side)

\* Mutant of InsertFixup: an inner grandchild is not turned out first.
MutantInsertFixup(t, n) ==
    IF n = t.root \/ t.color[t.parent[n]] # "R" THEN BlackRoot(t)
    ELSE TurnUp(t, n, Other(SideOf(t, t.parent[n])))

\* The loop of rbTreeInsert.
RECURSIVE InsertFixup(_, _)
InsertFixup(t, n) ==
    LET p == t.parent[n]
        g == t.parent[p]
        side == SideOf(t, p)
        uncle == t.child[Other(side)][g]
    IN  IF n = t.root \/ t.color[p] # "R" THEN BlackRoot(t)
        ELSE IF t.color[uncle] = "R"
        THEN InsertFixup([t EXCEPT !.color[p] = "B", !.color[uncle] = "B", !.color[g] = "R"], g)
        ELSE IF Is(t, n, Other(side))
        THEN InsertFixup(TurnUp(Rotate(t, p, side), p, Other(side)), p)
        ELSE InsertFixup(TurnUp(t, n, Other(side)), n)

\* rbTreeInsert
RBTreeInsert(t, n) == InsertFixup([TreeInsert(t, n) EXCEPT !.color[n] = "R"], n)

\* The steps of rbDeleteFixup for a node on a side: a red sibling turns up...
RedSibling(t, n, side) ==
    LET p == t.parent[n]
        w == t.child[Other(side)][p]
    IN  IF t.color[w] = "R"
        THEN Rotate([t EXCEPT !.color[w] = "B", !.color[p] = "R"], p, side)
        ELSE t

\* ... a near nephew turns up if the far one is black...
FarNephew(t, n, side) ==
    LET w == t.child[Other(side)][t.parent[n]] IN
    IF t.color[t.child[Other(side)][w]] = "B"
    THEN Rotate([t EXCEPT !.color[t.child[side][w]] = "B", !.color[w] = "R"], w, Other(side))
    ELSE t

\* ... and the sibling takes the place of the parent.
TurnSibling(t, n, side) ==
    LET p == t.parent[n]
        w == t.child[Other(side)][p]
    IN  Rotate([t EXCEPT !.color[w] = t.color[p],
                         !.color[p] = "B",
                         !.color[t.child[Other(side)][w]] = "B"], p, side)

\* rbDeleteFixup
RECURSIVE DeleteFixup(_, _)
DeleteFixup(t, n) ==
    LET side == SideOf(t, n)
        a == RedSibling(t, n, side)
        w == a.child[Other(side)][a.parent[n]]
    IN  IF n = t.root \/ t.color[n] # "B" THEN [t EXCEPT !.color[n] = "B"]
        ELSE IF \A s \in Sides : a.color[a.child[s][w]] = "B"
        THEN DeleteFixup([a EXCEPT !.color[w] = "R"], a.parent[n])
        ELSE BlackRoot(TurnSibling(FarNephew(a, n, side), n, side))

RECURSIVE TreeMinimum(_, _)
TreeMinimum(t, n) == IF t.child["left"][n] = Nil THEN n ELSE TreeMinimum(t, t.child["left"][n])

RECURSIVE Ascend(_, _)
Ascend(t, n) ==
    LET y == t.parent[n] IN
    IF y # Nil /\ n = t.child["right"][y] THEN Ascend(t, y) ELSE y

\* treeSuccessor
Successor(t, n) ==
    IF t.child["right"][n] # Nil THEN TreeMinimum(t, t.child["right"][n]) ELSE Ascend(t, n)

\* Mutant of Take: n gets the index of y without its item.
MutantTake(t, n, y) == [t EXCEPT !.index[n] = t.index[y]]

\* What y holds goes to n.
Take(t, n, y) == [t EXCEPT !.index[n] = t.index[y], !.data[n] = t.data[y]]

\* wfree
FreeNode(t, y) ==
    [t EXCEPT !.used = @ \ {y},
              !.parent[y] = Nil, !.child["left"][y] = Nil, !.child["right"][y] = Nil,
              !.color[y] = "zero", !.index[y] = -1, !.data[y] = NoItem,
              !.count = @ - 1]

\* The node that leaves the tree for n: n itself, or its successor if it has
\* two children.
Spliced(t, n) == IF \E side \in Sides : t.child[side][n] = Nil THEN n ELSE Successor(t, n)

\* rbTreeDelete, which returns the node that has left.
RBTreeDelete(t, n) ==
    LET y == Spliced(t, n)
        x == IF t.child["left"][y] # Nil THEN t.child["left"][y] ELSE t.child["right"][y]
        out == IF y = n THEN Replace(t, y, x) ELSE Take(Replace(t, y, x), n, y)
    IN  IF t.color[y] = "B" THEN DeleteFixup(out, x) ELSE out

-----------------------------------------------------------------------------
(* Shape. *)

\* The nodes under n, n included, no deeper than there are nodes.
RECURSIVE Under(_, _, _)
Under(t, n, depth) ==
    IF n = Nil \/ depth = 0 THEN {}
    ELSE {n} \cup Under(t, t.child["left"][n], depth - 1)
             \cup Under(t, t.child["right"][n], depth - 1)

Subtree(t, n) == Under(t, n, Cardinality(Nodes))
Reachable(t) == Subtree(t, t.root)

\* Every node is the child of its parent, and nothing is lost or freed.
IsTree(t) ==
    /\ t \in Trees
    /\ t.sentinel = "live"
    /\ t.count = Cardinality(t.used)
    /\ Reachable(t) = t.used
    /\ t.root # Nil => t.parent[t.root] = Nil
    /\ \A n \in t.used, side \in Sides :
        LET m == t.child[side][n] IN m # Nil => t.parent[m] = n /\ n \notin Subtree(t, m)
    /\ \A n \in t.used :
        Subtree(t, t.child["left"][n]) \cap Subtree(t, t.child["right"][n]) = {}

IsSearchTree(t) ==
    /\ IsTree(t)
    /\ \A n \in t.used :
        /\ \A m \in Subtree(t, t.child["left"][n]) : t.index[m] <= t.index[n]
        /\ \A m \in Subtree(t, t.child["right"][n]) : t.index[m] >= t.index[n]

RECURSIVE BlackHeights(_, _)
BlackHeights(t, n) ==
    IF n = Nil THEN {0}
    ELSE {h + (IF t.color[n] = "B" THEN 1 ELSE 0) :
            h \in BlackHeights(t, t.child["left"][n]) \cup BlackHeights(t, t.child["right"][n])}

IsRedBlack(t) ==
    /\ IsSearchTree(t)
    /\ t.color[Nil] # "R"
    /\ t.root # Nil => t.color[t.root] = "B"
    /\ \A n \in t.used, side \in Sides :
        t.color[n] = "R" => t.color[t.child[side][n]] # "R"
    /\ Cardinality(BlackHeights(t, t.root)) = 1

\* The nodes that WMBagFirst and then WMBagNext come to.
RECURSIVE WalkFrom(_, _)
WalkFrom(t, n) == IF n = Nil THEN <<>> ELSE <<n>> \o WalkFrom(t, Successor(t, n))
Walk(t) == WalkFrom(t, IF t.root = Nil THEN Nil ELSE TreeMinimum(t, t.root))

\* What the bag holds: what a walk comes to, if the tree is sound.
Contents(t) ==
    LET walk == Walk(t)
    IN  IF ~IsTree(t) THEN <<[index |-> -1, item |-> NoItem]>>
        ELSE [k \in DOMAIN walk |-> [index |-> t.index[walk[k]], item |-> t.data[walk[k]]]]

\* treeSearch from the root: of nodes with the same index the one it meets first.
RECURSIVE SearchFrom(_, _, _)
SearchFrom(t, n, i) ==
    IF n = Nil \/ t.index[n] = i THEN n
    ELSE SearchFrom(t, t.child[IF i < t.index[n] THEN "left" ELSE "right"][n], i)

Search(t, i) == SearchFrom(t, t.root, i)

\* WMGetFromBag
Get(t, i) == IF Search(t, i) = Nil THEN NoItem ELSE t.data[Search(t, i)]

-----------------------------------------------------------------------------
(* The functions of WUtil.h.  What they do to a tree that is broken already *)
(* or out of order is not followed.                                         *)

Free == Nodes \ tree.used

\* The walk, which still ends after an insertion: all nodes after n.
After(t, n) ==
    LET walk == WalkFrom(t, Successor(t, n)) IN {walk[k] : k \in DOMAIN walk}

Shift(t, N, by) ==
    [t EXCEPT !.index = [m \in Nodes |-> IF m \in N THEN @[m] + by ELSE @[m]]]

\* A new node n with an item enters the tree.
Enter(n, i, x) ==
    RBTreeInsert([tree EXCEPT !.used = @ \cup {n}, !.index[n] = i, !.data[n] = x,
                              !.count = @ + 1], n)

\* A node is deleted and freed, and the destructor gets what the freed one holds.
Leave(t, n) ==
    /\ Cardinality(tree.used) <= Small
    /\ LET y == Spliced(t, n)
           out == RBTreeDelete(t, n)
       IN  tree' = FreeNode(out, y) /\ destroyed' = <<out.data[y]>>

\* WMReplaceInBag, which is WMSetInBag: another item...
SetOther(i, x) ==
    /\ Search(tree, i) # Nil
    /\ tree' = [tree EXCEPT !.data[Search(tree, i)] = x]
    /\ destroyed' = <<>>

\* ... an item for an index without one...
SetNew(i, x) ==
    /\ Search(tree, i) = Nil
    /\ Free # {}
    /\ tree' = Enter(CHOOSE m \in Free : TRUE, i, x)
    /\ destroyed' = <<>>

\* ... NULL for an index with an item, as in WMEraseFromBag...
Erase(i) == Search(tree, i) # Nil /\ Leave(tree, Search(tree, i))

\* ... and for one without: the sentinel is taken out of the tree and freed.
SetNull(i) ==
    /\ Search(tree, i) = Nil
    /\ tree' = [RBTreeDelete(tree, Nil) EXCEPT !.sentinel = "freed", !.count = @ - 1]
    /\ destroyed' = <<NoItem>>

\* WMPutInBag: the index is the number of elements, whether it is in use or not.
Put(x) ==
    /\ Free # {}
    /\ tree.count \in Indexes
    /\ tree' = Enter(CHOOSE m \in Free : TRUE, tree.count, x)
    /\ destroyed' = <<>>

\* WMInsertInBag: the new node comes before the one that had the index.
InsertAt(i, x) ==
    /\ Free # {}
    /\ \A n \in tree.used : tree.index[n] >= i => tree.index[n] + 1 \in Indexes
    /\ LET n == CHOOSE m \in Free : TRUE
           t == Enter(n, i, x)
       IN  tree' = Shift(t, After(t, n), 1)
    /\ destroyed' = <<>>

\* WMDeleteFromBag; WMRemoveFromBag finds an item and does the same.
DeleteAt(i) ==
    LET n == Search(tree, i) IN n # Nil /\ Leave(Shift(tree, After(tree, n), -1), n)

\* WMEmptyBag: the sentinel stays as it is.
EmptyBag ==
    /\ tree.used # {}
    /\ tree' = [tree EXCEPT !.root = Nil,
                            !.used = {},
                            !.parent = [n \in Pointers |-> IF n = Nil THEN @[n] ELSE Nil],
                            !.child = [side \in Sides |-> [n \in Pointers |->
                                        IF n = Nil THEN @[side][n] ELSE Nil]],
                            !.color = [n \in Pointers |-> IF n = Nil THEN @[n] ELSE "zero"],
                            !.index = [n \in Nodes |-> -1],
                            !.data = [n \in Nodes |-> NoItem],
                            !.count = 0]
    /\ destroyed' = [k \in DOMAIN items |-> items[k].item]

Next ==
    /\ IsSearchTree(tree)
    /\ \/ \E i \in Indexes :
            \/ Erase(i) \/ SetNull(i) \/ DeleteAt(i)
            \/ \E x \in Items : SetNew(i, x) \/ SetOther(i, x) \/ InsertAt(i, x)
       \/ \E x \in Items : Put(x)
       \/ EmptyBag
    /\ items' = Contents(tree')

Spec == Init /\ [][Next]_vars

-----------------------------------------------------------------------------
(* Properties. *)

Promised == INSTANCE Bag

\* The bag is what WUtil.h says, elements under a common index included, until NULL
\* is set where there is nothing.  It is, as long as elements are taken only from
\* bags of up to three, in which the loop of rbDeleteFixup has nothing to repair;
\* from four on it may take the sentinel's parent from a rotation, and lose an
\* element.
IsBag == Promised!Init /\ [][Promised!Next \/ tree'.sentinel = "freed"]_items

\* Insertion makes a red-black tree of a red-black tree (rbTreeInsert, whose
\* loop repaints and rotates up to the root).
InsertionBalances ==
    [][ IsRedBlack(tree) /\ Cardinality(tree'.used) > Cardinality(tree.used)
        => IsRedBlack(tree)' ]_vars

\* Violated.  Setting or erasing an element leaves what WMGetFromBag finds under
\* the indexes before it (WINGs/ChangeLog: "An index assigned to an item will
\* always keep that index unless you insert an item before it").  WMPutInBag
\* takes an index that may be in use, and of the two elements the one that a
\* rotation brings up is found.
KeepsIndex ==
    [][ \A i, j \in Indexes :
        i < j /\ (Erase(j) \/ \E x \in Items : SetNew(j, x) \/ SetOther(j, x))
        => Get(tree', i) = Get(tree, i) ]_vars

\* Violated.  What the destructor gets has left the bag (WUtil.h: "erase will
\* remove the element from the bag").  If a node has two children its successor
\* is freed in its stead, and the destructor gets the item that stays.
DestroysTheErased ==
    [][ \A i \in Indexes :
        Erase(i) => \A k \in DOMAIN destroyed' : destroyed'[k] = Get(tree, i) ]_vars

\* Violated.  Setting NULL where there is nothing leaves the elements alone
\* (WINGs/ChangeLog, as above).  The code deletes the sentinel.
NullLeavesTheRest ==
    [][ \A i, j \in Indexes : SetNull(j) => Get(tree', i) = Get(tree, i) ]_vars

=============================================================================
