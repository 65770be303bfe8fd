-------------------------------- MODULE Bag --------------------------------
(***************************************************************************)
(* What WUtil.h promises of a WMBag: elements in the order of their        *)
(* indexes, which may be any integer numbers.  Setting and erasing leaves  *)
(* the other elements where they are, inserting and deleting moves those   *)
(* after the element by one.  Putting does not look whether an index is in *)
(* use, so that elements may share one; which of them a call then means is *)
(* left open.                                                              *)
(***************************************************************************)
EXTENDS Integers, SequencesExt

CONSTANTS
    Indexes,    \* integers that serve as indexes
    Items       \* what is put into a bag

VARIABLE items  \* the elements

Init == items = <<>>

Element(i, x) == [index |-> i, item |-> x]

\* Where an element comes: before all that have its index or a greater one.
Place(i) == 1 + Len(SelectSeq(items, LAMBDA e : e.index < i))

\* The places of the elements with an index.
PlacesOf(i) == {k \in DOMAIN items : items[k].index = i}

Set(i, x) ==
    \/ \E k \in PlacesOf(i) : items' = [items EXCEPT ![k].item = x]
    \/ PlacesOf(i) = {} /\ items' = InsertAt(items, Place(i), Element(i, x))

\* "erase will remove the element from the bag, but will keep the index of the
\* other elements unchanged"
Erase(i) == \E k \in PlacesOf(i) : items' = RemoveAt(items, k)

\* The elements from a place on move by one, up or down.
Moved(from, by) ==
    [k \in DOMAIN items |-> IF k >= from THEN [items[k] EXCEPT !.index = @ + by] ELSE items[k]]

\* The index is the number of elements.
Put(x) == items' = InsertAt(items, Place(Len(items)), Element(Len(items), x))

\* "insert will increment the index of elements after it by 1"
Insert(i, x) == items' = InsertAt(Moved(Place(i), 1), Place(i), Element(i, x))

\* "delete and remove will remove the elements and cause the elements after
\* them to decrement their indexes by 1"
Delete(i) == \E k \in PlacesOf(i) : items' = RemoveAt(Moved(k, -1), k)

Empty == items' = <<>>

Next ==
    \/ \E i \in Indexes : Erase(i) \/ Delete(i) \/ \E x \in Items : Set(i, x) \/ Insert(i, x)
    \/ \E x \in Items : Put(x)
    \/ Empty

Spec == Init /\ [][Next]_items

=============================================================================
