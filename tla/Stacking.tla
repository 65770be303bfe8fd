------------------------------ MODULE Stacking ------------------------------
(***************************************************************************)
(* The stacking order of Window Maker's frames (src/stacking.c): windows,  *)
(* menus and dock icons.  The order is kept twice, as one doubly linked    *)
(* list per window level (WStacking in wcore.h) and as the order that the  *)
(* X server has.  Every operation changes the lists and then tells the     *)
(* server as little as it can.  A bouncing application icon goes around    *)
(* the lists.                                                              *)
(*                                                                         *)
(* The window manager's thread handles one event at a time, so an          *)
(* operation is one step; wRaiseFrame, which calls itself for the          *)
(* transients of the frame, is one step per call and per return.  The      *)
(* server's order is a relation: <<f, g>> \in over says that f is drawn    *)
(* over g.                                                                 *)
(*                                                                         *)
(* Workspace's main thread adds and removes the icons of launching         *)
(* applications as well (Workspace+WindowMaker.m:1030, 1044, 1090, 1103).  *)
(* An operation is taken to be over before the other thread begins one,    *)
(* which the code does not see to.                                         *)
(***************************************************************************)
EXTENDS Integers, Sequences, FiniteSets

CONSTANTS
    Frames,         \* addresses that a WCoreWindow may have
    Icons,          \* the frames that are icons of the dock: neither owner nor transient
    Levels,         \* the levels that are asked for, C ints
    Reuse,          \* TRUE: a new frame may get the address that a child_of still holds
    NoFrame,        \* NULL
    MaxDepth        \* bound: calls of wRaiseFrame within each other

\* WStacking.window_level is a short: the upper half of an int is lost.
Short(n) == LET low == n % 65536 IN IF low >= 32768 THEN low - 65536 ELSE low

StackLevels == {Short(l) : l \in Levels}

ASSUME StackingAssumption ==
    /\ IsFiniteSet(Frames)
    /\ Icons \subseteq Frames
    /\ Levels \subseteq Int
    /\ Levels # {}
    /\ Reuse \in BOOLEAN
    /\ NoFrame \notin Frames
    /\ MaxDepth \in Nat

VARIABLES
    stacked,        \* the frames that exist and are in the stacking context
    asked,          \* the level that was asked for a frame
    links,          \* above and under of every frame, and top: scr->stacking_list
    childOf,        \* child_of of every frame
    windowCount,    \* scr->window_count
    over,           \* the order that the server has
    raising,        \* the frames whose wRaiseFrame has not returned, the latest first
    move,           \* <<prev, frame>> within MoveInStackListUnder, <<>> elsewhere
    bouncing,       \* icons that doAppBounce moves
    unsettled       \* history: an icon was raised past the lists since CommitStacking

lists == <<links, childOf, windowCount>>
calls == <<raising, move>>
bounce == <<bouncing, unsettled>>
vars == <<stacked, asked, lists, over, calls, bounce>>

FrameOrNone == Frames \cup {NoFrame}
LevelOf(a) == [f \in Frames |-> Short(a[f])]
window_level == LevelOf(asked)
NoLevel == CHOOSE l \in Levels : TRUE

TypeOK ==
    /\ stacked \subseteq Frames
    /\ asked \in [Frames -> Levels]
    /\ links \in [above : [Frames -> FrameOrNone],
                  under : [Frames -> FrameOrNone],
                  top : [StackLevels -> FrameOrNone]]
    /\ childOf \in [Frames -> FrameOrNone]
    /\ windowCount \in Nat
    /\ over \subseteq stacked \X stacked
    /\ raising \in Seq(stacked)
    /\ move \in {<<>>} \cup stacked \X stacked
    /\ bouncing \subseteq stacked \cap Icons
    /\ unsettled \in BOOLEAN

Init ==
    /\ stacked = {}
    /\ asked = [f \in Frames |-> NoLevel]
    /\ links = [above |-> [f \in Frames |-> NoFrame],
                under |-> [f \in Frames |-> NoFrame],
                top |-> [l \in StackLevels |-> NoFrame]]
    /\ childOf = [f \in Frames |-> NoFrame]
    /\ windowCount = 0
    /\ over = {}
    /\ raising = <<>>
    /\ move = <<>>
    /\ bouncing = {}
    /\ unsettled = FALSE

\* No operation is under way: the event loop takes the next event.  (The main
\* thread's operations on launching icons are taken to wait for that as well.)
Idle == raising = <<>> /\ move = <<>>

-----------------------------------------------------------------------------
(* The lists.  L stands for a value of links, lv for one of window_level.  *)

\* The frames under f in its list: the least set that holds what is under f
\* and, with a frame, what is under that one.
Below(L, f) ==
    {g \in Frames :
        \A S \in SUBSET Frames :
            (\A h \in S \cup {f} : L.under[h] \in S \cup {NoFrame}) => g \in S}

\* Mutant of Unlink: the frame under f goes on pointing to f.
MutantUnlink(L, f) ==
    [above |-> [L.above EXCEPT ![f] = NoFrame],
     under |-> [g \in Frames |-> IF g = f THEN NoFrame
                                 ELSE IF L.under[g] = f THEN L.under[f]
                                 ELSE L.under[g]],
     top |-> [l \in StackLevels |-> IF L.top[l] = f THEN L.under[f] ELSE L.top[l]]]

\* Mutant of Unlink: stacking_list goes on pointing to f.
MutantUnlinkTop(L, f) ==
    [MutantUnlink(L, f) EXCEPT
        !.above = [g \in Frames |-> IF g = f THEN NoFrame
                                    ELSE IF L.above[g] = f THEN L.above[f]
                                    ELSE L.above[g]],
        !.top = L.top]

\* Take f out of its list.
Unlink(L, f) ==
    [above |-> [g \in Frames |-> IF g = f THEN NoFrame
                                 ELSE IF L.above[g] = f THEN L.above[f]
                                 ELSE L.above[g]],
     under |-> [g \in Frames |-> IF g = f THEN NoFrame
                                 ELSE IF L.under[g] = f THEN L.under[f]
                                 ELSE L.under[g]],
     top |-> [l \in StackLevels |-> IF L.top[l] = f THEN L.under[f] ELSE L.top[l]]]

\* Put f, which is in no list, on top of level l.
InsertTop(L, f, l) ==
    [above |-> [g \in Frames |-> IF g = f THEN NoFrame
                                 ELSE IF g = L.top[l] THEN f
                                 ELSE L.above[g]],
     under |-> [L.under EXCEPT ![f] = L.top[l]],
     top |-> [L.top EXCEPT ![l] = f]]

\* Put f, which is in no list, right under w.
InsertUnder(L, f, w) ==
    [L EXCEPT
        !.above = [g \in Frames |-> IF g = f THEN w
                                    ELSE IF g = L.under[w] THEN f
                                    ELSE L.above[g]],
        !.under = [L.under EXCEPT ![w] = f, ![f] = L.under[w]]]

\* The lowest transient of f among the frames of S.
LowestChild(L, S, f) ==
    {c \in S : childOf[c] = f /\ \A d \in S : childOf[d] = f => d = c \/ c \in Below(L, d)}

\* Where AddToStackList puts f: under its lowest transient, else on top.
Add(L, S, lv, f) ==
    LET level == {g \in S \ {f} : lv[g] = lv[f]} IN
    IF \E c \in level : childOf[c] = f
    THEN {InsertUnder(L, f, c) : c \in LowestChild(L, level, f)}
    ELSE {InsertTop(L, f, lv[f])}

\* Mutant of LowerPlace: a transient goes to the bottom.
MutantLowerPlace(L, S, lv, f) ==
    {w \in S : lv[w] = lv[f] /\ L.under[w] = NoFrame}

\* Where wLowerFrame puts f, which is out of its list: under the first frame
\* from the top that is at the bottom or has the owner of f right under it.
LowerPlace(L, S, lv, f) ==
    LET level == {w \in S : lv[w] = lv[f]}
        ends == {w \in level : L.under[w] \in {NoFrame, childOf[f]}}
    IN  IF L.top[lv[f]] = childOf[f]
        THEN {L.top[lv[f]]}
        ELSE {w \in ends : \A v \in ends : v = w \/ v \in Below(L, w)}

-----------------------------------------------------------------------------
(* The server.  o stands for a value of over. *)

Without(o, f) == {p \in o : p[1] # f /\ p[2] # f}

\* XRaiseWindow.
RaiseWindow(o, S, f) == Without(o, f) \cup {f} \X (S \ {f})

\* moveFrameToUnder: f goes right under a.
MoveToUnder(o, S, a, f) ==
    LET higher == {g \in S \ {f} : g = a \/ <<g, a>> \in o}
    IN  Without(o, f) \cup higher \X {f} \cup {f} \X (S \ (higher \cup {f}))

\* The bottom of the nearest level above f that has frames.
BottomAbove(L, S, lv, f) ==
    {g \in S : /\ lv[g] > lv[f]
               /\ L.under[g] = NoFrame
               /\ \A h \in S : lv[h] > lv[f] => lv[h] >= lv[g]}

\* Mutant of PlaceFrame: the levels above are not looked at.
MutantPlaceFrame(o, L, S, lv, f) ==
    IF L.above[f] # NoFrame THEN MoveToUnder(o, S, L.above[f], f)
    ELSE RaiseWindow(o, S, f)

\* CommitStackingForWindow, which wRaiseFrame and wLowerFrame repeat: put f
\* where it is in the lists, by the one frame that is right above it there.
PlaceFrame(o, L, S, lv, f) ==
    IF L.above[f] # NoFrame THEN MoveToUnder(o, S, L.above[f], f)
    ELSE IF \A g \in S : lv[g] <= lv[f] THEN RaiseWindow(o, S, f)
    ELSE MoveToUnder(o, S, CHOOSE g \in BottomAbove(L, S, lv, f) : TRUE, f)

\* CommitStacking: the whole order of the lists, from the highest level down.
ListOrder(L, S, lv) ==
    {p \in S \X S : \/ lv[p[1]] > lv[p[2]]
                    \/ lv[p[1]] = lv[p[2]] /\ p[2] \in Below(L, p[1])}

-----------------------------------------------------------------------------
(* wRaiseFrame and wLowerFrame. *)

\* A call: the frame goes on top of its list.  It does nothing on a top frame.
CallRaise(L, f) ==
    /\ L.above[f] # NoFrame
    /\ Len(raising) < MaxDepth
    /\ links' = InsertTop(Unlink(L, f), f, window_level[f])
    /\ raising' = <<f>> \o raising

Raise(f) ==
    /\ Idle
    /\ f \in stacked
    /\ CallRaise(links, f)
    /\ UNCHANGED <<stacked, asked, childOf, windowCount, over, move, bounce>>

Raised == Head(raising)

\* Mutant of LowTransients: the walk does not stop at the frame.
MutantLowTransients == LowestChild(links, stacked, Raised)

\* The transient that the walk from the bottom of the list comes to first.
LowTransients == LowestChild(links, Below(links, Raised), Raised)

\* The frame's transients follow it, the lowest one first.
RaiseTransient ==
    /\ raising # <<>>
    /\ \E c \in LowTransients : CallRaise(links, c)
    /\ UNCHANGED <<stacked, asked, childOf, windowCount, over, move, bounce>>

\* No transient is left under the frame: the server is told, the call returns.
RaiseReturn ==
    /\ raising # <<>>
    /\ \A c \in Below(links, Raised) : childOf[c] # Raised
    /\ over' = PlaceFrame(over, links, stacked, window_level, Raised)
    /\ raising' = Tail(raising)
    /\ UNCHANGED <<stacked, asked, lists, move, bounce>>

\* wLowerFrame: nothing to do at the bottom or right above the owner.
LowerTo(L, o, S, lv, f) ==
    IF L.under[f] \in {NoFrame, childOf[f]}
    THEN links' = L /\ over' = o
    ELSE \E w \in LowerPlace(Unlink(L, f), S \ {f}, lv, f) :
            /\ links' = InsertUnder(Unlink(L, f), f, w)
            /\ over' = PlaceFrame(o, links', S, lv, f)

Lower(f) ==
    /\ Idle
    /\ f \in stacked
    /\ links.under[f] # NoFrame
    /\ LowerTo(links, over, stacked, window_level, f)
    /\ UNCHANGED <<stacked, asked, childOf, windowCount, calls, bounce>>

\* wRaiseLowerFrame: a frame that a window covers is raised, any other lowered.
RaiseLower(f) ==
    \/ f \in stacked /\ links.above[f] # NoFrame /\ Raise(f)
    \/ Lower(f)

-----------------------------------------------------------------------------
(* The other operations. *)

\* wFrameWindowCreate or wIconCreate, and what wManageWindow says of the owner.
Create(f, l, owner) ==
    /\ Idle
    /\ f \notin stacked
    /\ Reuse \/ \A g \in stacked : childOf[g] # f
    /\ owner \in (IF f \in Icons THEN {} ELSE stacked \ Icons) \cup {NoFrame}
    /\ stacked' = stacked \cup {f}
    /\ asked' = [asked EXCEPT ![f] = l]
    /\ links' \in Add(links, stacked, LevelOf(asked'), f)
    /\ childOf' = [childOf EXCEPT ![f] = owner]
    /\ windowCount' = windowCount + 1
    /\ over' = ListOrder(links', stacked', LevelOf(asked'))
    /\ unsettled' = FALSE
    /\ UNCHANGED <<calls, bouncing>>

\* Mutant of Destroy: the timer of a bouncing icon goes on.
MutantDestroy(f) ==
    /\ Idle
    /\ f \in stacked
    /\ stacked' = stacked \ {f}
    /\ asked' = [asked EXCEPT ![f] = NoLevel]
    /\ links' = Unlink(links, f)
    /\ childOf' = [childOf EXCEPT ![f] = NoFrame]
    /\ windowCount' = windowCount - 1
    /\ over' = Without(over, f)
    /\ UNCHANGED <<calls, bounce>>

\* RemoveFromStackList, and the frame is freed.  A transient keeps its child_of.
Destroy(f) ==
    /\ Idle
    /\ f \in stacked
    /\ stacked' = stacked \ {f}
    /\ asked' = [asked EXCEPT ![f] = NoLevel]
    /\ links' = Unlink(links, f)
    /\ childOf' = [childOf EXCEPT ![f] = NoFrame]
    /\ windowCount' = windowCount - 1
    /\ over' = Without(over, f)
    /\ bouncing' = bouncing \ {f}
    /\ UNCHANGED <<calls, unsettled>>

\* Remove, set the level, add (and commit), then raise or lower.
ToLevel(f, l) ==
    /\ asked' = [asked EXCEPT ![f] = l]
    /\ unsettled' = FALSE
    /\ \E L \in Add(Unlink(links, f), stacked, LevelOf(asked'), f) :
        LET o == ListOrder(L, stacked, LevelOf(asked')) IN
        IF window_level[f] > l
        THEN /\ over' = o
             /\ IF L.above[f] = NoFrame
                THEN links' = L /\ UNCHANGED raising
                ELSE /\ links' = InsertTop(Unlink(L, f), f, Short(l))
                     /\ raising' = <<f>>
        ELSE /\ LowerTo(L, o, stacked, LevelOf(asked'), f)
             /\ UNCHANGED raising

ChangeStackingLevel(f, l) ==
    /\ Idle
    /\ f \in stacked
    /\ window_level[f] # l
    /\ ToLevel(f, l)
    /\ UNCHANGED <<stacked, childOf, windowCount, move, bouncing>>

\* The dock puts an icon under its first one, changing its level if it must.
MoveInStackListUnder(prev, f) ==
    /\ Idle
    /\ prev \in stacked \cap Icons
    /\ f \in stacked \cap Icons
    /\ f # prev
    /\ links.above[f] # prev
    /\ move' = <<prev, f>>
    /\ IF window_level[f] = window_level[prev]
       THEN UNCHANGED <<asked, links, over, raising, unsettled>>
       ELSE ToLevel(f, asked[prev])
    /\ UNCHANGED <<stacked, childOf, windowCount, bouncing>>

MoveUnder ==
    /\ raising = <<>>
    /\ move # <<>>
    /\ links' = InsertUnder(Unlink(links, move[2]), move[2], move[1])
    /\ over' = MoveToUnder(over, stacked, move[1], move[2])
    /\ move' = <<>>
    /\ UNCHANGED <<stacked, asked, childOf, windowCount, raising, bounce>>

\* The frames of the level of f that o has over, and under, f.
LevelOver(o, S, lv, f) == {g \in S : lv[g] = lv[f] /\ <<g, f>> \in o}
LevelUnder(o, S, lv, f) == {g \in S : lv[g] = lv[f] /\ <<f, g>> \in o}

\* RemakeStackList: the lists as the server has the frames.
Remake(o, S, lv) ==
    [above |-> [f \in Frames |->
                  IF f \notin S \/ LevelOver(o, S, lv, f) = {} THEN NoFrame
                  ELSE CHOOSE g \in LevelOver(o, S, lv, f) :
                         \A h \in LevelOver(o, S, lv, f) : h = g \/ <<h, g>> \in o],
     under |-> [f \in Frames |->
                  IF f \notin S \/ LevelUnder(o, S, lv, f) = {} THEN NoFrame
                  ELSE CHOOSE g \in LevelUnder(o, S, lv, f) :
                         \A h \in LevelUnder(o, S, lv, f) : h = g \/ <<g, h>> \in o],
     top |-> [l \in StackLevels |->
                  LET first == {f \in S : lv[f] = l /\ LevelOver(o, S, lv, f) = {}}
                  IN  IF first = {} THEN NoFrame ELSE CHOOSE f \in first : TRUE]]

\* wClientConfigure: a client asks for another place, the server obeys, and
\* the lists are made anew; CommitStacking puts the levels right.
ClientRestack(f, higher) ==
    /\ Idle
    /\ f \in stacked \ Icons
    /\ higher \subseteq stacked \ {f}
    /\ \A p \in over : p[2] \in higher /\ p[1] # f => p[1] \in higher
    /\ LET o == Without(over, f) \cup higher \X {f} \cup {f} \X (stacked \ (higher \cup {f}))
       IN  links' = Remake(o, stacked, window_level)
    /\ windowCount' = Cardinality(stacked)
    /\ over' = ListOrder(links', stacked, window_level)
    /\ unsettled' = FALSE
    /\ UNCHANGED <<stacked, asked, childOf, calls, bouncing>>

\* doAppBounce raises the icon in the server at every tick of its timer...
BounceTick(f) ==
    /\ Idle
    /\ f \in stacked \cap Icons
    /\ over' = RaiseWindow(over, stacked, f)
    /\ bouncing' = bouncing \cup {f}
    /\ unsettled' = TRUE
    /\ UNCHANGED <<stacked, asked, lists, calls>>

\* ... and puts it back at the end.
BounceEnd(f) ==
    /\ Idle
    /\ f \in bouncing
    /\ over' = PlaceFrame(over, links, stacked, window_level, f)
    /\ bouncing' = bouncing \ {f}
    /\ UNCHANGED <<stacked, asked, lists, calls, unsettled>>

-----------------------------------------------------------------------------

Operation(f) ==
    \/ Raise(f)
    \/ Lower(f)
    \/ RaiseLower(f)
    \/ \E l \in Levels, owner \in FrameOrNone : Create(f, l, owner)
    \/ Destroy(f)
    \/ \E l \in Levels : ChangeStackingLevel(f, l)
    \/ \E prev \in Icons : MoveInStackListUnder(prev, f)
    \/ \E higher \in SUBSET stacked : ClientRestack(f, higher)
    \/ BounceTick(f)
    \/ BounceEnd(f)

Continue == RaiseTransient \/ RaiseReturn \/ MoveUnder

Next == Continue \/ \E f \in Frames : Operation(f)

Spec == Init /\ [][Next]_vars

\* An operation that has begun goes on: it is a loop, and nothing waits in it.
FairSpec == Spec /\ WF_vars(Continue)

-----------------------------------------------------------------------------
(* Properties. *)

\* Every list is sound: above and under are each other's inverse, within one
\* level, and stacking_list holds the one frame of a level that nothing is
\* above (stacking.c: every insertion and removal rewires up to four pointers).
Linked ==
    /\ \A f \in Frames \ stacked : links.above[f] = NoFrame /\ links.under[f] = NoFrame
    /\ \A f \in stacked :
        /\ links.above[f] # NoFrame =>
            /\ links.above[f] \in stacked
            /\ window_level[links.above[f]] = window_level[f]
            /\ links.under[links.above[f]] = f
        /\ links.under[f] # NoFrame =>
            /\ links.under[f] \in stacked
            /\ window_level[links.under[f]] = window_level[f]
            /\ links.above[links.under[f]] = f
        /\ links.above[f] = NoFrame => links.top[window_level[f]] = f
    /\ \A l \in StackLevels :
        links.top[l] # NoFrame =>
            /\ links.top[l] \in stacked
            /\ window_level[links.top[l]] = l
            /\ links.above[links.top[l]] = NoFrame

\* The frames that a walk of the lists from their tops comes to.
Reached == UNION {{links.top[l]} \cup Below(links, links.top[l]) :
                    l \in {m \in StackLevels : links.top[m] # NoFrame}}

\* CommitStacking walks the lists and stores every frame it comes to in an
\* array of window_count elements: they always fit, and none is missed.
CommitFits == Reached = stacked /\ Cardinality(Reached) <= windowCount

\* When no operation is under way the server has the order of the lists,
\* although each operation told it of one frame only (the comment of
\* CommitStackingForWindow, stacking.c:157).  The exception is an icon that
\* bounces, until the next CommitStacking.
ServerAgrees ==
    Idle /\ ~unsettled => over = ListOrder(links, stacked, window_level)

\* A transient that shares the level of its owner, which is itself nobody's.
WithOwner(c) ==
    /\ c \in stacked
    /\ childOf[c] \in stacked
    /\ childOf[childOf[c]] = NoFrame
    /\ window_level[c] = window_level[childOf[c]]

\* What Window Maker does without being told where a frame has to go.
OwnStep ==
    \/ Continue
    \/ \E f \in Frames : Lower(f) \/ Destroy(f)
    \/ \E f \in Frames, l \in Levels : ChangeStackingLevel(f, l)
    \/ \E f \in Frames, l \in Levels, owner \in FrameOrNone : Create(f, l, owner)

\* No operation but the client's own puts a transient under its owner: raising
\* the owner takes it along ("raise transients under us", stacking.c:231) and
\* lowering it stops over the owner ("it should not be placed under it's
\* owner", stacking.c:338).
TransientsStayOver ==
    [][ OwnStep => \A c \in Frames :
          (WithOwner(c) /\ ~unsettled /\ <<c, childOf[c]>> \in over /\ WithOwner(c)')
          => <<c, childOf[c]>> \in over' ]_vars

\* Every wRaiseFrame ends, whatever transients the frame has.
RaiseEnds == raising # <<>> ~> raising = <<>>

\* Without icons that bounce, the server's order is what StackOrder promises.
Order == INSTANCE StackOrder WITH Levels <- StackLevels, level <- window_level
OneFrameAtATime == Order!Spec

=============================================================================
