----------------------------- MODULE StackOrder -----------------------------
(***************************************************************************)
(* What stacking promises to whoever looks at the screen: the frames are   *)
(* drawn in one order, which follows their levels at every moment, and it  *)
(* changes by one frame at a time that comes, goes or takes another place, *)
(* while the others keep their order among themselves.                     *)
(***************************************************************************)
EXTENDS Integers

CONSTANTS
    Frames,     \* whatever is stacked
    Levels      \* window levels, the higher ones in front

VARIABLES
    stacked,    \* the frames on the screen
    level,      \* the level of every frame
    over        \* <<f, g>> \in over: f is drawn over g

vars == <<stacked, level, over>>

\* A strict total order of the frames on the screen that follows the levels.
IsStacking ==
    /\ over \subseteq stacked \X stacked
    /\ \A f, g \in stacked :
        /\ f # g => (<<f, g>> \in over <=> <<g, f>> \notin over)
        /\ <<f, f>> \notin over
        /\ level[f] > level[g] => <<f, g>> \in over
        /\ \A h \in stacked : <<f, g>> \in over /\ <<g, h>> \in over => <<f, h>> \in over

Init == stacked = {} /\ over = {} /\ level \in [Frames -> Levels]

\* Nothing but f is where it was not.
OnlyMoves(f) ==
    /\ \A g \in Frames \ {f} : level'[g] = level[g]
    /\ \A g, h \in stacked \ {f} : <<g, h>> \in over' <=> <<g, h>> \in over
    /\ IsStacking'

Appear(f) == f \notin stacked /\ stacked' = stacked \cup {f} /\ OnlyMoves(f)

Disappear(f) == f \in stacked /\ stacked' = stacked \ {f} /\ OnlyMoves(f)

Move(f) == f \in stacked /\ stacked' = stacked /\ OnlyMoves(f)

Next == \E f \in Frames : Appear(f) \/ Disappear(f) \/ Move(f)

Spec == Init /\ [][Next]_vars

=============================================================================
