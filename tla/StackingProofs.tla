--------------------------- MODULE StackingProofs ---------------------------
(***************************************************************************)
(* Proofs about Stacking, for any set of frames, any levels, any depth of  *)
(* the recursion, and whether or not addresses are used again: the lists   *)
(* are linked, CommitStacking finds every frame and has room for them, the *)
(* server agrees with the lists, transients stay over their owners, and    *)
(* what one sees is a StackOrder.                                          *)
(***************************************************************************)
EXTENDS Stacking, FiniteSetTheorems, TLAPS

-----------------------------------------------------------------------------
(* Orders.  <<f, g>> \in o says that f is over g. *)

IsStrict(o, T) ==
    /\ \A f \in T : <<f, f>> \notin o
    /\ \A f, g, h \in T : <<f, g>> \in o /\ <<g, h>> \in o => <<f, h>> \in o

\* A strict total order of S.
IsOrder(o, S) ==
    /\ o \subseteq S \X S
    /\ IsStrict(o, S)
    /\ \A f, g \in S : f = g \/ <<f, g>> \in o \/ <<g, f>> \in o

\* A finite set that is ordered has a lowest element.
LEMMA LowestExists ==
    ASSUME NEW o, NEW T, IsFiniteSet(T), T # {}, IsStrict(o, T)
    PROVE  \E x \in T : \A y \in T : <<x, y>> \notin o
<1> DEFINE Low(x) == {y \in T : <<x, y>> \in o}
           F == {Low(x) : x \in T}
<1>1. IsWellFoundedOn(StrictSubsetOrdering(T), SUBSET T)
    BY FS_StrictSubsetOrderingWellFounded, FS_FiniteSubsetsOfFinite, Zenon
<1>2. F \subseteq SUBSET T /\ F # {}
    OBVIOUS
<1>3. PICK A \in F : \A B \in F : <<B, A>> \notin StrictSubsetOrdering(T)
    BY <1>1, <1>2, WFMin
<1>4. PICK x \in T : A = Low(x)
    BY <1>3
<1>5. ASSUME NEW y \in T, <<x, y>> \in o PROVE FALSE
    <2>1. Low(y) \subseteq Low(x) /\ y \in Low(x) /\ y \notin Low(y)
        BY <1>5, <1>4 DEF IsStrict
    <2>2. Low(y) \in F /\ Low(x) \in SUBSET T /\ Low(y) \in SUBSET T
        OBVIOUS
    <2>3. <<Low(y), Low(x)>> \in StrictSubsetOrdering(T)
        BY <2>1, <2>2 DEF StrictSubsetOrdering
    <2> QED BY <2>2, <2>3, <1>3, <1>4
<1> QED BY <1>5

\* ... and a highest one.
LEMMA HighestExists ==
    ASSUME NEW o, NEW T, IsFiniteSet(T), T # {}, IsStrict(o, T)
    PROVE  \E x \in T : \A y \in T : <<y, x>> \notin o
<1> DEFINE up == {p \in T \X T : <<p[2], p[1]>> \in o}
<1>1. \A x, y \in T : <<x, y>> \in up <=> <<y, x>> \in o
    OBVIOUS
<1> HIDE DEF up
<1>2. IsStrict(up, T)
    BY <1>1 DEF IsStrict
<1> QED BY <1>1, <1>2, LowestExists

-----------------------------------------------------------------------------
(* What is below a frame. *)

\* Levels are integers, cut to a short.
LEMMA ShortIsInt == \A n \in Int : Short(n) \in Int
BY DEF Short

\* The levels that a WStacking can have are integers.
LEMMA StackLevelsAreInts == StackLevels \subseteq Int
BY ShortIsInt, StackingAssumption DEF StackLevels

\* L has the type of links.
IsLinks(L) ==
    L \in [above : [Frames -> FrameOrNone],
           under : [Frames -> FrameOrNone],
           top : [StackLevels -> FrameOrNone]]

\* Below holds what is under a frame, and under those.
LEMMA BelowClosed ==
    ASSUME NEW L, IsLinks(L), NEW f \in Frames
    PROVE  /\ Below(L, f) \subseteq Frames
           /\ \A h \in Below(L, f) \cup {f} : L.under[h] \in Below(L, f) \cup {NoFrame}
<1>1. Below(L, f) \subseteq Frames
    BY DEF Below
<1>2. ASSUME NEW h \in Below(L, f) \cup {f}, L.under[h] # NoFrame
      PROVE  L.under[h] \in Below(L, f)
    <2>1. L.under[h] \in Frames
        BY <1>1, <1>2 DEF IsLinks, FrameOrNone
    <2>2. ASSUME NEW T \in SUBSET Frames,
                 \A g \in T \cup {f} : L.under[g] \in T \cup {NoFrame}
          PROVE  L.under[h] \in T
        BY <1>2, <2>2 DEF Below
    <2> QED BY <2>1, <2>2 DEF Below
<1> QED BY <1>1, <1>2

\* T holds what is under f and what is under its own elements.
ClosedFrom(L, f, T) ==
    /\ T \in SUBSET Frames
    /\ \A h \in T \cup {f} : L.under[h] \in T \cup {NoFrame}

\* ... and nothing else.
LEMMA BelowLeast ==
    ASSUME NEW L, NEW f, NEW T, ClosedFrom(L, f, T)
    PROVE  Below(L, f) \subseteq T
BY DEF Below, ClosedFrom

\* What is under a frame that is under f is under f.
LEMMA BelowTransitive ==
    ASSUME NEW L, IsLinks(L), NEW f \in Frames, NEW g \in Below(L, f)
    PROVE  Below(L, g) \subseteq Below(L, f)
<1>1. ClosedFrom(L, g, Below(L, f))
    BY BelowClosed DEF ClosedFrom
<1> QED BY <1>1, BelowLeast

\* Below is what is under f and what is below that.
LEMMA BelowUnfold ==
    ASSUME NEW L, IsLinks(L), NEW f \in Frames
    PROVE  /\ L.under[f] = NoFrame => Below(L, f) = {}
           /\ L.under[f] # NoFrame =>
                /\ L.under[f] \in Frames
                /\ Below(L, f) = {L.under[f]} \cup Below(L, L.under[f])
<1>1. CASE L.under[f] = NoFrame
    <2>1. ClosedFrom(L, f, {})
        BY <1>1 DEF ClosedFrom
    <2> QED BY <1>1, <2>1, BelowLeast
<1>2. CASE L.under[f] # NoFrame
    <2> DEFINE u == L.under[f]
               T == {u} \cup Below(L, u)
    <2>1. u \in Frames /\ u \in Below(L, f)
        BY <1>2, BelowClosed
    <2>2. ClosedFrom(L, f, T)
        BY <2>1, BelowClosed DEF ClosedFrom
    <2>3. Below(L, f) \subseteq T
        BY <2>2, BelowLeast
    <2>4. T \subseteq Below(L, f)
        BY <2>1, BelowTransitive
    <2> QED BY <1>2, <2>1, <2>3, <2>4
<1> QED BY <1>1, <1>2

-----------------------------------------------------------------------------
(* Sound lists. *)

\* Linked, of any links, frames and levels.
IsLinked(L, S, lv) ==
    /\ \A f \in Frames \ S : L.above[f] = NoFrame /\ L.under[f] = NoFrame
    /\ \A f \in S :
        /\ L.above[f] # NoFrame =>
            /\ L.above[f] \in S
            /\ lv[L.above[f]] = lv[f]
            /\ L.under[L.above[f]] = f
        /\ L.under[f] # NoFrame =>
            /\ L.under[f] \in S
            /\ lv[L.under[f]] = lv[f]
            /\ L.above[L.under[f]] = f
        /\ L.above[f] = NoFrame => L.top[lv[f]] = f
    /\ \A l \in StackLevels :
        L.top[l] # NoFrame =>
            /\ L.top[l] \in S
            /\ lv[L.top[l]] = l
            /\ L.above[L.top[l]] = NoFrame

\* Every frame is reached from the top of its level.
IsChained(L, S, lv) ==
    \A f \in S : /\ L.top[lv[f]] \in S
                 /\ f = L.top[lv[f]] \/ f \in Below(L, L.top[lv[f]])

\* L, S and lv have the types of links, stacked and window_level.
Typed(L, S, lv) ==
    /\ IsLinks(L)
    /\ S \in SUBSET Frames
    /\ lv \in [Frames -> StackLevels]

\* The lists L are linked, and every frame of S is reached in them.
Sound(L, S, lv) == Typed(L, S, lv) /\ IsLinked(L, S, lv) /\ IsChained(L, S, lv)

\* Linked is IsLinked of the state.
LEMMA SoundIsLinked == Linked <=> IsLinked(links, stacked, window_level)
BY DEF Linked, IsLinked

\* What is below a frame is stacked, of its level, and so is what is above it.
LEMMA BelowIsStacked ==
    ASSUME NEW L, NEW S, NEW lv, Typed(L, S, lv), IsLinked(L, S, lv), NEW f \in S
    PROVE  \A g \in Below(L, f) :
                g \in S /\ lv[g] = lv[f] /\ L.above[g] \in Below(L, f) \cup {f}
<1> DEFINE T == {g \in Below(L, f) : g \in S /\ lv[g] = lv[f]
                                        /\ L.above[g] \in Below(L, f) \cup {f}}
<1>1. f \in Frames /\ IsLinks(L)
    BY DEF Typed
<1>2. T \in SUBSET Frames
    BY <1>1, BelowClosed
<1>3. ASSUME NEW h \in T \cup {f} PROVE L.under[h] \in T \cup {NoFrame}
    <2>1. h \in S /\ lv[h] = lv[f] /\ h \in Below(L, f) \cup {f}
        OBVIOUS
    <2>2. L.under[h] \in Below(L, f) \cup {NoFrame}
        BY <1>1, <2>1, BelowClosed
    <2> QED BY <2>1, <2>2 DEF IsLinked
<1>4. ClosedFrom(L, f, T)
    BY <1>2, <1>3 DEF ClosedFrom
<1> QED BY <1>4, BelowLeast

\* The lists have no cycles.
LEMMA NoCycle ==
    ASSUME NEW L, NEW S, NEW lv, Sound(L, S, lv), NEW f \in S
    PROVE  f \notin Below(L, f)
<1> SUFFICES ASSUME f \in Below(L, f) PROVE FALSE
    OBVIOUS
<1> DEFINE C == Below(L, f)
           t == L.top[lv[f]]
<1>1. /\ f \in Frames /\ IsLinks(L) /\ NoFrame \notin Frames
      /\ Typed(L, S, lv) /\ IsLinked(L, S, lv)
    BY StackingAssumption DEF Sound, Typed
<1>2. C \subseteq Frames /\ \A g \in C : g \in S /\ L.above[g] \in C
    BY <1>1, BelowIsStacked, BelowClosed
<1>3. t \in S /\ L.above[t] = NoFrame /\ lv[f] \in StackLevels
    BY <1>1 DEF Sound, IsChained, IsLinked, Typed
<1>4. t \notin C /\ t \in Frames
    BY <1>1, <1>2, <1>3 DEF Typed
<1>5. ASSUME NEW h \in (Frames \ C) \cup {t}
      PROVE  L.under[h] \in (Frames \ C) \cup {NoFrame}
    <2>1. L.under[h] \in Frames \cup {NoFrame}
        BY <1>1, <1>4 DEF IsLinks, FrameOrNone
    <2>2. L.under[h] \in C => h \in S /\ L.above[L.under[h]] = h
        BY <1>1, <1>2, <1>4 DEF IsLinked
    <2> QED BY <2>1, <2>2, <1>2, <1>4
<1>6. ClosedFrom(L, t, Frames \ C)
    BY <1>5 DEF ClosedFrom
<1>7. f = t \/ f \in Below(L, t)
    BY DEF Sound, IsChained
<1> QED BY <1>4, <1>6, <1>7, BelowLeast

\* Two frames of one level are above and below each other.
LEMMA Comparable ==
    ASSUME NEW L, NEW S, NEW lv, Sound(L, S, lv), NEW f \in S, NEW g \in S, lv[f] = lv[g]
    PROVE  f = g \/ g \in Below(L, f) \/ f \in Below(L, g)
<1> DEFINE t == L.top[lv[f]]
           T == {h \in Frames : h = f \/ h \in Below(L, f) \/ f \in Below(L, h)}
<1>1. f \in Frames /\ g \in Frames /\ IsLinks(L)
    BY DEF Sound, Typed
<1>2. t \in Frames /\ (f = t \/ f \in Below(L, t)) /\ (g = t \/ g \in Below(L, t))
    BY <1>1 DEF Sound, IsChained, Typed
<1>3. t \in T
    BY <1>2
<1>4. ASSUME NEW h \in T \cup {t} PROVE L.under[h] \in T \cup {NoFrame}
    <2>1. h \in T
        BY <1>3
    <2>2. CASE h = f \/ h \in Below(L, f)
        <3>1. L.under[h] \in Below(L, f) \cup {NoFrame}
            BY <2>2, <1>1, BelowClosed
        <3> QED BY <3>1, <1>1, BelowClosed
    <2>3. CASE f \in Below(L, h)
        BY <2>1, <2>3, <1>1, BelowUnfold
    <2> QED BY <2>1, <2>2, <2>3
<1>5. ClosedFrom(L, t, T)
    BY <1>4 DEF ClosedFrom
<1>6. Below(L, t) \subseteq T
    BY <1>5, BelowLeast
<1> QED BY <1>2, <1>3, <1>6

\* Soundness looks at the levels of the stacked frames only.
LEMMA SoundLevels ==
    ASSUME NEW L, NEW S, NEW lv, Sound(L, S, lv),
           NEW lw \in [Frames -> StackLevels], \A f \in S : lw[f] = lv[f]
    PROVE  Sound(L, S, lw)
<1>1. Typed(L, S, lw)
    BY DEF Sound, Typed
<1>2. IsLinked(L, S, lw)
    <2>1. \A f \in S : L.above[f] \in S => lw[L.above[f]] = lw[f] <=> lv[L.above[f]] = lv[f]
        OBVIOUS
    <2> QED BY DEF Sound, IsLinked
<1>3. IsChained(L, S, lw)
    BY DEF Sound, IsChained
<1> QED BY <1>1, <1>2, <1>3 DEF Sound

\* Two frames are not under each other.
LEMMA BelowAntisymmetric ==
    ASSUME NEW L, NEW S, NEW lv, Sound(L, S, lv), NEW f \in S, NEW g \in Below(L, f)
    PROVE  f \notin Below(L, g)
BY BelowTransitive, NoCycle DEF Sound, Typed

\* The order of sound lists is an order.
LEMMA ListOrderIsOrder ==
    ASSUME NEW L, NEW S, NEW lv, Sound(L, S, lv)
    PROVE  IsOrder(ListOrder(L, S, lv), S)
<1> DEFINE o == ListOrder(L, S, lv)
<1>1. ASSUME NEW f \in S
      PROVE  IsLinks(L) /\ f \in Frames /\ lv[f] \in Int /\ f \notin Below(L, f)
    BY NoCycle, StackLevelsAreInts DEF Sound, Typed
<1>2. o \subseteq S \X S
    BY DEF ListOrder
<1>3. \A f, g \in S : <<f, g>> \in o <=> lv[f] > lv[g] \/ (lv[f] = lv[g] /\ g \in Below(L, f))
    BY DEF ListOrder
<1> HIDE DEF o
<1>4. \A f \in S : <<f, f>> \notin o
    BY <1>1, <1>3
<1>5. ASSUME NEW f \in S, NEW g \in S, NEW h \in S, <<f, g>> \in o, <<g, h>> \in o
      PROVE  <<f, h>> \in o
    <2>1. g \in Below(L, f) /\ h \in Below(L, g) => h \in Below(L, f)
        BY <1>1, BelowTransitive
    <2> QED BY <1>1, <1>3, <1>5, <2>1
<1>6. ASSUME NEW f \in S, NEW g \in S PROVE f = g \/ <<f, g>> \in o \/ <<g, f>> \in o
    BY <1>1, <1>3, Comparable
<1> QED BY <1>2, <1>4, <1>5, <1>6 DEF IsOrder, IsStrict, o

-----------------------------------------------------------------------------
(* What the operations on the lists do. *)

\* f has left the list; what was below another frame is, but for f.
LEMMA UnlinkSound ==
    ASSUME NEW L, NEW S, NEW lv, Sound(L, S, lv), NEW f \in S
    PROVE  /\ Sound(Unlink(L, f), S \ {f}, lv)
           /\ \A g \in S \ {f} : Below(Unlink(L, f), g) = Below(L, g) \ {f}
<1> DEFINE U == Unlink(L, f)
<1>1. /\ IsLinks(L) /\ IsLinked(L, S, lv) /\ S \subseteq Frames /\ f \in Frames
      /\ NoFrame \notin Frames /\ lv \in [Frames -> StackLevels] /\ f \notin Below(L, f)
      /\ Typed(L, S, lv)
    BY StackingAssumption, NoCycle DEF Sound, Typed
<1>2. IsLinks(U)
    BY <1>1 DEF Unlink, IsLinks, FrameOrNone
<1>3. /\ \A g \in Frames : /\ U.above[g] = IF g = f THEN NoFrame
                                           ELSE IF L.above[g] = f THEN L.above[f] ELSE L.above[g]
                           /\ U.under[g] = IF g = f THEN NoFrame
                                           ELSE IF L.under[g] = f THEN L.under[f] ELSE L.under[g]
      /\ \A l \in StackLevels : U.top[l] = IF L.top[l] = f THEN L.under[f] ELSE L.top[l]
    BY DEF Unlink
<1> HIDE DEF U
<1>4. L.under[f] # f /\ L.above[f] # f
    BY <1>1, BelowClosed DEF IsLinked
<1>5. IsLinked(U, S \ {f}, lv)
    <2>1. \A g \in Frames \ (S \ {f}) : U.above[g] = NoFrame /\ U.under[g] = NoFrame
        BY <1>1, <1>3 DEF IsLinked
    <2>2. ASSUME NEW g \in S \ {f}, U.above[g] # NoFrame
          PROVE  U.above[g] \in S \ {f} /\ lv[U.above[g]] = lv[g] /\ U.under[U.above[g]] = g
        <3>1. CASE L.above[g] = f
            BY <1>1, <1>3, <1>4, <2>2, <3>1 DEF IsLinked
        <3>2. CASE L.above[g] # f
            BY <1>1, <1>3, <1>4, <2>2, <3>2 DEF IsLinked
        <3> QED BY <3>1, <3>2
    <2>3. ASSUME NEW g \in S \ {f}, U.under[g] # NoFrame
          PROVE  U.under[g] \in S \ {f} /\ lv[U.under[g]] = lv[g] /\ U.above[U.under[g]] = g
        <3>1. CASE L.under[g] = f
            BY <1>1, <1>3, <1>4, <2>3, <3>1 DEF IsLinked
        <3>2. CASE L.under[g] # f
            BY <1>1, <1>3, <1>4, <2>3, <3>2 DEF IsLinked
        <3> QED BY <3>1, <3>2
    <2>4. ASSUME NEW g \in S \ {f}, U.above[g] = NoFrame PROVE U.top[lv[g]] = g
        <3>1. lv[g] \in StackLevels /\ lv[f] \in StackLevels
            BY <1>1
        <3>2. CASE L.above[g] = f
            BY <1>1, <1>3, <1>4, <2>4, <3>1, <3>2 DEF IsLinked
        <3>3. CASE L.above[g] # f
            BY <1>1, <1>3, <1>4, <2>4, <3>1, <3>3 DEF IsLinked
        <3> QED BY <3>2, <3>3
    <2>5. ASSUME NEW l \in StackLevels, U.top[l] # NoFrame
          PROVE  U.top[l] \in S \ {f} /\ lv[U.top[l]] = l /\ U.above[U.top[l]] = NoFrame
        <3>1. CASE L.top[l] = f
            BY <1>1, <1>3, <1>4, <2>5, <3>1 DEF IsLinked
        <3>2. CASE L.top[l] # f
            BY <1>1, <1>3, <1>4, <2>5, <3>2 DEF IsLinked
        <3> QED BY <3>1, <3>2
    <2> QED BY <2>1, <2>2, <2>3, <2>4, <2>5 DEF IsLinked
<1>6. ASSUME NEW g \in S \ {f} PROVE Below(U, g) = Below(L, g) \ {f}
    <2>1. g \in Frames /\ g \in S
        BY <1>1
    <2>2. ClosedFrom(U, g, Below(L, g) \ {f})
        <3>1. Below(L, g) \ {f} \in SUBSET Frames
            BY <1>1, BelowClosed
        <3>2. ASSUME NEW h \in (Below(L, g) \ {f}) \cup {g}
              PROVE  U.under[h] \in (Below(L, g) \ {f}) \cup {NoFrame}
            <4>1. h \in Frames /\ h # f /\ L.under[h] \in Below(L, g) \cup {NoFrame}
                BY <1>1, BelowClosed
            <4>2. f \in Below(L, g) => L.under[f] \in Below(L, g) \cup {NoFrame}
                BY <1>1, BelowClosed
            <4> QED BY <4>1, <4>2, <1>1, <1>3, <1>4
        <3> QED BY <3>1, <3>2 DEF ClosedFrom
    <2> DEFINE B == Below(U, g)
               T == {h \in Frames : h \in B \/ (h = f /\ L.above[f] \in B \cup {g})}
    <2>3. B \subseteq Frames /\ \A h \in B \cup {g} : U.under[h] \in B \cup {NoFrame}
        BY <1>2, <2>1, BelowClosed
    <2>4. f \notin B
        BY <2>2, BelowLeast
    <2>5. ClosedFrom(L, g, T)
        <3>1. ASSUME NEW h \in T \cup {g} PROVE L.under[h] \in T \cup {NoFrame}
            <4>1. CASE h = f
                <5>1. L.above[f] \in B \cup {g}
                    BY <4>1, <2>4
                <5>2. L.above[f] \in S /\ L.under[L.above[f]] = f
                    BY <5>1, <2>3, <1>1 DEF IsLinked
                <5>3. U.under[L.above[f]] = L.under[f]
                    BY <5>2, <1>1, <1>3, <1>4
                <5> QED BY <4>1, <5>1, <5>3, <2>3
            <4>2. CASE h # f /\ L.under[h] = f
                <5>1. h \in B \cup {g} /\ h \in Frames
                    BY <4>2, <2>1
                <5>2. h \in S
                    BY <1>1, <5>1, <4>2 DEF IsLinked
                <5>3. L.above[f] = h
                    BY <5>2, <4>2, <1>1 DEF IsLinked
                <5> QED BY <5>1, <5>3, <4>2, <1>1
            <4>3. CASE h # f /\ L.under[h] # f
                <5>1. h \in B \cup {g} /\ h \in Frames
                    BY <4>3, <2>1
                <5>2. U.under[h] = L.under[h]
                    BY <5>1, <4>3, <1>3
                <5> QED BY <5>1, <5>2, <2>3
            <4> QED BY <4>1, <4>2, <4>3
        <3> QED BY <3>1 DEF ClosedFrom
    <2>6. Below(L, g) \subseteq T /\ B \subseteq Below(L, g) \ {f}
        BY <2>2, <2>5, BelowLeast
    <2> QED BY <2>4, <2>6
<1>7. IsChained(U, S \ {f}, lv)
    <2> SUFFICES ASSUME NEW g \in S \ {f}
                 PROVE  /\ U.top[lv[g]] \in S \ {f}
                        /\ g = U.top[lv[g]] \/ g \in Below(U, U.top[lv[g]])
        BY DEF IsChained
    <2> DEFINE t == L.top[lv[g]]
    <2>1. t \in S /\ (g = t \/ g \in Below(L, t)) /\ lv[g] \in StackLevels
        BY <1>1 DEF Sound, IsChained
    <2>2. CASE t # f
        BY <2>1, <2>2, <1>3, <1>6
    <2>3. CASE t = f
        <3>1. g \in Below(L, f)
            BY <2>1, <2>3
        <3>2. L.under[f] # NoFrame /\ (g = L.under[f] \/ g \in Below(L, L.under[f]))
            BY <3>1, <1>1, BelowUnfold
        <3>3. L.under[f] \in S \ {f}
            BY <3>2, <1>1, <1>4 DEF IsLinked
        <3> QED BY <3>2, <3>3, <2>1, <2>3, <1>3, <1>6
    <2> QED BY <2>2, <2>3
<1> QED BY <1>1, <1>2, <1>5, <1>6, <1>7 DEF Sound, Typed, U

\* A frame on top is over all of its level.
LEMMA InsertTopSound ==
    ASSUME NEW L, NEW S, NEW lv, Sound(L, S, lv), NEW f \in Frames \ S
    PROVE  /\ Sound(InsertTop(L, f, lv[f]), S \cup {f}, lv)
           /\ \A g \in S : Below(InsertTop(L, f, lv[f]), g) = Below(L, g)
           /\ InsertTop(L, f, lv[f]).above[f] = NoFrame
<1> DEFINE I == InsertTop(L, f, lv[f])
<1>1. /\ IsLinks(L) /\ IsLinked(L, S, lv) /\ S \subseteq Frames /\ f \in Frames
      /\ NoFrame \notin Frames /\ lv \in [Frames -> StackLevels] /\ lv[f] \in StackLevels
      /\ Typed(L, S, lv)
    BY StackingAssumption DEF Sound, Typed
<1>2. IsLinks(I)
    BY <1>1 DEF InsertTop, IsLinks, FrameOrNone
<1>3. /\ \A g \in Frames : /\ I.above[g] = IF g = f THEN NoFrame
                                           ELSE IF g = L.top[lv[f]] THEN f ELSE L.above[g]
                           /\ I.under[g] = IF g = f THEN L.top[lv[f]] ELSE L.under[g]
      /\ \A l \in StackLevels : I.top[l] = IF l = lv[f] THEN f ELSE L.top[l]
    BY <1>1 DEF InsertTop, IsLinks
<1> HIDE DEF I
<1>4. L.top[lv[f]] # NoFrame => /\ L.top[lv[f]] \in S /\ lv[L.top[lv[f]]] = lv[f]
                                /\ L.above[L.top[lv[f]]] = NoFrame
    BY <1>1 DEF IsLinked
<1>5. IsLinked(I, S \cup {f}, lv)
    <2>1. \A g \in Frames \ (S \cup {f}) : I.above[g] = NoFrame /\ I.under[g] = NoFrame
        BY <1>1, <1>3, <1>4 DEF IsLinked
    <2>2. ASSUME NEW g \in S \cup {f}, I.above[g] # NoFrame
          PROVE  I.above[g] \in S \cup {f} /\ lv[I.above[g]] = lv[g] /\ I.under[I.above[g]] = g
        BY <1>1, <1>3, <1>4, <2>2 DEF IsLinked
    <2>3. ASSUME NEW g \in S \cup {f}, I.under[g] # NoFrame
          PROVE  I.under[g] \in S \cup {f} /\ lv[I.under[g]] = lv[g] /\ I.above[I.under[g]] = g
        BY <1>1, <1>3, <1>4, <2>3 DEF IsLinked
    <2>4. ASSUME NEW g \in S \cup {f}, I.above[g] = NoFrame PROVE I.top[lv[g]] = g
        BY <1>1, <1>3, <1>4, <2>4 DEF IsLinked
    <2>5. ASSUME NEW l \in StackLevels, I.top[l] # NoFrame
          PROVE  I.top[l] \in S \cup {f} /\ lv[I.top[l]] = l /\ I.above[I.top[l]] = NoFrame
        BY <1>1, <1>3, <1>4, <2>5 DEF IsLinked
    <2> QED BY <2>1, <2>2, <2>3, <2>4, <2>5 DEF IsLinked
<1>6. ASSUME NEW g \in S PROVE Below(I, g) = Below(L, g)
    <2>1. g \in Frames /\ g # f
        BY <1>1
    <2>2. Below(L, g) \subseteq S
        BY <1>1, BelowIsStacked
    <2>3. ClosedFrom(I, g, Below(L, g))
        BY <1>1, <1>3, <2>1, <2>2, BelowClosed DEF ClosedFrom
    <2>4. ClosedFrom(L, g, Below(I, g))
        <3>1. Below(I, g) \in SUBSET Frames
            BY <1>2, <2>1, BelowClosed
        <3>2. ASSUME NEW h \in Below(I, g) \cup {g}
              PROVE  L.under[h] \in Below(I, g) \cup {NoFrame}
            <4>1. I.under[h] \in Below(I, g) \cup {NoFrame} /\ h \in Frames
                BY <1>2, <2>1, <3>1, BelowClosed
            <4>2. L.under[f] = NoFrame
                BY <1>1 DEF IsLinked
            <4> QED BY <4>1, <4>2, <1>3
        <3> QED BY <3>1, <3>2 DEF ClosedFrom
    <2> QED BY <2>3, <2>4, BelowLeast
<1>7. IsChained(I, S \cup {f}, lv)
    <2> SUFFICES ASSUME NEW g \in S \cup {f}
                 PROVE  /\ I.top[lv[g]] \in S \cup {f}
                        /\ g = I.top[lv[g]] \/ g \in Below(I, I.top[lv[g]])
        BY DEF IsChained
    <2>1. CASE g = f
        BY <2>1, <1>1, <1>3
    <2>2. CASE g \in S
        <3> DEFINE t == L.top[lv[g]]
        <3>1. t \in S /\ (g = t \/ g \in Below(L, t)) /\ lv[g] \in StackLevels
            BY <2>2, <1>1 DEF Sound, IsChained
        <3>2. CASE lv[g] # lv[f]
            BY <3>1, <3>2, <1>3, <1>6
        <3>3. CASE lv[g] = lv[f]
            <4>1. I.top[lv[g]] = f /\ I.under[f] = t /\ t # NoFrame
                BY <3>1, <3>3, <1>1, <1>3
            <4>2. Below(I, f) = {t} \cup Below(I, t)
                BY <4>1, <1>1, <1>2, BelowUnfold
            <4> QED BY <3>1, <4>1, <4>2, <1>6
        <3> QED BY <3>2, <3>3
    <2> QED BY <2>1, <2>2
<1> QED BY <1>1, <1>2, <1>3, <1>5, <1>6, <1>7 DEF Sound, Typed, I

\* A frame that is put under w is under it and under what is over it.
LEMMA InsertUnderSound ==
    ASSUME NEW L, NEW S, NEW lv, Sound(L, S, lv), NEW f \in Frames \ S,
           NEW w \in S, lv[w] = lv[f]
    PROVE  /\ Sound(InsertUnder(L, f, w), S \cup {f}, lv)
           /\ \A g \in S : Below(InsertUnder(L, f, w), g)
                            = Below(L, g) \cup (IF w \in Below(L, g) \cup {g} THEN {f} ELSE {})
           /\ InsertUnder(L, f, w).above[f] = w
<1> DEFINE I == InsertUnder(L, f, w)
<1>1. /\ IsLinks(L) /\ IsLinked(L, S, lv) /\ S \subseteq Frames /\ f \in Frames
      /\ NoFrame \notin Frames /\ lv \in [Frames -> StackLevels] /\ w \in Frames
      /\ w \notin Below(L, w) /\ w # f /\ Typed(L, S, lv)
    BY StackingAssumption, NoCycle DEF Sound, Typed
<1>2. IsLinks(I)
    BY <1>1 DEF InsertUnder, IsLinks, FrameOrNone
<1>3. /\ \A g \in Frames : /\ I.above[g] = IF g = f THEN w
                                           ELSE IF g = L.under[w] THEN f ELSE L.above[g]
                           /\ I.under[g] = IF g = f THEN L.under[w]
                                           ELSE IF g = w THEN f ELSE L.under[g]
      /\ \A l \in StackLevels : I.top[l] = L.top[l]
    BY <1>1 DEF InsertUnder, IsLinks
<1> HIDE DEF I
<1>4. L.under[w] # NoFrame => /\ L.under[w] \in S /\ lv[L.under[w]] = lv[f]
                              /\ L.above[L.under[w]] = w /\ L.under[w] # w
    BY <1>1, BelowClosed DEF IsLinked
<1>5. IsLinked(I, S \cup {f}, lv)
    <2>1. \A g \in Frames \ (S \cup {f}) : I.above[g] = NoFrame /\ I.under[g] = NoFrame
        BY <1>1, <1>3, <1>4 DEF IsLinked
    <2>2. ASSUME NEW g \in S \cup {f}, I.above[g] # NoFrame
          PROVE  I.above[g] \in S \cup {f} /\ lv[I.above[g]] = lv[g] /\ I.under[I.above[g]] = g
        BY <1>1, <1>3, <1>4, <2>2 DEF IsLinked
    <2>3. ASSUME NEW g \in S \cup {f}, I.under[g] # NoFrame
          PROVE  I.under[g] \in S \cup {f} /\ lv[I.under[g]] = lv[g] /\ I.above[I.under[g]] = g
        BY <1>1, <1>3, <1>4, <2>3 DEF IsLinked
    <2>4. ASSUME NEW g \in S \cup {f}, I.above[g] = NoFrame PROVE I.top[lv[g]] = g
        BY <1>1, <1>3, <1>4, <2>4 DEF IsLinked
    <2>5. ASSUME NEW l \in StackLevels, I.top[l] # NoFrame
          PROVE  I.top[l] \in S \cup {f} /\ lv[I.top[l]] = l /\ I.above[I.top[l]] = NoFrame
        BY <1>1, <1>3, <1>4, <2>5 DEF IsLinked
    <2> QED BY <2>1, <2>2, <2>3, <2>4, <2>5 DEF IsLinked
<1>6. ASSUME NEW g \in S
      PROVE  Below(I, g) = Below(L, g) \cup (IF w \in Below(L, g) \cup {g} THEN {f} ELSE {})
    <2> DEFINE T == Below(L, g) \cup (IF w \in Below(L, g) \cup {g} THEN {f} ELSE {})
               B == Below(I, g)
    <2>1. /\ g \in Frames /\ g # f /\ f \notin Below(L, g) /\ Below(L, g) \subseteq S
          /\ \A h \in Below(L, g) \cup {g} : L.under[h] \in Below(L, g) \cup {NoFrame}
        BY <1>1, BelowIsStacked, BelowClosed
    <2>2. ClosedFrom(I, g, T)
        BY <1>1, <1>3, <2>1 DEF ClosedFrom
    <2>3. B \subseteq Frames /\ \A h \in B \cup {g} : I.under[h] \in B \cup {NoFrame}
        BY <1>2, <2>1, BelowClosed
    <2>4. ClosedFrom(L, g, B)
        <3>1. ASSUME NEW h \in B \cup {g} PROVE L.under[h] \in B \cup {NoFrame}
            <4>1. h \in Frames /\ I.under[h] \in B \cup {NoFrame}
                BY <2>1, <2>3
            <4>2. CASE h = w
                <5>1. f \in B
                    BY <4>1, <4>2, <1>1, <1>3
                <5> QED BY <4>2, <5>1, <2>3, <1>1, <1>3
            <4>3. CASE h = f
                BY <4>3, <1>1 DEF IsLinked
            <4> QED BY <4>1, <4>2, <4>3, <1>3
        <3> QED BY <3>1, <2>3 DEF ClosedFrom
    <2>5. B \subseteq T /\ Below(L, g) \subseteq B
        BY <2>2, <2>4, BelowLeast
    <2>6. w \in Below(L, g) \cup {g} => f \in B
        <3> SUFFICES ASSUME w \in Below(L, g) \cup {g} PROVE f \in B
            OBVIOUS
        <3>1. I.under[w] = f /\ w \in B \cup {g}
            BY <1>1, <1>3, <2>5
        <3> QED BY <3>1, <2>3, <1>1
    <2> QED BY <2>5, <2>6
<1>7. IsChained(I, S \cup {f}, lv)
    <2> SUFFICES ASSUME NEW g \in S \cup {f}
                 PROVE  /\ I.top[lv[g]] \in S \cup {f}
                        /\ g = I.top[lv[g]] \/ g \in Below(I, I.top[lv[g]])
        BY DEF IsChained
    <2> DEFINE t == L.top[lv[w]]
    <2>1. t \in S /\ (w = t \/ w \in Below(L, t)) /\ lv[w] \in StackLevels
        BY <1>1 DEF Sound, IsChained
    <2>2. CASE g = f
        BY <2>1, <2>2, <1>3, <1>6
    <2>3. CASE g \in S
        <3>1. L.top[lv[g]] \in S /\ (g = L.top[lv[g]] \/ g \in Below(L, L.top[lv[g]]))
              /\ lv[g] \in StackLevels
            BY <2>3, <1>1 DEF Sound, IsChained
        <3> QED BY <3>1, <1>3, <1>6
    <2> QED BY <2>2, <2>3
<1> QED BY <1>1, <1>2, <1>3, <1>5, <1>6, <1>7 DEF Sound, Typed, I

\* The frames other than f are below each other as before.
KeepsOthers(L, M, S, f) ==
    \A g, h \in S \ {f} : h \in Below(M, g) <=> h \in Below(L, g)

\* Wherever Add puts f, which is out of its list, the lists are sound.
LEMMA AddSound ==
    ASSUME NEW L, NEW S, NEW lv, NEW f \in Frames, Sound(L, S \ {f}, lv),
           NEW M \in Add(L, S, lv, f)
    PROVE  Sound(M, S \cup {f}, lv) /\ KeepsOthers(L, M, S, f)
<1>1. S \ {f} \subseteq Frames /\ f \in Frames \ (S \ {f}) /\ (S \ {f}) \cup {f} = S \cup {f}
    BY DEF Sound, Typed
<1>2. CASE \E c \in S \ {f} : lv[c] = lv[f] /\ M = InsertUnder(L, f, c)
    <2>1. PICK c \in S \ {f} : lv[c] = lv[f] /\ M = InsertUnder(L, f, c)
        BY <1>2
    <2>2. /\ Sound(M, (S \ {f}) \cup {f}, lv)
          /\ \A g \in S \ {f} : Below(M, g)
                = Below(L, g) \cup (IF c \in Below(L, g) \cup {g} THEN {f} ELSE {})
        BY <1>1, <2>1, InsertUnderSound
    <2> QED BY <1>1, <2>2 DEF KeepsOthers
<1>3. CASE M = InsertTop(L, f, lv[f])
    <2> DEFINE R == S \ {f}
    <2> HIDE DEF R
    <2>1. /\ Sound(M, R \cup {f}, lv)
          /\ \A g \in R : Below(M, g) = Below(L, g)
        <3>1. Sound(L, R, lv) /\ f \in Frames \ R
            BY <1>1 DEF R
        <3> QED BY <3>1, <1>3, InsertTopSound
    <2> USE DEF R
    <2> QED BY <1>1, <2>1 DEF KeepsOthers
<1> QED BY <1>2, <1>3 DEF Add, LowestChild

\* Taking f out and putting it under w of its level.
LEMMA MoveSound ==
    ASSUME NEW L, NEW S, NEW lv, Sound(L, S, lv), NEW f \in S, NEW w \in S \ {f}, lv[w] = lv[f],
           NEW M, M = InsertUnder(Unlink(L, f), f, w)
    PROVE  /\ Sound(M, S, lv) /\ KeepsOthers(L, M, S, f) /\ M.above[f] = w
           /\ \A g \in S \ {f} : f \in Below(M, g) <=> w \in Below(L, g) \cup {g}
<1> DEFINE U == Unlink(L, f)
<1>1. S \subseteq Frames /\ f \in Frames \ (S \ {f}) /\ (S \ {f}) \cup {f} = S
    BY DEF Sound, Typed
<1>2. Sound(U, S \ {f}, lv) /\ \A g \in S \ {f} : Below(U, g) = Below(L, g) \ {f}
    BY UnlinkSound
<1> HIDE DEF U
<1>3. /\ Sound(M, (S \ {f}) \cup {f}, lv)
      /\ \A g \in S \ {f} : Below(M, g)
            = Below(U, g) \cup (IF w \in Below(U, g) \cup {g} THEN {f} ELSE {})
      /\ M.above[f] = w
    BY <1>1, <1>2, InsertUnderSound DEF U
<1> QED BY <1>1, <1>2, <1>3 DEF KeepsOthers

\* Taking f out and putting it on top.
LEMMA RaiseSound ==
    ASSUME NEW L, NEW S, NEW lv, Sound(L, S, lv), NEW f \in S,
           NEW M, M = InsertTop(Unlink(L, f), f, lv[f])
    PROVE  /\ Sound(M, S, lv) /\ KeepsOthers(L, M, S, f) /\ M.above[f] = NoFrame
           /\ \A g \in S : f \notin Below(M, g)
<1> DEFINE U == Unlink(L, f)
<1>1. S \subseteq Frames /\ f \in Frames \ (S \ {f}) /\ (S \ {f}) \cup {f} = S
    BY DEF Sound, Typed
<1>2. Sound(U, S \ {f}, lv) /\ \A g \in S \ {f} : Below(U, g) = Below(L, g) \ {f}
    BY UnlinkSound
<1> HIDE DEF U
<1>3. /\ Sound(M, (S \ {f}) \cup {f}, lv)
      /\ \A g \in S \ {f} : Below(M, g) = Below(U, g)
      /\ M.above[f] = NoFrame
    <2> DEFINE R == S \ {f}
    <2>1. Sound(U, R, lv) /\ f \in Frames \ R /\ M = InsertTop(U, f, lv[f])
        BY <1>1, <1>2 DEF U
    <2> HIDE DEF R
    <2> DEFINE I == InsertTop(U, f, lv[f])
    <2>2. /\ Sound(I, R \cup {f}, lv) /\ I.above[f] = NoFrame
          /\ \A g \in R : Below(I, g) = Below(U, g)
        BY ONLY <2>1, InsertTopSound
    <2> QED BY <2>1, <2>2 DEF R
<1>4. f \notin Below(M, f)
    BY <1>1, <1>3, NoCycle
<1> QED BY <1>1, <1>2, <1>3, <1>4 DEF KeepsOthers

\* A frame that nothing is above has its level below it, one that nothing is
\* under is below all of it.
LEMMA EndsOfALevel ==
    ASSUME NEW L, NEW S, NEW lv, Sound(L, S, lv), NEW f \in S, NEW g \in S \ {f}, lv[f] = lv[g]
    PROVE  /\ L.above[f] = NoFrame => g \in Below(L, f)
           /\ L.under[f] = NoFrame => f \in Below(L, g)
<1>1. IsLinks(L) /\ S \subseteq Frames /\ Typed(L, S, lv) /\ IsLinked(L, S, lv)
      /\ NoFrame \notin Frames
    BY StackingAssumption DEF Sound, Typed
<1>2. g \in Below(L, f) \/ f \in Below(L, g)
    BY Comparable
<1>3. L.above[f] = NoFrame => f \notin Below(L, g)
    BY <1>1, BelowIsStacked, BelowClosed
<1>4. L.under[f] = NoFrame => g \notin Below(L, f)
    BY <1>1, BelowUnfold
<1> QED BY <1>2, <1>3, <1>4

\* What is above a frame is right above it: what is below that is the frame and
\* what is below the frame.
LEMMA RightAbove ==
    ASSUME NEW L, NEW S, NEW lv, Sound(L, S, lv), NEW f \in S, L.above[f] # NoFrame
    PROVE  /\ L.above[f] \in S \ {f} /\ lv[L.above[f]] = lv[f]
           /\ f \in Below(L, L.above[f])
           /\ \A g \in S : f \in Below(L, g) <=> g = L.above[f] \/ L.above[f] \in Below(L, g)
<1> DEFINE a == L.above[f]
<1>1. IsLinks(L) /\ S \subseteq Frames /\ Typed(L, S, lv) /\ IsLinked(L, S, lv)
      /\ NoFrame \notin Frames
    BY StackingAssumption DEF Sound, Typed
<1>2. a \in S /\ lv[a] = lv[f] /\ L.under[a] = f
    BY <1>1 DEF IsLinked
<1>3. Below(L, a) = {f} \cup Below(L, f)
    BY <1>1, <1>2, BelowUnfold
<1>4. a # f
    BY <1>2, <1>3, NoCycle
<1>5. ASSUME NEW g \in S, f \in Below(L, g) PROVE g = a \/ a \in Below(L, g)
    BY <1>1, <1>5, BelowIsStacked
<1>6. ASSUME NEW g \in S, g = a \/ a \in Below(L, g) PROVE f \in Below(L, g)
    BY <1>1, <1>3, <1>6, BelowTransitive
<1> QED BY <1>2, <1>3, <1>4, <1>5, <1>6

-----------------------------------------------------------------------------
(* The server's order. *)

\* H is a set of frames that come first, and f is put right under them.
PutUnder(o, S, H, f) == Without(o, f) \cup H \X {f} \cup {f} \X (S \ (H \cup {f}))

\* What PutUnder changes: the pairs of f, and no other pair.
LEMMA PutUnderPairs ==
    ASSUME NEW o, NEW S, NEW f \in S, o \subseteq S \X S,
           NEW H \in SUBSET (S \ {f})
    PROVE  /\ PutUnder(o, S, H, f) \subseteq S \X S
           /\ \A a, b \in S \ {f} : <<a, b>> \in PutUnder(o, S, H, f) <=> <<a, b>> \in o
           /\ \A a \in S : /\ <<a, f>> \in PutUnder(o, S, H, f) <=> a \in H
                           /\ <<f, a>> \in PutUnder(o, S, H, f) <=> a \notin H /\ a # f
<1>1. Without(o, f) \subseteq S \X S
    BY DEF Without
<1> QED BY <1>1 DEF PutUnder, Without

\* It leaves an order when whatever is over a frame of H is in H.
LEMMA PutUnderIsOrder ==
    ASSUME NEW o, NEW S, IsOrder(o, S), NEW f \in S, NEW H \in SUBSET (S \ {f}),
           \A a, b \in S \ {f} : <<a, b>> \in o /\ b \in H => a \in H
    PROVE  IsOrder(PutUnder(o, S, H, f), S)
<1> DEFINE q == PutUnder(o, S, H, f)
<1>1. /\ q \subseteq S \X S
      /\ \A a, b \in S \ {f} : <<a, b>> \in q <=> <<a, b>> \in o
      /\ \A a \in S : (<<a, f>> \in q <=> a \in H) /\ (<<f, a>> \in q <=> a \notin H /\ a # f)
    BY PutUnderPairs DEF IsOrder
<1> HIDE DEF q
<1>2. \A a \in S : <<a, a>> \notin q
    BY <1>1 DEF IsOrder, IsStrict
<1>3. ASSUME NEW a \in S, NEW b \in S, NEW c \in S, <<a, b>> \in q, <<b, c>> \in q
      PROVE  <<a, c>> \in q
    <2>1. CASE a # f /\ b # f /\ c # f
        BY <1>1, <1>3, <2>1 DEF IsOrder, IsStrict
    <2>2. CASE a = f
        BY <1>1, <1>2, <1>3, <2>2
    <2>3. CASE b = f
        <3>1. a \in H /\ c \notin H /\ a # f /\ c # f /\ a # c
            BY <1>1, <1>3, <2>3
        <3>2. <<c, a>> \notin o
            BY <3>1
        <3> QED BY <3>1, <3>2, <1>1 DEF IsOrder
    <2>4. CASE c = f
        BY <1>1, <1>2, <1>3, <2>4
    <2> QED BY <2>1, <2>2, <2>3, <2>4
<1>4. ASSUME NEW a \in S, NEW b \in S PROVE a = b \/ <<a, b>> \in q \/ <<b, a>> \in q
    BY <1>1 DEF IsOrder
<1> QED BY <1>1, <1>2, <1>3, <1>4 DEF IsOrder, IsStrict, q

\* XRaiseWindow and moveFrameToUnder put a frame under others.
LEMMA RaiseWindowPuts ==
    ASSUME NEW o, NEW S, NEW f
    PROVE  RaiseWindow(o, S, f) = PutUnder(o, S, {}, f)
BY DEF RaiseWindow, PutUnder

\* moveFrameToUnder puts f under a and whatever is over a.
LEMMA MoveToUnderPuts ==
    ASSUME NEW o, NEW S, IsOrder(o, S), NEW a \in S, NEW f \in S
    PROVE  LET H == {g \in S \ {f} : g = a \/ <<g, a>> \in o} IN
           /\ MoveToUnder(o, S, a, f) = PutUnder(o, S, H, f)
           /\ \A x, y \in S \ {f} : <<x, y>> \in o /\ y \in H => x \in H
BY DEF MoveToUnder, PutUnder, IsOrder, IsStrict

\* Without a frame, an order is an order.
LEMMA WithoutIsOrder ==
    ASSUME NEW o, NEW S, IsOrder(o, S), NEW f
    PROVE  IsOrder(Without(o, f), S \ {f})
<1>1. \A a, b \in S \ {f} : <<a, b>> \in Without(o, f) <=> <<a, b>> \in o
    BY DEF Without
<1>2. Without(o, f) \subseteq (S \ {f}) \X (S \ {f})
    BY DEF Without, IsOrder
<1> QED BY <1>1, <1>2 DEF IsOrder, IsStrict

\* Orders of the same frames that have the same pairs are the same.
LEMMA SameOrder ==
    ASSUME NEW o, NEW q, NEW S, IsOrder(o, S), IsOrder(q, S),
           \A f, g \in S : <<f, g>> \in o <=> <<f, g>> \in q
    PROVE  o = q
BY DEF IsOrder

\* Some frame is the bottom of the nearest level above.
LEMMA BottomAboveExists ==
    ASSUME NEW L, NEW S, NEW lv, Sound(L, S, lv), NEW f \in S, \E g \in S : lv[g] > lv[f]
    PROVE  BottomAbove(L, S, lv, f) # {}
<1> DEFINE T == {g \in S : lv[g] > lv[f]}
           o == ListOrder(L, S, lv)
<1>1. /\ \A g \in S : lv[g] \in Int /\ g \in Frames
      /\ S \in SUBSET Frames /\ IsFiniteSet(S) /\ IsLinks(L) /\ IsLinked(L, S, lv)
      /\ NoFrame \notin Frames
    BY StackLevelsAreInts, StackingAssumption, FS_Subset DEF Sound, Typed
<1>2. T \in SUBSET S /\ IsFiniteSet(T) /\ T # {}
    BY <1>1, FS_Subset
<1>3. IsStrict(o, T)
    BY <1>2, ListOrderIsOrder DEF IsOrder, IsStrict
<1>4. PICK g \in T : \A h \in T : <<g, h>> \notin o
    BY <1>2, <1>3, LowestExists
<1>5. \A h \in S : lv[h] > lv[f] => lv[h] >= lv[g]
    <2>1. ASSUME NEW h \in S, lv[h] > lv[f], ~ (lv[h] >= lv[g]) PROVE FALSE
        <3>1. h \in T /\ g \in S /\ lv[g] > lv[h]
            BY <1>1, <2>1
        <3> QED BY <3>1, <1>4 DEF ListOrder
    <2> QED BY <2>1
<1>6. L.under[g] = NoFrame
    <2> SUFFICES ASSUME L.under[g] # NoFrame PROVE FALSE
        OBVIOUS
    <2>1. L.under[g] \in S /\ lv[L.under[g]] = lv[g] /\ L.under[g] \in Below(L, g)
        BY <1>1, <1>4, BelowUnfold DEF IsLinked
    <2> QED BY <2>1, <1>1, <1>4 DEF ListOrder
<1> QED BY <1>4, <1>5, <1>6 DEF BottomAbove

\* Whatever its order, the server gets one again when a frame is placed.
LEMMA PlaceFrameIsOrder ==
    ASSUME NEW L, NEW S, NEW lv, Sound(L, S, lv), NEW f \in S, NEW o, IsOrder(o, S)
    PROVE  /\ IsOrder(PlaceFrame(o, L, S, lv, f), S)
           /\ \A g, h \in S \ {f} : <<g, h>> \in PlaceFrame(o, L, S, lv, f) <=> <<g, h>> \in o
<1>1. ASSUME NEW a \in S
      PROVE  /\ IsOrder(MoveToUnder(o, S, a, f), S)
             /\ \A g, h \in S \ {f} : <<g, h>> \in MoveToUnder(o, S, a, f) <=> <<g, h>> \in o
    <2> DEFINE H == {g \in S \ {f} : g = a \/ <<g, a>> \in o}
    <2>1. /\ MoveToUnder(o, S, a, f) = PutUnder(o, S, H, f) /\ H \in SUBSET (S \ {f})
          /\ \A x, y \in S \ {f} : <<x, y>> \in o /\ y \in H => x \in H
        BY MoveToUnderPuts
    <2> HIDE DEF H
    <2>2. IsOrder(PutUnder(o, S, H, f), S)
        BY <2>1, PutUnderIsOrder
    <2>3. \A g, h \in S \ {f} : <<g, h>> \in PutUnder(o, S, H, f) <=> <<g, h>> \in o
        BY <2>1, PutUnderPairs DEF IsOrder
    <2> QED BY <2>1, <2>2, <2>3
<1>2. /\ IsOrder(RaiseWindow(o, S, f), S)
      /\ \A g, h \in S \ {f} : <<g, h>> \in RaiseWindow(o, S, f) <=> <<g, h>> \in o
    <2> DEFINE H == {}
    <2>1. RaiseWindow(o, S, f) = PutUnder(o, S, H, f) /\ H \in SUBSET (S \ {f})
        BY RaiseWindowPuts
    <2>2. \A x, y \in S \ {f} : <<x, y>> \in o /\ y \in H => x \in H
        OBVIOUS
    <2> HIDE DEF H
    <2>3. IsOrder(PutUnder(o, S, H, f), S)
        BY <2>1, <2>2, PutUnderIsOrder
    <2>4. \A g, h \in S \ {f} : <<g, h>> \in PutUnder(o, S, H, f) <=> <<g, h>> \in o
        BY <2>1, PutUnderPairs DEF IsOrder
    <2> QED BY <2>1, <2>3, <2>4
<1>3. L.above[f] # NoFrame => L.above[f] \in S
    BY RightAbove
<1>4. ASSUME ~ \A g \in S : lv[g] <= lv[f]
      PROVE  (CHOOSE g \in BottomAbove(L, S, lv, f) : TRUE) \in S
    <2>0. \A g \in S : lv[g] \in Int
        BY StackLevelsAreInts DEF Sound, Typed
    <2>1. \E g \in S : lv[g] > lv[f]
        BY <1>4, <2>0
    <2> QED BY <2>1, BottomAboveExists DEF BottomAbove
<1> QED BY <1>1, <1>2, <1>3, <1>4 DEF PlaceFrame

\* The order o has the higher levels in front.
Follows(o, S, lv) == \A f, g \in S : lv[f] > lv[g] => <<f, g>> \in o

\* The server has the frames as the lists have them, except those of R, which
\* are only known to be under what is above them in the lists.
Agrees(o, L, S, lv, R) ==
    \A a \in S \ R, b \in S :
        b \notin R \/ b \in Below(L, a) =>
            (<<a, b>> \in o <=> <<a, b>> \in ListOrder(L, S, lv))

\* The pairs of the lists' order.
LEMMA ListPairs ==
    ASSUME NEW L, NEW S, NEW lv, Sound(L, S, lv)
    PROVE  /\ \A f \in S : lv[f] \in Int
           /\ \A f, g \in S : <<f, g>> \in ListOrder(L, S, lv)
                    <=> lv[f] > lv[g] \/ (lv[f] = lv[g] /\ g \in Below(L, f))
BY StackLevelsAreInts DEF Sound, Typed, ListOrder

\* Of two frames exactly one is over the other.
LEMMA OrderAsymmetric ==
    ASSUME NEW o, NEW S, IsOrder(o, S), NEW f \in S, NEW g \in S, f # g
    PROVE  <<f, g>> \in o <=> <<g, f>> \notin o
BY DEF IsOrder, IsStrict

\* PlaceFrame is right: if the server has all frames but f as the lists have
\* them, except for frames of R below f, it has f right as well afterwards.
LEMMA PlaceFrameIsRight ==
    ASSUME NEW L, NEW S, NEW lv, Sound(L, S, lv), NEW f \in S, NEW o, IsOrder(o, S),
           \A a, b \in S \ {f} : lv[a] > lv[b] => <<a, b>> \in o,
           NEW R \in SUBSET S, \A r \in R : r = f \/ r \in Below(L, f),
           \A a \in S \ (R \cup {f}), b \in S \ {f} :
                b \notin R \/ b \in Below(L, a) =>
                    (<<a, b>> \in o <=> <<a, b>> \in ListOrder(L, S, lv))
    PROVE  LET P == PlaceFrame(o, L, S, lv, f) IN
           /\ Follows(P, S, lv)
           /\ \A b \in S : <<f, b>> \in P <=> <<f, b>> \in ListOrder(L, S, lv)
           /\ Agrees(P, L, S, lv, R \ {f})
<1> DEFINE P == PlaceFrame(o, L, S, lv, f)
           q == ListOrder(L, S, lv)
<1>1. /\ \A g \in S : lv[g] \in Int
      /\ \A g, h \in S : <<g, h>> \in q <=> lv[g] > lv[h] \/ (lv[g] = lv[h] /\ h \in Below(L, g))
    BY ListPairs
<1>2. IsOrder(P, S) /\ \A g, h \in S \ {f} : <<g, h>> \in P <=> <<g, h>> \in o
    BY PlaceFrameIsOrder
<1>3. IsOrder(q, S)
    BY ListOrderIsOrder
<1>4. Typed(L, S, lv) /\ IsLinked(L, S, lv) /\ S \subseteq Frames /\ IsLinks(L)
    BY DEF Sound, Typed
<1>5. \A r \in R : lv[r] = lv[f]
    BY <1>4, BelowIsStacked
<1>6. ASSUME NEW b \in S \ {f} PROVE <<b, f>> \in P <=> <<b, f>> \in q
    <2>1. ASSUME NEW a \in S
          PROVE  <<b, f>> \in MoveToUnder(o, S, a, f) <=> b = a \/ <<b, a>> \in o
        <3> DEFINE H == {g \in S \ {f} : g = a \/ <<g, a>> \in o}
        <3>1. MoveToUnder(o, S, a, f) = PutUnder(o, S, H, f) /\ H \in SUBSET (S \ {f})
            BY <2>1, MoveToUnderPuts
        <3>2. b \in H <=> b = a \/ <<b, a>> \in o
            OBVIOUS
        <3> HIDE DEF H
        <3>3. <<b, f>> \in PutUnder(o, S, H, f) <=> b \in H
            <4>1. o \subseteq S \X S
                BY DEF IsOrder
            <4> QED BY ONLY <4>1, <3>1, <1>6, f \in S, PutUnderPairs
        <3> QED BY <3>1, <3>2, <3>3
    <2>2. CASE L.above[f] # NoFrame
        <3> DEFINE a == L.above[f]
        <3>1. /\ a \in S \ {f} /\ lv[a] = lv[f] /\ f \in Below(L, a)
              /\ f \in Below(L, b) <=> b = a \/ a \in Below(L, b)
            BY <2>2, RightAbove
        <3>2. P = MoveToUnder(o, S, a, f)
            BY <2>2 DEF PlaceFrame
        <3>3. <<b, f>> \in P <=> b = a \/ <<b, a>> \in o
            BY <3>1, <3>2, <2>1
        <3> HIDE DEF a, P, q
        <3>4. a \notin R
            BY <3>1, BelowAntisymmetric, NoCycle
        <3>5. b = a => <<b, f>> \in q
            BY <3>1, <1>1
        <3>6. b # a => (<<b, f>> \in q <=> <<b, a>> \in q)
            BY <3>1, <1>1
        <3>7. b # a => (<<b, a>> \in o <=> <<b, a>> \in q)
            <4> SUFFICES ASSUME b # a PROVE <<b, a>> \in o <=> <<b, a>> \in q
                OBVIOUS
            <4>1. CASE b \notin R
                BY <4>1, <3>1, <3>4 DEF q
            <4>2. CASE b \in R
                <5>1. b \in Below(L, a)
                    BY <4>2, <3>1, <1>4, BelowTransitive
                <5>2. <<a, b>> \in o <=> <<a, b>> \in q
                    BY <5>1, <3>1, <3>4 DEF q
                <5>3. /\ <<a, b>> \in o <=> <<b, a>> \notin o
                      /\ <<a, b>> \in q <=> <<b, a>> \notin q
                    BY <3>1, <1>3, OrderAsymmetric
                <5> QED BY <5>2, <5>3
            <4> QED BY <4>1, <4>2
        <3> QED BY <3>3, <3>5, <3>6, <3>7
    <2>3. CASE L.above[f] = NoFrame
        <3>1. lv[b] = lv[f] => f \notin Below(L, b)
            BY <2>3, EndsOfALevel, BelowAntisymmetric
        <3>2. <<b, f>> \in q <=> lv[b] > lv[f]
            BY <3>1, <1>1
        <3>3. CASE \A g \in S : lv[g] <= lv[f]
            <4>1. P = RaiseWindow(o, S, f)
                BY <2>3, <3>3 DEF PlaceFrame
            <4>2. <<b, f>> \notin P
                BY <4>1 DEF RaiseWindow, Without
            <4>3. ~ (lv[b] > lv[f])
                BY <3>3, <1>1
            <4> QED BY <3>2, <4>2, <4>3
        <3>4. CASE ~ \A g \in S : lv[g] <= lv[f]
            <4> DEFINE g == CHOOSE h \in BottomAbove(L, S, lv, f) : TRUE
            <4>1. \E h \in S : lv[h] > lv[f]
                BY <3>4, <1>1
            <4>2. g \in BottomAbove(L, S, lv, f)
                BY <4>1, BottomAboveExists
            <4>3. P = MoveToUnder(o, S, g, f)
                BY <2>3, <3>4 DEF PlaceFrame
            <4> HIDE DEF g, P, q
            <4>4. /\ g \in S /\ lv[g] > lv[f] /\ L.under[g] = NoFrame
                  /\ lv[b] > lv[f] => lv[b] >= lv[g]
                BY <4>2 DEF BottomAbove
            <4>5. <<b, f>> \in P <=> b = g \/ <<b, g>> \in o
                BY <4>3, <4>4, <2>1
            <4>6. g # f /\ g \notin R
                BY <4>4, <1>1, <1>5
            <4>7. ASSUME lv[b] > lv[f] PROVE b = g \/ <<b, g>> \in o
                <5>1. CASE lv[b] > lv[g]
                    BY <5>1, <4>4, <4>6
                <5>2. CASE lv[b] = lv[g] /\ b # g
                    <6>1. g \in Below(L, b)
                        BY <5>2, <4>4, EndsOfALevel
                    <6>2. <<b, g>> \in q
                        BY <6>1, <5>2, <4>4, <1>1
                    <6>3. b \notin R
                        BY <4>7, <1>1, <1>5
                    <6> QED BY <6>2, <6>3, <4>4, <4>6 DEF q
                <5> QED BY <5>1, <5>2, <4>4, <4>7, <1>1
            <4>8. ASSUME ~ (lv[b] > lv[f]) PROVE b # g /\ <<b, g>> \notin o
                <5>1. b # g /\ lv[g] > lv[b]
                    BY <4>8, <4>4, <1>1
                <5>2. <<g, b>> \in o
                    BY <5>1, <4>4, <4>6
                <5> QED BY <5>1, <5>2, <4>4, OrderAsymmetric
            <4> QED BY <3>2, <4>5, <4>7, <4>8
        <3> QED BY <3>3, <3>4
    <2> QED BY <2>2, <2>3
<1> HIDE DEF P, q
<1>7. ASSUME NEW b \in S PROVE <<f, b>> \in P <=> <<f, b>> \in q
    <2>1. CASE b = f
        BY <2>1, <1>2, <1>3 DEF IsOrder, IsStrict
    <2>2. CASE b # f
        <3>1. /\ <<f, b>> \in P <=> <<b, f>> \notin P
              /\ <<f, b>> \in q <=> <<b, f>> \notin q
            BY <2>2, <1>2, <1>3, OrderAsymmetric
        <3> QED BY <3>1, <2>2, <1>6
    <2> QED BY <2>1, <2>2
<1>8. Follows(P, S, lv)
    <2> SUFFICES ASSUME NEW a \in S, NEW b \in S, lv[a] > lv[b] PROVE <<a, b>> \in P
        BY DEF Follows
    <2>1. CASE a # f /\ b # f
        BY <2>1, <1>2
    <2>2. <<a, b>> \in q
        BY <1>1
    <2> QED BY <2>1, <2>2, <1>6, <1>7
<1>9. Agrees(P, L, S, lv, R \ {f})
    <2> SUFFICES ASSUME NEW a \in S \ (R \ {f}), NEW b \in S,
                        b \notin R \ {f} \/ b \in Below(L, a)
                 PROVE  <<a, b>> \in P <=> <<a, b>> \in q
        BY DEF Agrees, q
    <2>1. CASE a # f /\ b # f
        BY <2>1, <1>2 DEF q
    <2> QED BY <2>1, <1>6, <1>7
<1> QED BY <1>7, <1>8, <1>9 DEF P, q

\* Frames that kept their places in the lists and their levels kept them in
\* the lists' order.
LEMMA KeepsPairs ==
    ASSUME NEW L, NEW S, NEW lv, Sound(L, S, lv), NEW M, NEW Z, NEW lw, Sound(M, Z, lw), NEW f,
           S \ {f} = Z \ {f}, KeepsOthers(L, M, S, f), \A g \in S \ {f} : lv[g] = lw[g]
    PROVE  \A a, b \in S \ {f} : <<a, b>> \in ListOrder(L, S, lv) <=> <<a, b>> \in ListOrder(M, Z, lw)
<1> SUFFICES ASSUME NEW a \in S \ {f}, NEW b \in S \ {f}
             PROVE  <<a, b>> \in ListOrder(L, S, lv) <=> <<a, b>> \in ListOrder(M, Z, lw)
    OBVIOUS
<1>1. a \in Z /\ b \in Z /\ lw[a] = lv[a] /\ lw[b] = lv[b]
    OBVIOUS
<1>2. b \in Below(M, a) <=> b \in Below(L, a)
    BY DEF KeepsOthers
<1>3. <<a, b>> \in ListOrder(L, S, lv) <=> lv[a] > lv[b] \/ (lv[a] = lv[b] /\ b \in Below(L, a))
    BY ListPairs
<1>4. <<a, b>> \in ListOrder(M, Z, lw) <=> lw[a] > lw[b] \/ (lw[a] = lw[b] /\ b \in Below(M, a))
    BY <1>1, ListPairs
<1> QED BY <1>1, <1>2, <1>3, <1>4

\* A server that agrees about all frames has the lists' order.
LEMMA AgreesAboutAll ==
    ASSUME NEW L, NEW S, NEW lv, Sound(L, S, lv), NEW o, IsOrder(o, S), Agrees(o, L, S, lv, {})
    PROVE  o = ListOrder(L, S, lv)
<1>1. \A a, b \in S : <<a, b>> \in o <=> <<a, b>> \in ListOrder(L, S, lv)
    BY DEF Agrees
<1> QED BY <1>1, ListOrderIsOrder, SameOrder

\* The order of the lists agrees with them about all frames.
LEMMA ListOrderAgrees ==
    ASSUME NEW L, NEW S, NEW lv, Sound(L, S, lv), NEW R
    PROVE  Follows(ListOrder(L, S, lv), S, lv) /\ Agrees(ListOrder(L, S, lv), L, S, lv, R)
BY ListPairs DEF Follows, Agrees

\* When one frame has moved in the lists, placing it is enough.
LEMMA PlaceMoved ==
    ASSUME NEW L, NEW S, NEW lv, Sound(L, S, lv), NEW M, Sound(M, S, lv), NEW f \in S,
           KeepsOthers(L, M, S, f)
    PROVE  PlaceFrame(ListOrder(L, S, lv), M, S, lv, f) = ListOrder(M, S, lv)
<1> DEFINE o == ListOrder(L, S, lv)
           P == PlaceFrame(o, M, S, lv, f)
           R == {f}
<1>1. /\ \A a, b \in S \ {f} : <<a, b>> \in o <=> <<a, b>> \in ListOrder(M, S, lv)
      /\ \A a, b \in S \ {f} : lv[a] > lv[b] => <<a, b>> \in o
      /\ IsOrder(o, S)
    BY KeepsPairs, ListPairs, ListOrderIsOrder
<1>2. R \in SUBSET S /\ \A r \in R : r = f \/ r \in Below(M, f)
    OBVIOUS
<1>3. \A a \in S \ (R \cup {f}), b \in S \ {f} :
        b \notin R \/ b \in Below(M, a) => (<<a, b>> \in o <=> <<a, b>> \in ListOrder(M, S, lv))
    BY <1>1
<1>4. R \ {f} = {}
    OBVIOUS
<1> HIDE DEF o, R
<1>5. Agrees(P, M, S, lv, R \ {f})
    BY <1>1, <1>2, <1>3, PlaceFrameIsRight
<1>6. IsOrder(P, S)
    BY <1>1, PlaceFrameIsOrder
<1> QED BY <1>4, <1>5, <1>6, AgreesAboutAll DEF o

\* wLowerFrame puts a frame under another one of its level.
LEMMA LowerPlaceIsStacked ==
    ASSUME NEW L, NEW S, NEW lv, Sound(L, S, lv), NEW f \in S, L.under[f] # NoFrame,
           NEW w \in LowerPlace(Unlink(L, f), S \ {f}, lv, f)
    PROVE  w \in S \ {f} /\ lv[w] = lv[f]
<1> DEFINE U == Unlink(L, f)
           u == L.under[f]
<1>1. Sound(U, S \ {f}, lv)
    BY UnlinkSound
<1>2. /\ Typed(L, S, lv) /\ IsLinked(L, S, lv) /\ IsLinks(L) /\ f \in Frames /\ lv[f] \in StackLevels
      /\ NoFrame \notin Frames /\ S \subseteq Frames
    BY StackingAssumption DEF Sound, Typed
<1>3. u \in S /\ lv[u] = lv[f] /\ u # f
    BY <1>2, NoCycle, BelowUnfold DEF IsLinked
<1> HIDE DEF U
<1>4. U.top[lv[f]] \in S \ {f}
    BY <1>1, <1>3 DEF Sound, IsChained
<1>5. lv[U.top[lv[f]]] = lv[f]
    BY <1>1, <1>2, <1>4 DEF Sound, IsLinked
<1> QED BY <1>4, <1>5 DEF LowerPlace, U

-----------------------------------------------------------------------------
(* RemakeStackList. *)

\* The lists that are made from an order are sound, and keep it in every level.
LEMMA RemakeSound ==
    ASSUME NEW o, NEW S \in SUBSET Frames, IsOrder(o, S), NEW lv \in [Frames -> StackLevels]
    PROVE  /\ Sound(Remake(o, S, lv), S, lv)
           /\ \A g \in S : Below(Remake(o, S, lv), g) = LevelUnder(o, S, lv, g)
<1> DEFINE M == Remake(o, S, lv)
           Over(f) == LevelOver(o, S, lv, f)
           Under(f) == LevelUnder(o, S, lv, f)
           First(l) == {f \in S : lv[f] = l /\ Over(f) = {}}
<1>1. /\ \A f, g \in S : g \in Over(f) <=> lv[g] = lv[f] /\ <<g, f>> \in o
      /\ \A f, g \in S : g \in Under(f) <=> lv[g] = lv[f] /\ <<f, g>> \in o
      /\ \A f : Over(f) \subseteq S /\ Under(f) \subseteq S
    BY DEF LevelOver, LevelUnder
<1>2. /\ IsFiniteSet(S) /\ NoFrame \notin Frames /\ S \subseteq Frames
      /\ \A f \in S : lv[f] \in StackLevels
    BY StackingAssumption, FS_Subset
<1>3. \A T \in SUBSET S : IsFiniteSet(T) /\ IsStrict(o, T)
    BY <1>2, FS_Subset DEF IsOrder, IsStrict
<1>4. \A f, g \in S : f # g => (<<f, g>> \in o <=> <<g, f>> \notin o)
    BY OrderAsymmetric
<1>5. ASSUME NEW f \in S, Over(f) # {}
      PROVE  \E g \in Over(f) : \A h \in Over(f) : h = g \/ <<h, g>> \in o
    <2>1. Over(f) \in SUBSET S /\ IsFiniteSet(Over(f)) /\ IsStrict(o, Over(f))
        BY <1>1, <1>3
    <2> HIDE DEF Over
    <2>2. \E g \in Over(f) : \A h \in Over(f) : <<g, h>> \notin o
        BY <2>1, <1>5, LowestExists
    <2> PICK g \in Over(f) : \A h \in Over(f) : <<g, h>> \notin o
        BY <2>2
    <2> QED BY <2>1, <1>1, <1>4
<1>6. ASSUME NEW f \in S, Under(f) # {}
      PROVE  \E g \in Under(f) : \A h \in Under(f) : h = g \/ <<g, h>> \in o
    <2>1. Under(f) \in SUBSET S /\ IsFiniteSet(Under(f)) /\ IsStrict(o, Under(f))
        BY <1>1, <1>3
    <2> HIDE DEF Under
    <2>2. \E g \in Under(f) : \A h \in Under(f) : <<h, g>> \notin o
        BY <2>1, <1>6, HighestExists
    <2> PICK g \in Under(f) : \A h \in Under(f) : <<h, g>> \notin o
        BY <2>2
    <2> QED BY <2>1, <1>1, <1>4
<1>7. \A f \in Frames \ S : M.above[f] = NoFrame /\ M.under[f] = NoFrame
    BY DEF Remake
<1>8. ASSUME NEW f \in S
      PROVE  /\ Over(f) = {} => M.above[f] = NoFrame
             /\ Over(f) # {} => M.above[f] \in Over(f)
                                /\ \A h \in Over(f) : h = M.above[f] \/ <<h, M.above[f]>> \in o
    <2>1. M.above[f] = IF Over(f) = {} THEN NoFrame
                       ELSE CHOOSE g \in Over(f) : \A h \in Over(f) : h = g \/ <<h, g>> \in o
        BY <1>2 DEF Remake
    <2> QED BY <2>1, <1>5
<1>9. ASSUME NEW f \in S
      PROVE  /\ Under(f) = {} => M.under[f] = NoFrame
             /\ Under(f) # {} => M.under[f] \in Under(f)
                                /\ \A h \in Under(f) : h = M.under[f] \/ <<M.under[f], h>> \in o
    <2>1. M.under[f] = IF Under(f) = {} THEN NoFrame
                       ELSE CHOOSE g \in Under(f) : \A h \in Under(f) : h = g \/ <<g, h>> \in o
        BY <1>2 DEF Remake
    <2> QED BY <2>1, <1>6
<1>10. ASSUME NEW l \in StackLevels
       PROVE  /\ First(l) = {} => M.top[l] = NoFrame
              /\ First(l) # {} => M.top[l] \in First(l)
    <2>1. M.top[l] = IF First(l) = {} THEN NoFrame ELSE CHOOSE f \in First(l) : TRUE
        BY DEF Remake
    <2> QED BY <2>1
<1>11. IsLinks(M)
    <2>1. \A f \in Frames : M.above[f] \in FrameOrNone /\ M.under[f] \in FrameOrNone
        BY <1>1, <1>2, <1>7, <1>8, <1>9 DEF FrameOrNone
    <2>2. \A l \in StackLevels : M.top[l] \in FrameOrNone
        BY <1>2, <1>10 DEF FrameOrNone
    <2>3. /\ M.above = [f \in Frames |-> M.above[f]]
          /\ M.under = [f \in Frames |-> M.under[f]]
          /\ M.top = [l \in StackLevels |-> M.top[l]]
          /\ M = [above |-> M.above, under |-> M.under, top |-> M.top]
        BY DEF Remake
    <2> HIDE DEF M
    <2>4. /\ M.above \in [Frames -> FrameOrNone]
          /\ M.under \in [Frames -> FrameOrNone]
          /\ M.top \in [StackLevels -> FrameOrNone]
        BY <2>1, <2>2, <2>3
    <2> QED BY <2>3, <2>4 DEF IsLinks
<1> HIDE DEF M, Over, Under
<1>12. ASSUME NEW f \in S, NEW g \in S, Over(f) = {}, Over(g) = {}, lv[f] = lv[g] PROVE f = g
    BY <1>1, <1>4, <1>12
<1>13. IsLinked(M, S, lv)
    <2>1. ASSUME NEW f \in S, M.above[f] # NoFrame
          PROVE  M.above[f] \in S /\ lv[M.above[f]] = lv[f] /\ M.under[M.above[f]] = f
        <3> DEFINE a == M.above[f]
        <3>1. a \in Over(f) /\ \A h \in Over(f) : h = a \/ <<h, a>> \in o
            BY <2>1, <1>8
        <3>2. a \in S /\ lv[a] = lv[f] /\ <<a, f>> \in o /\ f \in Under(a)
            BY <3>1, <1>1
        <3>3. M.under[a] \in Under(a) /\ (f = M.under[a] \/ <<M.under[a], f>> \in o)
            BY <3>2, <1>9
        <3> HIDE DEF a
        <3>4. M.under[a] \in S /\ lv[M.under[a]] = lv[f] /\ <<a, M.under[a]>> \in o
            BY <3>2, <3>3, <1>1
        <3>5. f = M.under[a]
            <4> SUFFICES ASSUME <<M.under[a], f>> \in o PROVE FALSE
                BY <3>3
            <4>1. M.under[a] \in Over(f)
                BY <3>4, <1>1
            <4>2. M.under[a] = a \/ <<M.under[a], a>> \in o
                BY <4>1, <3>1
            <4> QED BY <3>2, <3>4, <4>2, <1>4 DEF IsOrder, IsStrict
        <3> QED BY <3>2, <3>5 DEF a
    <2>2. ASSUME NEW f \in S, M.under[f] # NoFrame
          PROVE  M.under[f] \in S /\ lv[M.under[f]] = lv[f] /\ M.above[M.under[f]] = f
        <3> DEFINE u == M.under[f]
        <3>1. u \in Under(f) /\ \A h \in Under(f) : h = u \/ <<u, h>> \in o
            BY <2>2, <1>9
        <3>2. u \in S /\ lv[u] = lv[f] /\ <<f, u>> \in o /\ f \in Over(u)
            BY <3>1, <1>1
        <3>3. M.above[u] \in Over(u) /\ (f = M.above[u] \/ <<f, M.above[u]>> \in o)
            BY <3>2, <1>8
        <3> HIDE DEF u
        <3>4. M.above[u] \in S /\ lv[M.above[u]] = lv[f] /\ <<M.above[u], u>> \in o
            BY <3>2, <3>3, <1>1
        <3>5. f = M.above[u]
            <4> SUFFICES ASSUME <<f, M.above[u]>> \in o PROVE FALSE
                BY <3>3
            <4>1. M.above[u] \in Under(f)
                BY <3>4, <1>1
            <4>2. M.above[u] = u \/ <<u, M.above[u]>> \in o
                BY <4>1, <3>1
            <4> QED BY <3>2, <3>4, <4>2, <1>4 DEF IsOrder, IsStrict
        <3> QED BY <3>2, <3>5 DEF u
    <2>3. ASSUME NEW f \in S, M.above[f] = NoFrame PROVE M.top[lv[f]] = f
        <3>1. Over(f) = {}
            BY <2>3, <1>1, <1>2, <1>8
        <3>2. f \in First(lv[f])
            BY <3>1
        <3>3. M.top[lv[f]] \in First(lv[f])
            BY <3>2, <1>2, <1>10
        <3> QED BY <3>1, <3>3, <1>12
    <2>4. ASSUME NEW l \in StackLevels, M.top[l] # NoFrame
          PROVE  M.top[l] \in S /\ lv[M.top[l]] = l /\ M.above[M.top[l]] = NoFrame
        BY <2>4, <1>8, <1>10
    <2> QED BY <1>7, <2>1, <2>2, <2>3, <2>4 DEF IsLinked
<1>14. IsChained(M, S, lv)
    <2> SUFFICES ASSUME NEW f \in S
                 PROVE  /\ M.top[lv[f]] \in S
                        /\ f = M.top[lv[f]] \/ f \in Below(M, M.top[lv[f]])
        BY DEF IsChained
    <2> DEFINE l == lv[f]
               T == {g \in S : lv[g] = l}
               t == M.top[l]
    <2>1. l \in StackLevels /\ f \in T /\ T \in SUBSET S
        BY <1>2
    <2>2. PICK x \in T : \A y \in T : <<y, x>> \notin o
        BY <2>1, <1>3, HighestExists
    <2>3. x \in First(l)
        BY <2>2, <1>1
    <2>4. t \in First(l)
        BY <2>1, <2>3, <1>10
    <2> DEFINE V == {g \in T : g # t /\ g \notin Below(M, t)}
    <2>5. V = {}
        <3> SUFFICES ASSUME V # {} PROVE FALSE
            OBVIOUS
        <3>1. PICK y \in V : \A z \in V : <<z, y>> \notin o
            BY <1>3, HighestExists
        <3>2. Over(y) # {}
            BY <3>1, <2>4, <1>12
        <3>3. M.above[y] \in Over(y)
            BY <3>2, <3>1, <1>8
        <3>4. M.above[y] \in T /\ <<M.above[y], y>> \in o
            BY <3>1, <3>3, <1>1
        <3>5. M.above[y] = t \/ M.above[y] \in Below(M, t)
            BY <3>1, <3>4
        <3>6. M.under[M.above[y]] = y
            BY <3>1, <3>4, <1>2, <1>13 DEF IsLinked
        <3>7. y \in Below(M, t)
            BY <3>5, <3>6, <2>4, <1>2, <1>11, <3>1, BelowClosed
        <3> QED BY <3>1, <3>7
    <2> QED BY <2>1, <2>4, <2>5
<1>15. Sound(M, S, lv)
    BY <1>11, <1>13, <1>14 DEF Sound, Typed
<1>16. ASSUME NEW g \in S PROVE Below(M, g) = Under(g)
    <2>1. \A h \in Under(g) : h \in S /\ Under(h) \subseteq Under(g)
        BY <1>1 DEF IsOrder, IsStrict
    <2>2. ClosedFrom(M, g, Under(g))
        <3>1. ASSUME NEW h \in Under(g) \cup {g} PROVE M.under[h] \in Under(g) \cup {NoFrame}
            <4>1. h \in S /\ Under(h) \subseteq Under(g)
                BY <2>1
            <4> QED BY <4>1, <1>9
        <3> QED BY <3>1, <1>1, <1>2 DEF ClosedFrom
    <2>3. \A h \in S : Below(M, h) \subseteq Under(h)
        <3> SUFFICES ASSUME NEW h \in S PROVE Below(M, h) \subseteq Under(h)
            OBVIOUS
        <3>1. \A k \in Under(h) : k \in S /\ Under(k) \subseteq Under(h)
            BY <1>1 DEF IsOrder, IsStrict
        <3>2. \A k \in Under(h) \cup {h} : M.under[k] \in Under(h) \cup {NoFrame}
            BY <3>1, <1>9
        <3>3. ClosedFrom(M, h, Under(h))
            BY <3>2, <1>1, <1>2 DEF ClosedFrom
        <3> QED BY <3>3, BelowLeast
    <2>4. ASSUME NEW h \in Under(g) PROVE h \in Below(M, g)
        <3>1. h \in S /\ lv[h] = lv[g] /\ <<g, h>> \in o
            BY <1>1
        <3>2. g # h /\ <<h, g>> \notin o
            BY <3>1, <1>4 DEF IsOrder, IsStrict
        <3>3. g \notin Below(M, h)
            BY <3>1, <3>2, <2>3, <1>1
        <3> QED BY <3>1, <3>2, <3>3, <1>15, Comparable
    <2> QED BY <2>3, <2>4
<1> QED BY <1>15, <1>16 DEF M, Under

-----------------------------------------------------------------------------
(* The inductive invariant. *)

\* The frames that wRaiseFrame has put on top and not yet told the server of.
Unplaced == {raising[i] : i \in DOMAIN raising}

\* Whose place the server knows.
Settled ==
    ~unsettled => /\ Follows(over, stacked, window_level)
                  /\ Agrees(over, links, stacked, window_level, Unplaced)

\* A frame that is being raised is under those whose turn came later, unless
\* its own came again; each is a transient of the one before.  Whatever is over
\* one of them is a transient of something.
RaisingInOrder ==
    /\ \A i, j \in DOMAIN raising : i < j =>
            \/ raising[j] = raising[i]
            \/ raising[j] \in Below(links, raising[i])
            \/ \E k \in DOMAIN raising : k < i /\ raising[k] = raising[j]
    /\ \A i, j \in DOMAIN raising : j = i + 1 => childOf[raising[i]] = raising[j]
    /\ \A a \in stacked, r \in Unplaced : r \in Below(links, a) => childOf[a] # NoFrame

\* No frame is its own transient; icons neither have transients nor are any.
OwnersAreFrames ==
    \A f \in Frames : /\ childOf[f] # f
                      /\ childOf[f] \notin Icons
                      /\ f \in Icons => childOf[f] = NoFrame

\* The dock moves one icon under another one of its level.
MoveIsPossible ==
    move # <<>> => /\ move[1] \in stacked \cap Icons
                   /\ move[2] \in stacked \cap Icons
                   /\ move[1] # move[2]
                   /\ window_level[move[1]] = window_level[move[2]]

\* The inductive invariant.
IInv ==
    /\ TypeOK
    /\ Sound(links, stacked, window_level)
    /\ windowCount = Cardinality(stacked)
    /\ IsOrder(over, stacked)
    /\ Settled
    /\ RaisingInOrder
    /\ OwnersAreFrames
    /\ MoveIsPossible

\* window_level of a typed asked.
LEMMA LevelsTyped ==
    ASSUME NEW a \in [Frames -> Levels]
    PROVE  LevelOf(a) \in [Frames -> StackLevels] /\ \A f \in Frames : LevelOf(a)[f] = Short(a[f])
BY DEF LevelOf, StackLevels

\* The elements of a sequence with one more at its head.
LEMMA PushIndex ==
    ASSUME NEW T, NEW q \in Seq(T), NEW f \in T
    PROVE  /\ <<f>> \o q \in Seq(T) /\ DOMAIN (<<f>> \o q) = 1 .. Len(q) + 1 /\ DOMAIN q = 1 .. Len(q)
           /\ \A i \in 1 .. Len(q) + 1 : (<<f>> \o q)[i] = IF i = 1 THEN f ELSE q[i - 1]
OBVIOUS

\* The elements of the tail of a sequence.
LEMMA TailIndex ==
    ASSUME NEW T, NEW q \in Seq(T), q # <<>>
    PROVE  /\ Tail(q) \in Seq(T) /\ DOMAIN Tail(q) = 1 .. Len(q) - 1 /\ DOMAIN q = 1 .. Len(q)
           /\ \A i \in 1 .. Len(q) - 1 : Tail(q)[i] = q[i + 1]
           /\ 1 \in DOMAIN q /\ Head(q) = q[1] /\ Head(q) \in T
OBVIOUS

\* What IInv says when nothing is under way.
LEMMA IdleServerAgrees ==
    ASSUME IInv, raising = <<>>
    PROVE  Unplaced = {} /\ (~unsettled => over = ListOrder(links, stacked, window_level))
<1>1. Unplaced = {}
    BY DEF Unplaced
<1> QED BY <1>1, AgreesAboutAll DEF IInv, Settled

\* After a step that leaves one call at most under way.
LEMMA OneCall ==
    ASSUME NEW f, \/ raising' = <<>>
                  \/ raising' = <<f>> /\ \A a \in stacked' : f \notin Below(links', a)
    PROVE  RaisingInOrder' /\ (raising' = <<>> => Unplaced' = {}) /\ (raising' = <<f>> => Unplaced' = {f})
<1>1. CASE raising' = <<>>
    BY <1>1 DEF RaisingInOrder, Unplaced
<1>2. CASE raising' = <<f>> /\ \A a \in stacked' : f \notin Below(links', a)
    <2>1. DOMAIN raising' = {1} /\ raising'[1] = f /\ Len(raising') = 1
        BY <1>2
    <2> QED BY <1>2, <2>1 DEF RaisingInOrder, Unplaced
<1> QED BY <1>1, <1>2

\* After a step that makes the server's order that of the lists.
LEMMA SettledByLists ==
    ASSUME Sound(links', stacked', window_level'),
           over' = ListOrder(links', stacked', window_level')
    PROVE  Settled'
<1> DEFINE L == links'
           S == stacked'
           lv == window_level'
           R == Unplaced'
<1> HIDE DEF L, S, lv, R
<1>1. Follows(ListOrder(L, S, lv), S, lv) /\ Agrees(ListOrder(L, S, lv), L, S, lv, R)
    BY ListOrderAgrees DEF L, S, lv
<1> QED BY <1>1 DEF Settled, L, S, lv, R

\* The invariant holds before the first frame is stacked.
LEMMA InitIInv == Init => IInv
<1> SUFFICES ASSUME Init PROVE IInv
    OBVIOUS
<1>1. NoLevel \in Levels
    BY StackingAssumption DEF NoLevel
<1>2. TypeOK
    <2>1. raising \in Seq(stacked) /\ move \in {<<>>} \cup stacked \X stacked
        BY DEF Init
    <2>2. links \in [above : [Frames -> FrameOrNone], under : [Frames -> FrameOrNone],
                     top : [StackLevels -> FrameOrNone]]
        BY DEF Init, FrameOrNone
    <2>3. stacked \subseteq Frames /\ asked \in [Frames -> Levels] /\ childOf \in [Frames -> FrameOrNone]
        BY <1>1 DEF Init, FrameOrNone
    <2> QED BY <2>1, <2>2, <2>3 DEF Init, TypeOK
<1>3. Sound(links, stacked, window_level)
    BY <1>2, LevelsTyped DEF Init, Sound, Typed, IsLinks, IsLinked, IsChained, TypeOK, window_level
<1>4. windowCount = Cardinality(stacked)
    BY FS_EmptySet DEF Init
<1>5. IsOrder(over, stacked) /\ Settled
    BY DEF Init, IsOrder, IsStrict, Settled, Follows, Agrees
<1>6. RaisingInOrder /\ OwnersAreFrames /\ MoveIsPossible
    BY StackingAssumption DEF Init, RaisingInOrder, OwnersAreFrames, MoveIsPossible, Unplaced
<1> QED BY <1>2, <1>3, <1>4, <1>5, <1>6 DEF IInv

\* One more call of wRaiseFrame: from outside, or for a transient below.
LEMMA CallRaiseStep ==
    ASSUME IInv, NEW c \in stacked, CallRaise(links, c),
           \/ raising = <<>>
           \/ raising # <<>> /\ c \in Below(links, Raised) /\ childOf[c] = Raised,
           UNCHANGED <<stacked, asked, childOf, windowCount, over, move, bounce>>
    PROVE  IInv'
<1> DEFINE lv == window_level
<1>1. /\ TypeOK /\ Sound(links, stacked, lv) /\ IsOrder(over, stacked) /\ Settled /\ RaisingInOrder
      /\ OwnersAreFrames /\ MoveIsPossible /\ windowCount = Cardinality(stacked)
    BY DEF IInv
<1>2. links' = InsertTop(Unlink(links, c), c, lv[c]) /\ raising' = <<c>> \o raising
    BY DEF CallRaise
<1>3. lv' = lv /\ stacked' = stacked /\ childOf' = childOf /\ over' = over
      /\ unsettled' = unsettled /\ bouncing' = bouncing
    BY DEF window_level, bounce
<1>4. /\ Sound(links', stacked, lv) /\ KeepsOthers(links, links', stacked, c)
      /\ links'.above[c] = NoFrame /\ \A g \in stacked : c \notin Below(links', g)
    BY <1>1, <1>2, RaiseSound
<1>5. /\ raising \in Seq(stacked) /\ raising' \in Seq(stacked)
      /\ DOMAIN raising' = 1 .. Len(raising) + 1 /\ DOMAIN raising = 1 .. Len(raising)
      /\ \A i \in 1 .. Len(raising) + 1 : raising'[i] = IF i = 1 THEN c ELSE raising[i - 1]
    BY <1>1, <1>2, PushIndex DEF TypeOK
<1>6. Unplaced' = Unplaced \cup {c}
    <2>1. \A i \in DOMAIN raising : i + 1 \in DOMAIN raising' /\ raising'[i + 1] = raising[i]
        BY <1>5
    <2>2. \A i \in DOMAIN raising' : i = 1 \/ (i - 1 \in DOMAIN raising /\ raising'[i] = raising[i - 1])
        BY <1>5
    <2>3. 1 \in DOMAIN raising' /\ raising'[1] = c
        BY <1>5
    <2> QED BY <2>1, <2>2, <2>3 DEF Unplaced
<1>7. ASSUME NEW x \in stacked \ {c}, NEW y \in stacked \ {c}
      PROVE  y \in Below(links', x) <=> y \in Below(links, x)
    BY <1>4 DEF KeepsOthers
<1>8. ASSUME NEW x \in Unplaced PROVE x \in stacked /\ (x = c \/ x \in Below(links', c))
    <2>1. PICK j \in DOMAIN raising : x = raising[j]
        BY DEF Unplaced
    <2>2. x \in stacked /\ raising # <<>> /\ Raised = raising[1] /\ Raised \in stacked /\ 1 \in DOMAIN raising
        BY <2>1, <1>5 DEF Raised
    <2>3. x = Raised \/ x \in Below(links, Raised)
        BY <2>1, <2>2, <1>1, <1>5 DEF RaisingInOrder
    <2>4. lv[x] = lv[Raised] /\ lv[c] = lv[Raised]
        BY <2>2, <2>3, <1>1, BelowIsStacked DEF Sound
    <2> QED BY <2>2, <2>4, <1>4, EndsOfALevel
<1>9. RaisingInOrder'
    <2>1. ASSUME NEW i \in DOMAIN raising', NEW j \in DOMAIN raising', i < j
          PROVE  \/ raising'[j] = raising'[i]
                 \/ raising'[j] \in Below(links', raising'[i])
                 \/ \E k \in DOMAIN raising' : k < i /\ raising'[k] = raising'[j]
        <3>1. /\ j - 1 \in DOMAIN raising /\ raising'[j] = raising[j - 1] /\ raising[j - 1] \in Unplaced
              /\ 1 \in DOMAIN raising' /\ raising'[1] = c
            BY <2>1, <1>5 DEF Unplaced
        <3>2. CASE i = 1
            BY <3>1, <3>2, <1>5, <1>8
        <3>3. CASE i # 1
            <4>1. /\ i - 1 \in DOMAIN raising /\ raising'[i] = raising[i - 1] /\ i - 1 < j - 1
                  /\ raising[i - 1] \in Unplaced
                BY <3>3, <2>1, <1>5 DEF Unplaced
            <4>2. CASE raising[j - 1] = raising[i - 1]
                BY <4>1, <4>2, <3>1
            <4>3. CASE raising[j - 1] \in Below(links, raising[i - 1])
                <5>1. CASE raising[j - 1] = c
                    <6>1. i \in 1 .. Len(raising) + 1 /\ i # 1
                        BY ONLY <1>5, <2>1, <3>3
                    <6>2. 1 < i
                        BY ONLY <6>1
                    <6>3. 1 \in DOMAIN raising' /\ raising'[1] = raising'[j]
                        BY ONLY <5>1, <3>1
                    <6> QED BY ONLY <6>2, <6>3
                <5>2. CASE raising[i - 1] = c
                    BY <5>2, <4>1, <3>1, <1>8
                <5>3. CASE raising[i - 1] # c /\ raising[j - 1] # c
                    BY <5>3, <4>1, <4>3, <3>1, <1>7, <1>8
                <5> QED BY <5>1, <5>2, <5>3
            <4>4. CASE \E k \in DOMAIN raising : k < i - 1 /\ raising[k] = raising[j - 1]
                <5>1. PICK k \in DOMAIN raising : k < i - 1 /\ raising[k] = raising[j - 1]
                    BY <4>4
                <5>2. k + 1 \in DOMAIN raising' /\ k + 1 < i /\ raising'[k + 1] = raising[k]
                    BY <5>1, <2>1, <1>5
                <5> QED BY <5>1, <5>2, <3>1
            <4> QED BY <4>1, <4>2, <4>3, <4>4, <3>1, <1>1 DEF RaisingInOrder
        <3> QED BY <3>2, <3>3
    <2>2. ASSUME NEW i \in DOMAIN raising', NEW j \in DOMAIN raising', j = i + 1
          PROVE  childOf'[raising'[i]] = raising'[j]
        <3>1. CASE i = 1
            BY <3>1, <2>2, <1>3, <1>5 DEF Raised
        <3>2. CASE i # 1
            <4>1. /\ i - 1 \in DOMAIN raising /\ j - 1 \in DOMAIN raising /\ j - 1 = (i - 1) + 1
                  /\ raising'[i] = raising[i - 1] /\ raising'[j] = raising[j - 1]
                BY <3>2, <2>2, <1>5
            <4> QED BY <4>1, <1>1, <1>3 DEF RaisingInOrder
        <3> QED BY <3>1, <3>2
    <2>3. ASSUME NEW a \in stacked', NEW r \in Unplaced', r \in Below(links', a)
          PROVE  childOf'[a] # NoFrame
        <3>1. r # c /\ r \in Unplaced /\ r \in stacked
            BY <2>3, <1>3, <1>4, <1>6, <1>8
        <3>2. CASE a = c
            <4>1. raising # <<>>
                BY <3>1, <1>5 DEF Unplaced
            <4>2. Raised \in stacked /\ stacked \subseteq Frames
                BY <4>1, <1>1, <1>5 DEF Raised, TypeOK
            <4> QED BY <4>1, <4>2, <3>2, <1>3, StackingAssumption
        <3>3. CASE a # c
            BY <3>1, <3>3, <2>3, <1>1, <1>3, <1>7 DEF RaisingInOrder
        <3> QED BY <3>2, <3>3
    <2> QED BY <2>1, <2>2, <2>3 DEF RaisingInOrder
<1>10. Settled'
    <2> SUFFICES ASSUME ~unsettled
                 PROVE  /\ Follows(over, stacked, lv)
                        /\ Agrees(over, links', stacked, lv, Unplaced')
        BY <1>3 DEF Settled
    <2>1. Follows(over, stacked, lv) /\ Agrees(over, links, stacked, lv, Unplaced)
        BY <1>1 DEF Settled
    <2>2. ASSUME NEW a \in stacked \ Unplaced', NEW b \in stacked,
                 b \notin Unplaced' \/ b \in Below(links', a)
          PROVE  <<a, b>> \in over <=> <<a, b>> \in ListOrder(links', stacked, lv)
        <3>1. a \in stacked \ {c} /\ b \in stacked \ {c} /\ a \notin Unplaced
            BY <2>2, <1>4, <1>6
        <3>2. b \notin Unplaced \/ b \in Below(links, a)
            BY <3>1, <2>2, <1>6, <1>7
        <3>3. <<a, b>> \in over <=> <<a, b>> \in ListOrder(links, stacked, lv)
            BY <3>1, <3>2, <2>1 DEF Agrees
        <3>4. <<a, b>> \in ListOrder(links, stacked, lv) <=> <<a, b>> \in ListOrder(links', stacked, lv)
            BY <3>1, <1>1, <1>4, KeepsPairs
        <3> QED BY <3>3, <3>4
    <2> QED BY <2>1, <2>2 DEF Agrees
<1>11. TypeOK'
    BY <1>1, <1>3, <1>4, <1>5 DEF TypeOK, Sound, Typed, IsLinks
<1>12. OwnersAreFrames' /\ MoveIsPossible' /\ windowCount' = Cardinality(stacked')
    BY <1>1, <1>3 DEF OwnersAreFrames, MoveIsPossible
<1> QED BY <1>1, <1>3, <1>4, <1>9, <1>10, <1>11, <1>12 DEF IInv

\* Lowering a frame, after which the server has been told of it.
LEMMA LowerToSound ==
    ASSUME NEW L, NEW S, NEW lv, Sound(L, S, lv), NEW f \in S, NEW o, IsOrder(o, S),
           LowerTo(L, o, S, lv, f)
    PROVE  /\ Sound(links', S, lv) /\ KeepsOthers(L, links', S, f) /\ IsOrder(over', S)
           /\ \A g, h \in S \ {f} : <<g, h>> \in over' <=> <<g, h>> \in o
           /\ o = ListOrder(L, S, lv) => over' = ListOrder(links', S, lv)
<1>1. CASE links' = L /\ over' = o
    BY <1>1 DEF KeepsOthers
<1>2. CASE L.under[f] # NoFrame /\ ~(links' = L /\ over' = o)
    <2>1. PICK w \in LowerPlace(Unlink(L, f), S \ {f}, lv, f) :
                /\ links' = InsertUnder(Unlink(L, f), f, w)
                /\ over' = PlaceFrame(o, links', S, lv, f)
        BY <1>2 DEF LowerTo
    <2> DEFINE M == links'
    <2> HIDE DEF M
    <2>2. w \in S \ {f} /\ lv[w] = lv[f]
        BY <1>2, LowerPlaceIsStacked
    <2>3. M = InsertUnder(Unlink(L, f), f, w) /\ over' = PlaceFrame(o, M, S, lv, f)
        BY <2>1 DEF M
    <2>4. Sound(M, S, lv) /\ KeepsOthers(L, M, S, f)
        BY <2>2, <2>3, MoveSound
    <2>5. /\ IsOrder(PlaceFrame(o, M, S, lv, f), S)
          /\ \A g, h \in S \ {f} : <<g, h>> \in PlaceFrame(o, M, S, lv, f) <=> <<g, h>> \in o
        BY <2>4, PlaceFrameIsOrder
    <2>6. PlaceFrame(ListOrder(L, S, lv), M, S, lv, f) = ListOrder(M, S, lv)
        BY <2>4, PlaceMoved
    <2> QED BY <2>3, <2>4, <2>5, <2>6 DEF M
<1> QED BY <1>1, <1>2 DEF LowerTo

\* The frames other than f keep their order in the server.
OthersKeepOrder(f) ==
    \A g, h \in stacked \ {f} : <<g, h>> \in over' <=> <<g, h>> \in over

\* What an operation that leaves the stack of calls empty has to show.
LEMMA OperationStep ==
    ASSUME IInv, raising = <<>>, raising' = <<>>, TypeOK',
           Sound(links', stacked', window_level'),
           windowCount' = Cardinality(stacked'),
           IsOrder(over', stacked'),
           ~unsettled' => over' = ListOrder(links', stacked', window_level'),
           OwnersAreFrames', MoveIsPossible'
    PROVE  IInv'
<1>1. RaisingInOrder'
    BY OneCall
<1>2. Settled'
    <2>1. CASE unsettled'
        BY <2>1 DEF Settled
    <2>2. CASE ~unsettled'
        BY <2>2, SettledByLists
    <2> QED BY <2>1, <2>2
<1> QED BY <1>1, <1>2 DEF IInv

\* A call of wRaiseFrame that returns.
LEMMA RaiseReturnStep ==
    ASSUME IInv, RaiseReturn
    PROVE  /\ IInv' /\ Raised \in stacked /\ OthersKeepOrder(Raised)
           /\ ~unsettled => \A b \in stacked :
                <<Raised, b>> \in over' <=> <<Raised, b>> \in ListOrder(links, stacked, window_level)
<1> DEFINE lv == window_level
           f == Raised
           R == Unplaced
           P == PlaceFrame(over, links, stacked, lv, f)
<1>1. /\ TypeOK /\ Sound(links, stacked, lv) /\ IsOrder(over, stacked) /\ Settled /\ RaisingInOrder
      /\ OwnersAreFrames /\ MoveIsPossible /\ windowCount = Cardinality(stacked)
    BY DEF IInv
<1>2. /\ raising # <<>> /\ over' = P /\ raising' = Tail(raising)
      /\ \A c \in Below(links, f) : childOf[c] # f
    BY DEF RaiseReturn
<1>3. /\ lv' = lv /\ stacked' = stacked /\ childOf' = childOf /\ links' = links /\ asked' = asked
      /\ windowCount' = windowCount /\ move' = move
      /\ unsettled' = unsettled /\ bouncing' = bouncing
    BY DEF RaiseReturn, window_level, bounce, lists
<1>4. /\ raising \in Seq(stacked) /\ raising' \in Seq(stacked)
      /\ DOMAIN raising' = 1 .. Len(raising) - 1 /\ DOMAIN raising = 1 .. Len(raising)
      /\ \A i \in 1 .. Len(raising) - 1 : raising'[i] = raising[i + 1]
      /\ 1 \in DOMAIN raising /\ f = raising[1] /\ f \in stacked
    BY <1>1, <1>2, TailIndex DEF TypeOK, Raised
<1>5. /\ \A i \in DOMAIN raising' : i + 1 \in DOMAIN raising /\ raising'[i] = raising[i + 1]
      /\ \A i \in DOMAIN raising : i = 1 \/ (i - 1 \in DOMAIN raising' /\ raising'[i - 1] = raising[i])
      /\ DOMAIN raising' \subseteq Nat /\ DOMAIN raising \subseteq Nat \ {0}
      /\ Len(raising) \in Nat
    BY <1>4
<1>6. R \in SUBSET stacked /\ f \in R /\ Unplaced' \subseteq R /\ R \ {f} \subseteq Unplaced'
    <2>1. R \in SUBSET stacked /\ f \in R
        BY <1>4 DEF Unplaced
    <2>2. Unplaced' \subseteq R
        BY <1>5 DEF Unplaced
    <2>3. R \ {f} \subseteq Unplaced'
        BY <1>4, <1>5 DEF Unplaced
    <2> QED BY <2>1, <2>2, <2>3
<1>7. ASSUME NEW i \in DOMAIN raising PROVE raising[i] = f \/ raising[i] \in Below(links, f)
    <2>1. CASE i = 1
        BY <2>1, <1>4
    <2>2. CASE i # 1
        BY <2>2, <1>1, <1>4, <1>5 DEF RaisingInOrder
    <2> QED BY <2>1, <2>2
<1>8. \A r \in R : r = f \/ r \in Below(links, f)
    BY <1>7 DEF Unplaced
<1> HIDE DEF lv, f, R, P
<1>9. /\ IsOrder(over', stacked)
      /\ \A g, h \in stacked \ {f} : <<g, h>> \in over' <=> <<g, h>> \in over
    BY <1>1, <1>2, <1>4, PlaceFrameIsOrder DEF P
<1>10. ASSUME ~unsettled
       PROVE  /\ Follows(P, stacked, lv) /\ Agrees(P, links, stacked, lv, Unplaced')
              /\ \A b \in stacked : <<f, b>> \in P <=> <<f, b>> \in ListOrder(links, stacked, lv)
    <2>1. Follows(over, stacked, lv) /\ Agrees(over, links, stacked, lv, R)
        BY <1>1, <1>10 DEF Settled, lv, R
    <2>2. \A a, b \in stacked \ {f} : lv[a] > lv[b] => <<a, b>> \in over
        BY <2>1 DEF Follows
    <2>3. \A a \in stacked \ (R \cup {f}), b \in stacked \ {f} :
                b \notin R \/ b \in Below(links, a) =>
                    (<<a, b>> \in over <=> <<a, b>> \in ListOrder(links, stacked, lv))
        BY <2>1 DEF Agrees
    <2>4. /\ Follows(P, stacked, lv) /\ Agrees(P, links, stacked, lv, R \ {f})
          /\ \A b \in stacked : <<f, b>> \in P <=> <<f, b>> \in ListOrder(links, stacked, lv)
        BY ONLY <1>1, <1>4, <1>6, <1>8, <2>2, <2>3, PlaceFrameIsRight DEF P
    <2>5. Agrees(P, links, stacked, lv, Unplaced')
        BY <2>4, <1>6 DEF Agrees
    <2> QED BY <2>4, <2>5
<1>11. RaisingInOrder'
    <2>1. ASSUME NEW i \in DOMAIN raising', NEW j \in DOMAIN raising', i < j
          PROVE  \/ raising'[j] = raising'[i]
                 \/ raising'[j] \in Below(links, raising'[i])
                 \/ \E k \in DOMAIN raising' : k < i /\ raising'[k] = raising'[j]
        <3>1. /\ i + 1 \in DOMAIN raising /\ j + 1 \in DOMAIN raising /\ i + 1 < j + 1 /\ j \in DOMAIN raising
              /\ raising'[i] = raising[i + 1] /\ raising'[j] = raising[j + 1]
            BY <2>1, <1>4, <1>5
        <3>2. ASSUME NEW k \in DOMAIN raising, k < i + 1, raising[k] = raising[j + 1]
              PROVE  \E m \in DOMAIN raising' : m < i /\ raising'[m] = raising'[j]
            <4>1. CASE k = 1
                <5>1. childOf[raising[j]] = f
                    BY <3>1, <3>2, <4>1, <1>1, <1>4 DEF RaisingInOrder
                <5>2. raising[j] = f \/ raising[j] \in Below(links, f)
                    BY <1>7, <3>1
                <5> QED BY <5>1, <5>2, <1>1, <1>2, <1>4 DEF OwnersAreFrames, TypeOK
            <4>2. CASE k # 1
                BY <4>2, <3>1, <3>2, <1>5
            <4> QED BY <4>1, <4>2
        <3> QED BY <3>1, <3>2, <1>1 DEF RaisingInOrder
    <2>2. ASSUME NEW i \in DOMAIN raising', NEW j \in DOMAIN raising', j = i + 1
          PROVE  childOf[raising'[i]] = raising'[j]
        BY <2>2, <1>1, <1>5 DEF RaisingInOrder
    <2>3. ASSUME NEW a \in stacked, NEW r \in Unplaced', r \in Below(links, a)
          PROVE  childOf[a] # NoFrame
        BY <2>3, <1>1, <1>6 DEF RaisingInOrder, R
    <2> QED BY <2>1, <2>2, <2>3, <1>3 DEF RaisingInOrder
<1>12. TypeOK'
    BY <1>1, <1>3, <1>4, <1>9 DEF TypeOK, IsOrder
<1>13. OwnersAreFrames' /\ MoveIsPossible' /\ windowCount' = Cardinality(stacked')
    BY <1>1, <1>3 DEF OwnersAreFrames, MoveIsPossible, lv
<1>14. Sound(links', stacked', window_level') /\ IsOrder(over', stacked') /\ Settled'
    BY <1>1, <1>2, <1>3, <1>9, <1>10 DEF lv, Settled
<1>15. IInv'
    BY <1>11, <1>12, <1>13, <1>14 DEF IInv
<1> QED BY <1>2, <1>4, <1>9, <1>10, <1>15 DEF OthersKeepOrder, f, lv

\* What IInv says in detail.
LEMMA IInvParts ==
    ASSUME IInv
    PROVE  /\ TypeOK /\ Sound(links, stacked, window_level) /\ IsOrder(over, stacked)
           /\ Settled /\ RaisingInOrder /\ OwnersAreFrames /\ MoveIsPossible
           /\ windowCount = Cardinality(stacked) /\ stacked \subseteq Frames /\ IsFiniteSet(stacked)
           /\ asked \in [Frames -> Levels] /\ window_level \in [Frames -> StackLevels]
           /\ childOf \in [Frames -> FrameOrNone]
<1>1. stacked \subseteq Frames /\ asked \in [Frames -> Levels] /\ childOf \in [Frames -> FrameOrNone]
    BY DEF IInv, TypeOK
<1>2. IsFiniteSet(stacked)
    BY <1>1, StackingAssumption, FS_Subset
<1> QED BY <1>1, <1>2, LevelsTyped DEF IInv, window_level

\* The level of one frame changes.
LEMMA LevelChanges ==
    ASSUME IInv, NEW f \in Frames, NEW l \in Levels, asked' = [asked EXCEPT ![f] = l]
    PROVE  /\ asked' \in [Frames -> Levels]
           /\ window_level' = LevelOf(asked') /\ window_level' \in [Frames -> StackLevels]
           /\ window_level'[f] = Short(l)
           /\ \A g \in Frames \ {f} : window_level'[g] = window_level[g]
<1>1. asked \in [Frames -> Levels] /\ asked' \in [Frames -> Levels]
    BY IInvParts
<1>2. window_level' = LevelOf(asked') /\ window_level = LevelOf(asked)
    BY DEF window_level
<1> QED BY <1>1, <1>2, LevelsTyped

\* Types of what the lists and the order are made of.
LEMMA SoundTypes ==
    ASSUME NEW L, NEW S, NEW lv, Sound(L, S, lv), NEW o, IsOrder(o, S)
    PROVE  /\ L \in [above : [Frames -> FrameOrNone],
                     under : [Frames -> FrameOrNone],
                     top : [StackLevels -> FrameOrNone]]
           /\ o \subseteq S \X S
BY DEF Sound, Typed, IsLinks, IsOrder

\* wRaiseFrame is called from outside.
LEMMA RaiseStep ==
    ASSUME IInv, NEW f \in Frames, Raise(f)
    PROVE  IInv' /\ OthersKeepOrder(f)
<1>1. f \in stacked /\ CallRaise(links, f) /\ raising = <<>>
    BY DEF Raise, Idle
<1>2. UNCHANGED <<stacked, asked, childOf, windowCount, over, move, bounce>>
    BY DEF Raise
<1> QED BY <1>1, <1>2, CallRaiseStep DEF OthersKeepOrder

\* wRaiseFrame calls itself for a transient below.
LEMMA RaiseTransientStep ==
    ASSUME IInv, RaiseTransient
    PROVE  IInv' /\ over' = over
<1>1. PICK c \in LowTransients : CallRaise(links, c)
    BY DEF RaiseTransient
<1>2. raising # <<>> /\ UNCHANGED <<stacked, asked, childOf, windowCount, over, move, bounce>>
    BY DEF RaiseTransient
<1>3. c \in Below(links, Raised) /\ childOf[c] = Raised
    BY DEF LowTransients, LowestChild
<1>4. Raised \in stacked
    BY <1>2, TailIndex DEF IInv, TypeOK, Raised
<1>5. c \in stacked
    BY <1>3, <1>4, IInvParts, BelowIsStacked DEF Sound
<1> QED BY <1>1, <1>2, <1>3, <1>5, CallRaiseStep

\* wLowerFrame.
LEMMA LowerStep ==
    ASSUME IInv, NEW f \in Frames, Lower(f)
    PROVE  IInv' /\ OthersKeepOrder(f)
<1> DEFINE lv == window_level
           S == stacked
<1>1. f \in S /\ raising = <<>> /\ raising' = <<>> /\ LowerTo(links, over, S, lv, f)
    BY DEF Lower, Idle, calls
<1>2. /\ lv' = lv /\ S' = S /\ childOf' = childOf /\ asked' = asked /\ windowCount' = windowCount
      /\ move' = move /\ unsettled' = unsettled /\ bouncing' = bouncing
    BY DEF Lower, window_level, calls, bounce
<1>3. /\ Sound(links, S, lv) /\ IsOrder(over, S) /\ TypeOK
      /\ (~unsettled => over = ListOrder(links, S, lv))
    BY <1>1, IInvParts, IdleServerAgrees
<1> HIDE DEF lv, S
<1>4. /\ Sound(links', S, lv) /\ IsOrder(over', S)
      /\ \A g, h \in S \ {f} : <<g, h>> \in over' <=> <<g, h>> \in over
      /\ over = ListOrder(links, S, lv) => over' = ListOrder(links', S, lv)
    BY <1>1, <1>3, LowerToSound
<1>5. TypeOK'
    BY <1>1, <1>2, <1>3, <1>4, SoundTypes DEF TypeOK, S
<1>6. OwnersAreFrames' /\ MoveIsPossible' /\ windowCount' = Cardinality(stacked')
    BY <1>2, IInvParts DEF OwnersAreFrames, MoveIsPossible, lv, S
<1>7. Sound(links', stacked', window_level') /\ IsOrder(over', stacked')
    BY <1>2, <1>4 DEF lv, S
<1>8. ~unsettled' => over' = ListOrder(links', stacked', window_level')
    BY <1>2, <1>3, <1>4 DEF lv, S
<1>9. OthersKeepOrder(f)
    BY <1>4 DEF OthersKeepOrder, S
<1> QED BY <1>1, <1>5, <1>6, <1>7, <1>8, <1>9, OperationStep

\* A frame is created, stacked and committed.
LEMMA CreateStep ==
    ASSUME IInv, NEW f \in Frames, NEW l \in Levels, NEW owner \in FrameOrNone, Create(f, l, owner)
    PROVE  IInv' /\ (~unsettled => OthersKeepOrder(f))
<1> DEFINE lv == window_level
           lw == window_level'
           S == stacked
           Z == S \cup {f}
<1>1. /\ f \notin S /\ raising = <<>> /\ move = <<>> /\ raising' = <<>> /\ move' = <<>>
      /\ S' = Z /\ asked' = [asked EXCEPT ![f] = l]
      /\ links' \in Add(links, S, lw, f)
      /\ childOf' = [childOf EXCEPT ![f] = owner]
      /\ windowCount' = windowCount + 1
      /\ over' = ListOrder(links', Z, lw)
      /\ unsettled' = FALSE /\ bouncing' = bouncing
      /\ owner \in (IF f \in Icons THEN {} ELSE S \ Icons) \cup {NoFrame}
    BY DEF Create, Idle, calls, window_level
<1>2. /\ lw \in [Frames -> StackLevels] /\ asked' \in [Frames -> Levels]
      /\ \A g \in S : lw[g] = lv[g]
    BY <1>1, LevelChanges, IInvParts
<1>3. Sound(links, S, lv) /\ TypeOK /\ S \subseteq Frames /\ IsFiniteSet(S)
    BY IInvParts
<1> HIDE DEF lv, lw, S, Z
<1>4. Sound(links, S \ {f}, lw)
    <2>1. S \ {f} = S
        BY <1>1
    <2> QED BY <2>1, <1>2, <1>3, SoundLevels
<1>5. Sound(links', Z, lw) /\ KeepsOthers(links, links', S, f)
    BY <1>1, <1>4, AddSound DEF Z
<1>6. IsOrder(over', Z)
    BY <1>1, <1>5, ListOrderIsOrder
<1>7. windowCount' = Cardinality(Z) /\ windowCount' \in Nat
    <2>1. windowCount = Cardinality(S) /\ Cardinality(S) \in Nat
        BY <1>3, IInvParts, FS_CardinalityType DEF S
    <2>2. Cardinality(Z) = Cardinality(S) + 1
        BY <1>1, <1>3, FS_AddElement DEF Z
    <2> QED BY <1>1, <2>1, <2>2
<1>8. TypeOK'
    <2>1. S' = stacked' /\ Z \subseteq Frames /\ raising' \in Seq(Z)
        BY <1>1, <1>3 DEF S, Z
    <2>2. childOf' \in [Frames -> FrameOrNone]
        BY <1>1, IInvParts
    <2>3. bouncing' \subseteq Z \cap Icons
        BY <1>1, <1>3 DEF TypeOK, S, Z
    <2>4. /\ links' \in [above : [Frames -> FrameOrNone],
                         under : [Frames -> FrameOrNone],
                         top : [StackLevels -> FrameOrNone]]
          /\ over' \subseteq Z \X Z
        BY <1>5, <1>6, SoundTypes
    <2> QED BY <1>1, <1>2, <1>7, <2>1, <2>2, <2>3, <2>4 DEF TypeOK
<1>9. OwnersAreFrames' /\ MoveIsPossible'
    BY <1>1, <1>3, IInvParts, StackingAssumption DEF OwnersAreFrames, MoveIsPossible, S
<1>10. /\ Sound(links', stacked', window_level') /\ IsOrder(over', stacked')
       /\ windowCount' = Cardinality(stacked')
       /\ over' = ListOrder(links', stacked', window_level')
    BY <1>1, <1>5, <1>6, <1>7 DEF lw, S
<1>11. ASSUME ~unsettled PROVE OthersKeepOrder(f)
    <2>1. over = ListOrder(links, S, lv)
        BY <1>1, <1>11, IdleServerAgrees DEF S, lv
    <2>2. \A g, h \in S \ {f} : <<g, h>> \in ListOrder(links, S, lv) <=> <<g, h>> \in ListOrder(links', Z, lw)
        <3>1. S \ {f} = Z \ {f} /\ \A g \in S \ {f} : lv[g] = lw[g]
            BY <1>2 DEF Z
        <3> QED BY <3>1, <1>3, <1>5, KeepsPairs
    <2> QED BY <1>1, <2>1, <2>2 DEF OthersKeepOrder, S
<1> QED BY <1>1, <1>8, <1>9, <1>10, <1>11, OperationStep

\* A frame is taken out of the lists and destroyed.
LEMMA DestroyStep ==
    ASSUME IInv, NEW f \in Frames, Destroy(f)
    PROVE  IInv' /\ OthersKeepOrder(f)
<1> DEFINE lv == window_level
           lw == window_level'
           S == stacked
           Z == S \ {f}
           U == Unlink(links, f)
<1>1. /\ f \in S /\ raising = <<>> /\ move = <<>> /\ raising' = <<>> /\ move' = <<>>
      /\ S' = Z /\ asked' = [asked EXCEPT ![f] = NoLevel]
      /\ links' = U
      /\ childOf' = [childOf EXCEPT ![f] = NoFrame]
      /\ windowCount' = windowCount - 1
      /\ over' = Without(over, f)
      /\ unsettled' = unsettled /\ bouncing' = bouncing \ {f}
    BY DEF Destroy, Idle, calls
<1>2. /\ lw \in [Frames -> StackLevels] /\ asked' \in [Frames -> Levels]
      /\ \A g \in S \ {f} : lw[g] = lv[g]
    <2>1. NoLevel \in Levels
        BY StackingAssumption DEF NoLevel
    <2> QED BY <2>1, <1>1, LevelChanges, IInvParts
<1>3. /\ Sound(links, S, lv) /\ TypeOK /\ S \subseteq Frames /\ IsFiniteSet(S) /\ IsOrder(over, S)
      /\ (~unsettled => over = ListOrder(links, S, lv))
    BY <1>1, IInvParts, IdleServerAgrees
<1> HIDE DEF lv, lw, S, Z, U
<1>4. Sound(U, Z, lv) /\ KeepsOthers(links, U, S, f)
    BY <1>1, <1>3, UnlinkSound DEF U, Z, KeepsOthers
<1>5. Sound(U, Z, lw)
    BY <1>2, <1>4, SoundLevels DEF Z
<1>6. IsOrder(over', Z)
    BY <1>1, <1>3, WithoutIsOrder DEF Z
<1>7. windowCount' = Cardinality(Z) /\ windowCount' \in Nat
    BY <1>1, <1>3, IInvParts, FS_RemoveElement, FS_CardinalityType, FS_Subset DEF S, Z
<1>8. TypeOK'
    <2>1. S' = stacked' /\ Z \subseteq Frames /\ raising' \in Seq(Z)
        BY <1>1, <1>3 DEF S, Z
    <2>2. childOf' \in [Frames -> FrameOrNone]
        BY <1>1, IInvParts DEF FrameOrNone
    <2>3. bouncing' \subseteq Z \cap Icons
        BY <1>1, <1>3 DEF TypeOK, S, Z
    <2>4. /\ links' \in [above : [Frames -> FrameOrNone],
                         under : [Frames -> FrameOrNone],
                         top : [StackLevels -> FrameOrNone]]
          /\ over' \subseteq Z \X Z
        BY <1>1, <1>5, <1>6, SoundTypes
    <2>5. unsettled' \in BOOLEAN
        BY <1>1, <1>3 DEF TypeOK
    <2> QED BY <1>1, <1>2, <1>7, <2>1, <2>2, <2>3, <2>4, <2>5 DEF TypeOK
<1>9. OwnersAreFrames' /\ MoveIsPossible'
    BY <1>1, <1>3, IInvParts, StackingAssumption DEF OwnersAreFrames, MoveIsPossible, S
<1>10. ASSUME NEW g \in S \ {f}, NEW h \in S \ {f}
       PROVE  <<g, h>> \in over' <=> <<g, h>> \in over
    BY <1>1 DEF Without
<1>11. ASSUME ~unsettled PROVE over' = ListOrder(U, Z, lw)
    <2>1. \A g, h \in S \ {f} : <<g, h>> \in ListOrder(links, S, lv) <=> <<g, h>> \in ListOrder(U, Z, lw)
        <3>1. S \ {f} = Z \ {f} /\ \A g \in S \ {f} : lv[g] = lw[g]
            BY <1>2 DEF Z
        <3> QED BY <3>1, <1>3, <1>4, <1>5, KeepsPairs
    <2>2. \A g, h \in Z : <<g, h>> \in over' <=> <<g, h>> \in ListOrder(U, Z, lw)
        BY <1>3, <1>10, <1>11, <2>1 DEF Z
    <2>3. IsOrder(ListOrder(U, Z, lw), Z)
        BY <1>5, ListOrderIsOrder
    <2> QED BY <1>6, <2>2, <2>3, SameOrder
<1>12. /\ Sound(links', stacked', window_level') /\ IsOrder(over', stacked')
       /\ windowCount' = Cardinality(stacked')
       /\ (~unsettled' => over' = ListOrder(links', stacked', window_level'))
    BY <1>1, <1>5, <1>6, <1>7, <1>11 DEF lw, S
<1>13. OthersKeepOrder(f)
    BY <1>10 DEF OthersKeepOrder, S
<1> QED BY <1>1, <1>8, <1>9, <1>12, <1>13, OperationStep

\* The level of a frame changes: it goes out, in again, and up or down there.
LEMMA ToLevelStep ==
    ASSUME IInv, Idle, NEW f \in stacked, NEW l \in Levels, ToLevel(f, l),
           UNCHANGED <<stacked, childOf, windowCount, bouncing>>,
           move' \in {<<>>} \cup stacked \X stacked, MoveIsPossible'
    PROVE  IInv' /\ (~unsettled => OthersKeepOrder(f))
<1> DEFINE lv == window_level
           lw == window_level'
           S == stacked
           U == Unlink(links, f)
<1>1. PICK A \in Add(U, S, lw, f) :
        IF lv[f] > l
        THEN /\ over' = ListOrder(A, S, lw)
             /\ IF A.above[f] = NoFrame
                THEN links' = A /\ UNCHANGED raising
                ELSE /\ links' = InsertTop(Unlink(A, f), f, Short(l))
                     /\ raising' = <<f>>
        ELSE /\ LowerTo(A, ListOrder(A, S, lw), S, lw, f)
             /\ UNCHANGED raising
    BY DEF ToLevel, window_level
<1>2. /\ f \in Frames /\ raising = <<>> /\ move = <<>> /\ unsettled' = FALSE
      /\ S' = S /\ asked' = [asked EXCEPT ![f] = l]
      /\ childOf' = childOf /\ windowCount' = windowCount /\ bouncing' = bouncing
    BY IInvParts DEF ToLevel, Idle
<1>3. /\ lw \in [Frames -> StackLevels] /\ asked' \in [Frames -> Levels]
      /\ \A g \in S \ {f} : lw[g] = lv[g]
      /\ lw[f] = Short(l)
    BY <1>2, LevelChanges, IInvParts
<1>4. /\ Sound(links, S, lv) /\ TypeOK /\ S \subseteq Frames
      /\ (~unsettled => over = ListOrder(links, S, lv))
    BY <1>2, IInvParts, IdleServerAgrees
<1> HIDE DEF lv, lw, S, U
<1>5. f \in S
    BY DEF S
<1>6. Sound(U, S \ {f}, lw) /\ KeepsOthers(links, U, S, f)
    <2>1. Sound(U, S \ {f}, lv) /\ KeepsOthers(links, U, S, f)
        <3>1. /\ Sound(U, S \ {f}, lv)
              /\ \A g \in S \ {f} : Below(U, g) = Below(links, g) \ {f}
            BY ONLY <1>4, <1>5, UnlinkSound DEF U
        <3> QED BY <3>1 DEF KeepsOthers
    <2> DEFINE Z == S \ {f}
    <2>2. \A g \in Z : lw[g] = lv[g]
        BY <1>3
    <2> HIDE DEF Z
    <2>3. Sound(U, Z, lw)
        <3>1. Sound(U, Z, lv)
            BY <2>1 DEF Z
        <3> QED BY <3>1, <2>2, <1>3, SoundLevels
    <2> QED BY <2>1, <2>3 DEF Z
<1>7. Sound(A, S, lw) /\ KeepsOthers(links, A, S, f)
    <2>1. S \cup {f} = S
        BY <1>5
    <2>2. Sound(A, S \cup {f}, lw) /\ KeepsOthers(U, A, S, f)
        BY <1>2, <1>6, AddSound
    <2> QED BY <1>6, <2>1, <2>2 DEF KeepsOthers
<1> DEFINE o == ListOrder(A, S, lw)
<1>8. IsOrder(o, S)
    BY <1>7, ListOrderIsOrder
<1>9. ASSUME ~unsettled PROVE \A g, h \in S \ {f} : <<g, h>> \in o <=> <<g, h>> \in over
    <2>1. \A g \in S \ {f} : lv[g] = lw[g]
        BY <1>3
    <2>2. \A g, h \in S \ {f} : <<g, h>> \in ListOrder(links, S, lv) <=> <<g, h>> \in ListOrder(A, S, lw)
        <3> DEFINE Z == S
        <3>1. S \ {f} = Z \ {f} /\ Sound(A, Z, lw)
            BY <1>7
        <3> HIDE DEF Z
        <3>2. \A g, h \in S \ {f} : <<g, h>> \in ListOrder(links, S, lv) <=> <<g, h>> \in ListOrder(A, Z, lw)
            BY ONLY <2>1, <3>1, <1>4, <1>7, KeepsPairs
        <3> QED BY <3>2 DEF Z
    <2> QED BY <2>2, <1>4, <1>9
<1> HIDE DEF o
<1>10. OwnersAreFrames' /\ windowCount' = Cardinality(stacked')
    BY <1>2, IInvParts DEF OwnersAreFrames, S
<1>11. ASSUME Sound(links', S, lw), IsOrder(over', S), raising' \in Seq(S) PROVE TypeOK'
    <2>1. /\ links' \in [above : [Frames -> FrameOrNone],
                         under : [Frames -> FrameOrNone],
                         top : [StackLevels -> FrameOrNone]]
          /\ over' \subseteq S \X S
        BY <1>11, SoundTypes
    <2> QED BY <1>2, <1>3, <1>4, <1>11, <2>1 DEF TypeOK, S
<1>12. CASE lv[f] > l /\ A.above[f] = NoFrame
    <2>1. over' = o /\ links' = A /\ raising' = <<>>
        BY <1>1, <1>2, <1>12 DEF o
    <2>2. /\ Sound(links', stacked', window_level') /\ IsOrder(over', stacked')
          /\ over' = ListOrder(links', stacked', window_level')
        BY <2>1, <1>2, <1>7, <1>8 DEF o, S, lw
    <2>3. TypeOK'
        BY <2>1, <1>7, <1>8, <1>11
    <2> QED BY <2>1, <2>2, <2>3, <1>2, <1>9, <1>10, OperationStep DEF OthersKeepOrder, S
<1>13. CASE lv[f] > l /\ A.above[f] # NoFrame
    <2>1. over' = o /\ links' = InsertTop(Unlink(A, f), f, lw[f]) /\ raising' = <<f>>
        BY <1>1, <1>3, <1>13 DEF o
    <2> DEFINE M == links'
    <2> HIDE DEF M
    <2>2. /\ Sound(M, S, lw) /\ KeepsOthers(A, M, S, f)
          /\ \A g \in S : f \notin Below(M, g)
        BY <2>1, <1>5, <1>7, RaiseSound DEF M
    <2>3. RaisingInOrder' /\ Unplaced' = {f}
        BY <2>1, <2>2, <1>2, OneCall DEF M, S
    <2>4. Follows(o, S, lw) /\ Agrees(o, M, S, lw, {f})
        <3>1. Follows(o, S, lw)
            BY <1>7, ListOrderAgrees DEF o
        <3>2. \A a, b \in S \ {f} : <<a, b>> \in ListOrder(A, S, lw) <=> <<a, b>> \in ListOrder(M, S, lw)
            BY <1>7, <2>2, KeepsPairs
        <3>3. \A a, b \in S \ {f} : <<a, b>> \in o <=> <<a, b>> \in ListOrder(M, S, lw)
            BY <3>2 DEF o
        <3>4. \A a \in S \ {f}, b \in S : b \notin {f} \/ b \in Below(M, a) => b \in S \ {f}
            BY <2>2
        <3>5. Agrees(o, M, S, lw, {f})
            BY <3>3, <3>4 DEF Agrees
        <3> QED BY <3>1, <3>5
    <2>5. Settled'
        BY <2>1, <2>3, <2>4, <1>2 DEF Settled, S, lw, M
    <2>6. TypeOK'
        <3>1. raising' \in Seq(S)
            BY <2>1, <1>5
        <3> QED BY <2>1, <2>2, <3>1, <1>8, <1>11 DEF M
    <2>7. Sound(links', stacked', window_level') /\ IsOrder(over', stacked')
        BY <2>1, <2>2, <1>2, <1>8 DEF S, lw, M
    <2> QED BY <2>1, <2>3, <2>5, <2>6, <2>7, <1>9, <1>10 DEF IInv, OthersKeepOrder, S
<1>14. CASE ~(lv[f] > l)
    <2>1. LowerTo(A, o, S, lw, f) /\ raising' = <<>>
        BY <1>1, <1>2, <1>14 DEF o
    <2>2. /\ Sound(links', S, lw) /\ IsOrder(over', S)
          /\ \A g, h \in S \ {f} : <<g, h>> \in over' <=> <<g, h>> \in o
          /\ over' = ListOrder(links', S, lw)
        <3>1. o = ListOrder(A, S, lw)
            BY DEF o
        <3> QED BY <3>1, <2>1, <1>5, <1>7, <1>8, LowerToSound
    <2>3. /\ Sound(links', stacked', window_level') /\ IsOrder(over', stacked')
          /\ over' = ListOrder(links', stacked', window_level')
        BY <2>2, <1>2 DEF S, lw
    <2>4. TypeOK'
        BY <2>1, <2>2, <1>11
    <2> QED BY <2>1, <2>2, <2>3, <2>4, <1>2, <1>9, <1>10, OperationStep DEF OthersKeepOrder, S
<1> QED BY <1>12, <1>13, <1>14

\* ChangeStackingLevel.
LEMMA ChangeLevelStep ==
    ASSUME IInv, NEW f \in Frames, NEW l \in Levels, ChangeStackingLevel(f, l)
    PROVE  IInv' /\ (~unsettled => OthersKeepOrder(f))
<1>1. /\ Idle /\ f \in stacked /\ ToLevel(f, l)
      /\ UNCHANGED <<stacked, childOf, windowCount, bouncing>> /\ move' = <<>>
    BY DEF ChangeStackingLevel, Idle
<1>2. MoveIsPossible'
    BY <1>1 DEF MoveIsPossible
<1> QED BY <1>1, <1>2, ToLevelStep

\* MoveInStackListUnder up to the change of level.
LEMMA MoveInListStep ==
    ASSUME IInv, NEW prev \in Icons, NEW f \in Frames, MoveInStackListUnder(prev, f)
    PROVE  IInv' /\ (~unsettled => OthersKeepOrder(f))
<1>1. /\ Idle /\ prev \in stacked \cap Icons /\ f \in stacked \cap Icons /\ f # prev
      /\ move' = <<prev, f>>
      /\ UNCHANGED <<stacked, childOf, windowCount, bouncing>>
    BY DEF MoveInStackListUnder
<1>2. move' \in {<<>>} \cup stacked \X stacked
    BY <1>1
<1>3. CASE window_level[f] = window_level[prev]
    <2>1. UNCHANGED <<asked, links, over, raising, unsettled>> /\ raising = <<>>
        BY <1>1, <1>3 DEF MoveInStackListUnder, Idle
    <2>2. window_level' = window_level
        BY <2>1 DEF window_level
    <2>3. MoveIsPossible' /\ OwnersAreFrames'
        BY <1>1, <1>3, <2>2, IInvParts DEF MoveIsPossible, OwnersAreFrames
    <2>4. TypeOK'
        BY <1>1, <1>2, <2>1, IInvParts DEF TypeOK
    <2>5. ~unsettled => over = ListOrder(links, stacked, window_level)
        BY <2>1, IdleServerAgrees
    <2> QED BY <1>1, <2>1, <2>2, <2>3, <2>4, <2>5, IInvParts, OperationStep DEF OthersKeepOrder
<1>4. CASE window_level[f] # window_level[prev]
    <2>1. ToLevel(f, asked[prev]) /\ asked[prev] \in Levels /\ asked' = [asked EXCEPT ![f] = asked[prev]]
        BY <1>1, <1>4, IInvParts DEF MoveInStackListUnder, ToLevel
    <2>2. window_level'[f] = Short(asked[prev]) /\ window_level'[prev] = window_level[prev]
        BY <1>1, <2>1, LevelChanges, IInvParts
    <2>3. window_level[prev] = Short(asked[prev])
        BY <1>1, IInvParts, LevelsTyped DEF window_level
    <2>4. MoveIsPossible'
        BY <1>1, <2>2, <2>3 DEF MoveIsPossible
    <2> QED BY <1>1, <1>2, <2>1, <2>4, ToLevelStep
<1> QED BY <1>3, <1>4

\* The rest of MoveInStackListUnder: the server is told what PlaceFrame would say.
LEMMA MoveUnderStep ==
    ASSUME IInv, MoveUnder
    PROVE  IInv' /\ move[2] \in stacked \cap Icons /\ OthersKeepOrder(move[2])
<1> DEFINE lv == window_level
           S == stacked
           f == move[2]
           w == move[1]
           M == links'
<1>1. /\ raising = <<>> /\ raising' = <<>> /\ move' = <<>>
      /\ M = InsertUnder(Unlink(links, f), f, w)
      /\ over' = MoveToUnder(over, S, w, f)
      /\ lv' = lv /\ S' = S /\ childOf' = childOf /\ asked' = asked /\ windowCount' = windowCount
      /\ unsettled' = unsettled /\ bouncing' = bouncing
    BY DEF MoveUnder, window_level, bounce
<1>2. f \in S \cap Icons /\ w \in S \ {f} /\ lv[w] = lv[f]
    BY IInvParts DEF MoveUnder, MoveIsPossible
<1>3. /\ Sound(links, S, lv) /\ IsOrder(over, S) /\ TypeOK /\ S \subseteq Frames
      /\ (~unsettled => over = ListOrder(links, S, lv))
    BY <1>1, IInvParts, IdleServerAgrees
<1>4. w # NoFrame
    BY <1>2, <1>3, StackingAssumption
<1>5. MoveIsPossible' /\ OwnersAreFrames'
    BY <1>1, IInvParts DEF MoveIsPossible, OwnersAreFrames
<1> HIDE DEF lv, S, f, w, M
<1>6. Sound(M, S, lv) /\ KeepsOthers(links, M, S, f) /\ M.above[f] = w
    BY <1>1, <1>2, <1>3, MoveSound
<1>7. over' = PlaceFrame(over, M, S, lv, f)
    BY <1>1, <1>4, <1>6 DEF PlaceFrame
<1>8. /\ IsOrder(over', S)
      /\ \A g, h \in S \ {f} : <<g, h>> \in over' <=> <<g, h>> \in over
    BY <1>2, <1>3, <1>6, <1>7, PlaceFrameIsOrder
<1>9. ~unsettled => over' = ListOrder(M, S, lv)
    BY <1>2, <1>3, <1>6, <1>7, PlaceMoved
<1>10. TypeOK'
    <2>1. raising' \in Seq(S) /\ move' \in {<<>>} \cup S \X S
        BY <1>1
    <2> QED BY <1>1, <1>3, <1>6, <1>8, <2>1, SoundTypes DEF TypeOK, S, M
<1>11. /\ Sound(links', stacked', window_level') /\ IsOrder(over', stacked')
       /\ windowCount' = Cardinality(stacked')
       /\ (~unsettled' => over' = ListOrder(links', stacked', window_level'))
    BY <1>1, <1>6, <1>8, <1>9, IInvParts DEF S, lv, M
<1>12. OthersKeepOrder(f)
    BY <1>8 DEF OthersKeepOrder, S
<1> QED BY <1>1, <1>2, <1>5, <1>10, <1>11, <1>12, OperationStep DEF f, S

\* An icon is raised past the lists; the order is no longer theirs.
LEMMA BounceTickStep ==
    ASSUME IInv, NEW f \in Frames, BounceTick(f)
    PROVE  IInv' /\ OthersKeepOrder(f)
<1>1. /\ f \in stacked \cap Icons /\ raising = <<>> /\ raising' = <<>>
      /\ over' = RaiseWindow(over, stacked, f) /\ unsettled' = TRUE
      /\ bouncing' = bouncing \cup {f}
      /\ stacked' = stacked /\ asked' = asked /\ links' = links /\ childOf' = childOf
      /\ windowCount' = windowCount /\ move' = move
    BY DEF BounceTick, Idle, lists, calls
<1>2. IsOrder(over, stacked) /\ TypeOK /\ f \in stacked
    BY <1>1, IInvParts
<1>3. over' = PutUnder(over, stacked, {}, f)
    BY <1>1, RaiseWindowPuts
<1>4. IsOrder(over', stacked)
    BY <1>2, <1>3, PutUnderIsOrder
<1>5. OthersKeepOrder(f)
    <2>1. over \subseteq stacked \X stacked
        BY <1>2 DEF IsOrder
    <2>2. {} \in SUBSET (stacked \ {f})
        OBVIOUS
    <2>3. \A a, b \in stacked \ {f} : <<a, b>> \in PutUnder(over, stacked, {}, f) <=> <<a, b>> \in over
        BY <1>2, <2>1, <2>2, PutUnderPairs
    <2> QED BY <1>3, <2>3 DEF OthersKeepOrder
<1>6. TypeOK'
    BY <1>1, <1>2, <1>4 DEF TypeOK, IsOrder
<1>7. MoveIsPossible' /\ OwnersAreFrames' /\ window_level' = window_level
    BY <1>1, IInvParts DEF MoveIsPossible, OwnersAreFrames, window_level
<1> QED BY <1>1, <1>4, <1>5, <1>6, <1>7, IInvParts, OperationStep

\* The icon goes back to its place.
LEMMA BounceEndStep ==
    ASSUME IInv, NEW f \in Frames, BounceEnd(f)
    PROVE  IInv' /\ OthersKeepOrder(f)
<1> DEFINE lv == window_level
           S == stacked
<1>1. /\ f \in S /\ raising = <<>> /\ raising' = <<>>
      /\ over' = PlaceFrame(over, links, S, lv, f) /\ unsettled' = unsettled
      /\ bouncing' = bouncing \ {f} /\ lv' = lv
      /\ S' = S /\ asked' = asked /\ links' = links /\ childOf' = childOf
      /\ windowCount' = windowCount /\ move' = move
    BY IInvParts DEF BounceEnd, Idle, lists, calls, TypeOK, window_level
<1>2. /\ Sound(links, S, lv) /\ IsOrder(over, S) /\ TypeOK
      /\ (~unsettled => over = ListOrder(links, S, lv))
    BY <1>1, IInvParts, IdleServerAgrees
<1>3. MoveIsPossible' /\ OwnersAreFrames'
    BY <1>1, IInvParts DEF MoveIsPossible, OwnersAreFrames
<1> HIDE DEF lv, S
<1>4. /\ IsOrder(over', S)
      /\ \A g, h \in S \ {f} : <<g, h>> \in over' <=> <<g, h>> \in over
    BY <1>1, <1>2, PlaceFrameIsOrder
<1>5. ~unsettled => over' = ListOrder(links, S, lv)
    <2>1. KeepsOthers(links, links, S, f)
        BY DEF KeepsOthers
    <2> QED BY <2>1, <1>1, <1>2, PlaceMoved
<1>6. TypeOK'
    BY <1>1, <1>2, <1>4 DEF TypeOK, IsOrder, S
<1>7. OthersKeepOrder(f)
    BY <1>4 DEF OthersKeepOrder, S
<1>8. /\ Sound(links', stacked', window_level') /\ IsOrder(over', stacked')
      /\ windowCount' = Cardinality(stacked')
      /\ (~unsettled' => over' = ListOrder(links', stacked', window_level'))
    BY <1>1, <1>2, <1>4, <1>5, IInvParts DEF S, lv
<1> QED BY <1>1, <1>3, <1>6, <1>7, <1>8, OperationStep

\* A client moves its window in the server, the lists are made anew.
LEMMA ClientRestackStep ==
    ASSUME IInv, NEW f \in Frames, NEW higher \in SUBSET stacked, ClientRestack(f, higher)
    PROVE  IInv' /\ (~unsettled => OthersKeepOrder(f))
<1> DEFINE lv == window_level
           S == stacked
           o == PutUnder(over, S, higher, f)
           M == Remake(o, S, lv)
<1>1. /\ f \in S /\ raising = <<>> /\ raising' = <<>> /\ move = <<>>
      /\ higher \in SUBSET (S \ {f})
      /\ \A p \in over : p[2] \in higher /\ p[1] # f => p[1] \in higher
      /\ over' = ListOrder(links', S, lv) /\ unsettled' = FALSE
      /\ bouncing' = bouncing /\ lv' = lv /\ links' = M
      /\ S' = S /\ asked' = asked /\ childOf' = childOf
      /\ windowCount' = Cardinality(S) /\ move' = move
    BY IInvParts DEF ClientRestack, Idle, calls, window_level, PutUnder
<1>2. /\ Sound(links, S, lv) /\ IsOrder(over, S) /\ TypeOK /\ IsFiniteSet(S) /\ S \in SUBSET Frames
      /\ lv \in [Frames -> StackLevels]
      /\ (~unsettled => over = ListOrder(links, S, lv))
    BY <1>1, IInvParts, IdleServerAgrees
<1>3. MoveIsPossible' /\ OwnersAreFrames'
    BY <1>1, IInvParts DEF MoveIsPossible, OwnersAreFrames
<1> HIDE DEF lv, S, o, M
<1>4. \A a, b \in S \ {f} : <<a, b>> \in over /\ b \in higher => a \in higher
    <2> SUFFICES ASSUME NEW a \in S \ {f}, NEW b \in S \ {f}, <<a, b>> \in over, b \in higher
                 PROVE  a \in higher
        OBVIOUS
    <2>1. <<a, b>>[2] = b /\ <<a, b>>[1] = a
        OBVIOUS
    <2> QED BY <2>1, <1>1
<1>5. /\ IsOrder(o, S)
      /\ \A a, b \in S \ {f} : <<a, b>> \in o <=> <<a, b>> \in over
    <2>1. over \subseteq S \X S
        BY <1>2 DEF IsOrder
    <2> QED BY <2>1, <1>1, <1>2, <1>4, PutUnderIsOrder, PutUnderPairs DEF o
<1>6. /\ Sound(M, S, lv)
      /\ \A g \in S : Below(M, g) = LevelUnder(o, S, lv, g)
    BY <1>2, <1>5, RemakeSound DEF M
<1>7. IsOrder(over', S)
    BY <1>1, <1>6, ListOrderIsOrder
<1>8. TypeOK'
    <2>1. Cardinality(S) \in Nat
        BY <1>2, FS_CardinalityType
    <2> QED BY <2>1, <1>1, <1>2, <1>6, <1>7, SoundTypes DEF TypeOK, S
<1>9. ASSUME ~unsettled PROVE OthersKeepOrder(f)
    <2> SUFFICES ASSUME NEW g \in S \ {f}, NEW h \in S \ {f}
                 PROVE  <<g, h>> \in over' <=> <<g, h>> \in over
        BY DEF OthersKeepOrder, S
    <2>1. <<g, h>> \in over' <=> lv[g] > lv[h] \/ (lv[g] = lv[h] /\ h \in Below(M, g))
        BY <1>1, <1>6, ListPairs
    <2>2. <<g, h>> \in over <=> lv[g] > lv[h] \/ (lv[g] = lv[h] /\ h \in Below(links, g))
        BY <1>2, <1>9, ListPairs
    <2>3. h \in Below(M, g) <=> lv[h] = lv[g] /\ <<g, h>> \in over
        BY <1>5, <1>6 DEF LevelUnder
    <2>4. lv[g] \in Int /\ lv[h] \in Int
        BY <1>2, ListPairs
    <2> QED BY <2>1, <2>2, <2>3, <2>4
<1>10. /\ Sound(links', stacked', window_level') /\ IsOrder(over', stacked')
       /\ windowCount' = Cardinality(stacked')
       /\ over' = ListOrder(links', stacked', window_level')
    BY <1>1, <1>6, <1>7 DEF S, lv
<1> QED BY <1>1, <1>3, <1>8, <1>9, <1>10, OperationStep

-----------------------------------------------------------------------------
(* The theorems. *)

LEMMA NextStep == IInv /\ [Next]_vars => IInv'
<1> SUFFICES ASSUME IInv, [Next]_vars PROVE IInv'
    OBVIOUS
<1>1. CASE UNCHANGED vars
    <2>1. /\ stacked' = stacked /\ asked' = asked /\ links' = links /\ childOf' = childOf
          /\ windowCount' = windowCount /\ over' = over /\ raising' = raising /\ move' = move
          /\ bouncing' = bouncing /\ unsettled' = unsettled
        BY <1>1 DEF vars, lists, calls, bounce
    <2> QED BY <2>1 DEF IInv, TypeOK, Settled, RaisingInOrder, OwnersAreFrames, MoveIsPossible,
                        Unplaced, window_level
<1>2. CASE Continue
    BY <1>2, RaiseTransientStep, RaiseReturnStep, MoveUnderStep DEF Continue
<1>3. ASSUME NEW f \in Frames, Operation(f) PROVE IInv'
    <2>1. CASE Raise(f) \/ Lower(f) \/ RaiseLower(f)
        BY <2>1, RaiseStep, LowerStep DEF RaiseLower
    <2>2. ASSUME NEW l \in Levels, NEW owner \in FrameOrNone, Create(f, l, owner) PROVE IInv'
        BY <2>2, CreateStep
    <2>3. CASE Destroy(f)
        BY <2>3, DestroyStep
    <2>4. ASSUME NEW l \in Levels, ChangeStackingLevel(f, l) PROVE IInv'
        BY <2>4, ChangeLevelStep
    <2>5. ASSUME NEW prev \in Icons, MoveInStackListUnder(prev, f) PROVE IInv'
        BY <2>5, MoveInListStep
    <2>6. ASSUME NEW higher \in SUBSET stacked, ClientRestack(f, higher) PROVE IInv'
        BY <2>6, ClientRestackStep
    <2>7. CASE BounceTick(f) \/ BounceEnd(f)
        BY <2>7, BounceTickStep, BounceEndStep
    <2> QED BY <1>3, <2>1, <2>2, <2>3, <2>4, <2>5, <2>6, <2>7 DEF Operation
<1> QED BY <1>1, <1>2, <1>3 DEF Next

\* IInv holds in every state that operations on the stacking order can reach.
THEOREM Invariance == Spec => []IInv
<1>1. Init => IInv
    BY InitIInv
<1>2. IInv /\ [Next]_vars => IInv'
    BY NextStep
<1> QED BY <1>1, <1>2, PTL DEF Spec

\* Every pointer of the lists points to a frame that is stacked.
THEOREM TypeCorrect == Spec => []TypeOK
<1>1. IInv => TypeOK
    BY DEF IInv
<1> QED BY <1>1, Invariance, PTL

\* After any operations on any number of frames and levels above and under are
\* each other's inverse, within one level, and stacking_list holds the tops.
THEOREM ListsAreLinked == Spec => []Linked
<1>1. IInv => Linked
    BY SoundIsLinked DEF IInv, Sound
<1> QED BY <1>1, Invariance, PTL

\* The walk from the tops of the lists comes to the frames that are stacked.
LEMMA WalkFindsAll == IInv => CommitFits
<1> SUFFICES ASSUME IInv PROVE CommitFits
    OBVIOUS
<1> DEFINE lv == window_level
<1>1. Sound(links, stacked, lv) /\ windowCount = Cardinality(stacked) /\ stacked \subseteq Frames
      /\ IsFiniteSet(stacked) /\ lv \in [Frames -> StackLevels]
    BY IInvParts
<1>2. ASSUME NEW l \in StackLevels, links.top[l] # NoFrame
      PROVE  {links.top[l]} \cup Below(links, links.top[l]) \subseteq stacked
    <2>1. links.top[l] \in stacked
        BY <1>1, <1>2 DEF Sound, IsLinked
    <2> QED BY <1>1, <2>1, BelowIsStacked DEF Sound
<1>3. ASSUME NEW f \in stacked
      PROVE  \E l \in StackLevels : /\ links.top[l] # NoFrame
                                    /\ f \in {links.top[l]} \cup Below(links, links.top[l])
    <2>1. lv[f] \in StackLevels
        BY <1>1
    <2>2. links.top[lv[f]] \in stacked /\ (f = links.top[lv[f]] \/ f \in Below(links, links.top[lv[f]]))
        BY <1>1 DEF Sound, IsChained
    <2>3. links.top[lv[f]] # NoFrame
        BY <1>1, <2>2, StackingAssumption
    <2> QED BY <2>1, <2>2, <2>3
<1>4. Reached \subseteq stacked
    BY <1>2 DEF Reached
<1>5. stacked \subseteq Reached
    BY <1>3 DEF Reached
<1>6. Cardinality(Reached) <= windowCount
    <2>1. Cardinality(stacked) \in Nat /\ Reached = stacked
        BY <1>1, <1>4, <1>5, FS_CardinalityType
    <2> QED BY <2>1, <1>1
<1> QED BY <1>4, <1>5, <1>6 DEF CommitFits

\* CommitStacking comes to every frame, and never to more than fit in its array.
THEOREM CommitFindsAll == Spec => []CommitFits
BY WalkFindsAll, Invariance, PTL

\* Although every operation tells the server of one frame only, by the one frame
\* that is right above it, the server has the order of the lists.
THEOREM ServerHasTheOrder == Spec => []ServerAgrees
<1>1. IInv => ServerAgrees
    BY IdleServerAgrees DEF ServerAgrees, Idle
<1> QED BY <1>1, Invariance, PTL

-----------------------------------------------------------------------------
(* What one sees, when no icon bounces. *)

LEMMA FrameMoves ==
    ASSUME IInv', ~unsettled', NEW f \in Frames, OthersKeepOrder(f),
           \A g \in Frames \ {f} : window_level'[g] = window_level[g],
           \/ f \notin stacked /\ stacked' = stacked \cup {f}
           \/ f \in stacked /\ stacked' = stacked \ {f}
           \/ f \in stacked /\ stacked' = stacked
    PROVE  Order!Next
<1>1. IsOrder(over', stacked') /\ Follows(over', stacked', window_level')
    BY DEF IInv, Settled
<1>2. ASSUME NEW g \in stacked', NEW h \in stacked', g # h
      PROVE  <<g, h>> \in over' <=> <<h, g>> \notin over'
    BY <1>1, <1>2 DEF IsOrder, IsStrict
<1>3. Order!IsStacking'
    BY <1>1, <1>2 DEF Order!IsStacking, IsOrder, IsStrict, Follows
<1>4. Order!OnlyMoves(f)
    BY <1>3 DEF Order!OnlyMoves, OthersKeepOrder
<1> QED BY <1>4 DEF Order!Next, Order!Appear, Order!Disappear, Order!Move

\* Without icons every step is one move of StackOrder or none.
LEMMA StepIsOneMove ==
    ASSUME Icons = {}, IInv, ~unsettled, [Next]_vars
    PROVE  ~unsettled' /\ [Order!Next]_Order!vars
<1>1. IInv'
    BY NextStep
<1>2. CASE UNCHANGED vars
    <2>1. UNCHANGED <<stacked, window_level, over, unsettled>>
        BY <1>2 DEF vars, lists, calls, bounce, window_level
    <2> QED BY <2>1 DEF Order!vars
<1>3. CASE Continue
    <2>1. CASE RaiseTransient
        <3>1. over' = over /\ UNCHANGED <<stacked, window_level, unsettled>>
            BY <2>1, RaiseTransientStep DEF RaiseTransient, bounce, window_level
        <3> QED BY <3>1 DEF Order!vars
    <2>2. CASE RaiseReturn
        <3>1. UNCHANGED <<stacked, window_level, unsettled>>
            BY <2>2 DEF RaiseReturn, bounce, window_level
        <3> QED BY <3>1, <1>1, <2>2, RaiseReturnStep, FrameMoves, IInvParts
    <2>3. ~MoveUnder
        BY MoveUnderStep
    <2> QED BY <1>3, <2>1, <2>2, <2>3 DEF Continue
<1>4. ASSUME NEW f \in Frames, Operation(f) PROVE ~unsettled' /\ [Order!Next]_Order!vars
    <2>1. CASE Raise(f) \/ Lower(f) \/ RaiseLower(f)
        <3>1. Raise(f) \/ Lower(f)
            BY <2>1 DEF RaiseLower
        <3>2. UNCHANGED <<stacked, window_level, unsettled>> /\ f \in stacked
            BY <3>1 DEF Raise, Lower, bounce, window_level
        <3> QED BY <3>1, <3>2, <1>1, RaiseStep, LowerStep, FrameMoves
    <2>2. ASSUME NEW l \in Levels, NEW owner \in FrameOrNone, Create(f, l, owner)
          PROVE  ~unsettled' /\ Order!Next
        <3>1. f \notin stacked /\ stacked' = stacked \cup {f} /\ ~unsettled'
              /\ asked' = [asked EXCEPT ![f] = l]
            BY <2>2 DEF Create
        <3>2. \A g \in Frames \ {f} : window_level'[g] = window_level[g]
            BY <3>1, LevelChanges
        <3> QED BY <3>1, <3>2, <1>1, <2>2, CreateStep, FrameMoves
    <2>3. CASE Destroy(f)
        <3>1. f \in stacked /\ stacked' = stacked \ {f} /\ ~unsettled'
              /\ asked' = [asked EXCEPT ![f] = NoLevel] /\ NoLevel \in Levels
            BY <2>3, StackingAssumption DEF Destroy, NoLevel
        <3>2. \A g \in Frames \ {f} : window_level'[g] = window_level[g]
            BY <3>1, LevelChanges
        <3> QED BY <3>1, <3>2, <1>1, <2>3, DestroyStep, FrameMoves
    <2>4. ASSUME NEW l \in Levels, ChangeStackingLevel(f, l)
          PROVE  ~unsettled' /\ Order!Next
        <3>1. f \in stacked /\ stacked' = stacked /\ ~unsettled'
              /\ asked' = [asked EXCEPT ![f] = l]
            BY <2>4 DEF ChangeStackingLevel, ToLevel
        <3>2. \A g \in Frames \ {f} : window_level'[g] = window_level[g]
            BY <3>1, LevelChanges
        <3> QED BY <3>1, <3>2, <1>1, <2>4, ChangeLevelStep, FrameMoves
    <2>5. ~ \E prev \in Icons : MoveInStackListUnder(prev, f)
        OBVIOUS
    <2>6. ASSUME NEW higher \in SUBSET stacked, ClientRestack(f, higher)
          PROVE  ~unsettled' /\ Order!Next
        <3>1. f \in stacked /\ stacked' = stacked /\ ~unsettled' /\ window_level' = window_level
            BY <2>6 DEF ClientRestack, window_level
        <3> QED BY <3>1, <1>1, <2>6, ClientRestackStep, FrameMoves
    <2>7. ~BounceTick(f) /\ ~BounceEnd(f)
        BY IInvParts DEF BounceTick, BounceEnd, TypeOK
    <2> QED BY <1>4, <2>1, <2>2, <2>3, <2>4, <2>5, <2>6, <2>7 DEF Operation
<1> QED BY <1>2, <1>3, <1>4 DEF Next

\* Without icons, what one sees is always one order that follows the levels, and
\* every step moves one frame at most: lists and server refine StackOrder.
THEOREM RefinesStackOrder ==
    ASSUME Icons = {}
    PROVE  Spec => OneFrameAtATime
<1>1. Init => Order!Init
    <2> SUFFICES ASSUME Init PROVE Order!Init
        OBVIOUS
    <2>1. asked \in [Frames -> Levels]
        BY InitIInv, IInvParts
    <2> QED BY <2>1, LevelsTyped DEF Init, Order!Init, window_level
<1>2. Init => IInv /\ ~unsettled
    BY InitIInv DEF Init
<1>3. (IInv /\ ~unsettled) /\ [Next]_vars => (IInv /\ ~unsettled)'
    BY NextStep, StepIsOneMove
<1>4. (IInv /\ ~unsettled) /\ [Next]_vars => [Order!Next]_Order!vars
    BY StepIsOneMove
<1> QED BY <1>1, <1>2, <1>3, <1>4, PTL DEF Spec, OneFrameAtATime, Order!Spec

-----------------------------------------------------------------------------
(* Transients and their owners. *)

\* A transient that is over its owner, before a step.
IsOver(c, p) ==
    /\ IInv /\ ~unsettled
    /\ c \in stacked /\ p \in stacked /\ childOf[c] = p /\ childOf[p] = NoFrame
    /\ window_level[c] = window_level[p]
    /\ <<c, p>> \in over

\* Neither the transient nor its owner is an icon; other moves leave them alone.
LEMMA OverFacts ==
    ASSUME NEW c, NEW p, IsOver(c, p)
    PROVE  /\ c \in Frames /\ p \in Frames /\ c # p /\ c \notin Icons /\ p \notin Icons
           /\ \A f \in Frames \ {c, p} : OthersKeepOrder(f) => <<c, p>> \in over'
           /\ raising = <<>> => p \in Below(links, c)
<1>1. IInv /\ c \in stacked /\ p \in stacked /\ childOf[c] = p /\ stacked \subseteq Frames
    BY IInvParts DEF IsOver
<1>2. c # p /\ c \notin Icons /\ p \notin Icons
    BY <1>1, IInvParts, StackingAssumption DEF OwnersAreFrames
<1>3. ASSUME raising = <<>> PROVE p \in Below(links, c)
    <2>1. <<c, p>> \in ListOrder(links, stacked, window_level)
        BY <1>3, IdleServerAgrees DEF IsOver
    <2>2. window_level[c] = window_level[p] /\ window_level[c] \in Int
        BY <1>1, IInvParts, ListPairs DEF IsOver
    <2> QED BY <1>1, <2>1, <2>2, IInvParts, ListPairs
<1> QED BY <1>1, <1>2, <1>3 DEF OthersKeepOrder, IsOver

\* A return of wRaiseFrame, of whichever frame, leaves the transient over its owner.
LEMMA ReturnKeepsOver ==
    ASSUME NEW c, NEW p, IsOver(c, p), RaiseReturn
    PROVE  <<c, p>> \in over'
<1> DEFINE f == Raised
           q == ListOrder(links, stacked, window_level)
<1>1. /\ IInv /\ c \in stacked /\ p \in stacked /\ c # p /\ window_level[c] = window_level[p]
      /\ childOf[c] = p /\ childOf[p] = NoFrame /\ stacked \subseteq Frames
      /\ Sound(links, stacked, window_level)
    BY OverFacts, IInvParts DEF IsOver
<1>2. /\ IInv' /\ f \in stacked /\ OthersKeepOrder(f)
      /\ \A b \in stacked : <<f, b>> \in over' <=> <<f, b>> \in q
    BY <1>1, RaiseReturnStep DEF IsOver
<1>3. \A a, b \in stacked : <<a, b>> \in q <=> window_level[a] > window_level[b]
                                \/ (window_level[a] = window_level[b] /\ b \in Below(links, a))
    BY <1>1, ListPairs
<1>4. window_level[c] \in Int
    BY <1>1, ListPairs
<1>5. IsOrder(over', stacked)
    BY <1>2 DEF IInv, RaiseReturn
<1> HIDE DEF f, q
<1>6. CASE f = p
    <2>1. c \notin Below(links, p)
        BY <1>1, <1>6 DEF RaiseReturn, f
    <2>2. <<p, c>> \notin over'
        BY <2>1, <1>1, <1>2, <1>3, <1>4, <1>6
    <2> QED BY <2>2, <1>1, <1>5, OrderAsymmetric
<1>7. CASE f = c
    <2>1. c \in Unplaced
        BY <1>7, TailIndex DEF f, Raised, Unplaced, RaiseReturn, IInv, TypeOK
    <2>2. c \notin Below(links, p)
        BY <2>1, <1>1 DEF IInv, RaisingInOrder
    <2>3. p \in Below(links, c)
        BY <2>2, <1>1, Comparable
    <2> QED BY <2>3, <1>1, <1>2, <1>3, <1>7
<1>8. CASE f # p /\ f # c
    BY <1>1, <1>2, <1>8, OverFacts
<1> QED BY <1>6, <1>7, <1>8

\* wLowerFrame, of whichever frame, leaves the transient over its owner.
LEMMA LowerKeepsOver ==
    ASSUME NEW c, NEW p, IsOver(c, p), NEW f \in Frames, Lower(f)
    PROVE  <<c, p>> \in over'
<1> DEFINE L == links
           S == stacked
           lv == window_level
           M == links'
           U == Unlink(L, f)
<1>1. /\ IInv /\ c \in S /\ p \in S /\ c # p /\ lv[c] = lv[p] /\ Sound(L, S, lv)
      /\ childOf[c] = p /\ childOf[p] = NoFrame /\ S \subseteq Frames /\ <<c, p>> \in over
    BY OverFacts, IInvParts DEF IsOver
<1>2. /\ f \in S /\ L.under[f] # NoFrame /\ LowerTo(L, over, S, lv, f)
      /\ raising = <<>> /\ ~unsettled /\ over = ListOrder(L, S, lv) /\ IsOrder(over, S)
    BY <1>1, IdleServerAgrees, IInvParts DEF Lower, Idle, IsOver
<1>3. p \in Below(L, c)
    BY <1>2, OverFacts
<1>4. CASE f \notin {c, p}
    BY <1>1, <1>4, LowerStep, OverFacts
<1>5. CASE over' = over
    BY <1>1, <1>5
<1>6. CASE f \in {c, p} /\ over' # over
    <2>1. PICK w \in LowerPlace(U, S \ {f}, lv, f) : M = InsertUnder(U, f, w)
        BY <1>6, <1>2 DEF LowerTo
    <2>2. w \in S \ {f} /\ lv[w] = lv[f] /\ L.under[f] # childOf[f]
        <3>1. L.under[f] # childOf[f]
            BY <1>2, <1>6 DEF LowerTo
        <3> QED BY ONLY <3>1, <2>1, <1>1, <1>2, LowerPlaceIsStacked DEF U
    <2> HIDE DEF L, S, lv, M, U
    <2>3. /\ Sound(M, S, lv)
          /\ \A g \in S \ {f} : f \in Below(M, g) <=> w \in Below(L, g) \cup {g}
        BY <2>1, <2>2, <1>1, <1>2, MoveSound DEF U
    <2>4. over' = ListOrder(M, S, lv)
        BY <1>1, <1>2, LowerToSound DEF M
    <2>5. /\ Sound(U, S \ {f}, lv)
          /\ \A g \in S \ {f} : Below(U, g) = Below(L, g) \ {f}
        <3>1. Sound(L, S, lv) /\ f \in S
            BY <1>1, <1>2
        <3> QED BY ONLY <3>1, UnlinkSound DEF U
    <2>6. p \in Below(M, c)
        <3>1. CASE f = p
            <4>1. U.top[lv[f]] # NoFrame /\ U.under[w] = NoFrame
                BY <2>1, <2>2, <1>1, <3>1, StackingAssumption DEF LowerPlace
            <4>2. c \in S \ {f} /\ lv[c] = lv[w]
                BY <1>1, <2>2, <3>1
            <4>3. w = c \/ w \in Below(U, c)
                BY <4>1, <4>2, <2>2, <2>5, EndsOfALevel
            <4> QED BY <4>2, <4>3, <2>3, <2>5, <3>1
        <3>2. CASE f = c
            <4>1. p \in S \ {f} /\ lv[p] = lv[f] /\ Sound(L, S, lv)
                BY <1>1, <3>2
            <4>2. U.top[lv[f]] # p
                <5> SUFFICES ASSUME U.top[lv[f]] = p PROVE FALSE
                    OBVIOUS
                <5> DEFINE u == L.under[f]
                <5>1. u \in S \ {f} /\ lv[u] = lv[f] /\ u # p
                    <6>1. u # p
                        BY <1>1, <2>2, <3>2
                    <6>2. u \in S /\ lv[u] = lv[f] /\ L.above[u] = f
                        BY <1>1, <1>2 DEF Sound, IsLinked
                    <6>3. u \in Below(L, f)
                        BY <1>1, <1>2, BelowUnfold DEF Sound, Typed
                    <6>4. f \notin Below(L, f)
                        BY <1>1, <1>2, NoCycle
                    <6> QED BY <6>1, <6>2, <6>3, <6>4
                <5>2. U.above[p] = NoFrame
                    <6>1. lv[f] \in StackLevels /\ p # NoFrame
                        BY <1>1, <1>2, StackingAssumption DEF Sound, Typed
                    <6> QED BY <6>1, <4>1, <2>5 DEF Sound, IsLinked
                <5>3. p \in Below(L, f) /\ Below(L, f) = {u} \cup Below(L, u)
                    BY <1>1, <1>2, <1>3, <3>2, BelowUnfold DEF Sound, Typed
                <5> HIDE DEF u
                <5>4. u \in Below(U, p)
                    BY <5>1, <5>2, <4>1, <2>5, EndsOfALevel
                <5>5. u \in Below(L, p) /\ p \in Below(L, u)
                    BY <5>1, <5>3, <5>4, <4>1, <2>5
                <5> QED BY <5>1, <5>5, <4>1, BelowAntisymmetric
            <4>3. /\ U.above[p] \in S \ {f} /\ lv[U.above[p]] = lv[f] /\ U.under[U.above[p]] = p
                  /\ p \in Below(U, U.above[p])
                <5>1. U.above[p] # NoFrame
                    BY <4>1, <4>2, <2>5 DEF Sound, IsLinked
                <5> QED BY <5>1, <4>1, <2>5, RightAbove DEF Sound, IsLinked
            <4>4. w = U.above[p] \/ U.above[p] \in Below(U, w)
                BY <2>1, <4>2, <4>3, <1>1, <3>2 DEF LowerPlace
            <4>5. p \in Below(U, w)
                <5>1. IsLinks(U) /\ w \in Frames
                    BY <2>2, <2>5 DEF Sound, Typed
                <5> QED BY <5>1, <4>3, <4>4, BelowTransitive
            <4>6. p \in Below(L, w) /\ w \in S
                BY <4>5, <2>2, <2>5
            <4>7. w \notin Below(L, p) /\ w # p
                <5>1. w \notin Below(L, p)
                    BY <4>1, <4>6, BelowAntisymmetric
                <5>2. w \notin Below(L, w)
                    BY <4>1, <4>6, NoCycle
                <5> QED BY <5>1, <5>2, <4>6
            <4>8. c \notin Below(M, p)
                <5>1. w \notin Below(L, p) \cup {p}
                    BY <4>7
                <5>2. f \notin Below(M, p)
                    BY <5>1, <4>1, <2>3
                <5> QED BY <5>2, <3>2
            <4>9. c \in S /\ p \in S /\ lv[c] = lv[p] /\ c # p
                BY <1>1
            <4> QED BY ONLY <4>8, <4>9, <2>3, Comparable
        <3> QED BY <1>6, <3>1, <3>2
    <2> QED BY <2>3, <2>4, <2>6, <1>1, ListPairs
<1> QED BY <1>4, <1>5, <1>6

\* So does every step of Window Maker's own.
LEMMA StepKeepsOver ==
    ASSUME \A l \in Levels : Short(l) = l,
           NEW c \in Frames, NEW p, IsOver(c, p), OwnStep, WithOwner(c)'
    PROVE  <<c, p>> \in over'
<1>1. /\ IInv /\ ~unsettled /\ c \in stacked /\ p \in stacked /\ childOf[c] = p
      /\ childOf \in [Frames -> FrameOrNone] /\ asked \in [Frames -> Levels]
      /\ window_level[c] = window_level[p] /\ <<c, p>> \in over /\ c # p /\ p \in Frames
    BY OverFacts, IInvParts DEF IsOver
<1>2. CASE RaiseTransient
    BY <1>1, <1>2, RaiseTransientStep
<1>3. CASE RaiseReturn
    BY <1>3, ReturnKeepsOver
<1>4. CASE MoveUnder
    <2>1. move[2] \in Frames \ {c, p} /\ OthersKeepOrder(move[2])
        BY <1>1, <1>4, MoveUnderStep, OverFacts, IInvParts
    <2> QED BY <2>1, OverFacts
<1>5. ASSUME NEW f \in Frames, Lower(f) PROVE <<c, p>> \in over'
    BY <1>5, LowerKeepsOver
<1>6. ASSUME NEW f \in Frames, Destroy(f) PROVE <<c, p>> \in over'
    <2>1. stacked' = stacked \ {f} /\ childOf' = [childOf EXCEPT ![f] = NoFrame] /\ OthersKeepOrder(f)
        BY <1>1, <1>6, DestroyStep DEF Destroy
    <2>2. c \in stacked' /\ childOf'[c] \in stacked'
        BY DEF WithOwner
    <2>3. f \notin {c, p}
        BY <2>1, <2>2, <1>1
    <2> QED BY <2>1, <2>3, OverFacts
<1>7. ASSUME NEW f \in Frames, NEW l \in Levels, ChangeStackingLevel(f, l) PROVE <<c, p>> \in over'
    <2>1. /\ asked' = [asked EXCEPT ![f] = l] /\ window_level[f] # l /\ childOf' = childOf
          /\ OthersKeepOrder(f)
        BY <1>1, <1>7, ChangeLevelStep DEF ChangeStackingLevel, ToLevel
    <2>2. window_level'[f] = l /\ \A g \in Frames \ {f} : window_level'[g] = window_level[g]
        BY <2>1, <1>1, LevelChanges
    <2>3. window_level'[c] = window_level'[p]
        BY <2>1, <1>1 DEF WithOwner
    <2>4. f \notin {c, p}
        BY <2>1, <2>2, <2>3, <1>1
    <2> QED BY <2>1, <2>4, OverFacts
<1>8. ASSUME NEW f \in Frames, NEW l \in Levels, NEW owner \in FrameOrNone, Create(f, l, owner)
      PROVE  <<c, p>> \in over'
    <2>1. f \notin stacked /\ OthersKeepOrder(f)
        BY <1>1, <1>8, CreateStep DEF Create
    <2>2. f \notin {c, p}
        BY <2>1, <1>1
    <2> QED BY <2>1, <2>2, OverFacts
<1> QED BY <1>2, <1>3, <1>4, <1>5, <1>6, <1>7, <1>8 DEF OwnStep, Continue

\* When every level fits in the short that WStacking has for it, no operation of
\* Window Maker's own puts a transient under its owner, however many transients
\* have transients, and whether or not an address was used again.
THEOREM TransientsKeepTheirPlace ==
    ASSUME \A l \in Levels : Short(l) = l
    PROVE  Spec => TransientsStayOver
<1> DEFINE Kept == OwnStep => \A c \in Frames :
                     (WithOwner(c) /\ ~unsettled /\ <<c, childOf[c]>> \in over /\ WithOwner(c)')
                     => <<c, childOf[c]>> \in over'
<1>1. IInv => Kept
    <2> SUFFICES ASSUME IInv, OwnStep, NEW c \in Frames,
                        WithOwner(c), ~unsettled, <<c, childOf[c]>> \in over, WithOwner(c)'
                 PROVE  <<c, childOf[c]>> \in over'
        OBVIOUS
    <2> DEFINE p == childOf[c]
    <2>1. IsOver(c, p)
        BY DEF WithOwner, IsOver
    <2> HIDE DEF p
    <2>2. <<c, p>> \in over'
        BY <2>1, StepKeepsOver
    <2> QED BY <2>2 DEF p
<1>2. IInv /\ [Next]_vars => [Kept]_vars
    BY <1>1
<1> QED BY <1>2, Invariance, PTL DEF Spec, TransientsStayOver

=============================================================================
