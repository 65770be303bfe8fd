--------------------------- MODULE WindowsProofs ---------------------------
(***************************************************************************)
(* More proofs about WindowManager: no window is lost and no application   *)
(* outlives its leader, whatever handlers run within each other.           *)
(*                                                                         *)
(* Both speak of the rest between events.  While there are events, what    *)
(* the window manager thinks and what is so differ, and an event that is   *)
(* still in the queue tells of each difference: that is the invariant.     *)
(* As in WindowManagerProofs there is one lemma for each operator of the   *)
(* component, and then one step for each action.                           *)
(***************************************************************************)
EXTENDS WindowManagerProofs

-----------------------------------------------------------------------------
(* Queues. *)

\* Taking an event off a queue loses that event only.
LEMMA TailLosesTheHead ==
    ASSUME NEW E, NEW q \in Seq(E), q # <<>>
    PROVE  /\ Tail(q) \in Seq(E)
           /\ Head(q) \in E
           /\ Range(q) \ {Head(q)} \subseteq Range(Tail(q))
<1>1. /\ Tail(q) \in Seq(E)
      /\ Head(q) \in E
      /\ Len(Tail(q)) = Len(q) - 1
      /\ \A i \in 1 .. Len(Tail(q)) : Tail(q)[i] = q[i + 1]
    BY HeadTailProperties
<1>2. Len(q) \in Nat /\ Head(q) = q[1]
    OBVIOUS
<1> DEFINE t == Tail(q)
           h == Head(q)
<1>3. t \in Seq(E) /\ Len(t) = Len(q) - 1 /\ h = q[1] /\ \A i \in 1 .. Len(t) : t[i] = q[i + 1]
    BY <1>1, <1>2
<1> HIDE DEF t, h
<1>4. ASSUME NEW i \in 1 .. Len(q), q[i] # h PROVE q[i] \in Range(t)
    <2>1. i # 1
        BY <1>3, <1>4
    <2>2. i - 1 \in 1 .. Len(t)
        BY <1>2, <1>3, <2>1
    <2>3. t[i - 1] = q[i]
        BY <1>3, <2>2
    <2> QED BY <1>3, <2>2, <2>3, RangeEquality
<1>5. Range(q) \ {h} \subseteq Range(t)
    BY <1>4, RangeEquality
<1> QED BY <1>1, <1>5 DEF t, h

\* Taking an event out of the middle loses that event only.
LEMMA WithoutLosesOne ==
    ASSUME NEW E, NEW q \in Seq(E), NEW e
    PROVE  /\ Without(q, e) \in Seq(E)
           /\ Range(q) \ {e} \subseteq Range(Without(q, e))
<1>1. CASE e \notin Range(q)
    BY <1>1 DEF Without
<1>2. CASE e \in Range(q)
    <2>1. PICK k \in 1 .. Len(q) : k = (CHOOSE i \in DOMAIN q : q[i] = e) /\ q[k] = e
        BY <1>2 DEF Range
    <2> DEFINE a == SubSeq(q, 1, k - 1)
               b == SubSeq(q, k + 1, Len(q))
    <2>2. Without(q, e) = a \o b
        BY <1>2, <2>1 DEF Without, RemoveAt
    <2>3. /\ Len(q) \in Nat
          /\ a \in Seq(E) /\ b \in Seq(E)
          /\ Len(a) = k - 1 /\ Len(b) = Len(q) - k
          /\ \A i \in 1 .. k - 1 : a[i] = q[i]
          /\ \A i \in 1 .. Len(q) - k : b[i] = q[k + i]
        BY SubSeqProperties
    <2> HIDE DEF a, b
    <2>4. a \o b \in Seq(E) /\ Range(a \o b) = Range(a) \cup Range(b)
        BY ONLY <2>3, ConcatProperties, RangeConcatenation
    <2>5. Range(a) = {a[i] : i \in 1 .. Len(a)} /\ Range(b) = {b[i] : i \in 1 .. Len(b)}
        BY <2>3, RangeEquality
    <2>6. ASSUME NEW i \in 1 .. Len(q), q[i] # e PROVE q[i] \in Range(a) \cup Range(b)
        <3>1. CASE i < k
            <4>1. i \in 1 .. Len(a) /\ a[i] = q[i]
                BY <2>3, <3>1
            <4> QED BY <2>5, <4>1
        <3>2. CASE i > k
            <4>1. i - k \in 1 .. Len(b) /\ b[i - k] = q[k + (i - k)] /\ k + (i - k) = i
                BY <2>3, <3>2
            <4> QED BY <2>5, <4>1
        <3>3. i # k
            BY <2>1, <2>6
        <3> QED BY <2>3, <3>1, <3>2, <3>3
    <2>7. Range(q) \ {e} \subseteq Range(a) \cup Range(b)
        BY <2>6, RangeEquality
    <2> QED BY <2>2, <2>4, <2>7
<1> QED BY <1>1, <1>2

\* A finite set of numbers has as many n-th numbers as it has numbers.
LEMMA NthIsThere ==
    ASSUME NEW S \in SUBSET Nat, IsFiniteSet(S), NEW n \in 1 .. Cardinality(S)
    PROVE  Nth(S, n) \in S
<1> DEFINE upTo(i) == {j \in S : j <= i}
           place == [i \in S |-> Cardinality(upTo(i))]
           N == 1 .. Cardinality(S)
<1>1. Cardinality(S) \in Nat
    BY FS_CardinalityType
<1>2. IsFiniteSet(N) /\ Cardinality(N) = Cardinality(S)
    BY <1>1, FS_Interval
<1>3. ASSUME NEW i \in S
      PROVE  IsFiniteSet(upTo(i)) /\ Cardinality(upTo(i)) \in N
    <2>1. IsFiniteSet(upTo(i)) /\ Cardinality(upTo(i)) <= Cardinality(S)
        BY FS_Subset
    <2>2. Cardinality(upTo(i)) \in Nat
        BY <2>1, FS_CardinalityType
    <2>3. i \in upTo(i)
        OBVIOUS
    <2> HIDE DEF upTo
    <2>4. Cardinality(upTo(i)) # 0
        BY <2>1, <2>3, FS_EmptySet
    <2> QED BY <1>1, <2>1, <2>2, <2>4
<1>4. ASSUME NEW i \in S, NEW j \in S, i < j
      PROVE  Cardinality(upTo(i)) # Cardinality(upTo(j))
    <2>1. upTo(i) \in SUBSET upTo(j) /\ j \in upTo(j) /\ j \notin upTo(i)
        <3>1. \A k \in S : k \in Nat
            OBVIOUS
        <3>2. \A k \in S : k <= i => k <= j
            BY <1>4, <3>1
        <3>3. ~(j <= i) /\ j <= j
            BY <1>4, <3>1
        <3> QED BY <3>2, <3>3
    <2> HIDE DEF upTo
    <2>2. IsFiniteSet(upTo(j))
        BY <1>3
    <2>3. Cardinality(upTo(j)) = Cardinality(upTo(i)) => upTo(j) = upTo(i)
        BY <2>1, <2>2, FS_Subset
    <2> QED BY <2>1, <2>3
<1>5. place \in [S -> N]
    BY <1>3
<1>6. \A i \in S : place[i] = Cardinality(upTo(i))
    OBVIOUS
<1> HIDE DEF upTo, place
<1>7. place \in Injection(S, N)
    <2>1. ASSUME NEW i \in S, NEW j \in S, i # j PROVE place[i] # place[j]
        BY <1>4, <1>6, <2>1
    <2> QED BY <1>5, <2>1 DEF Injection, IsInjective
<1>8. place \in Surjection(S, N)
    <2> HIDE DEF N
    <2> QED BY <1>2, <1>7, FS_Injection
<1>9. \E i \in S : place[i] = n
    BY <1>8 DEF Surjection
<1>10. \E i \in S : Cardinality({j \in S : j <= i}) = n
    BY <1>6, <1>9 DEF upTo
<1> QED BY <1>10 DEF Nth

-----------------------------------------------------------------------------
(* What is true of a screen while there are events. *)

\* The queue tells something of a window.
Told(r, kinds, w) == \E kind \in kinds : Event(kind, w) \in Range(r.events)

\* A window of the current workspace is mapped, or miniaturized or hidden: so far
\* what wWorkspaceForceChange, wIconifyWindow and the others are to leave.
Seen(r) ==
    \A w \in Managed(r) :
        r.workspace[w] = r.current => w \in r.mapped \cup r.miniaturized \cup r.hidden

\* ... of all windows but w, which is about to go.
SeenElsewhere(r, w) ==
    \A v \in Managed(r) :
        v # w /\ r.workspace[v] = r.current => v \in r.mapped \cup r.miniaturized \cup r.hidden

\* A window with flags.mapped can be seen, or the queue tells that it is unmapped;
\* of e that was told just now.
Shown(r, e) ==
    \A w \in Managed(r) \cap r.alive \cap r.mapped :
        w # e => w \in r.viewable \/ Told(r, {"UnmapNotify", "Withdraw"}, w)

\* An application has its leader, or its icon bounces, or the queue tells that the
\* leader is gone; of e that was told just now.
Owned(r, e) ==
    \A a \in r.apps :
        a # e => a \in r.alive \cup r.bouncing \/ Told(r, {"DestroyNotify"}, a)

Good(r, e) ==
    /\ r \in Screens
    /\ Sound(r)
    /\ Seen(r)
    /\ Shown(r, e)
    /\ Owned(r, e)

\* What mapping and focusing leave alone.
Steady(q, r) ==
    /\ Managed(q) = Managed(r)
    /\ q.workspace = r.workspace /\ q.current = r.current
    /\ q.miniaturized = r.miniaturized /\ q.hidden = r.hidden
    /\ q.alive = r.alive /\ q.apps = r.apps /\ q.bouncing = r.bouncing
    /\ q.life = r.life

\* q is r with W mapped...
Maps(q, r, W) ==
    /\ q \in Screens
    /\ Steady(q, r)
    /\ q.mapped = r.mapped \cup W
    /\ r.viewable \cup (W \cap r.alive) \subseteq q.viewable
    /\ Range(r.events) \subseteq Range(q.events)

\* ... and with W unmapped.
Unmaps(q, r, W) ==
    /\ q \in Screens
    /\ Steady(q, r)
    /\ q.mapped = r.mapped \ W
    /\ q.viewable = r.viewable \ W
    /\ q.events = r.events

\* Only the focus differs.
Refocuses(q, r) ==
    /\ q \in Screens
    /\ Steady(q, r)
    /\ q.mapped = r.mapped
    /\ q.viewable = r.viewable
    /\ q.events = r.events

\* Mapping hides nothing and no news.
LEMMA MapsGood ==
    ASSUME NEW q, NEW r, NEW W, NEW e, Maps(q, r, W)
    PROVE  /\ Seen(r) => Seen(q)
           /\ Shown(r, e) => Shown(q, e)
           /\ Owned(r, e) => Owned(q, e)
BY DEF Maps, Steady, Seen, Shown, Owned, Told

\* A window that is unmapped has flags.mapped no longer.
LEMMA UnmapsGood ==
    ASSUME NEW q, NEW r, NEW W, NEW e, Unmaps(q, r, W)
    PROVE  /\ Shown(r, e) => Shown(q, e)
           /\ Owned(r, e) => Owned(q, e)
BY DEF Unmaps, Steady, Shown, Owned, Told

\* The focus has nothing to do with it.
LEMMA RefocusesGood ==
    ASSUME NEW q, NEW r, NEW e, Refocuses(q, r)
    PROVE  /\ Seen(r) => Seen(q)
           /\ Shown(r, e) => Shown(q, e)
           /\ Owned(r, e) => Owned(q, e)
BY DEF Refocuses, Steady, Seen, Shown, Owned, Told

-----------------------------------------------------------------------------
(* Mapping and focus. *)

\* An event of the X server about a window.
LEMMA EventIsTyped ==
    ASSUME NEW kind \in Kinds, NEW w \in Windows
    PROVE  Event(kind, w) \in Events
BY DEF Event, Events

\* XMapWindow of clients sends an event for each.
LEMMA MapNotifies ==
    ASSUME NEW r \in Screens, NEW W
    PROVE  /\ MapClients(r, W).events \in Seq(Events)
           /\ Range(r.events) \subseteq Range(MapClients(r, W).events)
<1> DEFINE new == (W \cap r.alive) \ r.viewable
           at == {i \in DOMAIN r.list : r.list[i] \in new}
           N == Cardinality(at)
           more == [n \in 1 .. N |-> Event("MapNotify", r.list[Nth(at, n)])]
<1>1. MapClients(r, W).events = r.events \o more
    BY DEF MapClients, Screens
<1>2. /\ r.events \in Seq(Events) /\ r.list \in Seq(Windows)
      /\ Len(r.list) \in Nat /\ DOMAIN r.list = 1 .. Len(r.list)
      /\ \A i \in 1 .. Len(r.list) : r.list[i] \in Windows
    BY DEF Screens
<1>3. at \in SUBSET Nat /\ at \in SUBSET (1 .. Len(r.list))
    BY <1>2
<1> HIDE DEF at
<1>4. IsFiniteSet(at) /\ N \in Nat
    <2>1. IsFiniteSet(1 .. Len(r.list))
        BY <1>2, FS_Interval
    <2>2. IsFiniteSet(at)
        BY <1>3, <2>1, FS_Subset
    <2> QED BY <2>2, FS_CardinalityType
<1>5. \A n \in 1 .. N : Event("MapNotify", r.list[Nth(at, n)]) \in Events
    <2> SUFFICES ASSUME NEW n \in 1 .. N
                 PROVE  Event("MapNotify", r.list[Nth(at, n)]) \in Events
        OBVIOUS
    <2>1. Nth(at, n) \in at
        BY <1>3, <1>4, NthIsThere
    <2>2. r.list[Nth(at, n)] \in Windows /\ "MapNotify" \in Kinds
        BY <1>2, <1>3, <2>1 DEF Kinds
    <2> QED BY <2>2, EventIsTyped
<1> HIDE DEF N
<1>6. more \in Seq(Events)
    <2> DEFINE f(n) == Event("MapNotify", r.list[Nth(at, n)])
    <2>1. \A n \in 1 .. N : f(n) \in Events
        BY <1>5
    <2> HIDE DEF f
    <2>2. [n \in 1 .. N |-> f(n)] \in Seq(Events)
        BY <1>4, <2>1, IsASeq
    <2> QED BY <2>2 DEF f
<1> HIDE DEF more
<1>7. r.events \o more \in Seq(Events) /\ Range(r.events \o more) = Range(r.events) \cup Range(more)
    BY <1>2, <1>6, ConcatProperties, RangeConcatenation
<1> QED BY <1>1, <1>7

\* wWindowMap, wWindowUnmap, and XMapWindow of clients.
LEMMA MappingIsMapping ==
    ASSUME NEW r \in Screens, NEW W \in SUBSET Windows
    PROVE  /\ Maps(Map(r, W), r, W)
           /\ Unmaps(Unmap(r, W), r, W)
           /\ Maps(MapClients(r, W), r, W)
<1>1. /\ r.alive \subseteq Windows /\ r.viewable \subseteq Windows /\ r.mapped \subseteq Windows
      /\ r.events \in Seq(Events)
    BY DEF Screens
<1>2. Maps(Map(r, W), r, W)
    <2> DEFINE mapped == r.mapped \cup W
               viewable == r.viewable \cup (W \cap r.alive)
    <2>1. Map(r, W) = [r EXCEPT !.mapped = mapped, !.viewable = viewable, !.events = r.events]
        BY DEF Map, Screens
    <2>2. mapped \in SUBSET Windows /\ viewable \in SUBSET Windows
        BY <1>1
    <2> HIDE DEF mapped, viewable
    <2>3. /\ Map(r, W) \in Screens /\ Steady(Map(r, W), r) /\ Map(r, W).mapped = mapped
          /\ Map(r, W).viewable = viewable /\ Map(r, W).events = r.events
        BY <1>1, <2>1, <2>2 DEF Screens, Steady, Managed
    <2> QED BY <2>3 DEF Maps, mapped, viewable
<1>3. Unmaps(Unmap(r, W), r, W)
    <2> DEFINE mapped == r.mapped \ W
               viewable == r.viewable \ W
    <2>1. Unmap(r, W) = [r EXCEPT !.mapped = mapped, !.viewable = viewable, !.events = r.events]
        BY DEF Unmap, Screens
    <2>2. mapped \in SUBSET Windows /\ viewable \in SUBSET Windows
        BY <1>1
    <2> HIDE DEF mapped, viewable
    <2>3. /\ Unmap(r, W) \in Screens /\ Steady(Unmap(r, W), r) /\ Unmap(r, W).mapped = mapped
          /\ Unmap(r, W).viewable = viewable /\ Unmap(r, W).events = r.events
        BY <1>1, <2>1, <2>2 DEF Screens, Steady, Managed
    <2> QED BY <2>3 DEF Unmaps, mapped, viewable
<1>4. Maps(MapClients(r, W), r, W)
    <2> DEFINE mapped == r.mapped \cup W
               viewable == r.viewable \cup ((W \cap r.alive) \ r.viewable)
               events == MapClients(r, W).events
    <2>1. MapClients(r, W) = [r EXCEPT !.mapped = mapped, !.viewable = viewable, !.events = events]
        BY DEF MapClients, Screens
    <2>2. /\ mapped \in SUBSET Windows /\ viewable \in SUBSET Windows
          /\ r.viewable \cup (W \cap r.alive) \subseteq viewable
        BY <1>1
    <2>3. events \in Seq(Events) /\ Range(r.events) \subseteq Range(events)
        BY MapNotifies
    <2> HIDE DEF viewable, events
    <2>4. /\ MapClients(r, W) \in Screens /\ Steady(MapClients(r, W), r)
          /\ MapClients(r, W).mapped = mapped /\ MapClients(r, W).viewable = viewable
          /\ MapClients(r, W).events = events
        BY <2>1, <2>2, <2>3 DEF Screens, Steady, Managed
    <2> QED BY <2>2, <2>3, <2>4 DEF Maps
<1> QED BY <1>2, <1>3, <1>4

\* The fields of a screen, one by one.
LEMMA FieldsAreTyped ==
    ASSUME NEW r \in Screens
    PROVE  /\ r.alive \subseteq Windows /\ r.viewable \subseteq Windows
           /\ r.events \in Seq(Events) /\ r.list \in Seq(Windows)
           /\ r.life \in [Windows -> 0 .. MaxLives] /\ r.workspace \in [Windows -> Workspaces]
           /\ r.mapped \subseteq Windows /\ r.miniaturized \subseteq Windows
           /\ r.hidden \subseteq Windows /\ r.focused \subseteq Windows
           /\ r.main \in [Windows -> WindowOrNone] /\ r.apps \subseteq Windows
           /\ r.appHidden \subseteq Windows /\ r.bouncing \subseteq Windows
           /\ r.lastFocused \in [Windows -> Pointers]
           /\ r.lastWorkspace \in [Windows -> Workspaces] /\ r.current \in Workspaces
           /\ r.ignoreFocus \in BOOLEAN
           /\ Managed(r) \subseteq Windows
<1>1. r.list \in Seq(Windows)
    BY DEF Screens
<1>2. Managed(r) \subseteq Windows
    BY <1>1, RangeOfSeq DEF Managed
<1> QED BY <1>2 DEF Screens

\* wSetFocusTo.
LEMMA SetFocusToRefocuses ==
    ASSUME NEW r \in Screens, FocusSound(r), NEW w \in Managed(r) \cup {NoWindow}
    PROVE  Refocuses(SetFocusTo(r, w), r)
<1> DEFINE q == SetFocusTo(r, w)
           workspaces == IF AppOf(r, w) = NoWindow THEN r.lastWorkspace
                         ELSE [r.lastWorkspace EXCEPT ![AppOf(r, w)] = r.workspace[w]]
<1>1. FocusSound(q) /\ Managed(q) = Managed(r)
    BY SetFocusToKeeps DEF Keeps, Same
<1>2. q.list \in Seq(Windows) /\ q.focused \subseteq Windows
    BY <1>1 DEF FocusSound, ScreenFields
<1>3. w # NoWindow => workspaces \in [Windows -> Workspaces]
    <2> SUFFICES ASSUME w # NoWindow PROVE workspaces \in [Windows -> Workspaces]
        OBVIOUS
    <2>1. /\ w \in Windows /\ r.workspace[w] \in Workspaces
          /\ r.lastWorkspace \in [Windows -> Workspaces]
          /\ r.main[w] \in WindowOrNone
        BY FieldsAreTyped
    <2>2. AppOf(r, w) # NoWindow => AppOf(r, w) \in Windows
        BY <2>1 DEF AppOf, WindowOrNone
    <2> QED BY <2>1, <2>2
<1>4. CASE r.ignoreFocus
    <2>1. q = r
        BY <1>4 DEF SetFocusTo
    <2> QED BY <2>1 DEF Refocuses, Steady
<1>5. CASE ~r.ignoreFocus /\ w = NoWindow
    <2>1. q = [r EXCEPT !.focused = r.focused \ {Focused(r)}]
        BY <1>5 DEF SetFocusTo
    <2> DEFINE focused == r.focused \ {Focused(r)}
    <2>2. focused \in SUBSET Windows
        BY FieldsAreTyped
    <2> HIDE DEF focused
    <2> QED BY <2>1, <2>2 DEF Refocuses, Steady, Screens, Managed, focused
<1>6. CASE ~r.ignoreFocus /\ w # NoWindow
    <2> DEFINE list == Append(Without(r.list, w), w)
               focused == (r.focused \ {Focused(r)}) \cup {w}
    <2>1. q = [r EXCEPT !.list = list, !.focused = focused, !.lastWorkspace = workspaces]
        BY <1>6 DEF SetFocusTo
    <2> HIDE DEF list, focused, workspaces
    <2>2. q.list = list /\ q.focused = focused
        BY <2>1 DEF Screens
    <2>3. list \in Seq(Windows) /\ focused \in SUBSET Windows
        BY <1>2, <2>2
    <2>4. workspaces \in [Windows -> Workspaces]
        BY <1>3, <1>6
    <2> HIDE DEF q
    <2>5. q \in Screens
        BY <2>1, <2>3, <2>4 DEF Screens
    <2>6. /\ q.workspace = r.workspace /\ q.current = r.current
          /\ q.miniaturized = r.miniaturized /\ q.hidden = r.hidden
          /\ q.alive = r.alive /\ q.apps = r.apps /\ q.bouncing = r.bouncing
          /\ q.mapped = r.mapped /\ q.viewable = r.viewable /\ q.events = r.events
          /\ q.life = r.life
        BY <2>1 DEF Screens
    <2> QED BY <1>1, <2>5, <2>6 DEF Refocuses, Steady, q
<1> QED BY <1>4, <1>5, <1>6

\* So does a good screen stay one when the focus moves.
LEMMA SetFocusToGood ==
    ASSUME NEW r, NEW e, Good(r, e), NEW w \in Managed(r) \cup {NoWindow}
    PROVE  /\ Good(SetFocusTo(r, w), e)
           /\ Managed(SetFocusTo(r, w)) = Managed(r)
<1> DEFINE q == SetFocusTo(r, w)
<1>1. r \in Screens /\ Sound(r) /\ FocusSound(r)
    BY DEF Good, Sound
<1>2. Keeps(q, r) /\ Refocuses(q, r)
    BY <1>1, SetFocusToKeeps, SetFocusToRefocuses
<1> HIDE DEF q
<1>3. Sound(q) /\ q \in Screens /\ Managed(q) = Managed(r)
    BY <1>1, <1>2, KeepsSound DEF Refocuses, Keeps, Same
<1>4. Seen(q) /\ Shown(q, e) /\ Owned(q, e)
    BY <1>2, RefocusesGood DEF Good
<1> QED BY <1>3, <1>4 DEF Good, q

\* ... and when windows are mapped.
LEMMA MappingGood ==
    ASSUME NEW r, NEW e, Good(r, e), NEW W \in SUBSET Windows
    PROVE  Good(Map(r, W), e) /\ Good(MapClients(r, W), e)
<1>1. r \in Screens /\ Sound(r) /\ FocusSound(r) /\ Seen(r) /\ Shown(r, e) /\ Owned(r, e)
    BY DEF Good, Sound
<1>2. Keeps(Map(r, W), r) /\ Maps(Map(r, W), r, W)
    BY <1>1, MappingKeeps, MappingIsMapping
<1>3. Keeps(MapClients(r, W), r) /\ Maps(MapClients(r, W), r, W)
    BY <1>1, MappingKeeps, MappingIsMapping
<1>4. ASSUME NEW q, Keeps(q, r), Maps(q, r, W)
      PROVE  Good(q, e)
    <2>1. Sound(q) /\ q \in Screens
        BY <1>1, <1>4, KeepsSound DEF Maps
    <2>2. Seen(q) /\ Shown(q, e) /\ Owned(q, e)
        BY <1>1, <1>4, MapsGood
    <2> QED BY <2>1, <2>2 DEF Good
<1> QED BY <1>2, <1>3, <1>4

-----------------------------------------------------------------------------
(* Moving, hiding and leaving. *)

\* wWindowChangeWorkspace: a window that goes is unmapped, one that comes is
\* mapped unless it is miniaturized or hidden.
LEMMA ChangeWorkspaceGood ==
    ASSUME NEW r, NEW e, Good(r, e), NEW w \in Managed(r), NEW n \in Workspaces
    PROVE  Good(ChangeWorkspace(r, w, n), e)
<1> DEFINE left == IF AppOf(r, w) # NoWindow /\ w \in r.mapped \cup r.miniaturized
                   THEN [r EXCEPT !.lastWorkspace[AppOf(r, w)] = n] ELSE r
           to(q) == [q EXCEPT !.workspace[w] = n]
           q == ChangeWorkspace(r, w, n)
<1>1. r \in Screens /\ Sound(r) /\ FocusSound(r) /\ Seen(r) /\ Shown(r, e) /\ Owned(r, e)
    BY DEF Good, Sound
<1>2. Sound(q)
    BY <1>1, ChangeWorkspaceKeeps, KeepsSound
<1>3. w \in Windows /\ r.main[w] \in WindowOrNone /\ r.lastWorkspace \in [Windows -> Workspaces]
    BY <1>1, FieldsAreTyped
<1>4. ASSUME NEW p \in Screens
      PROVE  /\ to(p) \in Screens
             /\ Managed(to(p)) = Managed(p)
             /\ \A v \in Windows : to(p).workspace[v] = IF v = w THEN n ELSE p.workspace[v]
             /\ to(p).current = p.current /\ to(p).mapped = p.mapped
             /\ to(p).miniaturized = p.miniaturized /\ to(p).hidden = p.hidden
             /\ to(p).alive = p.alive /\ to(p).viewable = p.viewable
             /\ to(p).apps = p.apps /\ to(p).bouncing = p.bouncing /\ to(p).events = p.events
             /\ to(p).list = p.list /\ to(p).focused = p.focused
    BY <1>3 DEF Screens, Managed
<1>5. CASE n = r.workspace[w]
    BY <1>5 DEF ChangeWorkspace
<1>6. CASE n # r.workspace[w] /\ n # r.current
    <2>1. /\ left \in Screens /\ left.list = r.list /\ left.focused = r.focused
          /\ Refocuses(left, r)
        <3>1. CASE left = r
            BY <1>1, <3>1 DEF Refocuses, Steady
        <3>2. CASE left = [r EXCEPT !.lastWorkspace[AppOf(r, w)] = n] /\ AppOf(r, w) # NoWindow
            <4>1. AppOf(r, w) \in Windows
                BY <1>3, <3>2 DEF AppOf, WindowOrNone
            <4> DEFINE workspaces == [r.lastWorkspace EXCEPT ![AppOf(r, w)] = n]
            <4>2. workspaces \in [Windows -> Workspaces]
                BY <1>3, <4>1
            <4>3. left = [r EXCEPT !.lastWorkspace = workspaces]
                BY <1>1, <3>2 DEF Screens
            <4> HIDE DEF workspaces, left
            <4> QED BY <1>1, <4>2, <4>3 DEF Screens, Refocuses, Steady, Managed
        <3> QED BY <3>1, <3>2
    <2> HIDE DEF left
    <2>2. FocusSound(left)
        BY <1>1, <2>1 DEF FocusSound, Screens, ScreenFields, Focused
    <2>3. ASSUME NEW p, p \in Screens, Managed(p) = Managed(r),
                 p.workspace = r.workspace, p.current = r.current,
                 p.mapped = r.mapped, p.miniaturized = r.miniaturized, p.hidden = r.hidden,
                 p.alive = r.alive, p.viewable = r.viewable, p.apps = r.apps,
                 p.bouncing = r.bouncing, p.events = r.events
          PROVE  Seen(to(p)) /\ Shown(to(p), e) /\ Owned(to(p), e)
        <3> DEFINE t == to(p)
        <3>1. /\ Managed(t) = Managed(r) /\ Managed(r) \subseteq Windows
              /\ \A v \in Windows : t.workspace[v] = IF v = w THEN n ELSE r.workspace[v]
              /\ t.current = r.current /\ t.mapped = r.mapped
              /\ t.miniaturized = r.miniaturized /\ t.hidden = r.hidden
              /\ t.alive = r.alive /\ t.viewable = r.viewable
              /\ t.apps = r.apps /\ t.bouncing = r.bouncing /\ t.events = r.events
            BY <1>1, <1>4, <2>3, FieldsAreTyped
        <3> HIDE DEF t
        <3>2. Seen(t)
            BY <1>1, <1>6, <3>1 DEF Seen
        <3>3. Shown(t, e) /\ Owned(t, e)
            BY <1>1, <3>1 DEF Shown, Owned, Told
        <3> QED BY <3>2, <3>3 DEF t
    <2> DEFINE focusless == SetFocusTo(left, NoWindow)
    <2>4. Refocuses(focusless, left)
        BY <2>1, <2>2, SetFocusToRefocuses
    <2> HIDE DEF focusless, to
    <2>5. /\ to(left) \in Screens
          /\ Seen(to(left)) /\ Shown(to(left), e) /\ Owned(to(left), e)
        BY <1>4, <2>1, <2>3 DEF Refocuses, Steady
    <2>6. /\ to(focusless) \in Screens
          /\ Seen(to(focusless)) /\ Shown(to(focusless), e) /\ Owned(to(focusless), e)
        BY <1>4, <2>1, <2>3, <2>4 DEF Refocuses, Steady
    <2>7. focusless \in Screens /\ focusless.current = r.current
        BY <2>1, <2>4 DEF Refocuses, Steady
    <2>8. to(focusless).workspace[w] = n /\ to(focusless).current = r.current
        BY <1>3, <1>4, <2>7
    <2> DEFINE here == to(focusless)
               gone == Unmap(here, {w})
    <2>9. here \in Screens /\ Seen(here) /\ Shown(here, e) /\ Owned(here, e)
          /\ here.workspace[w] # here.current
        BY <1>6, <2>6, <2>8
    <2> HIDE DEF here
    <2>10. Unmaps(gone, here, {w})
        BY <1>3, <2>9, MappingIsMapping
    <2> HIDE DEF gone
    <2>11. gone \in Screens /\ Seen(gone) /\ Shown(gone, e) /\ Owned(gone, e)
        <3>1. Seen(gone)
            BY <2>9, <2>10 DEF Unmaps, Steady, Seen
        <3> QED BY <2>9, <2>10, <3>1, UnmapsGood DEF Unmaps
    <2>12. q = gone \/ q = to(left)
        BY <1>6 DEF ChangeWorkspace, left, to, gone, here, focusless
    <2> QED BY <1>2, <2>5, <2>11, <2>12 DEF Good
<1>7. CASE n # r.workspace[w] /\ n = r.current
    <2>1. CASE w \in r.miniaturized \cup r.hidden
        <3>1. q = to(r)
            BY <1>7, <2>1 DEF ChangeWorkspace
        <3> DEFINE t == to(r)
        <3>2. /\ t \in Screens
              /\ Managed(t) = Managed(r) /\ Managed(r) \subseteq Windows
              /\ \A v \in Windows : t.workspace[v] = IF v = w THEN n ELSE r.workspace[v]
              /\ t.current = r.current /\ t.mapped = r.mapped
              /\ t.miniaturized = r.miniaturized /\ t.hidden = r.hidden
              /\ t.alive = r.alive /\ t.viewable = r.viewable
              /\ t.apps = r.apps /\ t.bouncing = r.bouncing /\ t.events = r.events
            BY <1>1, <1>4, FieldsAreTyped
        <3> HIDE DEF t
        <3>3. Seen(t)
            BY <1>1, <2>1, <3>2 DEF Seen
        <3>4. Shown(t, e) /\ Owned(t, e)
            BY <1>1, <3>2 DEF Shown, Owned, Told
        <3> QED BY <1>2, <3>1, <3>2, <3>3, <3>4 DEF Good, t
    <2>2. CASE w \notin r.miniaturized \cup r.hidden
        <3> DEFINE shown == Map(r, {w})
                   t == to(shown)
        <3>1. q = t
            BY <1>7, <2>2 DEF ChangeWorkspace
        <3>2. Maps(shown, r, {w})
            BY <1>1, <1>3, MappingIsMapping
        <3> HIDE DEF shown
        <3>3. Seen(shown) /\ Shown(shown, e) /\ Owned(shown, e) /\ shown \in Screens
              /\ w \in shown.mapped
            BY <1>1, <3>2, MapsGood DEF Maps
        <3>4. /\ t \in Screens
              /\ Managed(t) = Managed(shown) /\ Managed(shown) \subseteq Windows
              /\ \A v \in Windows : t.workspace[v] = IF v = w THEN n ELSE shown.workspace[v]
              /\ t.current = shown.current /\ t.mapped = shown.mapped
              /\ t.miniaturized = shown.miniaturized /\ t.hidden = shown.hidden
              /\ t.alive = shown.alive /\ t.viewable = shown.viewable
              /\ t.apps = shown.apps /\ t.bouncing = shown.bouncing /\ t.events = shown.events
            BY <1>4, <3>3, FieldsAreTyped
        <3> HIDE DEF t
        <3>5. Seen(t)
            BY <3>3, <3>4 DEF Seen
        <3>6. Shown(t, e) /\ Owned(t, e)
            BY <3>3, <3>4 DEF Shown, Owned, Told
        <3> QED BY <1>2, <3>1, <3>4, <3>5, <3>6 DEF Good
    <2> QED BY <2>1, <2>2
<1> QED BY <1>5, <1>6, <1>7

\* The list and the flag decide on who has the focus.
LEMMA FocusSoundToo ==
    ASSUME NEW r, FocusSound(r), NEW q \in Screens, q.list = r.list, q.focused = r.focused
    PROVE  FocusSound(q)
BY DEF FocusSound, Screens, ScreenFields, Focused

\* What last_focused is set to.
LEMMA PointersAreTyped ==
    ASSUME NEW r \in Screens, NEW w \in WindowOrNone
    PROVE  Pointer(r, w) \in Pointers /\ Nobody \in Pointers
<1>1. Nobody \in Pointers
    BY WindowManagerAssumption DEF Nobody, Pointers, WindowOrNone
<1>2. w # NoWindow => r.life[w] \in 0 .. MaxLives
    BY FieldsAreTyped DEF WindowOrNone
<1> QED BY <1>1, <1>2 DEF Pointer, Pointers

\* wHideApplication: what it unmaps is hidden.
LEMMA HideApplicationGood ==
    ASSUME NEW r, NEW e, Good(r, e), NEW a \in Windows
    PROVE  Good(HideApplication(r, a), e)
<1> DEFINE mine == WindowsOf(r, a)
           last == IF Focused(r) \in mine THEN Pointer(r, Focused(r)) ELSE Nobody
           unmapped == Unmap(r, mine \ r.miniaturized)
           hid == [unmapped EXCEPT !.hidden = unmapped.hidden \cup mine,
                                   !.lastFocused[a] = last]
           next == FirstOf(hid, {w \in r.mapped : w \notin mine} \ r.hidden)
           q == IF mine \cap r.focused # {} THEN SetFocusTo(hid, next) ELSE hid
           p == [q EXCEPT !.appHidden = q.appHidden \cup {a}]
<1>1. r \in Screens /\ Sound(r) /\ FocusSound(r) /\ Seen(r) /\ Shown(r, e) /\ Owned(r, e)
    BY DEF Good, Sound
<1>2. Sound(HideApplication(r, a))
    BY <1>1, HideApplicationSound
<1>3. CASE r.list = <<>>
    BY <1>3 DEF HideApplication
<1>4. CASE r.list # <<>>
    <2>1. HideApplication(r, a) = p
        BY <1>4 DEF HideApplication
    <2>2. mine \subseteq Managed(r) /\ mine \subseteq Windows
        BY <1>1, FieldsAreTyped DEF WindowsOf
    <2>3. last \in Pointers
        BY <1>1, <2>2, PointersAreTyped DEF WindowOrNone
    <2>4. Unmaps(unmapped, r, mine \ r.miniaturized) /\ Keeps(unmapped, r)
        BY <1>1, <2>2, MappingIsMapping, MappingKeeps
    <2> HIDE DEF mine, last, unmapped
    <2>5. unmapped \in Screens /\ FocusSound(unmapped)
        BY <2>4 DEF Unmaps, Keeps
    <2>6. /\ hid \in Screens
          /\ hid.list = unmapped.list /\ hid.focused = unmapped.focused
          /\ Managed(hid) = Managed(unmapped)
          /\ hid.workspace = unmapped.workspace /\ hid.current = unmapped.current
          /\ hid.mapped = unmapped.mapped /\ hid.miniaturized = unmapped.miniaturized
          /\ hid.hidden = unmapped.hidden \cup mine
          /\ hid.alive = unmapped.alive /\ hid.viewable = unmapped.viewable
          /\ hid.apps = unmapped.apps /\ hid.bouncing = unmapped.bouncing
          /\ hid.events = unmapped.events
        BY <2>2, <2>3, <2>5 DEF Screens, Managed
    <2> HIDE DEF hid
    <2>7. Seen(hid)
        BY <1>1, <2>4, <2>6 DEF Seen, Unmaps, Steady
    <2>8. Shown(hid, e) /\ Owned(hid, e)
        <3>1. Shown(unmapped, e) /\ Owned(unmapped, e)
            BY <1>1, <2>4, UnmapsGood
        <3> QED BY <2>6, <3>1 DEF Shown, Owned, Told
    <2>9. FocusSound(hid)
        BY <2>5, <2>6, FocusSoundToo
    <2>10. next \in Managed(hid) \cup {NoWindow}
        BY <2>9, FirstOfManaged
    <2> HIDE DEF next
    <2>11. Refocuses(SetFocusTo(hid, next), hid)
        BY <2>6, <2>9, <2>10, SetFocusToRefocuses
    <2>12. q \in Screens /\ Seen(q) /\ Shown(q, e) /\ Owned(q, e)
        BY <2>6, <2>7, <2>8, <2>11, RefocusesGood DEF Refocuses
    <2> HIDE DEF q
    <2>13. /\ p \in Screens
           /\ Managed(p) = Managed(q)
           /\ p.workspace = q.workspace /\ p.current = q.current
           /\ p.mapped = q.mapped /\ p.miniaturized = q.miniaturized /\ p.hidden = q.hidden
           /\ p.alive = q.alive /\ p.viewable = q.viewable
           /\ p.apps = q.apps /\ p.bouncing = q.bouncing /\ p.events = q.events
        BY <2>12 DEF Screens, Managed
    <2> HIDE DEF p
    <2>14. Seen(p) /\ Shown(p, e) /\ Owned(p, e)
        BY <2>12, <2>13 DEF Seen, Shown, Owned, Told
    <2> QED BY <1>2, <2>1, <2>13, <2>14 DEF Good
<1> QED BY <1>3, <1>4

\* wUnhideApplication: what is hidden no longer is mapped, unless it is
\* miniaturized or stays on another workspace; neither windows that exist nor
\* lives change.
LEMMA UnhideApplicationGood ==
    ASSUME NEW r, NEW e, Good(r, e), NEW a \in Windows, NEW here \in BOOLEAN,
           NEW last \in Managed(r) \cup {NoWindow}
    PROVE  /\ Good(UnhideApplication(r, a, here, last), e)
           /\ UnhideApplication(r, a, here, last).life = r.life
<1> DEFINE mine == WindowsOf(r, a)
           come == IF here THEN mine ELSE {w \in mine : r.workspace[w] = r.current}
           workspaces == [w \in Windows |-> IF w \in come THEN r.current ELSE r.workspace[w]]
           moved == [r EXCEPT !.workspace = workspaces,
                              !.hidden = r.hidden \ mine,
                              !.appHidden = r.appHidden \ {a},
                              !.lastFocused[a] = Nobody]
           back == (come \cap r.hidden) \ r.miniaturized
           brought == {w \in come \ (r.hidden \cup r.miniaturized) : r.workspace[w] # r.current}
           mapped == Map(moved, brought \ r.mapped)
           shown == MapClients(mapped, back)
           next == IF last \in shown.mapped THEN last
                   ELSE IF mine \cap r.focused # {} THEN FirstOf(r, r.focused)
                   ELSE FirstOf(r, mine)
           all == UnhideApplication(r, a, here, last)
<1>1. r \in Screens /\ Sound(r) /\ FocusSound(r) /\ Seen(r) /\ Shown(r, e) /\ Owned(r, e)
    BY DEF Good, Sound
<1>2. Sound(all)
    BY <1>1, UnhideApplicationSound
<1>3. all = IF r.list = <<>> THEN r
            ELSE IF next = NoWindow THEN shown ELSE SetFocusTo(shown, next)
    BY DEF UnhideApplication
<1> HIDE DEF all
<1>4. next \in Managed(r) \cup {NoWindow}
    BY <1>1, FirstOfManaged
<1> HIDE DEF next
<1>5. mine \subseteq Managed(r) /\ mine \subseteq Windows /\ come \subseteq mine
    BY <1>1, FieldsAreTyped DEF WindowsOf
<1>6. /\ \A w \in mine \ come : r.workspace[w] # r.current
      /\ \A w \in Windows : workspaces[w] = IF w \in come THEN r.current ELSE r.workspace[w]
    OBVIOUS
<1>7. workspaces \in [Windows -> Workspaces] /\ Nobody \in Pointers
    BY <1>1, FieldsAreTyped, PointersAreTyped DEF WindowOrNone
<1> HIDE DEF mine, come, workspaces
<1>8. /\ moved \in Screens
      /\ moved.list = r.list /\ moved.focused = r.focused /\ Managed(moved) = Managed(r)
      /\ moved.workspace = workspaces /\ moved.current = r.current
      /\ moved.mapped = r.mapped /\ moved.miniaturized = r.miniaturized
      /\ moved.hidden = r.hidden \ mine
      /\ moved.alive = r.alive /\ moved.viewable = r.viewable
      /\ moved.apps = r.apps /\ moved.bouncing = r.bouncing
      /\ moved.events = r.events /\ moved.life = r.life
    BY <1>1, <1>7 DEF Screens, Managed
<1> HIDE DEF moved
<1>9. FocusSound(moved)
    BY <1>1, <1>8, FocusSoundToo
<1>10. Shown(moved, e) /\ Owned(moved, e)
    BY <1>1, <1>8 DEF Shown, Owned, Told
<1>11. back \in SUBSET Windows /\ brought \ r.mapped \in SUBSET Windows
    BY <1>5
<1>12. Maps(mapped, moved, brought \ r.mapped) /\ FocusSound(mapped)
    BY <1>8, <1>9, <1>11, MappingIsMapping, MappingKeeps DEF Keeps
<1> HIDE DEF mapped
<1>13. Maps(shown, mapped, back) /\ FocusSound(shown)
    BY <1>11, <1>12, MappingIsMapping, MappingKeeps DEF Keeps, Maps
<1> HIDE DEF shown
<1>14. Shown(shown, e) /\ Owned(shown, e)
    BY <1>10, <1>12, <1>13, MapsGood
<1>15. /\ shown \in Screens
       /\ Managed(shown) = Managed(r)
       /\ shown.workspace = workspaces /\ shown.current = r.current
       /\ shown.mapped = (r.mapped \cup (brought \ r.mapped)) \cup back
       /\ shown.miniaturized = r.miniaturized /\ shown.hidden = r.hidden \ mine
       /\ shown.life = r.life
    BY <1>8, <1>12, <1>13 DEF Maps, Steady
<1>16. Seen(shown)
    <2> SUFFICES ASSUME NEW w \in Managed(r), workspaces[w] = r.current
                 PROVE  w \in r.mapped \cup brought \cup back \cup r.miniaturized \cup (r.hidden \ mine)
        BY <1>15 DEF Seen
    <2>1. w \in Windows
        BY <1>1, FieldsAreTyped
    <2>2. CASE w \in mine
        <3>1. w \in come
            BY <1>6, <2>1, <2>2
        <3>2. CASE r.workspace[w] = r.current
            BY <1>1, <3>1, <3>2 DEF Seen
        <3>3. CASE r.workspace[w] # r.current
            BY <3>1, <3>3
        <3> QED BY <3>2, <3>3
    <2>3. CASE w \notin mine
        BY <1>1, <1>5, <1>6, <2>1, <2>3 DEF Seen
    <2> QED BY <2>2, <2>3
<1>17. Refocuses(SetFocusTo(shown, next), shown)
    BY <1>4, <1>13, <1>15, SetFocusToRefocuses
<1>18. /\ all \in Screens /\ Seen(all) /\ Shown(all, e) /\ Owned(all, e)
       /\ all.life = r.life
    <2>1. CASE all = r
        BY <1>1, <2>1
    <2>2. CASE all = shown
        BY <1>14, <1>15, <1>16, <2>2
    <2>3. CASE all = SetFocusTo(shown, next)
        BY <1>14, <1>15, <1>16, <1>17, <2>3, RefocusesGood DEF Refocuses, Steady
    <2> QED BY <1>3, <2>1, <2>2, <2>3
<1> QED BY <1>2, <1>18 DEF Good, all

\* wApplicationCreate: a new application bounces.
LEMMA JoinApplicationGood ==
    ASSUME NEW r, NEW e, Good(r, e), NEW w \in Windows \ Managed(r)
    PROVE  /\ Good(JoinApplication(r, w), e)
           /\ Managed(JoinApplication(r, w)) = Managed(r)
           /\ JoinApplication(r, w).life = r.life
           /\ JoinApplication(r, w).alive = r.alive
<1> DEFINE a == LeaderOf[w]
           joined == [r EXCEPT !.main = [r.main EXCEPT ![w] = a]]
           last == LastFocused(r, a)
           unhidden == IF a \in r.appHidden THEN UnhideApplication(joined, a, FALSE, last)
                       ELSE joined
           workspaces == [unhidden.lastWorkspace EXCEPT ![a] = r.current]
           all == [unhidden EXCEPT !.apps = unhidden.apps \cup {a},
                                   !.bouncing = unhidden.bouncing \cup {a},
                                   !.lastWorkspace = workspaces]
           q == JoinApplication(r, w)
<1>1. r \in Screens /\ Sound(r) /\ FocusSound(r) /\ Seen(r) /\ Shown(r, e) /\ Owned(r, e)
    BY DEF Good, Sound
<1>2. q = IF a \notin r.alive THEN joined ELSE all
    <2>1. joined = [r EXCEPT !.main[w] = a]
        OBVIOUS
    <2> QED BY <2>1 DEF JoinApplication
<1>3. Sound(q) /\ Managed(q) = Managed(r)
    BY <1>1, JoinApplicationSound
<1> HIDE DEF q
<1>4. a \in Windows
    BY WindowManagerAssumption
<1>5. r.main \in [Windows -> WindowOrNone] /\ r.current \in Workspaces /\ r.hidden \subseteq Windows
    BY <1>1, FieldsAreTyped
<1>6. /\ joined \in Screens
      /\ joined.list = r.list /\ joined.focused = r.focused /\ Managed(joined) = Managed(r)
      /\ joined.workspace = r.workspace /\ joined.current = r.current
      /\ joined.mapped = r.mapped /\ joined.miniaturized = r.miniaturized
      /\ joined.hidden = r.hidden /\ joined.appHidden = r.appHidden
      /\ joined.alive = r.alive /\ joined.viewable = r.viewable
      /\ joined.apps = r.apps /\ joined.bouncing = r.bouncing
      /\ joined.events = r.events /\ joined.life = r.life
      /\ \A v \in Windows : v # w => joined.main[v] = r.main[v]
    <2> DEFINE main == [r.main EXCEPT ![w] = a]
    <2>1. main \in [Windows -> WindowOrNone] /\ \A v \in Windows : v # w => main[v] = r.main[v]
        BY <1>4, <1>5 DEF WindowOrNone
    <2>2. joined = [r EXCEPT !.main = main]
        OBVIOUS
    <2> HIDE DEF main, joined
    <2> QED BY <1>1, <2>1, <2>2 DEF Screens, Managed
<1> HIDE DEF joined
<1>7. Good(joined, e)
    <2>1. FocusSound(joined)
        BY <1>1, <1>6, FocusSoundToo
    <2>2. HiddenSound(joined)
        BY <1>1, <1>5, <1>6 DEF Sound, HiddenSound
    <2>3. Seen(joined) /\ Shown(joined, e) /\ Owned(joined, e)
        BY <1>1, <1>6 DEF Seen, Shown, Owned, Told
    <2> QED BY <1>6, <2>1, <2>2, <2>3 DEF Good, Sound
<1>8. last \in Managed(joined) \cup {NoWindow}
    BY <1>6, LastFocusedManaged
<1> HIDE DEF last
<1>9. /\ Good(UnhideApplication(joined, a, FALSE, last), e)
      /\ UnhideApplication(joined, a, FALSE, last).life = r.life
      /\ UnhideApplication(joined, a, FALSE, last).alive = r.alive
    <2>1. Good(UnhideApplication(joined, a, FALSE, last), e)
        BY <1>4, <1>7, <1>8, UnhideApplicationGood
    <2>2. UnhideApplication(joined, a, FALSE, last).life = joined.life
        BY <1>4, <1>7, <1>8, UnhideApplicationGood
    <2>3. Same(UnhideApplication(joined, a, FALSE, last), joined)
        BY <1>7, <1>8, UnhideApplicationSound DEF Good
    <2> QED BY <1>6, <2>1, <2>2, <2>3 DEF Same
<1>10. Good(unhidden, e) /\ unhidden.life = r.life /\ unhidden.alive = r.alive
    <2>1. CASE a \in r.appHidden
        <3>1. unhidden = UnhideApplication(joined, a, FALSE, last)
            BY <2>1, Zenon
        <3> HIDE DEF unhidden
        <3> QED BY <1>9, <3>1, Zenon
    <2>2. CASE a \notin r.appHidden
        BY <1>6, <1>7, <2>2
    <2> QED BY <2>1, <2>2
<1> HIDE DEF unhidden
<1>11. unhidden \in Screens /\ Seen(unhidden) /\ Shown(unhidden, e) /\ Owned(unhidden, e)
    BY <1>10 DEF Good
<1>12. workspaces \in [Windows -> Workspaces]
    BY <1>5, <1>11, FieldsAreTyped
<1> HIDE DEF a, workspaces
<1>13. /\ all \in Screens
       /\ Managed(all) = Managed(unhidden)
       /\ all.workspace = unhidden.workspace /\ all.current = unhidden.current
       /\ all.mapped = unhidden.mapped /\ all.miniaturized = unhidden.miniaturized
       /\ all.hidden = unhidden.hidden
       /\ all.alive = unhidden.alive /\ all.viewable = unhidden.viewable
       /\ all.apps = unhidden.apps \cup {a} /\ all.bouncing = unhidden.bouncing \cup {a}
       /\ all.events = unhidden.events /\ all.life = unhidden.life
    <2> DEFINE apps == unhidden.apps \cup {a}
               bouncing == unhidden.bouncing \cup {a}
    <2>1. apps \in SUBSET Windows /\ bouncing \in SUBSET Windows
        BY <1>4, <1>11, FieldsAreTyped
    <2>2. all = [unhidden EXCEPT !.apps = apps, !.bouncing = bouncing,
                                 !.lastWorkspace = workspaces]
        OBVIOUS
    <2> HIDE DEF apps, bouncing, all
    <2>3. all \in Screens /\ all.apps = apps /\ all.bouncing = bouncing
        BY <1>11, <1>12, <2>1, <2>2 DEF Screens
    <2>4. /\ Managed(all) = Managed(unhidden)
          /\ all.workspace = unhidden.workspace /\ all.current = unhidden.current
          /\ all.mapped = unhidden.mapped /\ all.miniaturized = unhidden.miniaturized
          /\ all.hidden = unhidden.hidden
          /\ all.alive = unhidden.alive /\ all.viewable = unhidden.viewable
          /\ all.events = unhidden.events /\ all.life = unhidden.life
        BY <1>11, <2>2 DEF Screens, Managed
    <2> QED BY <2>3, <2>4 DEF apps, bouncing
<1> HIDE DEF all
<1>14. Seen(all) /\ Shown(all, e) /\ Owned(all, e)
    BY <1>11, <1>13 DEF Seen, Shown, Owned, Told
<1>15. /\ q \in Screens /\ Seen(q) /\ Shown(q, e) /\ Owned(q, e)
       /\ q.life = r.life /\ q.alive = r.alive
    <2>1. CASE q = joined
        BY <1>6, <1>7, <2>1 DEF Good
    <2>2. CASE q = all
        BY <1>10, <1>13, <1>14, <2>2
    <2> QED BY <1>2, <2>1, <2>2
<1> QED BY <1>3, <1>15 DEF Good, q

\* An application whose leader is gone goes too, or goes on bouncing.
LEMMA LeaveApplicationGood ==
    ASSUME NEW r \in Screens, Sound(r), Seen(r), NEW a \in Windows,
           Shown(r, NoWindow), Owned(r, a)
    PROVE  Good(LeaveApplication(r, a), NoWindow)
<1> DEFINE main == [w \in Windows |-> IF r.main[w] = a /\ w \in Managed(r) THEN NoWindow
                                      ELSE r.main[w]]
           apps == IF a \in r.bouncing THEN r.apps ELSE r.apps \ {a}
           appHidden == IF a \in r.bouncing THEN r.appHidden ELSE r.appHidden \ {a}
           last == [r.lastFocused EXCEPT ![a] = IF a \in r.bouncing THEN r.lastFocused[a] ELSE Nobody]
           q == [r EXCEPT !.main = main, !.apps = apps, !.appHidden = appHidden,
                          !.lastFocused = last]
<1>1. LeaveApplication(r, a) = q
    BY DEF LeaveApplication, Screens
<1>2. /\ main \in [Windows -> WindowOrNone] /\ apps \in SUBSET Windows
      /\ appHidden \in SUBSET Windows
    BY FieldsAreTyped DEF WindowOrNone
<1>3. last \in [Windows -> Pointers]
    BY FieldsAreTyped, PointersAreTyped DEF WindowOrNone
<1>4. \A b \in apps : b \in r.apps /\ (b = a => b \in r.bouncing)
    OBVIOUS
<1> HIDE DEF main, apps, appHidden, last
<1>5. /\ q \in Screens
      /\ q.apps = apps
      /\ Managed(q) = Managed(r)
      /\ q.workspace = r.workspace /\ q.current = r.current
      /\ q.mapped = r.mapped /\ q.miniaturized = r.miniaturized /\ q.hidden = r.hidden
      /\ q.alive = r.alive /\ q.viewable = r.viewable
      /\ q.bouncing = r.bouncing /\ q.events = r.events
    BY <1>2, <1>3 DEF Screens, Managed
<1> HIDE DEF q
<1>6. Seen(q) /\ Shown(q, NoWindow)
    BY <1>5 DEF Seen, Shown, Told
<1>7. Owned(q, NoWindow)
    BY <1>4, <1>5 DEF Owned, Told
<1> QED BY <1>1, <1>5, <1>6, <1>7, LeaveApplicationSound DEF Good

\* wUnmanageWindow.
LEMMA UnmanageGood ==
    ASSUME NEW r \in Screens, Sound(r), NEW w \in Windows, SeenElsewhere(r, w),
           NEW e, Shown(r, e), Owned(r, e)
    PROVE  /\ Good(Unmanage(r, w), e)
           /\ w \notin Managed(Unmanage(r, w))
           /\ Unmanage(r, w).apps = r.apps
<1> DEFINE unmapped == Unmap(r, {w})
           list == Without(unmapped.list, w)
           gone == [unmapped EXCEPT !.list = list,
                                    !.focused = unmapped.focused \ {w},
                                    !.miniaturized = unmapped.miniaturized \ {w},
                                    !.hidden = unmapped.hidden \ {w}]
           q == Unmanage(r, w)
<1>1. FocusSound(r)
    BY DEF Sound
<1>2. q = gone \/ q = SetFocusTo(gone, FirstOf(gone, gone.mapped))
    BY DEF Unmanage
<1>3. Sound(q)
    BY UnmanageSound
<1> HIDE DEF q
<1>4. Unmaps(unmapped, r, {w}) /\ Keeps(unmapped, r)
    BY <1>1, MappingIsMapping, MappingKeeps
<1>5. unmapped \in Screens /\ Shown(unmapped, e) /\ Owned(unmapped, e) /\ FocusSound(unmapped)
    BY <1>4, UnmapsGood DEF Unmaps, Keeps
<1>6. unmapped.list \in Seq(Windows) /\ IsInjective(unmapped.list)
    BY <1>5 DEF FocusSound, Screens
<1> HIDE DEF unmapped
<1>7. /\ list \in Seq(Windows)
      /\ IsInjective(list)
      /\ Range(list) = Range(unmapped.list) \ {w}
      /\ unmapped.list # <<>> /\ w # Last(unmapped.list)
            => list # <<>> /\ Last(list) = Last(unmapped.list)
    BY <1>6, WithoutList
<1> HIDE DEF list
<1>8. /\ gone \in Screens
      /\ gone.list = list
      /\ gone.focused = unmapped.focused \ {w}
      /\ Managed(gone) = Managed(unmapped) \ {w}
      /\ gone.workspace = unmapped.workspace /\ gone.current = unmapped.current
      /\ gone.mapped = unmapped.mapped
      /\ gone.miniaturized = unmapped.miniaturized \ {w}
      /\ gone.hidden = unmapped.hidden \ {w}
      /\ gone.alive = unmapped.alive /\ gone.viewable = unmapped.viewable
      /\ gone.apps = unmapped.apps /\ gone.bouncing = unmapped.bouncing
      /\ gone.events = unmapped.events
    BY <1>5, <1>7 DEF Screens, Managed
<1> HIDE DEF gone
<1>9. Seen(gone)
    BY <1>4, <1>8 DEF Seen, SeenElsewhere, Unmaps, Steady
<1>10. Shown(gone, e) /\ Owned(gone, e)
    BY <1>5, <1>8 DEF Shown, Owned, Told
<1>11. FocusSound(gone)
    <2>1. unmapped.focused \subseteq {Focused(unmapped)} /\ unmapped.focused \subseteq Windows
        BY <1>5, FieldsAreTyped DEF FocusSound
    <2>2. gone.focused \subseteq {Focused(gone)}
        BY <1>7, <1>8, <2>1, WindowManagerAssumption DEF Focused
    <2>3. gone \in ScreenFields(gone)
        BY <1>8 DEF Screens, ScreenFields
    <2> QED BY <1>7, <1>8, <2>2, <2>3 DEF FocusSound
<1>12. Refocuses(SetFocusTo(gone, FirstOf(gone, gone.mapped)), gone)
    BY <1>8, <1>11, FirstOfManaged, SetFocusToRefocuses
<1>13. /\ q \in Screens /\ Seen(q) /\ Shown(q, e) /\ Owned(q, e)
       /\ w \notin Managed(q) /\ q.apps = r.apps
    <2>1. gone.apps = r.apps /\ w \notin Managed(gone)
        BY <1>4, <1>8 DEF Unmaps, Steady
    <2>2. CASE q = gone
        BY <1>8, <1>9, <1>10, <2>1, <2>2
    <2>3. CASE q = SetFocusTo(gone, FirstOf(gone, gone.mapped))
        BY <1>8, <1>9, <1>10, <1>12, <2>1, <2>3, RefocusesGood DEF Refocuses, Steady
    <2> QED BY <1>2, <2>2, <2>3
<1> QED BY <1>3, <1>13 DEF Good, q

-----------------------------------------------------------------------------
(* The screens that handlers answer with. *)

\* wIconifyWindow.
LEMMA IconifiedGood ==
    ASSUME NEW r, NEW e, Good(r, e), NEW w \in Windows
    PROVE  Good(Iconified(r, w), e)
<1> DEFINE mini == [r EXCEPT !.miniaturized = r.miniaturized \cup {w}, !.mapped = r.mapped \ {w}]
           next == {v \in Windows : /\ v \notin mini.hidden \cup mini.miniaturized
                                    /\ r.workspace[v] = r.workspace[w]}
           unmapped == Unmap(mini, {w})
           focused == SetFocusTo(unmapped, FirstOf(mini, next))
           q == Iconified(r, w)
<1>1. r \in Screens /\ Sound(r) /\ FocusSound(r) /\ Seen(r) /\ Shown(r, e) /\ Owned(r, e)
    BY DEF Good, Sound
<1>2. q \in {mini, focused, unmapped}
    BY DEF Iconified
<1>3. Sound(q)
    BY <1>1, IconifiedSound
<1> HIDE DEF q
<1>4. /\ mini \in Screens
      /\ mini.list = r.list /\ mini.focused = r.focused /\ Managed(mini) = Managed(r)
      /\ mini.workspace = r.workspace /\ mini.current = r.current
      /\ mini.mapped = r.mapped \ {w} /\ mini.miniaturized = r.miniaturized \cup {w}
      /\ mini.hidden = r.hidden
      /\ mini.alive = r.alive /\ mini.viewable = r.viewable
      /\ mini.apps = r.apps /\ mini.bouncing = r.bouncing /\ mini.events = r.events
    BY <1>1 DEF Screens, Managed
<1> HIDE DEF mini, next
<1>5. Seen(mini) /\ Shown(mini, e) /\ Owned(mini, e)
    BY <1>1, <1>4 DEF Seen, Shown, Owned, Told
<1>6. FocusSound(mini)
    BY <1>1, <1>4, FocusSoundToo
<1>7. Unmaps(unmapped, mini, {w}) /\ FocusSound(unmapped)
    BY <1>4, <1>6, MappingIsMapping, MappingKeeps DEF Keeps
<1>8. FirstOf(mini, next) \in Managed(unmapped) \cup {NoWindow}
    BY <1>6, <1>7, FirstOfManaged DEF Unmaps, Steady
<1> HIDE DEF unmapped
<1>9. /\ unmapped \in Screens
      /\ Seen(unmapped) /\ Shown(unmapped, e) /\ Owned(unmapped, e)
    <2>1. Seen(unmapped)
        BY <1>4, <1>5, <1>7 DEF Unmaps, Steady, Seen
    <2> QED BY <1>5, <1>7, <2>1, UnmapsGood DEF Unmaps
<1>10. Refocuses(focused, unmapped)
    BY <1>7, <1>8, <1>9, SetFocusToRefocuses
<1> HIDE DEF focused
<1>11. /\ focused \in Screens
       /\ Seen(focused) /\ Shown(focused, e) /\ Owned(focused, e)
    BY <1>9, <1>10, RefocusesGood DEF Refocuses
<1> QED BY <1>2, <1>3, <1>4, <1>5, <1>9, <1>11 DEF Good, q

\* wDeiconifyWindow: the window that is miniaturized no longer is mapped.
LEMMA DeiconifiedGood ==
    ASSUME NEW r, NEW e, Good(r, e), NEW w \in Managed(r)
    PROVE  Good(Deiconified(r, w), e)
<1> DEFINE moved == ChangeWorkspace(r, w, r.current)
           here == [moved EXCEPT !.miniaturized = moved.miniaturized \ {w}]
           shown == MapClients(here, {w})
           q == Deiconified(r, w)
<1>1. r \in Screens /\ Sound(r) /\ FocusSound(r)
    BY DEF Good, Sound
<1>2. q = SetFocusTo(shown, w)
    BY DEF Deiconified
<1>3. Sound(q)
    BY <1>1, DeiconifiedSound
<1> HIDE DEF q
<1>4. w \in Windows /\ r.current \in Workspaces
    BY <1>1, FieldsAreTyped
<1>5. Good(moved, e) /\ Managed(moved) = Managed(r)
    BY <1>1, <1>4, ChangeWorkspaceGood, ChangeWorkspaceKeeps DEF Keeps, Same
<1> HIDE DEF moved
<1>6. /\ moved \in Screens /\ FocusSound(moved)
      /\ Seen(moved) /\ Shown(moved, e) /\ Owned(moved, e)
    BY <1>5 DEF Good, Sound
<1>7. /\ here \in Screens
      /\ here.list = moved.list /\ here.focused = moved.focused
      /\ Managed(here) = Managed(moved)
      /\ here.workspace = moved.workspace /\ here.current = moved.current
      /\ here.mapped = moved.mapped /\ here.miniaturized = moved.miniaturized \ {w}
      /\ here.hidden = moved.hidden
      /\ here.alive = moved.alive /\ here.viewable = moved.viewable
      /\ here.apps = moved.apps /\ here.bouncing = moved.bouncing
      /\ here.events = moved.events
    BY <1>6 DEF Screens, Managed
<1> HIDE DEF here
<1>8. Shown(here, e) /\ Owned(here, e)
    BY <1>6, <1>7 DEF Shown, Owned, Told
<1>9. FocusSound(here)
    BY <1>6, <1>7, FocusSoundToo
<1>10. Maps(shown, here, {w}) /\ FocusSound(shown)
    BY <1>4, <1>7, <1>9, MappingIsMapping, MappingKeeps DEF Keeps
<1> HIDE DEF shown
<1>11. /\ shown \in Screens /\ Managed(shown) = Managed(r)
       /\ Seen(shown) /\ Shown(shown, e) /\ Owned(shown, e)
    <2>1. Seen(shown)
        BY <1>6, <1>7, <1>10 DEF Maps, Steady, Seen
    <2> QED BY <1>5, <1>7, <1>8, <1>10, <2>1, MapsGood DEF Maps, Steady
<1>12. Refocuses(q, shown)
    BY <1>2, <1>10, <1>11, SetFocusToRefocuses
<1>13. q \in Screens /\ Seen(q) /\ Shown(q, e) /\ Owned(q, e)
    BY <1>11, <1>12, RefocusesGood DEF Refocuses
<1> QED BY <1>3, <1>13 DEF Good, q

\* wWorkspaceForceChange: who is on the new workspace is mapped.
LEMMA ChangedGood ==
    ASSUME NEW r, NEW e, Good(r, e), NEW n \in Workspaces
    PROVE  Good(Changed(r, n), e)
<1> DEFINE here == {w \in Managed(r) : r.workspace[w] = n}
           come == here \ (r.hidden \cup r.mapped \cup r.miniaturized)
           mapped == Map(r, come)
           gone == (Managed(r) \ here) \cap r.mapped
           both == Unmap(mapped, gone)
           q == [both EXCEPT !.current = n, !.ignoreFocus = TRUE]
<1>1. r \in Screens /\ Sound(r) /\ Shown(r, e) /\ Owned(r, e)
    BY DEF Good
<1>2. Changed(r, n) = q
    BY DEF Changed
<1>3. Sound(q)
    BY <1>1, <1>2, ChangedSound
<1>4. come \in SUBSET Windows /\ gone \in SUBSET Windows
    BY <1>1, FieldsAreTyped
<1>5. Maps(mapped, r, come)
    BY <1>1, <1>4, MappingIsMapping
<1> HIDE DEF mapped
<1>6. Unmaps(both, mapped, gone)
    BY <1>4, <1>5, MappingIsMapping DEF Maps
<1> HIDE DEF both
<1>7. both \in Screens /\ Shown(both, e) /\ Owned(both, e)
    BY <1>1, <1>5, <1>6, MapsGood, UnmapsGood DEF Unmaps
<1>8. /\ q \in Screens
      /\ Managed(q) = Managed(both)
      /\ q.workspace = both.workspace /\ q.current = n
      /\ q.mapped = both.mapped /\ q.miniaturized = both.miniaturized /\ q.hidden = both.hidden
      /\ q.alive = both.alive /\ q.viewable = both.viewable
      /\ q.apps = both.apps /\ q.bouncing = both.bouncing /\ q.events = both.events
    BY <1>7 DEF Screens, Managed
<1> HIDE DEF q
<1>9. Shown(q, e) /\ Owned(q, e)
    BY <1>7, <1>8 DEF Shown, Owned, Told
<1>10. Seen(q)
    BY <1>5, <1>6, <1>8 DEF Maps, Unmaps, Steady, Seen
<1> QED BY <1>2, <1>3, <1>8, <1>9, <1>10 DEF Good

\* Without windows there is nothing to map.
LEMMA EmptyGood ==
    ASSUME NEW r, NEW e, Good(r, e), NEW n \in Workspaces, r.list = <<>>
    PROVE  Good([r EXCEPT !.current = n], e)
<1> DEFINE q == [r EXCEPT !.current = n]
<1>1. r \in Screens /\ Sound(r) /\ FocusSound(r) /\ HiddenSound(r) /\ Shown(r, e) /\ Owned(r, e)
    BY DEF Good, Sound
<1>2. /\ q \in Screens
      /\ q.list = r.list /\ q.focused = r.focused /\ Managed(q) = Managed(r)
      /\ q.mapped = r.mapped /\ q.hidden = r.hidden /\ q.main = r.main
      /\ q.appHidden = r.appHidden
      /\ q.alive = r.alive /\ q.viewable = r.viewable
      /\ q.apps = r.apps /\ q.bouncing = r.bouncing /\ q.events = r.events
    BY <1>1 DEF Screens, Managed
<1> HIDE DEF q
<1>3. FocusSound(q) /\ HiddenSound(q)
    BY <1>1, <1>2, FocusSoundToo DEF HiddenSound
<1>4. Managed(q) = {}
    BY <1>2 DEF Managed, Range
<1>5. Seen(q) /\ Shown(q, e) /\ Owned(q, e)
    BY <1>1, <1>2, <1>4 DEF Seen, Shown, Owned, Told
<1> QED BY <1>2, <1>3, <1>5 DEF Good, Sound, q

\* handleDestroyNotify: after it the queue need not tell of the window any more.
LEMMA DestroyedGood ==
    ASSUME NEW r \in Screens, Sound(r), NEW w \in Windows, SeenElsewhere(r, w),
           Shown(r, w), Owned(r, w)
    PROVE  Good(Destroyed(r, w), NoWindow)
<1> DEFINE gone == IF w \in Managed(r) THEN Unmanage(r, w) ELSE r
<1>1. Destroyed(r, w) = IF w \in gone.apps THEN LeaveApplication(gone, w) ELSE gone
    BY DEF Destroyed
<1>2. Good(gone, w) /\ w \notin Managed(gone)
    <2>1. CASE w \in Managed(r)
        BY <2>1, UnmanageGood
    <2>2. CASE w \notin Managed(r)
        BY <2>2 DEF Good, Seen, SeenElsewhere
    <2> QED BY <2>1, <2>2
<1> HIDE DEF gone
<1>3. gone \in Screens /\ Sound(gone) /\ Seen(gone) /\ Owned(gone, w)
    BY <1>2 DEF Good
<1>4. Shown(gone, NoWindow)
    BY <1>2 DEF Good, Shown
<1>5. CASE w \in gone.apps
    BY <1>1, <1>3, <1>4, <1>5, LeaveApplicationGood
<1>6. CASE w \notin gone.apps
    <2>1. Owned(gone, NoWindow)
        BY <1>3, <1>6 DEF Owned
    <2> QED BY <1>1, <1>3, <1>4, <1>6, <2>1 DEF Good
<1> QED BY <1>5, <1>6

-----------------------------------------------------------------------------
(* Taking events and answering them. *)

\* The inductive invariant.
WindowsInv ==
    /\ Good(s, NoWindow)
    /\ calls \in Seq(Handlers)
    /\ done \in 0 .. MaxEvents
    /\ crashed \in {"no", "focused_window", "last_focused", "wapp", "wwin"}

\* What an event is about.
LEMMA EventFields ==
    ASSUME NEW v \in Events
    PROVE  /\ v.kind \in Kinds \cup {"Workspace", "Send"}
           /\ v.kind \in Kinds \cup {"Send"} => v.win \in Windows
           /\ v.kind \in {"Workspace", "Send"} => v.to \in Workspaces
BY DEF Events, Kinds

\* The queue without its head: only what the head told is not told any more.
LEMMA TakenGood ==
    ASSUME Good(s, NoWindow), Serving
    PROVE  /\ Next1 \in Events
           /\ Managed(Taken) = Managed(s)
           /\ Next1.kind \notin {"UnmapNotify", "Withdraw", "DestroyNotify"} =>
                Good(Taken, NoWindow)
           /\ Next1.kind = "DestroyNotify" => Good(Taken, Next1.win)
           /\ Next1.kind \in {"UnmapNotify", "Withdraw"} =>
                Good(Taken, Next1.win) /\ Owned(Taken, NoWindow)
           /\ Taken \in Screens
           /\ \A w \in Windows :
                /\ w \notin Managed(s) \cap s.mapped
                /\ Next1 \in {Event("UnmapNotify", w), Event("Withdraw", w)}
                => Good(Taken, NoWindow)
<1>1. /\ s \in Screens /\ Sound(s) /\ Seen(s) /\ Shown(s, NoWindow) /\ Owned(s, NoWindow)
      /\ s.events # <<>> /\ s.events \in Seq(Events)
    BY FieldsAreTyped DEF Good, Serving
<1>2. /\ Tail(s.events) \in Seq(Events)
      /\ Next1 \in Events
      /\ Range(s.events) \ {Next1} \subseteq Range(Tail(s.events))
    BY <1>1, TailLosesTheHead DEF Next1
<1> DEFINE q == Taken
<1>3. q = [s EXCEPT !.events = Tail(s.events)]
    BY DEF Taken
<1>4. Sound(q) /\ Managed(q) = Managed(s)
    BY <1>1, TakenSound
<1> HIDE DEF q
<1>5. /\ q \in Screens
      /\ q.workspace = s.workspace /\ q.current = s.current
      /\ q.mapped = s.mapped /\ q.miniaturized = s.miniaturized /\ q.hidden = s.hidden
      /\ q.alive = s.alive /\ q.viewable = s.viewable
      /\ q.apps = s.apps /\ q.bouncing = s.bouncing
      /\ q.events = Tail(s.events)
    BY <1>1, <1>2, <1>3 DEF Screens
<1>6. Seen(q)
    BY <1>1, <1>4, <1>5 DEF Seen
<1>7. \A kind, w : Event(kind, w) \in Range(s.events) =>
        Event(kind, w) \in Range(q.events) \/ Next1 = Event(kind, w)
    BY <1>2, <1>5
<1>8. \A kind, w : Next1 = Event(kind, w) => Next1.kind = kind /\ Next1.win = w
    BY DEF Event
<1>9. ASSUME NEW e,
             \A w : Next1 \in {Event("UnmapNotify", w), Event("Withdraw", w)} => w = e
      PROVE  Shown(q, e)
    BY <1>1, <1>4, <1>5, <1>7, <1>9, WindowManagerAssumption, FieldsAreTyped DEF Shown, Told
<1>10. ASSUME NEW e, \A w : Next1 = Event("DestroyNotify", w) => w = e
       PROVE  Owned(q, e)
    BY <1>1, <1>5, <1>7, <1>10, WindowManagerAssumption, FieldsAreTyped DEF Owned, Told
<1>11. Next1.kind \notin {"UnmapNotify", "Withdraw"} => \A e : Shown(q, e)
    <2>1. ASSUME Next1.kind \notin {"UnmapNotify", "Withdraw"}, NEW e PROVE Shown(q, e)
        BY <1>8, <1>9, <2>1
    <2> QED BY <2>1
<1>12. Next1.kind # "DestroyNotify" => \A e : Owned(q, e)
    <2>1. ASSUME Next1.kind # "DestroyNotify", NEW e PROVE Owned(q, e)
        BY <1>8, <1>10, <2>1
    <2> QED BY <2>1
<1>13. Next1.kind \in {"UnmapNotify", "Withdraw"} => Shown(q, Next1.win)
    BY <1>8, <1>9
<1>14. Next1.kind = "DestroyNotify" => Owned(q, Next1.win)
    BY <1>8, <1>10
<1>15. ASSUME NEW w \in Windows, w \notin Managed(s) \cap s.mapped,
              Next1 \in {Event("UnmapNotify", w), Event("Withdraw", w)}
       PROVE  Good(q, NoWindow)
    <2>1. Next1.kind \in {"UnmapNotify", "Withdraw"} /\ Next1.win = w
        BY <1>8, <1>15
    <2>2. Shown(q, NoWindow)
        BY <1>4, <1>5, <1>13, <1>15, <2>1 DEF Shown
    <2>3. Owned(q, NoWindow)
        BY <1>12, <2>1
    <2> QED BY <1>4, <1>5, <1>6, <2>2, <2>3 DEF Good
<1>16. Good(q, NoWindow) <=> Shown(q, NoWindow) /\ Owned(q, NoWindow)
    BY <1>4, <1>5, <1>6 DEF Good
<1>17. Good(q, Next1.win) <=> Shown(q, Next1.win) /\ Owned(q, Next1.win)
    BY <1>4, <1>5, <1>6 DEF Good
<1> QED BY <1>2, <1>4, <1>5, <1>11, <1>12, <1>13, <1>14, <1>15, <1>16, <1>17 DEF q

\* An event less for the handler that waits.
LEMMA ServedIsTyped ==
    ASSUME calls \in Seq(Handlers), Serving
    PROVE  Served \in Seq(Handlers)
<1>1. CASE Idle
    BY <1>1 DEF Served
<1>2. CASE ~Idle
    <2>1. Len(calls) \in Nat /\ 1 \in 1 .. Len(calls)
        BY <1>2, EmptySeq DEF Idle
    <2>2. calls[1] \in Handlers /\ calls[1].left > 0
        BY <1>2, <2>1 DEF Serving
    <2> DEFINE h == [calls[1] EXCEPT !.left = calls[1].left - 1]
    <2>3. h \in Handlers
        BY <2>2 DEF Handlers
    <2>4. Served = [calls EXCEPT ![1] = h]
        BY <1>2 DEF Served
    <2> HIDE DEF h
    <2> QED BY <2>1, <2>3, <2>4, ExceptSeq
<1> QED BY <1>1, <1>2

\* A handler that ends.
LEMMA AnswerGood ==
    ASSUME WindowsInv, Serving, NEW r, Good(r, NoWindow), Answer(r)
    PROVE  WindowsInv'
BY ServedIsTyped DEF WindowsInv, Answer

\* A handler that waits.
LEMMA WaitGood ==
    ASSUME WindowsInv, Serving, NEW r, Good(r, NoWindow),
           NEW op \in {"workspace", "iconify", "deiconify"}, NEW w \in WindowOrNone,
           NEW then \in WindowOrNone, Wait(op, r, w, then)
    PROVE  WindowsInv'
<1> DEFINE h == [op |-> op, on |-> Pointer(r, w), left |-> Len(r.events), then |-> then]
<1>1. r \in Screens
    BY DEF Good
<1>2. r.events \in Seq(Events)
    BY <1>1, FieldsAreTyped
<1>3. Len(r.events) \in Nat
    BY <1>2
<1>4. h \in Handlers
    BY <1>1, <1>3, PointersAreTyped DEF Handlers
<1>5. calls' = <<h>> \o Served
    BY DEF Wait
<1> HIDE DEF h
<1>6. <<h>> \in Seq(Handlers) /\ Served \in Seq(Handlers)
    BY <1>4, ServedIsTyped DEF WindowsInv
<1>7. calls' \in Seq(Handlers)
    BY <1>5, <1>6, ConcatProperties
<1> QED BY <1>7 DEF WindowsInv, Wait

\* wUnhideApplication with the last_focused that it reads.
LEMMA UnhiddenGood ==
    ASSUME NEW r, NEW e, Good(r, e), NEW a \in Windows, NEW here \in BOOLEAN
    PROVE  Good(UnhideApplication(r, a, here, LastFocused(r, a)), e)
<1>1. LastFocused(r, a) \in Managed(r) \cup {NoWindow}
    BY LastFocusedManaged
<1> DEFINE last == LastFocused(r, a)
<1>2. last \in Managed(r) \cup {NoWindow}
    BY <1>1
<1> HIDE DEF last
<1>3. Good(UnhideApplication(r, a, here, last), e)
    BY <1>2, UnhideApplicationGood
<1> QED BY <1>3 DEF last

\* wWorkspaceChange.
LEMMA GoToGood ==
    ASSUME WindowsInv, Serving, NEW r, Good(r, NoWindow), NEW n \in Workspaces,
           NEW then \in WindowOrNone, GoTo(r, n, then)
    PROVE  WindowsInv'
<1>1. CASE r.ignoreFocus \/ n = r.current
    <2>1. CASE then = NoWindow
        <3>1. Answer(r)
            BY <1>1, <2>1, Zenon DEF GoTo
        <3> QED BY <3>1, AnswerGood
    <2>2. CASE then # NoWindow
        <3> DEFINE q == UnhideApplication(r, then, FALSE, LastFocused(r, then))
        <3>1. Answer(q)
            BY <1>1, <2>2, Zenon DEF GoTo
        <3>2. then \in Windows /\ FALSE \in BOOLEAN
            BY <2>2 DEF WindowOrNone
        <3>3. Good(q, NoWindow)
            BY <3>2, UnhiddenGood
        <3> HIDE DEF q
        <3> QED BY <3>1, <3>3, AnswerGood
    <2> QED BY <2>1, <2>2
<1>2. CASE ~(r.ignoreFocus \/ n = r.current) /\ r.list = <<>>
    <2> DEFINE q == [r EXCEPT !.current = n]
    <2>1. Answer(q)
        BY <1>2, Zenon DEF GoTo
    <2>2. Good(q, NoWindow)
        BY <1>2, EmptyGood
    <2> HIDE DEF q
    <2> QED BY <2>1, <2>2, AnswerGood
<1>3. CASE ~(r.ignoreFocus \/ n = r.current) /\ r.list # <<>>
    <2>1. Wait("workspace", Changed(r, n), Come(r, n), then)
        BY <1>3, Zenon DEF GoTo
    <2>2. Good(Changed(r, n), NoWindow)
        BY ChangedGood
    <2>3. Come(r, n) \in WindowOrNone
        <3>1. FocusSound(r) /\ Managed(r) \subseteq Windows
            BY FieldsAreTyped DEF Good, Sound
        <3> QED BY <3>1, FirstOfManaged DEF Come, WindowOrNone
    <2> QED BY <2>1, <2>2, <2>3, WaitGood
<1> QED BY <1>1, <1>2, <1>3

-----------------------------------------------------------------------------
(* Every step. *)

\* A new window is managed, mapped, and on the current workspace.
LEMMA ManagedGood ==
    ASSUME NEW r, Good(r, NoWindow), NEW w \in Windows \ Managed(r), r.life[w] < MaxLives,
           NEW q,
           q = Map([r EXCEPT !.list = <<w>> \o @, !.life[w] = @ + 1, !.workspace[w] = r.current],
                   {w}),
           Sound(q)
    PROVE  Good(q, NoWindow)
<1> DEFINE list == <<w>> \o r.list
           life == [r.life EXCEPT ![w] = r.life[w] + 1]
           workspace == [r.workspace EXCEPT ![w] = r.current]
           p == [r EXCEPT !.list = list, !.life = life, !.workspace = workspace]
<1>1. r \in Screens /\ FocusSound(r) /\ Seen(r) /\ Shown(r, NoWindow) /\ Owned(r, NoWindow)
    BY DEF Good, Sound
<1>2. /\ r.list \in Seq(Windows) /\ r.life \in [Windows -> 0 .. MaxLives]
      /\ r.workspace \in [Windows -> Workspaces] /\ r.current \in Workspaces
    BY <1>1, FieldsAreTyped
<1>3. q = Map(p, {w})
    BY <1>1 DEF Screens
<1>4. list \in Seq(Windows) /\ Range(list) = Managed(r) \cup {w}
    <2>1. IsInjective(r.list) /\ w \notin Range(r.list)
        BY <1>1 DEF FocusSound, Managed
    <2> QED BY <1>2, <2>1, PutFirst DEF Managed
<1>5. life \in [Windows -> 0 .. MaxLives]
    <2>1. r.life[w] \in Nat /\ r.life[w] + 1 \in 0 .. MaxLives
        BY <1>2, WindowManagerAssumption
    <2> QED BY <1>2, <2>1
<1>6. /\ workspace \in [Windows -> Workspaces]
      /\ \A v \in Windows : workspace[v] = IF v = w THEN r.current ELSE r.workspace[v]
    BY <1>2
<1> HIDE DEF list, life, workspace
<1>7. /\ p \in Screens
      /\ Managed(p) = Managed(r) \cup {w}
      /\ p.workspace = workspace /\ p.current = r.current
      /\ p.mapped = r.mapped /\ p.miniaturized = r.miniaturized /\ p.hidden = r.hidden
      /\ p.alive = r.alive /\ p.viewable = r.viewable
      /\ p.apps = r.apps /\ p.bouncing = r.bouncing /\ p.events = r.events
    BY <1>1, <1>4, <1>5, <1>6 DEF Screens, Managed
<1> HIDE DEF p
<1>8. Shown(p, w) /\ Owned(p, NoWindow)
    BY <1>1, <1>7, WindowManagerAssumption, FieldsAreTyped DEF Shown, Owned, Told
<1>9. Maps(q, p, {w})
    BY <1>3, <1>7, MappingIsMapping
<1>10. Shown(q, w) /\ Owned(q, NoWindow)
    BY <1>8, <1>9, MapsGood
<1>11. Shown(q, NoWindow)
    BY <1>9, <1>10 DEF Shown, Maps, Steady
<1>12. Seen(q)
    <2>1. Managed(r) \subseteq Windows
        BY <1>1, FieldsAreTyped
    <2>2. /\ Managed(q) = Managed(r) \cup {w}
          /\ q.workspace = workspace /\ q.current = r.current
          /\ q.mapped = r.mapped \cup {w}
          /\ q.miniaturized = r.miniaturized /\ q.hidden = r.hidden
        BY ONLY <1>7, <1>9 DEF Maps, Steady
    <2>3. Seen(r)
        BY <1>1
    <2>4. ASSUME NEW v \in Managed(r), v # w, q.workspace[v] = q.current
          PROVE  v \in q.mapped \cup q.miniaturized \cup q.hidden
        <3>1. r.workspace[v] = r.current
            BY ONLY <1>6, <2>1, <2>2, <2>4
        <3> QED BY ONLY <2>2, <2>3, <2>4, <3>1 DEF Seen
    <2> QED BY ONLY <2>2, <2>4 DEF Seen
<1> QED BY <1>9, <1>10, <1>11, <1>12 DEF Good, Maps

\* What clients do: a window goes out of sight, or is destroyed, and the queue tells.
LEMMA ClientGood ==
    ASSUME Good(s, NoWindow), NEW alive \in SUBSET s.alive, NEW viewable \in SUBSET s.viewable,
           NEW more \in Seq(Events),
           \A w \in alive : w \in s.viewable => w \in viewable \/
                \E kind \in {"UnmapNotify", "Withdraw"} : Event(kind, w) \in Range(more),
           \A w \in s.alive : w \in alive \/ Event("DestroyNotify", w) \in Range(more)
    PROVE  Good([s EXCEPT !.alive = alive, !.viewable = viewable, !.events = s.events \o more],
                NoWindow)
<1> DEFINE events == s.events \o more
           q == [s EXCEPT !.alive = alive, !.viewable = viewable, !.events = events]
<1>1. s \in Screens /\ Sound(s) /\ Seen(s) /\ Shown(s, NoWindow) /\ Owned(s, NoWindow)
    BY DEF Good
<1>2. alive \in SUBSET Windows /\ viewable \in SUBSET Windows /\ s.events \in Seq(Events)
    BY <1>1, FieldsAreTyped
<1>3. events \in Seq(Events) /\ Range(events) = Range(s.events) \cup Range(more)
    BY <1>2, ConcatProperties, RangeConcatenation
<1> HIDE DEF events
<1>4. Sound(q)
    BY <1>1, <1>2, EventsSound
<1>5. /\ q \in Screens
      /\ Managed(q) = Managed(s)
      /\ q.workspace = s.workspace /\ q.current = s.current
      /\ q.mapped = s.mapped /\ q.miniaturized = s.miniaturized /\ q.hidden = s.hidden
      /\ q.alive = alive /\ q.viewable = viewable
      /\ q.apps = s.apps /\ q.bouncing = s.bouncing /\ q.events = events
    BY <1>1, <1>2, <1>3 DEF Screens, Managed
<1> HIDE DEF q
<1>6. Seen(q)
    BY <1>1, <1>5 DEF Seen
<1>7. Shown(q, NoWindow)
    BY <1>1, <1>3, <1>5 DEF Shown, Told
<1>8. Owned(q, NoWindow)
    BY <1>1, <1>3, <1>5 DEF Owned, Told
<1> QED BY <1>4, <1>5, <1>6, <1>7, <1>8 DEF Good, q, events

\* Events of the user, and MapRequest, tell of nothing that has changed.
LEMMA SendGood ==
    ASSUME Good(s, NoWindow), NEW v \in Events, Send(<<v>>)
    PROVE  Good(s, NoWindow)'
<1>1. <<v>> \in Seq(Events)
    OBVIOUS
<1>2. s' = [s EXCEPT !.alive = s.alive, !.viewable = s.viewable, !.events = s.events \o <<v>>]
    BY DEF Send, Good, Screens
<1> DEFINE more == <<v>>
<1>3. more \in Seq(Events) /\ s' = [s EXCEPT !.alive = s.alive, !.viewable = s.viewable,
                                             !.events = s.events \o more]
    BY <1>1, <1>2
<1> HIDE DEF more
<1>4. Good([s EXCEPT !.alive = s.alive, !.viewable = s.viewable, !.events = s.events \o more],
           NoWindow)
    BY <1>3, ClientGood
<1> QED BY <1>3, <1>4, Zenon

\* The last tick of a bouncing icon.
LEMMA BounceGood ==
    ASSUME Good(s, NoWindow), NEW a \in Windows, BounceEnds(a)
    PROVE  Good(s, NoWindow)'
<1> DEFINE still == [s EXCEPT !.bouncing = @ \ {a}]
<1>1. s' = IF a \in s.alive \/ Event("DestroyNotify", a) \in Range(s.events)
           THEN still ELSE LeaveApplication(still, a)
    BY DEF BounceEnds
<1>2. s \in Screens /\ Sound(s) /\ Seen(s) /\ Shown(s, NoWindow) /\ Owned(s, NoWindow)
    BY DEF Good
<1>3. /\ still \in Screens
      /\ still.list = s.list /\ still.focused = s.focused /\ still.main = s.main
      /\ still.appHidden = s.appHidden
      /\ Managed(still) = Managed(s)
      /\ still.workspace = s.workspace /\ still.current = s.current
      /\ still.mapped = s.mapped /\ still.miniaturized = s.miniaturized
      /\ still.hidden = s.hidden
      /\ still.alive = s.alive /\ still.viewable = s.viewable
      /\ still.apps = s.apps /\ still.bouncing = s.bouncing \ {a}
      /\ still.events = s.events
    BY <1>2 DEF Screens, Managed
<1> HIDE DEF still
<1>4. Sound(still)
    BY <1>2, <1>3, FocusSoundToo DEF Sound, HiddenSound
<1>5. Seen(still) /\ Shown(still, NoWindow) /\ Owned(still, a)
    BY <1>2, <1>3, WindowManagerAssumption, FieldsAreTyped DEF Seen, Shown, Owned, Told
<1>6. CASE a \in s.alive \/ Event("DestroyNotify", a) \in Range(s.events)
    <2>1. Owned(still, NoWindow)
        BY <1>3, <1>5, <1>6 DEF Owned, Told
    <2> QED BY <1>1, <1>3, <1>4, <1>5, <1>6, <2>1 DEF Good
<1>7. CASE ~(a \in s.alive \/ Event("DestroyNotify", a) \in Range(s.events))
    <2>1. s' = LeaveApplication(still, a)
        BY <1>1, <1>7
    <2>2. Good(LeaveApplication(still, a), NoWindow)
        BY <1>3, <1>4, <1>5, LeaveApplicationGood
    <2> QED BY <2>1, <2>2
<1> QED BY <1>6, <1>7

\* handleMapRequest.
LEMMA MapRequestStep ==
    ASSUME WindowsInv, Sound(s)', HandleMapRequest
    PROVE  WindowsInv'
<1> DEFINE w == Next1.win
           a == AppOf(s, w)
           r == JoinApplication(Taken, w)
           q == Map([r EXCEPT !.list = <<w>> \o @, !.life[w] = @ + 1, !.workspace[w] = r.current],
                    {w})
<1>1. Serving /\ Next1.kind = "MapRequest"
    BY DEF HandleMapRequest, Is
<1>2. Good(s, NoWindow) /\ Good(Taken, NoWindow) /\ Managed(Taken) = Managed(s) /\ Next1 \in Events
    BY <1>1, TakenGood DEF WindowsInv
<1>3. w \in Windows
    BY <1>1, <1>2, EventFields DEF Kinds
<1>4. CASE w \notin Managed(s) /\ (w \notin s.alive \/ s.life[w] = MaxLives)
    <2>1. Answer(Taken)
        BY <1>4, WindowManagerAssumption DEF HandleMapRequest
    <2> QED BY <1>1, <1>2, <2>1, AnswerGood
<1>5. CASE w \notin Managed(s) /\ w \in s.alive /\ s.life[w] < MaxLives
    <2>1. Answer(q)
        BY <1>5 DEF HandleMapRequest
    <2>2. /\ Good(r, NoWindow)
          /\ Managed(r) = Managed(Taken)
          /\ r.life = Taken.life
        BY <1>2, <1>3, <1>5, JoinApplicationGood
    <2>3. Taken.life = s.life
        BY <1>2 DEF Taken, Good, Screens
    <2>4. Sound(q)
        BY <2>1 DEF Answer
    <2>5. Good(q, NoWindow)
        <3>1. w \in Windows \ Managed(r) /\ r.life[w] < MaxLives
            BY <1>2, <1>3, <1>5, <2>2, <2>3
        <3> HIDE DEF r, w
        <3> QED BY <2>2, <2>4, <3>1, ManagedGood
    <2> HIDE DEF q
    <2> QED BY <1>1, <2>1, <2>5, AnswerGood
<1>6. CASE w \in Managed(s) \cap s.miniaturized
    <2>1. Wait("deiconify", Deiconified(Taken, w), w, NoWindow)
        BY <1>6 DEF HandleMapRequest
    <2>2. Good(Deiconified(Taken, w), NoWindow)
        BY <1>2, <1>6, DeiconifiedGood
    <2> QED BY <1>1, <1>3, <2>1, <2>2, WaitGood DEF WindowOrNone
<1>7. CASE w \in (Managed(s) \cap s.hidden) \ s.miniaturized
    <2>1. CASE a = NoWindow
        <3>1. Answer(Taken)
            BY <1>7, <2>1 DEF HandleMapRequest
        <3> QED BY <1>1, <1>2, <3>1, AnswerGood
    <2>2. CASE a # NoWindow
        <3>1. GoTo(Taken, s.lastWorkspace[a], a)
            BY <1>7, <2>2 DEF HandleMapRequest
        <3>2. a \in Windows
            BY <1>2, <2>2, FieldsAreTyped DEF AppOf, Good
        <3>3. s.lastWorkspace[a] \in Workspaces
            BY <1>2, <3>2, FieldsAreTyped DEF Good
        <3> QED BY <1>1, <1>2, <3>1, <3>2, <3>3, GoToGood DEF WindowOrNone
    <2> QED BY <2>1, <2>2
<1>8. CASE /\ ~(w \notin Managed(s) /\ (w \notin s.alive \/ s.life[w] = MaxLives))
           /\ ~(w \notin Managed(s) /\ w \in s.alive /\ s.life[w] < MaxLives)
           /\ w \notin Managed(s) \cap s.miniaturized
           /\ w \notin (Managed(s) \cap s.hidden) \ s.miniaturized
    <2>1. Answer(Taken)
        BY <1>8 DEF HandleMapRequest
    <2> QED BY <1>1, <1>2, <2>1, AnswerGood
<1> QED BY <1>4, <1>5, <1>6, <1>7, <1>8

\* handleUnmapNotify.
LEMMA UnmapNotifyStep ==
    ASSUME WindowsInv, HandleUnmapNotify
    PROVE  WindowsInv'
<1> DEFINE w == Next1.win
           destroy == Event("DestroyNotify", w)
           shown == [Taken EXCEPT !.mapped = @ \ {w}]
           late == [shown EXCEPT !.events = Without(shown.events, destroy)]
           ignored == \/ w \notin Managed(s)
                      \/ /\ Next1.kind = "UnmapNotify"
                         /\ w \notin s.mapped \cup s.miniaturized \cup s.hidden
                         /\ s.workspace[w] = s.current
<1>1. Serving /\ Next1.kind \in {"UnmapNotify", "Withdraw"}
    BY DEF HandleUnmapNotify
<1>2. /\ Good(s, NoWindow) /\ Next1 \in Events
      /\ Good(Taken, w) /\ Owned(Taken, NoWindow) /\ Managed(Taken) = Managed(s)
    BY <1>1, TakenGood DEF WindowsInv
<1>3. w \in Windows
    BY <1>1, <1>2, EventFields DEF Kinds
<1>4. Taken.mapped = s.mapped
    BY <1>2 DEF Taken, Good, Screens
<1>5. CASE ignored
    <2>1. Answer(Taken)
        BY <1>5 DEF HandleUnmapNotify
    <2>2. Shown(Taken, NoWindow)
        BY <1>2, <1>4, <1>5 DEF Good, Shown
    <2> QED BY <1>1, <1>2, <2>1, <2>2, AnswerGood DEF Good
<1>6. CASE ~ignored
    <2>1. /\ Taken \in Screens /\ Sound(Taken) /\ FocusSound(Taken)
          /\ Seen(Taken) /\ Shown(Taken, w)
        BY <1>2 DEF Good, Sound
    <2>2. /\ shown \in Screens
          /\ shown.list = Taken.list /\ shown.focused = Taken.focused
          /\ shown.main = Taken.main /\ shown.appHidden = Taken.appHidden
          /\ Managed(shown) = Managed(Taken)
          /\ shown.workspace = Taken.workspace /\ shown.current = Taken.current
          /\ shown.mapped = Taken.mapped \ {w}
          /\ shown.miniaturized = Taken.miniaturized /\ shown.hidden = Taken.hidden
          /\ shown.alive = Taken.alive /\ shown.viewable = Taken.viewable
          /\ shown.apps = Taken.apps /\ shown.bouncing = Taken.bouncing
          /\ shown.events = Taken.events
        BY <2>1 DEF Screens, Managed
    <2> HIDE DEF shown
    <2>3. Sound(shown)
        BY <2>1, <2>2, FocusSoundToo DEF Sound, HiddenSound
    <2>4. SeenElsewhere(shown, w) /\ Shown(shown, NoWindow) /\ Owned(shown, NoWindow)
        BY <1>2, <2>1, <2>2 DEF Seen, SeenElsewhere, Shown, Owned, Told
    <2>5. CASE destroy \in Range(Taken.events)
        <3>1. Answer(Destroyed(late, w))
            <4>1. late = [shown EXCEPT !.events = Without(@, destroy)]
                BY <2>2 DEF Screens
            <4> HIDE DEF late
            <4> QED BY <1>6, <2>5, <4>1 DEF HandleUnmapNotify, shown
        <3> DEFINE events == Without(shown.events, destroy)
        <3>2. events \in Seq(Events) /\ Range(shown.events) \ {destroy} \subseteq Range(events)
            BY <2>2, FieldsAreTyped, WithoutLosesOne
        <3> HIDE DEF events
        <3>3. /\ late \in Screens
              /\ late.list = shown.list /\ late.focused = shown.focused
              /\ late.main = shown.main /\ late.appHidden = shown.appHidden
              /\ Managed(late) = Managed(shown)
              /\ late.workspace = shown.workspace /\ late.current = shown.current
              /\ late.mapped = shown.mapped
              /\ late.miniaturized = shown.miniaturized /\ late.hidden = shown.hidden
              /\ late.alive = shown.alive /\ late.viewable = shown.viewable
              /\ late.apps = shown.apps /\ late.bouncing = shown.bouncing
              /\ late.events = events
            <4>1. late = [shown EXCEPT !.events = events]
                BY DEF events
            <4> HIDE DEF late
            <4> QED BY <2>2, <3>2, <4>1 DEF Screens, Managed
        <3> HIDE DEF late, destroy
        <3>4. Sound(late)
            BY <2>3, <3>3, FocusSoundToo DEF Sound, HiddenSound
        <3>5. SeenElsewhere(late, w)
            BY <2>4, <3>3 DEF SeenElsewhere
        <3>6. Shown(late, w) /\ Owned(late, w)
            BY <2>4, <3>2, <3>3, WindowManagerAssumption, FieldsAreTyped
               DEF Shown, Owned, Told, Event, destroy
        <3>7. Good(Destroyed(late, w), NoWindow)
            BY <1>3, <3>3, <3>4, <3>5, <3>6, DestroyedGood
        <3> QED BY <1>1, <3>1, <3>7, AnswerGood
    <2>6. CASE destroy \notin Range(Taken.events)
        <3>1. Answer(Unmanage(shown, w))
            BY <1>6, <2>6 DEF HandleUnmapNotify, shown
        <3>2. Good(Unmanage(shown, w), NoWindow)
            BY <1>3, <2>2, <2>3, <2>4, UnmanageGood
        <3> QED BY <1>1, <3>1, <3>2, AnswerGood
    <2> QED BY <2>5, <2>6
<1> QED BY <1>5, <1>6

\* The other handlers of events.
LEMMA HandlersStep ==
    ASSUME WindowsInv,
           \/ HandleMapNotify \/ HandleDestroyNotify \/ HandleIconify \/ HandleDeiconify
           \/ HandleWorkspace \/ HandleSend \/ HandleFocus \/ HandleHide \/ HandleUnhide
    PROVE  WindowsInv'
<1> DEFINE w == Next1.win
<1>1. /\ Serving
      /\ Next1.kind \in (Kinds \cup {"Workspace", "Send"}) \ {"UnmapNotify", "Withdraw"}
    BY DEF HandleMapNotify, HandleDestroyNotify, HandleIconify, HandleDeiconify, HandleWorkspace,
           HandleSend, HandleFocus, HandleHide, HandleUnhide, Is, Kinds
<1>2. /\ Good(s, NoWindow) /\ Next1 \in Events /\ Managed(Taken) = Managed(s)
      /\ Next1.kind # "DestroyNotify" => Good(Taken, NoWindow)
    BY <1>1, TakenGood DEF WindowsInv
<1>3. Next1.kind # "Workspace" => w \in Windows
    BY <1>1, <1>2, EventFields
<1>4. CASE HandleMapNotify
    <2>1. w \in Windows /\ Good(Taken, NoWindow)
        BY <1>2, <1>3, <1>4 DEF HandleMapNotify, Is
    <2>2. CASE w \notin Managed(s)
        <3>1. Answer(Taken)
            BY <1>4, <2>2 DEF HandleMapNotify
        <3> QED BY <1>1, <2>1, <3>1, AnswerGood
    <2>3. CASE w \in Managed(s) /\ w \in s.miniaturized
        <3>1. Wait("deiconify", Deiconified(Taken, w), w, NoWindow)
            BY <1>4, <2>3 DEF HandleMapNotify
        <3>2. Good(Deiconified(Taken, w), NoWindow)
            BY <1>2, <2>1, <2>3, DeiconifiedGood
        <3> QED BY <1>1, <2>1, <3>1, <3>2, WaitGood DEF WindowOrNone
    <2>4. CASE w \in Managed(s) /\ w \notin s.miniaturized
        <3>1. Answer(Map(Taken, {w}))
            BY <1>4, <2>4 DEF HandleMapNotify
        <3>2. Good(Map(Taken, {w}), NoWindow)
            BY <2>1, MappingGood
        <3> QED BY <1>1, <3>1, <3>2, AnswerGood
    <2> QED BY <2>2, <2>3, <2>4
<1>5. CASE HandleDestroyNotify
    <2>1. w \in Windows /\ Next1.kind = "DestroyNotify"
        BY <1>3, <1>5 DEF HandleDestroyNotify, Is
    <2>2. Good(Taken, w)
        BY <1>1, <2>1, TakenGood DEF WindowsInv
    <2>3. Good(Destroyed(Taken, w), NoWindow)
        <3>1. SeenElsewhere(Taken, w)
            BY <2>2 DEF Good, Seen, SeenElsewhere
        <3> QED BY <2>1, <2>2, <3>1, DestroyedGood DEF Good
    <2>4. Answer(Destroyed(Taken, w))
        BY <1>5 DEF HandleDestroyNotify
    <2> QED BY <1>1, <2>3, <2>4, AnswerGood
<1>6. CASE HandleIconify
    <2>1. w \in Windows /\ Good(Taken, NoWindow)
        BY <1>2, <1>3, <1>6 DEF HandleIconify, Is
    <2>2. Good(Iconified(Taken, w), NoWindow)
        BY <2>1, IconifiedGood
    <2>3. CASE Answer(Taken)
        BY <1>1, <2>1, <2>3, AnswerGood
    <2>4. CASE Answer(Iconified(Taken, w))
        BY <1>1, <2>2, <2>4, AnswerGood
    <2>5. CASE Wait("iconify", Iconified(Taken, w), w, NoWindow)
        BY <1>1, <2>1, <2>2, <2>5, WaitGood DEF WindowOrNone
    <2> QED BY <1>6, <2>3, <2>4, <2>5 DEF HandleIconify
<1>7. CASE HandleDeiconify
    <2>1. w \in Windows /\ Good(Taken, NoWindow)
        BY <1>2, <1>3, <1>7 DEF HandleDeiconify, Is
    <2>2. CASE w \in Managed(s) \cap s.miniaturized
        <3>1. Wait("deiconify", Deiconified(Taken, w), w, NoWindow)
            BY <1>7, <2>2 DEF HandleDeiconify
        <3>2. Good(Deiconified(Taken, w), NoWindow)
            BY <1>2, <2>1, <2>2, DeiconifiedGood
        <3> QED BY <1>1, <2>1, <3>1, <3>2, WaitGood DEF WindowOrNone
    <2>3. CASE w \notin Managed(s) \cap s.miniaturized
        <3>1. Answer(Taken)
            BY <1>7, <2>3 DEF HandleDeiconify
        <3> QED BY <1>1, <2>1, <3>1, AnswerGood
    <2> QED BY <2>2, <2>3
<1>8. CASE HandleWorkspace
    <2>1. Good(Taken, NoWindow) /\ Next1.to \in Workspaces
        BY <1>2, <1>8, EventFields DEF HandleWorkspace, Is
    <2>2. GoTo(Taken, Next1.to, NoWindow)
        BY <1>8 DEF HandleWorkspace
    <2> QED BY <1>1, <2>1, <2>2, GoToGood DEF WindowOrNone
<1>9. CASE HandleSend
    <2>1. Good(Taken, NoWindow) /\ Next1.to \in Workspaces
        BY <1>2, <1>9, EventFields DEF HandleSend, Is
    <2>2. CASE w \in Managed(s)
        <3>1. Answer(ChangeWorkspace(Taken, w, Next1.to))
            BY <1>9, <2>2 DEF HandleSend
        <3>2. Good(ChangeWorkspace(Taken, w, Next1.to), NoWindow)
            BY <1>2, <2>1, <2>2, ChangeWorkspaceGood
        <3> QED BY <1>1, <3>1, <3>2, AnswerGood
    <2>3. CASE w \notin Managed(s)
        <3>1. Answer(Taken)
            BY <1>9, <2>3 DEF HandleSend
        <3> QED BY <1>1, <2>1, <3>1, AnswerGood
    <2> QED BY <2>2, <2>3
<1>10. CASE HandleFocus
    <2>1. Good(Taken, NoWindow)
        BY <1>2, <1>10 DEF HandleFocus, Is
    <2>2. CASE w \in Managed(s) \cap s.mapped
        <3>1. Answer(SetFocusTo(Taken, w))
            BY <1>10, <2>2 DEF HandleFocus
        <3>2. Good(SetFocusTo(Taken, w), NoWindow)
            BY <1>2, <2>1, <2>2, SetFocusToGood
        <3> QED BY <1>1, <3>1, <3>2, AnswerGood
    <2>3. CASE w \notin Managed(s) \cap s.mapped
        <3>1. Answer(Taken)
            BY <1>10, <2>3 DEF HandleFocus
        <3> QED BY <1>1, <2>1, <3>1, AnswerGood
    <2> QED BY <2>2, <2>3
<1>11. CASE HandleHide
    <2>1. w \in Windows /\ Good(Taken, NoWindow)
        BY <1>2, <1>3, <1>11 DEF HandleHide, Is
    <2>2. Good(HideApplication(Taken, w), NoWindow)
        BY <2>1, HideApplicationGood
    <2>3. Answer(HideApplication(Taken, w)) \/ Answer(Taken)
        BY <1>11 DEF HandleHide
    <2> QED BY <1>1, <2>1, <2>2, <2>3, AnswerGood
<1>12. CASE HandleUnhide
    <2>1. w \in Windows /\ Good(Taken, NoWindow)
        BY <1>1, <1>2, <1>3, <1>12 DEF HandleUnhide
    <2> DEFINE here == Next1.kind = "UnhideHere"
               last == LastFocused(s, w)
               q == UnhideApplication(Taken, w, here, last)
    <2>2. here \in BOOLEAN
        OBVIOUS
    <2>3. last \in Managed(Taken) \cup {NoWindow}
        BY <1>2, LastFocusedManaged
    <2>4. Answer(q) \/ Answer(Taken)
        <3> HIDE DEF last
        <3> QED BY <1>12, Zenon DEF HandleUnhide, last
    <2> HIDE DEF here, last
    <2>5. Good(q, NoWindow)
        BY <2>1, <2>2, <2>3, UnhideApplicationGood
    <2> HIDE DEF q
    <2> QED BY <1>1, <2>1, <2>4, <2>5, AnswerGood
<1> QED BY <1>4, <1>5, <1>6, <1>7, <1>8, <1>9, <1>10, <1>11, <1>12

\* A handler that waited goes on.
LEMMA ResumeStep ==
    ASSUME WindowsInv, ResumeWorkspace \/ ResumeIconify
    PROVE  WindowsInv'
<1>1. Good(s, NoWindow) /\ calls \in Seq(Handlers) /\ calls # <<>>
    BY DEF WindowsInv, ResumeWorkspace, ResumeIconify, Resumes, Idle
<1>2. Tail(calls) \in Seq(Handlers)
    BY <1>1, HeadTailProperties
<1>3. CASE ResumeIconify
    BY <1>2, <1>3 DEF ResumeIconify, WindowsInv
<1>4. CASE ResumeWorkspace
    <2> DEFINE a == calls[1].then
               foc == IF Valid(s, calls[1].on) THEN calls[1].on.win
                      ELSE IF Focused(s) \in s.mapped THEN Focused(s) ELSE NoWindow
               free == [s EXCEPT !.ignoreFocus = FALSE]
               r == SetFocusTo(free, foc)
               u == UnhideApplication(r, a, FALSE, LastFocused(r, a))
    <2>1. /\ s.list # <<>> /\ a \in s.apps \cup {NoWindow}
          /\ calls' = Tail(calls) /\ UNCHANGED <<done, crashed>>
        BY <1>4 DEF ResumeWorkspace
    <2>2. s' = IF a = NoWindow THEN r ELSE u
        BY <1>4, Zenon DEF ResumeWorkspace
    <2>3. s \in Screens /\ FocusSound(s) /\ Sound(s)
        BY <1>1 DEF Good, Sound
    <2>4. /\ free \in Screens /\ free.list = s.list /\ free.focused = s.focused
          /\ Managed(free) = Managed(s) /\ Refocuses(free, s)
        BY <2>3 DEF Screens, Refocuses, Steady, Managed
    <2>5. Keeps(free, s)
        BY <2>3, IgnoreFocusKeeps, Zenon
    <2>6. foc \in Managed(s) \cup {NoWindow}
        <3>1. Focused(s) \in Managed(s)
            BY <2>1, <2>3, EmptySeq DEF Focused, Last, Managed, Range, Screens
        <3> QED BY <3>1 DEF Valid
    <2> HIDE DEF free, foc
    <2>7. Good(free, NoWindow)
        <3>1. Sound(free)
            BY <2>3, <2>5, KeepsSound
        <3>2. Seen(free) /\ Shown(free, NoWindow) /\ Owned(free, NoWindow)
            BY <1>1, <2>4, RefocusesGood DEF Good
        <3> QED BY <2>4, <3>1, <3>2 DEF Good
    <2>8. Good(r, NoWindow)
        BY <2>4, <2>6, <2>7, SetFocusToGood
    <2> HIDE DEF r
    <2>9. a # NoWindow => Good(u, NoWindow)
        <3> SUFFICES ASSUME a # NoWindow PROVE Good(u, NoWindow)
            OBVIOUS
        <3>1. a \in Windows
            BY <2>1, <2>3, FieldsAreTyped
        <3> HIDE DEF a
        <3> QED BY <2>8, <3>1, UnhiddenGood
    <2> HIDE DEF u
    <2>10. Good(s, NoWindow)'
        <3>1. CASE a = NoWindow
            BY <2>2, <2>8, <3>1
        <3>2. CASE a # NoWindow
            BY <2>2, <2>9, <3>2
        <3> QED BY <3>1, <3>2
    <2> QED BY <1>2, <2>1, <2>10 DEF WindowsInv
<1> QED BY <1>3, <1>4

\* Users and clients.
LEMMA ClientsStep ==
    ASSUME WindowsInv, NEW w \in Windows, ClientMaps(w) \/ ClientWithdraws(w) \/ ClientDestroys(w)
    PROVE  WindowsInv'
<1>1. /\ Good(s, NoWindow) /\ done' \in 0 .. MaxEvents /\ calls' = calls /\ crashed' = crashed
    BY WindowManagerAssumption DEF WindowsInv, Acts, ClientMaps, ClientWithdraws, ClientDestroys
<1> DEFINE unmap == IF w \in s.viewable THEN <<Event("UnmapNotify", w)>> ELSE <<>>
<1>2. /\ Event("MapRequest", w) \in Events /\ Event("UnmapNotify", w) \in Events
      /\ Event("Withdraw", w) \in Events /\ Event("DestroyNotify", w) \in Events
    BY EventIsTyped DEF Kinds
<1>3. ASSUME NEW v \in Events
      PROVE  /\ unmap \o <<v>> \in Seq(Events)
             /\ v \in Range(unmap \o <<v>>)
             /\ w \in s.viewable => Event("UnmapNotify", w) \in Range(unmap \o <<v>>)
    <2>1. unmap \in Seq(Events) /\ <<v>> \in Seq(Events)
        BY <1>2
    <2>2. w \in s.viewable => Event("UnmapNotify", w) \in Range(unmap)
        BY DEF Range
    <2>3. v \in Range(<<v>>)
        BY DEF Range
    <2> HIDE DEF unmap
    <2> DEFINE last == <<v>>
    <2>4. last \in Seq(Events) /\ v \in Range(last)
        BY <2>1, <2>3
    <2> HIDE DEF last
    <2>5. unmap \o last \in Seq(Events) /\ Range(unmap \o last) = Range(unmap) \cup Range(last)
        BY <2>1, <2>4, ConcatProperties, RangeConcatenation
    <2> QED BY <2>2, <2>4, <2>5 DEF last
<1>4. s \in Screens /\ s.events \in Seq(Events)
    BY <1>1, FieldsAreTyped DEF Good
<1>5. CASE ClientMaps(w)
    BY <1>1, <1>2, <1>5, SendGood DEF ClientMaps, WindowsInv
<1>6. CASE ClientWithdraws(w)
    <2> DEFINE more == unmap \o <<Event("Withdraw", w)>>
               viewable == s.viewable \ {w}
    <2>1. /\ more \in Seq(Events)
          /\ Event("Withdraw", w) \in Range(more)
        BY <1>2, <1>3
    <2>2. s' = [s EXCEPT !.alive = s.alive, !.viewable = viewable, !.events = s.events \o more]
        <3>1. s' = [s EXCEPT !.viewable = @ \ {w},
                             !.events = @ \o unmap \o <<Event("Withdraw", w)>>]
            BY <1>6 DEF ClientWithdraws
        <3> DEFINE last == <<Event("Withdraw", w)>>
        <3>2. unmap \in Seq(Events) /\ last \in Seq(Events)
            BY <1>2
        <3> DEFINE old == s.events
        <3>3. old \in Seq(Events)
            BY <1>4
        <3> HIDE DEF unmap, last, old
        <3>4. (old \o unmap) \o last = old \o (unmap \o last)
            BY ONLY <3>2, <3>3, ConcatAssociative
        <3>5. s.events \o unmap \o <<Event("Withdraw", w)>> = s.events \o more
            BY <3>4 DEF last, old
        <3> HIDE DEF more
        <3> QED BY <1>4, <3>1, <3>5 DEF Screens
    <2>3. viewable \in SUBSET s.viewable
        OBVIOUS
    <2> DEFINE q == [s EXCEPT !.alive = s.alive, !.viewable = viewable,
                              !.events = s.events \o more]
    <2>4. \A v \in s.alive : v \in s.viewable => v \in viewable \/
                \E kind \in {"UnmapNotify", "Withdraw"} : Event(kind, v) \in Range(more)
        BY <2>1
    <2> HIDE DEF more, viewable
    <2>5. Good(q, NoWindow)
        BY <1>1, <2>1, <2>3, <2>4, ClientGood
    <2> HIDE DEF q
    <2>6. s' = q
        BY <2>2 DEF q
    <2> QED BY <1>1, <2>5, <2>6 DEF WindowsInv
<1>7. CASE ClientDestroys(w)
    <2> DEFINE more == unmap \o <<Event("DestroyNotify", w)>>
               viewable == s.viewable \ {w}
               alive == s.alive \ {w}
    <2>1. /\ more \in Seq(Events)
          /\ Event("DestroyNotify", w) \in Range(more)
        BY <1>2, <1>3
    <2>2. s' = [s EXCEPT !.alive = alive, !.viewable = viewable, !.events = s.events \o more]
        <3>1. s' = [s EXCEPT !.alive = @ \ {w}, !.viewable = @ \ {w},
                             !.events = @ \o unmap \o <<Event("DestroyNotify", w)>>]
            BY <1>7 DEF ClientDestroys
        <3> DEFINE last == <<Event("DestroyNotify", w)>>
        <3>2. unmap \in Seq(Events) /\ last \in Seq(Events)
            BY <1>2
        <3> DEFINE old == s.events
        <3>3. old \in Seq(Events)
            BY <1>4
        <3> HIDE DEF unmap, last, old
        <3>4. (old \o unmap) \o last = old \o (unmap \o last)
            BY ONLY <3>2, <3>3, ConcatAssociative
        <3>5. s.events \o unmap \o <<Event("DestroyNotify", w)>> = s.events \o more
            BY <3>4 DEF last, old
        <3> HIDE DEF more
        <3> QED BY <1>4, <3>1, <3>5 DEF Screens
    <2>3. viewable \in SUBSET s.viewable /\ alive \in SUBSET s.alive
        OBVIOUS
    <2> DEFINE q == [s EXCEPT !.alive = alive, !.viewable = viewable,
                              !.events = s.events \o more]
    <2>4. /\ \A v \in alive : v \in s.viewable => v \in viewable \/
                \E kind \in {"UnmapNotify", "Withdraw"} : Event(kind, v) \in Range(more)
          /\ \A v \in s.alive : v \in alive \/ Event("DestroyNotify", v) \in Range(more)
        BY <2>1
    <2> HIDE DEF more, viewable, alive
    <2>5. Good(q, NoWindow)
        BY <1>1, <2>1, <2>3, <2>4, ClientGood
    <2> HIDE DEF q
    <2>6. s' = q
        BY <2>2 DEF q
    <2> QED BY <1>1, <2>5, <2>6 DEF WindowsInv
<1> QED BY <1>5, <1>6, <1>7

\* Keys and clicks.
LEMMA UserStep ==
    ASSUME WindowsInv, User
    PROVE  WindowsInv'
<1>1. /\ Good(s, NoWindow) /\ done' \in 0 .. MaxEvents /\ calls' = calls /\ crashed' = crashed
    BY WindowManagerAssumption DEF WindowsInv, Acts, User
<1>2. Managed(s) \subseteq Windows /\ s.apps \subseteq Windows
    BY <1>1, FieldsAreTyped DEF Good
<1>3. PICK v \in Events : Send(<<v>>)
    <2>1. \A w \in Windows : /\ Event("Iconify", w) \in Events /\ Event("Focus", w) \in Events
                             /\ Event("Deiconify", w) \in Events /\ Event("Hide", w) \in Events
                             /\ Event("Unhide", w) \in Events /\ Event("UnhideHere", w) \in Events
        BY EventIsTyped DEF Kinds
    <2>2. \A n \in Workspaces : [kind |-> "Workspace", to |-> n] \in Events
        BY DEF Events
    <2>3. \A w \in Windows, n \in Workspaces : [kind |-> "Send", win |-> w, to |-> n] \in Events
        BY DEF Events
    <2>4. \/ \E w \in Managed(s), kind \in {"Iconify", "Focus"} : Send(<<Event(kind, w)>>)
          \/ \E w \in Managed(s) \cap s.miniaturized : Send(<<Event("Deiconify", w)>>)
          \/ \E a \in s.apps, kind \in {"Hide", "Unhide", "UnhideHere"} : Send(<<Event(kind, a)>>)
          \/ \E n \in Workspaces : Send(<<[kind |-> "Workspace", to |-> n]>>)
          \/ \E w \in Managed(s), n \in Workspaces : Send(<<[kind |-> "Send", win |-> w, to |-> n]>>)
        BY DEF User
    <2> QED BY <1>2, <2>1, <2>2, <2>3, <2>4
<1> QED BY <1>1, <1>3, SendGood DEF WindowsInv

\* The inductive step.
LEMMA WindowsStep ==
    ASSUME WindowsInv, [Next]_vars
    PROVE  WindowsInv'
<1>1. Sound(s)'
    <2>1. Sound(s) /\ s.alive \subseteq Windows
        BY FieldsAreTyped DEF WindowsInv, Good
    <2> QED BY <2>1, SoundStep
<1>2. CASE HandleMapRequest
    BY <1>1, <1>2, MapRequestStep
<1>3. CASE HandleUnmapNotify
    BY <1>3, UnmapNotifyStep
<1>4. CASE \/ HandleMapNotify \/ HandleDestroyNotify \/ HandleIconify \/ HandleDeiconify
           \/ HandleWorkspace \/ HandleSend \/ HandleFocus \/ HandleHide \/ HandleUnhide
    BY <1>4, HandlersStep
<1>5. CASE \/ LastFocusedIsGone \/ FocusedWindowIsGone \/ ApplicationIsGone \/ WindowIsGone
    BY <1>5 DEF WindowsInv, LastFocusedIsGone, FocusedWindowIsGone, ApplicationIsGone,
                WindowIsGone, Crash
<1>6. CASE ResumeWorkspace \/ ResumeIconify
    BY <1>6, ResumeStep
<1>7. CASE User
    BY <1>7, UserStep
<1>8. CASE Client
    BY <1>8, ClientsStep DEF Client
<1>9. CASE \E a \in Windows : BounceEnds(a)
    <2>1. Good(s, NoWindow)'
        BY <1>9, BounceGood DEF WindowsInv
    <2> QED BY <1>9, <2>1 DEF WindowsInv, BounceEnds
<1>10. CASE UNCHANGED vars
    BY <1>10 DEF WindowsInv, vars
<1> QED BY <1>2, <1>3, <1>4, <1>5, <1>6, <1>7, <1>8, <1>9, <1>10 DEF Next, Handle, Resume

\* manageAllWindows: every window is mapped, and every leader is there.
LEMMA WindowsInit ==
    ASSUME Init
    PROVE  WindowsInv
<1>1. PICK list \in SetToSeqs(Initial) :
        s = [alive |-> Windows, viewable |-> Initial, events |-> <<>>, list |-> list,
             life |-> [w \in Windows |-> IF w \in Initial THEN 1 ELSE 0],
             workspace |-> [w \in Windows |-> 0],
             mapped |-> Initial, miniaturized |-> {}, hidden |-> {},
             focused |-> IF list = <<>> THEN {} ELSE {Last(list)},
             main |-> [w \in Windows |-> IF w \in Initial THEN LeaderOf[w] ELSE NoWindow],
             apps |-> {LeaderOf[w] : w \in Initial}, appHidden |-> {}, bouncing |-> {},
             lastFocused |-> [w \in Windows |-> Nobody],
             lastWorkspace |-> [w \in Windows |-> 0],
             current |-> 0, ignoreFocus |-> FALSE]
    BY DEF Init
<1>2. Sound(s)
    BY SoundInit
<1>3. s.list = list
    BY <1>1
<1>4. Managed(s) \subseteq Initial
    <2>1. list \in [1 .. Cardinality(Initial) -> Initial]
        BY DEF SetToSeqs
    <2> QED BY <1>3, <2>1 DEF Managed, Range
<1>5. s \in Screens
    <2> DEFINE life == [w \in Windows |-> IF w \in Initial THEN 1 ELSE 0]
               main == [w \in Windows |-> IF w \in Initial THEN LeaderOf[w] ELSE NoWindow]
               apps == {LeaderOf[w] : w \in Initial}
               none == [w \in Windows |-> Nobody]
    <2>1. main \in [Windows -> WindowOrNone] /\ apps \subseteq Windows
        BY WindowManagerAssumption DEF WindowOrNone
    <2>2. life \in [Windows -> 0 .. MaxLives]
        BY WindowManagerAssumption
    <2>3. none \in [Windows -> Pointers]
        BY WindowManagerAssumption DEF Nobody, Pointers, WindowOrNone
    <2>4. list \in Seq(Windows) /\ s.focused \subseteq Windows
        BY <1>2, <1>3 DEF Sound, FocusSound, ScreenFields
    <2>5. <<>> \in Seq(Events)
        OBVIOUS
    <2> DEFINE focused == s.focused
    <2>6. /\ life \in [Windows -> 0 .. MaxLives] /\ main \in [Windows -> WindowOrNone]
          /\ apps \in SUBSET Windows /\ none \in [Windows -> Pointers]
          /\ focused \in SUBSET Windows /\ focused = IF list = <<>> THEN {} ELSE {Last(list)}
        BY <1>1, <2>1, <2>2, <2>3, <2>4
    <2>7. s = [alive |-> Windows, viewable |-> Initial, events |-> <<>>, list |-> list,
             life |-> life, workspace |-> [w \in Windows |-> 0],
             mapped |-> Initial, miniaturized |-> {}, hidden |-> {},
             focused |-> focused, main |-> main,
             apps |-> apps, appHidden |-> {}, bouncing |-> {},
             lastFocused |-> none,
             lastWorkspace |-> [w \in Windows |-> 0],
             current |-> 0, ignoreFocus |-> FALSE]
        BY <1>1, <2>6, Zenon
    <2> HIDE DEF life, main, apps, none, focused
    <2> QED BY <2>4, <2>5, <2>6, <2>7, WindowManagerAssumption DEF Screens
<1>6. Seen(s) /\ Shown(s, NoWindow) /\ Owned(s, NoWindow)
    BY <1>1, <1>4, WindowManagerAssumption DEF Seen, Shown, Owned
<1> QED BY <1>2, <1>5, <1>6, WindowManagerAssumption DEF WindowsInv, Good, Init

\* Every screen that the window manager shows is good: what is not so yet, the
\* queue tells, also while handlers wait in ProcessPendingEvents.
THEOREM EveryScreenIsGood == Spec => []WindowsInv
<1>1. Init => WindowsInv
    BY WindowsInit
<1>2. WindowsInv /\ [Next]_vars => WindowsInv'
    BY WindowsStep
<1> QED BY <1>1, <1>2, PTL DEF Spec

\* Screens, and the handlers that wait, are of their types: the events that
\* XMapWindow adds and the events left to a handler included.
THEOREM TypesAreKept == Spec => []TypeOK
<1>1. WindowsInv => TypeOK
    BY DEF WindowsInv, Good, TypeOK
<1> QED BY <1>1, EveryScreenIsGood, PTL

\* When all events are handled, a window of the current workspace that is neither
\* miniaturized nor hidden can be seen (wWorkspaceForceChange, wIconifyWindow,
\* wDeiconifyWindow, wUnhideApplication and wManageWindow within each other).
THEOREM NoWindowIsLostEver == Spec => []NoWindowIsLost
<1>1. WindowsInv => NoWindowIsLost
    <2> SUFFICES ASSUME WindowsInv, AtRest, NEW w \in Managed(s) \cap s.alive,
                        s.workspace[w] = s.current
                 PROVE  w \in s.viewable \cup s.miniaturized \cup s.hidden
        BY DEF NoWindowIsLost
    <2>1. Seen(s) /\ Shown(s, NoWindow) /\ s \in Screens
        BY DEF WindowsInv, Good
    <2>2. Range(s.events) = {}
        BY DEF AtRest, Range
    <2>3. w # NoWindow
        BY <2>1, FieldsAreTyped, WindowManagerAssumption
    <2>4. w \in s.mapped => w \in s.viewable
        BY <2>1, <2>2, <2>3 DEF Shown, Told
    <2> QED BY <2>1, <2>4 DEF Seen
<1> QED BY <1>1, EveryScreenIsGood, PTL

\* When all events are handled, an application has its leader, or its icon
\* bounces still (handleDestroyNotify, doAppBounce).
THEOREM NoOrphanEver == Spec => []NoOrphan
<1>1. WindowsInv => NoOrphan
    <2> SUFFICES ASSUME WindowsInv, AtRest, NEW a \in s.apps
                 PROVE  a \in s.alive \cup s.bouncing
        BY DEF NoOrphan
    <2>1. Owned(s, NoWindow) /\ s \in Screens
        BY DEF WindowsInv, Good
    <2>2. Range(s.events) = {}
        BY DEF AtRest, Range
    <2>3. a # NoWindow
        BY <2>1, FieldsAreTyped, WindowManagerAssumption
    <2> QED BY <2>1, <2>2, <2>3 DEF Owned, Told
<1> QED BY <1>1, EveryScreenIsGood, PTL

=============================================================================
