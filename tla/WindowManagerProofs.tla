------------------------- MODULE WindowManagerProofs -------------------------
(***************************************************************************)
(* Proofs about WindowManager: for any windows, applications, workspaces   *)
(* and bounds, the focus list and the windows of hidden applications stay  *)
(* as they should.                                                         *)
(*                                                                         *)
(* Handlers build the next screen from the operators of the component, so  *)
(* there is one lemma for each: what it does to a sound screen is one.     *)
(* Only then come the actions, one step each.                              *)
(***************************************************************************)
EXTENDS WindowManager, FiniteSetTheorems, SequenceTheorems, TLAPS

-----------------------------------------------------------------------------
(* Lists without repetition. *)

\* Taking a window out of a list.
LEMMA WithoutList ==
    ASSUME NEW W, NEW q \in Seq(W), IsInjective(q), NEW w
    PROVE  /\ Without(q, w) \in Seq(W)
           /\ IsInjective(Without(q, w))
           /\ Range(Without(q, w)) = Range(q) \ {w}
           /\ q # <<>> /\ w # Last(q) => Without(q, w) # <<>> /\ Last(Without(q, w)) = Last(q)
<1>1. CASE w \notin Range(q)
    BY <1>1 DEF Without
<1>2. CASE w \in Range(q)
    <2>1. PICK k \in 1 .. Len(q) : k = (CHOOSE i \in DOMAIN q : q[i] = w) /\ q[k] = w
        BY <1>2 DEF Range
    <2> DEFINE p == RemoveAt(q, k)
    <2>2. Without(q, w) = p
        BY <1>2, <2>1 DEF Without
    <2>3. /\ p \in Seq(W)
          /\ Len(p) = Len(q) - 1
          /\ \A i \in 1 .. Len(p) : p[i] = IF i < k THEN q[i] ELSE q[i + 1]
        <3>1. /\ Len(q) \in Nat
              /\ SubSeq(q, 1, k - 1) \in Seq(W)
              /\ SubSeq(q, k + 1, Len(q)) \in Seq(W)
              /\ Len(SubSeq(q, 1, k - 1)) = k - 1
              /\ Len(SubSeq(q, k + 1, Len(q))) = Len(q) - k
              /\ \A i \in 1 .. k - 1 : SubSeq(q, 1, k - 1)[i] = q[i]
              /\ \A i \in 1 .. Len(q) - k : SubSeq(q, k + 1, Len(q))[i] = q[k + i]
            BY SubSeqProperties
        <3> DEFINE a == SubSeq(q, 1, k - 1)
                   b == SubSeq(q, k + 1, Len(q))
        <3>2. p = a \o b
            BY DEF RemoveAt
        <3> HIDE DEF a, b, p
        <3>3. /\ a \o b \in Seq(W)
              /\ Len(a \o b) = Len(a) + Len(b)
              /\ \A i \in 1 .. Len(a) + Len(b) :
                    (a \o b)[i] = IF i <= Len(a) THEN a[i] ELSE b[i - Len(a)]
            BY <3>1, ConcatProperties DEF a, b
        <3>4. /\ Len(q) \in Nat
              /\ Len(a) = k - 1 /\ Len(b) = Len(q) - k
              /\ \A i \in 1 .. k - 1 : a[i] = q[i]
              /\ \A i \in 1 .. Len(q) - k : b[i] = q[k + i]
            BY <3>1 DEF a, b
        <3>5. ASSUME NEW i \in 1 .. Len(p), i >= k PROVE p[i] = q[i + 1]
            <4>1. i - (k - 1) \in 1 .. Len(q) - k /\ ~(i <= Len(a)) /\ i \in 1 .. Len(a) + Len(b)
                BY <3>2, <3>3, <3>4, <3>5
            <4>2. p[i] = b[i - (k - 1)] /\ b[i - (k - 1)] = q[k + (i - (k - 1))]
                BY <4>1, <3>2, <3>3, <3>4
            <4> QED BY <4>2
        <3>6. ASSUME NEW i \in 1 .. Len(p), i < k PROVE p[i] = q[i]
            <4>1. i \in 1 .. k - 1 /\ i <= Len(a) /\ i \in 1 .. Len(a) + Len(b)
                BY <3>2, <3>3, <3>4, <3>6
            <4> QED BY <4>1, <3>2, <3>3, <3>4
        <3> QED BY <3>2, <3>3, <3>4, <3>5, <3>6
    <2> HIDE DEF p
    <2>4. \A i, j \in 1 .. Len(q) : q[i] = q[j] => i = j
        BY DEF IsInjective
    <2>5. IsInjective(p)
        BY <2>3, <2>4 DEF IsInjective
    <2>6. \A i \in 1 .. Len(p) : p[i] \in Range(q) \ {w}
        <3> SUFFICES ASSUME NEW i \in 1 .. Len(p) PROVE p[i] \in Range(q) \ {w}
            OBVIOUS
        <3>1. CASE i < k
            BY <3>1, <2>1, <2>3, <2>4 DEF Range
        <3>2. CASE i >= k
            <4>1. i + 1 \in 1 .. Len(q) /\ i + 1 # k /\ p[i] = q[i + 1]
                BY <3>2, <2>3
            <4> QED BY <4>1, <2>1, <2>4 DEF Range
        <3> QED BY <3>1, <3>2
    <2>7. \A i \in 1 .. Len(q) : i # k => q[i] \in Range(p)
        <3> SUFFICES ASSUME NEW i \in 1 .. Len(q), i # k PROVE q[i] \in Range(p)
            OBVIOUS
        <3>1. CASE i < k
            BY <3>1, <2>3 DEF Range
        <3>2. CASE i > k
            <4>1. i - 1 \in 1 .. Len(p) /\ p[i - 1] = q[i]
                BY <3>2, <2>3
            <4> QED BY <4>1, <2>3 DEF Range
        <3> QED BY <3>1, <3>2
    <2>8. Range(p) = Range(q) \ {w}
        BY <2>1, <2>3, <2>6, <2>7 DEF Range
    <2>9. ASSUME q # <<>>, w # Last(q) PROVE p # <<>> /\ Last(p) = Last(q)
        <3>1. Len(q) \in Nat /\ Len(q) > 0
            BY <2>9, EmptySeq
        <3>2. k < Len(q)
            BY <2>1, <2>9, <3>1 DEF Last
        <3>3. Len(p) \in 1 .. Len(p) /\ p[Len(p)] = q[Len(q)]
            BY <2>3, <3>1, <3>2
        <3> QED BY <2>3, <3>3, EmptySeq DEF Last
    <2> QED BY <2>2, <2>3, <2>5, <2>8, <2>9
<1> QED BY <1>1, <1>2

\* A list with another element at its end.
LEMMA AppendList ==
    ASSUME NEW W, NEW q \in Seq(W), IsInjective(q), NEW w \in W, w \notin Range(q)
    PROVE  /\ Append(q, w) \in Seq(W)
           /\ IsInjective(Append(q, w))
           /\ Range(Append(q, w)) = Range(q) \cup {w}
           /\ Append(q, w) # <<>>
           /\ Last(Append(q, w)) = w
<1> DEFINE p == Append(q, w)
<1>1. /\ p \in Seq(W)
      /\ Len(q) \in Nat
      /\ Len(p) = Len(q) + 1
      /\ \A i \in 1 .. Len(q) : p[i] = q[i]
      /\ p[Len(p)] = w
    BY AppendProperties
<1>2. DOMAIN q = 1 .. Len(q) /\ DOMAIN p = 1 .. Len(q) + 1
    BY <1>1
<1> HIDE DEF p
<1>3. IsInjective(p)
    BY <1>1, <1>2 DEF IsInjective, Range
<1>4. Range(p) = Range(q) \cup {w}
    BY <1>1, <1>2 DEF Range
<1>5. p # <<>> /\ Last(p) = w
    BY <1>1, EmptySeq DEF Last
<1> QED BY <1>1, <1>3, <1>4, <1>5 DEF p

\* A list with another element in front.
LEMMA PutFirst ==
    ASSUME NEW W, NEW q \in Seq(W), IsInjective(q), NEW w \in W, w \notin Range(q)
    PROVE  /\ <<w>> \o q \in Seq(W)
           /\ IsInjective(<<w>> \o q)
           /\ Range(<<w>> \o q) = Range(q) \cup {w}
           /\ q # <<>> => Last(<<w>> \o q) = Last(q)
<1> DEFINE p == <<w>> \o q
<1>1. /\ Len(q) \in Nat
      /\ <<w>> \in Seq(W) /\ Len(<<w>>) = 1 /\ <<w>>[1] = w
    OBVIOUS
<1>2. /\ p \in Seq(W)
      /\ Len(p) = Len(q) + 1
      /\ p[1] = w
      /\ \A i \in 2 .. Len(q) + 1 : p[i] = q[i - 1]
    <2>1. /\ p \in Seq(W)
          /\ Len(p) = Len(<<w>>) + Len(q)
          /\ \A i \in 1 .. Len(<<w>>) + Len(q) :
                p[i] = IF i <= Len(<<w>>) THEN <<w>>[i] ELSE q[i - Len(<<w>>)]
        BY <1>1, ConcatProperties
    <2> HIDE DEF p
    <2> QED BY <1>1, <2>1
<1> HIDE DEF p
<1>3. DOMAIN q = 1 .. Len(q) /\ DOMAIN p = 1 .. Len(q) + 1
    BY <1>1, <1>2
<1>4. \A i \in 1 .. Len(q) : q[i] # w
    BY <1>3 DEF Range
<1>5. IsInjective(p)
    <2> SUFFICES ASSUME NEW i \in 1 .. Len(q) + 1, NEW j \in 1 .. Len(q) + 1, i < j
                 PROVE  p[i] # p[j]
        BY <1>3 DEF IsInjective
    <2>1. j - 1 \in 1 .. Len(q) /\ j \in 2 .. Len(q) + 1 /\ p[j] = q[j - 1]
        BY <1>1, <1>2
    <2>2. CASE i = 1
        BY <2>1, <2>2, <1>2, <1>4
    <2>3. CASE i # 1
        <3>1. i - 1 \in 1 .. Len(q) /\ p[i] = q[i - 1] /\ i - 1 # j - 1
            BY <2>3, <1>1, <1>2
        <3> QED BY <2>1, <3>1, <1>3 DEF IsInjective
    <2> QED BY <2>2, <2>3
<1>6. Range(p) = Range(q) \cup {w}
    <2>1. ASSUME NEW i \in DOMAIN p PROVE p[i] \in Range(q) \cup {w}
        <3>1. CASE i = 1
            BY <1>2, <3>1
        <3>2. CASE i # 1
            <4>1. i - 1 \in DOMAIN q /\ p[i] = q[i - 1]
                BY <1>1, <1>2, <1>3, <3>2
            <4> QED BY <4>1 DEF Range
        <3> QED BY <3>1, <3>2
    <2>2. w \in Range(p)
        <3>1. 1 \in DOMAIN p
            BY <1>1, <1>3
        <3> QED BY <1>2, <3>1 DEF Range
    <2>3. ASSUME NEW i \in DOMAIN q PROVE q[i] \in Range(p)
        <3>1. i + 1 \in DOMAIN p /\ p[i + 1] = q[i]
            BY <1>1, <1>2, <1>3
        <3> QED BY <3>1 DEF Range
    <2> QED BY <2>1, <2>2, <2>3 DEF Range
<1>7. q # <<>> => Last(p) = Last(q)
    BY <1>1, <1>2, EmptySeq DEF Last
<1> QED BY <1>2, <1>5, <1>6, <1>7 DEF p

-----------------------------------------------------------------------------
(* Sound screens. *)

\* The fields that the proof needs to know the type of have it.
ScreenFields(r) ==
    [alive : SUBSET Windows, viewable : {r.viewable}, events : {r.events},
     list : Seq(Windows), life : {r.life}, workspace : {r.workspace},
     mapped : {r.mapped}, miniaturized : {r.miniaturized}, hidden : SUBSET Windows,
     focused : SUBSET Windows, main : [Windows -> WindowOrNone],
     apps : SUBSET Windows, appHidden : {r.appHidden}, bouncing : {r.bouncing},
     lastFocused : {r.lastFocused}, lastWorkspace : {r.lastWorkspace},
     current : {r.current}, ignoreFocus : {r.ignoreFocus}]

FocusSound(r) ==
    /\ r \in ScreenFields(r)
    /\ IsInjective(r.list)
    /\ r.focused \subseteq {Focused(r)}

\* A hidden window belongs to an application that is marked as hidden, or to
\* none any more.
HiddenSound(r) ==
    \A w \in r.hidden : w \in Managed(r) /\ r.main[w] \in r.appHidden \cup {NoWindow}

\* The inductive invariant, of s.
Sound(r) == FocusSound(r) /\ HiddenSound(r)

\* q has the windows and the applications of r.
Same(q, r) ==
    /\ Managed(q) = Managed(r)
    /\ q.alive = r.alive
    /\ q.main = r.main
    /\ q.apps = r.apps

\* ... and the hidden ones as well: nothing but mapping and focus has changed.
Keeps(q, r) ==
    /\ FocusSound(q)
    /\ Same(q, r)
    /\ q.hidden = r.hidden
    /\ q.appHidden = r.appHidden

\* What only maps and focuses keeps a screen sound...
LEMMA KeepsSound ==
    ASSUME NEW q, NEW r, Keeps(q, r), Sound(r)
    PROVE  Sound(q)
BY DEF Keeps, Same, Sound, HiddenSound

\* ... and can be done repeatedly.
LEMMA KeepsKeeps ==
    ASSUME NEW p, NEW q, NEW r, Keeps(p, q), Keeps(q, r)
    PROVE  Keeps(p, r)
BY DEF Keeps, Same

\* Fields that no part of soundness looks at may change.
LEMMA OtherFields ==
    ASSUME NEW q, NEW r, FocusSound(r), q \in ScreenFields(q),
           q.list = r.list, q.focused = r.focused, q.hidden = r.hidden, q.main = r.main,
           q.apps = r.apps, q.appHidden = r.appHidden, q.alive = r.alive
    PROVE  Keeps(q, r)
BY DEF FocusSound, Keeps, Same, Managed, Focused

\* The focus list holds windows.
LEMMA ManagedAreWindows ==
    ASSUME NEW r, FocusSound(r)
    PROVE  Managed(r) \subseteq Windows
BY RangeOfSeq DEF FocusSound, ScreenFields, Managed

\* A walk of the focus list ends at a managed window, or nowhere.
LEMMA FirstOfManaged ==
    ASSUME NEW r, FocusSound(r), NEW W
    PROVE  FirstOf(r, W) \in Managed(r) \cup {NoWindow}
BY DEF FirstOf, Managed, Range, FocusSound

\* So does a look at last_focused, as far as it is valid.
LEMMA LastFocusedManaged ==
    ASSUME NEW r, NEW a
    PROVE  LastFocused(r, a) \in Managed(r) \cup {NoWindow}
BY DEF LastFocused, Valid

\* wSetFocusTo: the new head of the list is the one window with the focus.
LEMMA SetFocusToKeeps ==
    ASSUME NEW r, FocusSound(r), NEW w \in Managed(r) \cup {NoWindow}
    PROVE  Keeps(SetFocusTo(r, w), r)
<1> DEFINE q == SetFocusTo(r, w)
<1>0. r \in ScreenFields(r)
    BY DEF FocusSound
<1>1. CASE r.ignoreFocus
    BY <1>1 DEF SetFocusTo, Keeps, Same
<1>2. CASE ~r.ignoreFocus /\ w = NoWindow
    <2>1. q = [r EXCEPT !.focused = r.focused \ {Focused(r)}]
        BY <1>2 DEF SetFocusTo
    <2>2. /\ q \in ScreenFields(q)
          /\ q.list = r.list
          /\ q.focused = r.focused \ {Focused(r)}
          /\ q.hidden = r.hidden /\ q.appHidden = r.appHidden
          /\ Same(q, r)
        BY <1>0, <2>1 DEF ScreenFields, Same, Managed
    <2> QED BY <2>2 DEF FocusSound, Focused, Keeps
<1>3. CASE ~r.ignoreFocus /\ w # NoWindow
    <2> DEFINE rest == Without(r.list, w)
               list == Append(rest, w)
               focused == (r.focused \ {Focused(r)}) \cup {w}
               workspaces == IF AppOf(r, w) = NoWindow THEN r.lastWorkspace
                             ELSE [r.lastWorkspace EXCEPT ![AppOf(r, w)] = r.workspace[w]]
    <2>1. w \in Windows /\ w \in Range(r.list)
        BY <1>3, ManagedAreWindows DEF Managed
    <2>2. /\ rest \in Seq(Windows)
          /\ IsInjective(rest)
          /\ Range(rest) = Range(r.list) \ {w}
        BY <1>0, WithoutList DEF FocusSound, ScreenFields
    <2>3. q = [r EXCEPT !.list = list, !.focused = focused, !.lastWorkspace = workspaces]
        BY <1>3 DEF SetFocusTo
    <2>a. focused \subseteq Windows
        BY <1>0, <2>1 DEF ScreenFields
    <2> HIDE DEF rest, focused, workspaces
    <2>4. /\ list \in Seq(Windows)
          /\ IsInjective(list)
          /\ Range(list) = Range(r.list)
          /\ list # <<>> /\ Last(list) = w
        <3>1. w \notin Range(rest)
            BY <2>2
        <3>2. rest \in Seq(Windows) /\ IsInjective(rest) /\ w \in Windows
            BY <2>1, <2>2
        <3>3. /\ Append(rest, w) \in Seq(Windows)
              /\ IsInjective(Append(rest, w))
              /\ Range(Append(rest, w)) = Range(rest) \cup {w}
              /\ Append(rest, w) # <<>> /\ Last(Append(rest, w)) = w
            BY ONLY <3>1, <3>2, AppendList
        <3> QED BY <2>1, <2>2, <3>3
    <2> HIDE DEF list, q
    <2>5. /\ q.list = list
          /\ q.focused = focused
          /\ q \in ScreenFields(q)
          /\ q.hidden = r.hidden /\ q.main = r.main /\ q.appHidden = r.appHidden
          /\ q.apps = r.apps /\ q.alive = r.alive
        <3>1. list \in Seq(Windows) /\ focused \in SUBSET Windows
            BY <2>4, <2>a
        <3> QED BY ONLY <1>0, <2>3, <3>1 DEF ScreenFields
    <2>6. q.focused \subseteq {Focused(q)}
        BY <2>4, <2>5 DEF Focused, FocusSound, focused
    <2> QED BY <2>4, <2>5, <2>6 DEF FocusSound, Keeps, Same, Managed, q
<1> QED BY <1>1, <1>2, <1>3

\* Mapping and unmapping leave the lists alone.
LEMMA MappingKeeps ==
    ASSUME NEW r, FocusSound(r), NEW W
    PROVE  /\ Keeps(Map(r, W), r)
           /\ Keeps(Unmap(r, W), r)
           /\ Keeps(MapClients(r, W), r)
<1>0. r \in ScreenFields(r)
    BY DEF FocusSound
<1>1. ASSUME NEW mapped, NEW viewable, NEW events,
             NEW q, q = [r EXCEPT !.mapped = mapped, !.viewable = viewable, !.events = events]
      PROVE  Keeps(q, r)
    BY <1>0, <1>1, OtherFields DEF ScreenFields
<1>2. Keeps(Map(r, W), r)
    <2>1. Map(r, W) = [r EXCEPT !.mapped = r.mapped \cup W,
                                !.viewable = r.viewable \cup (W \cap r.alive),
                                !.events = r.events]
        BY <1>0 DEF Map, ScreenFields
    <2> QED BY <1>1, <2>1
<1>3. Keeps(Unmap(r, W), r)
    <2>1. Unmap(r, W) = [r EXCEPT !.mapped = r.mapped \ W, !.viewable = r.viewable \ W,
                                  !.events = r.events]
        BY <1>0 DEF Unmap, ScreenFields
    <2> QED BY <1>1, <2>1
<1>4. Keeps(MapClients(r, W), r)
    <2> DEFINE new == (W \cap r.alive) \ r.viewable
               at == {i \in DOMAIN r.list : r.list[i] \in new}
               events == r.events \o [n \in 1 .. Cardinality(at) |->
                                        Event("MapNotify", r.list[Nth(at, n)])]
    <2>1. MapClients(r, W) = [r EXCEPT !.mapped = r.mapped \cup W,
                                       !.viewable = r.viewable \cup new,
                                       !.events = events]
        BY DEF MapClients
    <2> QED BY <1>1, <2>1
<1> QED BY <1>2, <1>3, <1>4

\* wWindowChangeWorkspace: so does changing the workspace of a window, which
\* may drop the focus on the way.
LEMMA ChangeWorkspaceKeeps ==
    ASSUME NEW r, FocusSound(r), NEW w, NEW n
    PROVE  Keeps(ChangeWorkspace(r, w, n), r)
<1>1. ASSUME NEW q, Keeps(q, r), NEW workspace, NEW lastWorkspace
      PROVE  Keeps([q EXCEPT !.workspace = workspace, !.lastWorkspace = lastWorkspace], r)
    <2> DEFINE p == [q EXCEPT !.workspace = workspace, !.lastWorkspace = lastWorkspace]
    <2>1. FocusSound(q) /\ q \in ScreenFields(q)
        BY <1>1 DEF Keeps, FocusSound
    <2>2. Keeps(p, q)
        BY <2>1, OtherFields DEF ScreenFields
    <2> QED BY <1>1, <2>2, KeepsKeeps
<1> DEFINE left == IF AppOf(r, w) # NoWindow /\ w \in r.mapped \cup r.miniaturized
                   THEN [r EXCEPT !.lastWorkspace[AppOf(r, w)] = n] ELSE r
           to(q) == [q EXCEPT !.workspace[w] = n]
<1>2. r \in ScreenFields(r) /\ Keeps(r, r)
    BY DEF FocusSound, Keeps, Same
<1>3. ASSUME NEW q, Keeps(q, r) PROVE Keeps(to(q), r)
    <2>1. q \in ScreenFields(q)
        BY <1>3 DEF Keeps, FocusSound
    <2>2. to(q) = [q EXCEPT !.workspace = [q.workspace EXCEPT ![w] = n],
                            !.lastWorkspace = q.lastWorkspace]
        BY <2>1 DEF ScreenFields
    <2> QED BY <1>1, <1>3, <2>2
<1>4. Keeps(left, r)
    <2>1. CASE left = r
        BY <1>2, <2>1
    <2>2. CASE left = [r EXCEPT !.lastWorkspace[AppOf(r, w)] = n]
        <3>1. left = [r EXCEPT !.workspace = r.workspace,
                               !.lastWorkspace = [r.lastWorkspace EXCEPT ![AppOf(r, w)] = n]]
            BY <1>2, <2>2 DEF ScreenFields
        <3> QED BY <1>1, <1>2, <3>1
    <2> QED BY <2>1, <2>2
<1>5. Keeps(Unmap(to(SetFocusTo(left, NoWindow)), {w}), r)
    <2>1. Keeps(SetFocusTo(left, NoWindow), left)
        BY <1>4, SetFocusToKeeps DEF Keeps
    <2>2. Keeps(to(SetFocusTo(left, NoWindow)), r)
        BY <1>3, <1>4, <2>1, KeepsKeeps
    <2> HIDE DEF to, left
    <2>3. Keeps(Unmap(to(SetFocusTo(left, NoWindow)), {w}), to(SetFocusTo(left, NoWindow)))
        BY <2>2, MappingKeeps DEF Keeps
    <2> QED BY <2>2, <2>3, KeepsKeeps
<1>6. Keeps(to(left), r) /\ Keeps(to(r), r)
    BY <1>2, <1>3, <1>4
<1>7. Keeps(to(Map(r, {w})), r)
    BY <1>3, MappingKeeps
<1>8. ChangeWorkspace(r, w, n) \in
        {r, Unmap(to(SetFocusTo(left, NoWindow)), {w}), to(left), to(r), to(Map(r, {w}))}
    BY DEF ChangeWorkspace
<1> QED BY <1>2, <1>5, <1>6, <1>7, <1>8

\* wHideApplication: its windows and the application are hidden together.
LEMMA HideApplicationSound ==
    ASSUME NEW r, Sound(r), NEW a
    PROVE  /\ Sound(HideApplication(r, a))
           /\ Same(HideApplication(r, a), r)
<1> DEFINE mine == WindowsOf(r, a)
           last == IF Focused(r) \in mine THEN Pointer(r, Focused(r)) ELSE Nobody
           unmapped == Unmap(r, mine \ r.miniaturized)
           hid == [unmapped EXCEPT !.hidden = unmapped.hidden \cup mine,
                                   !.lastFocused[a] = last]
           next == FirstOf(hid, {w \in r.mapped : w \notin mine} \ r.hidden)
           q == IF mine \cap r.focused # {} THEN SetFocusTo(hid, next) ELSE hid
<1>1. CASE r.list = <<>>
    BY <1>1 DEF HideApplication, Same
<1>2. CASE r.list # <<>>
    <2>1. HideApplication(r, a) = [q EXCEPT !.appHidden = q.appHidden \cup {a}]
        BY <1>2 DEF HideApplication
    <2>2. mine \subseteq Managed(r) /\ mine \subseteq Windows /\ \A w \in mine : r.main[w] = a
        BY ManagedAreWindows DEF WindowsOf, Sound
    <2>3. Keeps(unmapped, r) /\ unmapped \in ScreenFields(unmapped)
        BY MappingKeeps DEF Sound, Keeps, FocusSound
    <2> HIDE DEF mine, last, unmapped
    <2>4. /\ FocusSound(hid)
          /\ Same(hid, r)
          /\ hid.hidden = r.hidden \cup mine
          /\ hid.appHidden = r.appHidden
        <3>1. /\ hid \in ScreenFields(hid)
              /\ hid.list = unmapped.list /\ hid.focused = unmapped.focused
              /\ hid.main = unmapped.main /\ hid.apps = unmapped.apps
              /\ hid.alive = unmapped.alive /\ hid.appHidden = unmapped.appHidden
              /\ hid.hidden = unmapped.hidden \cup mine
            BY <2>2, <2>3 DEF ScreenFields
        <3> HIDE DEF hid
        <3> QED BY <2>3, <3>1 DEF FocusSound, Focused, Keeps, Same, Managed
    <2> HIDE DEF hid
    <2>5. /\ FocusSound(q)
          /\ Same(q, r)
          /\ q.hidden = r.hidden \cup mine
          /\ q.appHidden = r.appHidden
        <3>1. Keeps(SetFocusTo(hid, next), hid)
            BY <2>4, FirstOfManaged, SetFocusToKeeps
        <3> HIDE DEF next
        <3> QED BY <2>4, <3>1 DEF Keeps, Same
    <2> HIDE DEF q
    <2> DEFINE p == [q EXCEPT !.appHidden = q.appHidden \cup {a}]
    <2>6. /\ p \in ScreenFields(p)
          /\ p.list = q.list /\ p.focused = q.focused /\ p.hidden = q.hidden
          /\ p.main = q.main /\ p.apps = q.apps /\ p.alive = q.alive
          /\ p.appHidden = q.appHidden \cup {a}
        BY <2>5 DEF FocusSound, ScreenFields
    <2> HIDE DEF p
    <2>7. FocusSound(p) /\ Same(p, r)
        BY <2>5, <2>6 DEF FocusSound, Focused, Same, Managed
    <2>8. HiddenSound(p)
        BY <2>2, <2>5, <2>6, <2>7 DEF HiddenSound, Sound, Same
    <2> QED BY <2>1, <2>7, <2>8 DEF Sound, p
<1> QED BY <1>1, <1>2

\* Unhiding clears both sides of what HiddenSound relates.
LEMMA UnhideApplicationSound ==
    ASSUME NEW r, Sound(r), NEW a, NEW here, NEW last \in Managed(r) \cup {NoWindow}
    PROVE  /\ Sound(UnhideApplication(r, a, here, last))
           /\ Same(UnhideApplication(r, a, here, last), r)
<1> DEFINE mine == WindowsOf(r, a)
           come == IF here THEN mine ELSE {w \in mine : r.workspace[w] = r.current}
           workspaces == [w \in Windows |-> IF w \in come THEN r.current ELSE r.workspace[w]]
           moved == [r EXCEPT !.workspace = workspaces,
                              !.hidden = r.hidden \ mine,
                              !.appHidden = r.appHidden \ {a},
                              !.lastFocused[a] = Nobody]
           back == (come \cap r.hidden) \ r.miniaturized
           brought == {w \in come \ (r.hidden \cup r.miniaturized) : r.workspace[w] # r.current}
           mapped == Map(moved, brought \ r.mapped)
           shown == MapClients(mapped, back)
           next == IF last \in shown.mapped THEN last
                   ELSE IF mine \cap r.focused # {} THEN FirstOf(r, r.focused)
                   ELSE FirstOf(r, mine)
<1>1. UnhideApplication(r, a, here, last) =
        IF r.list = <<>> THEN r
        ELSE IF next = NoWindow THEN shown ELSE SetFocusTo(shown, next)
    BY DEF UnhideApplication
<1>2. next \in Managed(r) \cup {NoWindow}
    BY FirstOfManaged DEF Sound
<1>3. \A w \in r.hidden \ mine : r.main[w] # a
    BY DEF WindowsOf, Sound, HiddenSound
<1>4. FocusSound(r) /\ HiddenSound(r) /\ r \in ScreenFields(r)
    BY DEF Sound, FocusSound
<1> HIDE DEF mine, come, workspaces, back, brought, next
<1>5. /\ moved \in ScreenFields(moved)
      /\ moved.list = r.list /\ moved.focused = r.focused
      /\ moved.main = r.main /\ moved.apps = r.apps /\ moved.alive = r.alive
      /\ moved.hidden = r.hidden \ mine
      /\ moved.appHidden = r.appHidden \ {a}
    BY <1>4 DEF ScreenFields
<1> HIDE DEF moved
<1>6. Sound(moved) /\ Same(moved, r)
    BY <1>3, <1>4, <1>5 DEF Sound, FocusSound, Focused, HiddenSound, Same, Managed
<1>7. Keeps(shown, moved)
    <2>1. Keeps(mapped, moved)
        BY <1>6, MappingKeeps DEF Sound
    <2> HIDE DEF mapped
    <2>2. Keeps(shown, mapped)
        BY <2>1, MappingKeeps DEF Keeps
    <2> QED BY <2>1, <2>2, KeepsKeeps
<1> HIDE DEF shown
<1>8. Sound(shown) /\ Same(shown, r)
    BY <1>6, <1>7, KeepsSound DEF Keeps, Same
<1>9. Sound(SetFocusTo(shown, next)) /\ Same(SetFocusTo(shown, next), r)
    <2>1. FocusSound(shown) /\ next \in Managed(shown) \cup {NoWindow}
        BY <1>2, <1>8 DEF Sound, Same
    <2>2. Keeps(SetFocusTo(shown, next), shown)
        BY <2>1, SetFocusToKeeps
    <2> QED BY <1>8, <2>2, KeepsSound DEF Keeps, Same
<1>10. Same(r, r)
    BY DEF Same
<1> QED BY <1>1, <1>4, <1>8, <1>9, <1>10 DEF Sound

\* A window that is not managed yet is not hidden, whatever application it names.
LEMMA JoinApplicationSound ==
    ASSUME NEW r, Sound(r), NEW w \in Windows \ Managed(r)
    PROVE  /\ Sound(JoinApplication(r, w))
           /\ Managed(JoinApplication(r, w)) = Managed(r)
<1> DEFINE a == LeaderOf[w]
           joined == [r EXCEPT !.main = [r.main EXCEPT ![w] = a]]
           last == LastFocused(r, a)
           unhidden == IF a \in r.appHidden THEN UnhideApplication(joined, a, FALSE, last)
                       ELSE joined
           apps == unhidden.apps \cup {a}
           bouncing == unhidden.bouncing \cup {a}
           workspaces == [unhidden.lastWorkspace EXCEPT ![a] = r.current]
           all == [unhidden EXCEPT !.apps = apps, !.bouncing = bouncing,
                                   !.lastWorkspace = workspaces]
<1>1. JoinApplication(r, w) = IF a \notin r.alive THEN joined ELSE all
    <2>1. r \in ScreenFields(r)
        BY DEF Sound, FocusSound
    <2>2. joined = [r EXCEPT !.main[w] = a]
        OBVIOUS
    <2> QED BY <2>2 DEF JoinApplication
<1>2. a \in Windows
    BY WindowManagerAssumption
<1>3. Sound(joined) /\ Managed(joined) = Managed(r)
    <2>1. r \in ScreenFields(r)
        BY DEF Sound, FocusSound
    <2>2. /\ joined \in ScreenFields(joined)
          /\ joined.list = r.list /\ joined.focused = r.focused
          /\ joined.hidden = r.hidden /\ joined.appHidden = r.appHidden
          /\ \A v \in Windows : v # w => joined.main[v] = r.main[v]
        BY <1>2, <2>1 DEF ScreenFields, WindowOrNone
    <2> HIDE DEF joined
    <2>3. w \notin r.hidden /\ r.hidden \subseteq Windows
        BY <2>1 DEF Sound, HiddenSound, ScreenFields
    <2> QED BY <2>2, <2>3 DEF Sound, FocusSound, Focused, HiddenSound, Managed
<1> HIDE DEF joined
<1>4. Sound(unhidden) /\ Managed(unhidden) = Managed(r)
    <2>1. last \in Managed(joined) \cup {NoWindow}
        BY <1>3, LastFocusedManaged
    <2> HIDE DEF last
    <2>2. /\ Sound(UnhideApplication(joined, a, FALSE, last))
          /\ Same(UnhideApplication(joined, a, FALSE, last), joined)
        BY <1>3, <2>1, UnhideApplicationSound, Zenon
    <2>3. Managed(UnhideApplication(joined, a, FALSE, last)) = Managed(joined)
        BY <2>2 DEF Same
    <2>4. CASE a \in r.appHidden
        BY <1>3, <2>2, <2>3, <2>4, Zenon
    <2>5. CASE a \notin r.appHidden
        BY <1>3, <2>5, Zenon
    <2> QED BY <2>4, <2>5
<1> HIDE DEF unhidden
<1>5. Sound(all) /\ Managed(all) = Managed(r)
    <2>1. unhidden \in ScreenFields(unhidden) /\ apps \subseteq Windows
        BY <1>2, <1>4 DEF Sound, FocusSound, ScreenFields
    <2> HIDE DEF a, apps, bouncing, workspaces
    <2>2. /\ all \in ScreenFields(all)
          /\ all.list = unhidden.list /\ all.focused = unhidden.focused
          /\ all.hidden = unhidden.hidden /\ all.appHidden = unhidden.appHidden
          /\ all.main = unhidden.main
        BY <2>1 DEF ScreenFields
    <2> HIDE DEF all
    <2> QED BY <1>4, <2>2 DEF Sound, FocusSound, Focused, HiddenSound, Managed
<1> QED BY <1>1, <1>3, <1>5

\* The windows of an application that goes belong to none.
LEMMA LeaveApplicationSound ==
    ASSUME NEW r, Sound(r), NEW a
    PROVE  Sound(LeaveApplication(r, a))
<1> DEFINE main == [w \in Windows |-> IF r.main[w] = a /\ w \in Managed(r) THEN NoWindow
                                      ELSE r.main[w]]
           apps == IF a \in r.bouncing THEN r.apps ELSE r.apps \ {a}
           appHidden == IF a \in r.bouncing THEN r.appHidden ELSE r.appHidden \ {a}
           last == IF a \in r.bouncing THEN r.lastFocused[a] ELSE Nobody
           q == [r EXCEPT !.main = main, !.apps = apps, !.appHidden = appHidden,
                          !.lastFocused[a] = last]
<1>1. LeaveApplication(r, a) = q
    BY DEF LeaveApplication
<1>2. r \in ScreenFields(r)
    BY DEF Sound, FocusSound
<1>3. main \in [Windows -> WindowOrNone] /\ apps \subseteq Windows
    BY <1>2 DEF ScreenFields, WindowOrNone
<1>4. r.appHidden \ {a} \subseteq appHidden
    OBVIOUS
<1>5. \A w \in Windows : w \in Managed(r) =>
        main[w] = NoWindow \/ (main[w] = r.main[w] /\ main[w] # a)
    OBVIOUS
<1> HIDE DEF main, apps, appHidden, last
<1>6. /\ q \in ScreenFields(q)
      /\ q.list = r.list /\ q.focused = r.focused /\ q.hidden = r.hidden
      /\ q.main = main /\ q.appHidden = appHidden
    BY <1>2, <1>3 DEF ScreenFields
<1> HIDE DEF q
<1>7. FocusSound(q) /\ Managed(q) = Managed(r)
    BY <1>6 DEF Sound, FocusSound, Focused, Managed
<1>8. HiddenSound(q)
    <2> SUFFICES ASSUME NEW w \in q.hidden
                 PROVE  w \in Managed(q) /\ q.main[w] \in q.appHidden \cup {NoWindow}
        BY DEF HiddenSound
    <2>1. w \in Managed(r) /\ r.main[w] \in r.appHidden \cup {NoWindow} /\ w \in Windows
        BY <1>2, <1>6 DEF Sound, HiddenSound, ScreenFields
    <2> QED BY <2>1, <1>4, <1>5, <1>6, <1>7
<1> QED BY <1>1, <1>7, <1>8 DEF Sound

\* wUnmanageWindow: a window leaves the list and all sets.
LEMMA UnmanageSound ==
    ASSUME NEW r, Sound(r), NEW w
    PROVE  Sound(Unmanage(r, w))
<1> DEFINE unmapped == Unmap(r, {w})
           list == Without(unmapped.list, w)
           gone == [unmapped EXCEPT !.list = list,
                                    !.focused = unmapped.focused \ {w},
                                    !.miniaturized = unmapped.miniaturized \ {w},
                                    !.hidden = unmapped.hidden \ {w}]
<1>1. Unmanage(r, w) =
        IF w \in r.focused /\ gone.list # <<>>
        THEN SetFocusTo(gone, FirstOf(gone, gone.mapped)) ELSE gone
    BY DEF Unmanage
<1>2. Keeps(unmapped, r)
    BY MappingKeeps DEF Sound
<1>3. Sound(unmapped) /\ unmapped \in ScreenFields(unmapped)
    BY <1>2, KeepsSound DEF Sound, FocusSound
<1>4. /\ unmapped.list \in Seq(Windows) /\ IsInjective(unmapped.list)
      /\ unmapped.focused \subseteq Windows
      /\ unmapped.focused \subseteq {Focused(unmapped)}
    BY <1>3 DEF Sound, FocusSound, ScreenFields
<1> HIDE DEF unmapped
<1>5. /\ list \in Seq(Windows)
      /\ IsInjective(list)
      /\ Range(list) = Range(unmapped.list) \ {w}
      /\ unmapped.list # <<>> /\ w # Last(unmapped.list)
            => list # <<>> /\ Last(list) = Last(unmapped.list)
    BY <1>4, WithoutList
<1> HIDE DEF list
<1>6. /\ gone \in ScreenFields(gone)
      /\ gone.list = list
      /\ gone.focused = unmapped.focused \ {w}
      /\ gone.hidden = unmapped.hidden \ {w}
      /\ gone.main = unmapped.main /\ gone.appHidden = unmapped.appHidden
    BY <1>3, <1>5 DEF ScreenFields
<1> HIDE DEF gone
<1>7. gone.focused \subseteq {Focused(gone)}
    BY <1>4, <1>5, <1>6, WindowManagerAssumption DEF Focused
<1>8. FocusSound(gone)
    BY <1>5, <1>6, <1>7 DEF FocusSound
<1>9. HiddenSound(gone)
    BY <1>3, <1>5, <1>6 DEF Sound, HiddenSound, Managed
<1>10. Sound(SetFocusTo(gone, FirstOf(gone, gone.mapped)))
    <2>1. Keeps(SetFocusTo(gone, FirstOf(gone, gone.mapped)), gone)
        BY <1>8, FirstOfManaged, SetFocusToKeeps
    <2> QED BY <1>8, <1>9, <2>1, KeepsSound DEF Sound
<1> QED BY <1>1, <1>8, <1>9, <1>10 DEF Sound

-----------------------------------------------------------------------------
(* The screens that handlers answer with. *)

\* wIconifyWindow.
LEMMA IconifiedSound ==
    ASSUME NEW r, Sound(r), NEW w
    PROVE  Sound(Iconified(r, w))
<1> DEFINE mini == [r EXCEPT !.miniaturized = r.miniaturized \cup {w}, !.mapped = r.mapped \ {w}]
           next == {v \in Windows : /\ v \notin mini.hidden \cup mini.miniaturized
                                    /\ r.workspace[v] = r.workspace[w]}
<1>1. Iconified(r, w) \in {mini, SetFocusTo(Unmap(mini, {w}), FirstOf(mini, next)), Unmap(mini, {w})}
    BY DEF Iconified
<1>2. Sound(mini)
    <2>1. r \in ScreenFields(r) /\ FocusSound(r)
        BY DEF Sound, FocusSound
    <2>2. Keeps(mini, r)
        BY <2>1, OtherFields DEF ScreenFields
    <2> QED BY <2>2, KeepsSound
<1> HIDE DEF mini, next
<1>3. Keeps(Unmap(mini, {w}), mini)
    BY <1>2, MappingKeeps DEF Sound
<1>4. Keeps(SetFocusTo(Unmap(mini, {w}), FirstOf(mini, next)), Unmap(mini, {w}))
    <2>1. FirstOf(mini, next) \in Managed(mini) \cup {NoWindow}
        BY <1>2, FirstOfManaged DEF Sound
    <2> QED BY <1>3, <2>1, SetFocusToKeeps DEF Keeps, Same
<1> QED BY <1>1, <1>2, <1>3, <1>4, KeepsSound

\* wDeiconifyWindow.
LEMMA DeiconifiedSound ==
    ASSUME NEW r, Sound(r), NEW w \in Managed(r)
    PROVE  Sound(Deiconified(r, w))
<1> DEFINE moved == ChangeWorkspace(r, w, r.current)
           here == [moved EXCEPT !.miniaturized = moved.miniaturized \ {w}]
           shown == MapClients(here, {w})
<1>1. Deiconified(r, w) = SetFocusTo(shown, w)
    BY DEF Deiconified
<1>2. Keeps(moved, r)
    BY ChangeWorkspaceKeeps DEF Sound
<1>3. Keeps(here, moved)
    <2>1. moved \in ScreenFields(moved) /\ FocusSound(moved)
        BY <1>2 DEF Keeps, FocusSound
    <2> HIDE DEF moved
    <2> QED BY <2>1, OtherFields DEF ScreenFields
<1> HIDE DEF here
<1>4. Keeps(shown, here)
    BY <1>3, MappingKeeps DEF Keeps
<1> HIDE DEF shown
<1>5. Keeps(shown, r)
    BY <1>2, <1>3, <1>4, KeepsKeeps
<1>6. Keeps(SetFocusTo(shown, w), shown)
    BY <1>5, SetFocusToKeeps DEF Keeps, Same
<1> QED BY <1>1, <1>5, <1>6, KeepsSound

\* The number of the workspace and ignore_focus_events matter to none of it.
LEMMA IgnoreFocusKeeps ==
    ASSUME NEW r, FocusSound(r), NEW n, NEW ignore
    PROVE  /\ Keeps([r EXCEPT !.current = n, !.ignoreFocus = ignore], r)
           /\ Keeps([r EXCEPT !.ignoreFocus = ignore], r)
<1>1. r \in ScreenFields(r)
    BY DEF FocusSound
<1> DEFINE p == [r EXCEPT !.current = n, !.ignoreFocus = ignore]
           q == [r EXCEPT !.ignoreFocus = ignore]
<1>2. /\ p \in ScreenFields(p)
      /\ p.list = r.list /\ p.focused = r.focused /\ p.hidden = r.hidden
      /\ p.main = r.main /\ p.apps = r.apps /\ p.appHidden = r.appHidden
      /\ p.alive = r.alive
    BY <1>1 DEF ScreenFields
<1>3. /\ q \in ScreenFields(q)
      /\ q.list = r.list /\ q.focused = r.focused /\ q.hidden = r.hidden
      /\ q.main = r.main /\ q.apps = r.apps /\ q.appHidden = r.appHidden
      /\ q.alive = r.alive
    BY <1>1 DEF ScreenFields
<1> HIDE DEF p, q
<1>4. Keeps(p, r) /\ Keeps(q, r)
    BY <1>2, <1>3, OtherFields
<1> QED BY <1>4 DEF p, q

\* wWorkspaceForceChange.
LEMMA ChangedSound ==
    ASSUME NEW r, Sound(r), NEW n
    PROVE  Sound(Changed(r, n))
<1> DEFINE here == {w \in Managed(r) : r.workspace[w] = n}
           come == here \ (r.hidden \cup r.mapped \cup r.miniaturized)
           mapped == Map(r, come)
           both == Unmap(mapped, (Managed(r) \ here) \cap r.mapped)
           q == [both EXCEPT !.current = n, !.ignoreFocus = TRUE]
<1>1. Changed(r, n) = q
    BY DEF Changed
<1> HIDE DEF here, come
<1>2. Keeps(mapped, r)
    BY MappingKeeps DEF Sound
<1> HIDE DEF mapped
<1>3. Keeps(both, mapped)
    BY <1>2, MappingKeeps DEF Keeps
<1> HIDE DEF both
<1>4. Keeps(q, both)
    <2>1. FocusSound(both)
        BY <1>3 DEF Keeps
    <2> QED BY <2>1, IgnoreFocusKeeps, Zenon
<1> QED BY <1>1, <1>2, <1>3, <1>4, KeepsSound

\* handleDestroyNotify.
LEMMA DestroyedSound ==
    ASSUME NEW r, Sound(r), NEW w
    PROVE  Sound(Destroyed(r, w))
BY UnmanageSound, LeaveApplicationSound DEF Destroyed

\* Events come and go, and windows are shown and destroyed, without any of it.
LEMMA EventsSound ==
    ASSUME NEW r, Sound(r), NEW events, NEW viewable, NEW alive \in SUBSET Windows
    PROVE  /\ Sound([r EXCEPT !.events = events])
           /\ Managed([r EXCEPT !.events = events]) = Managed(r)
           /\ Sound([r EXCEPT !.viewable = viewable, !.events = events])
           /\ Sound([r EXCEPT !.alive = alive, !.viewable = viewable, !.events = events])
<1>1. r \in ScreenFields(r) /\ FocusSound(r)
    BY DEF Sound, FocusSound
<1>2. Keeps([r EXCEPT !.events = events], r)
    BY <1>1, OtherFields DEF ScreenFields
<1>3. Keeps([r EXCEPT !.viewable = viewable, !.events = events], r)
    BY <1>1, OtherFields DEF ScreenFields
<1> DEFINE q == [r EXCEPT !.alive = alive, !.viewable = viewable, !.events = events]
<1>4. /\ q \in ScreenFields(q)
      /\ q.list = r.list /\ q.focused = r.focused /\ q.hidden = r.hidden
      /\ q.main = r.main /\ q.appHidden = r.appHidden
    BY <1>1 DEF ScreenFields
<1> HIDE DEF q
<1>5. Sound(q)
    BY <1>1, <1>4 DEF Sound, FocusSound, Focused, HiddenSound, Managed
<1> QED BY <1>2, <1>3, <1>5, KeepsSound DEF q, Keeps, Same

-----------------------------------------------------------------------------
(* Every step. *)

\* Taking an event from the queue.
LEMMA TakenSound ==
    ASSUME Sound(s)
    PROVE  Sound(Taken) /\ Managed(Taken) = Managed(s)
BY EventsSound DEF Taken

\* wUnhideApplication, with the last_focused that it reads.
LEMMA UnhiddenSound ==
    ASSUME NEW r, Sound(r), NEW a, NEW here
    PROVE  Sound(UnhideApplication(r, a, here, LastFocused(r, a)))
BY LastFocusedManaged, UnhideApplicationSound

\* wWorkspaceChange, and the application that is unhidden after it.
LEMMA GoToSound ==
    ASSUME NEW r, Sound(r), NEW n, NEW then, GoTo(r, n, then)
    PROVE  Sound(s)'
<1>1. CASE s' = r
    BY <1>1
<1>2. CASE s' = UnhideApplication(r, then, FALSE, LastFocused(r, then))
    <2>1. Sound(UnhideApplication(r, then, FALSE, LastFocused(r, then)))
        BY UnhiddenSound, Zenon
    <2> QED BY <1>2, <2>1, Zenon
<1>3. CASE s' = [r EXCEPT !.current = n]
    <2>1. r \in ScreenFields(r) /\ FocusSound(r)
        BY DEF Sound, FocusSound
    <2>2. Keeps([r EXCEPT !.current = n], r)
        BY <2>1, OtherFields DEF ScreenFields
    <2> QED BY <1>3, <2>2, KeepsSound
<1>4. CASE s' = Changed(r, n)
    BY <1>4, ChangedSound
<1>5. \/ s' = r
      \/ s' = UnhideApplication(r, then, FALSE, LastFocused(r, then))
      \/ s' = [r EXCEPT !.current = n]
      \/ s' = Changed(r, n)
    <2>1. CASE r.ignoreFocus \/ n = r.current
        <3>1. CASE then = NoWindow
            BY <2>1, <3>1, Zenon DEF GoTo, Answer
        <3>2. CASE then # NoWindow
            BY <2>1, <3>2, Zenon DEF GoTo, Answer
        <3> QED BY <3>1, <3>2
    <2>2. CASE ~(r.ignoreFocus \/ n = r.current) /\ r.list = <<>>
        BY <2>2, Zenon DEF GoTo, Answer
    <2>3. CASE ~(r.ignoreFocus \/ n = r.current) /\ r.list # <<>>
        BY <2>3, Zenon DEF GoTo, Wait
    <2> QED BY <2>1, <2>2, <2>3
<1> QED BY <1>1, <1>2, <1>3, <1>4, <1>5

\* The inductive step.
LEMMA SoundStep ==
    ASSUME Sound(s), s.alive \subseteq Windows, [Next]_vars
    PROVE  Sound(s)'
<1>1. CASE HandleMapRequest
    <2> DEFINE w == Next1.win
               a == AppOf(s, w)
               r == JoinApplication(Taken, w)
               q == [r EXCEPT !.list = <<w>> \o r.list,
                              !.life = [r.life EXCEPT ![w] = r.life[w] + 1],
                              !.workspace = [r.workspace EXCEPT ![w] = r.current]]
    <2>1. CASE w \notin Managed(s) /\ (w \notin s.alive \/ s.life[w] = MaxLives)
        <3>1. s' = Taken
            BY <1>1, <2>1, WindowManagerAssumption DEF HandleMapRequest, Answer
        <3> QED BY <3>1, TakenSound
    <2>2. CASE w \notin Managed(s) /\ w \in s.alive /\ s.life[w] < MaxLives
        <3>1. s' = Map([r EXCEPT !.list = <<w>> \o @, !.life[w] = @ + 1, !.workspace[w] = r.current],
                       {w})
            BY <1>1, <2>2 DEF HandleMapRequest, Answer
        <3>2. Sound(r) /\ Managed(r) = Managed(s) /\ r \in ScreenFields(r)
            BY <2>2, TakenSound, JoinApplicationSound DEF Sound, FocusSound
        <3>3. w \in Windows /\ w \notin Range(r.list)
            BY <2>2, <3>2 DEF Managed
        <3> HIDE DEF r, w
        <3>4. s' = Map(q, {w})
            BY <3>1
        <3> DEFINE list == <<w>> \o r.list
        <3>5. /\ list \in Seq(Windows)
              /\ IsInjective(list)
              /\ Range(list) = Range(r.list) \cup {w}
              /\ r.list # <<>> => Last(list) = Last(r.list)
            <4>1. r.list \in Seq(Windows) /\ IsInjective(r.list)
                BY <3>2 DEF Sound, FocusSound, ScreenFields
            <4> QED BY ONLY <4>1, <3>3, PutFirst
        <3> DEFINE life == [r.life EXCEPT ![w] = r.life[w] + 1]
                   workspace == [r.workspace EXCEPT ![w] = r.current]
        <3>6. q = [r EXCEPT !.list = list, !.life = life, !.workspace = workspace]
            OBVIOUS
        <3> HIDE DEF q, list, life, workspace
        <3>7. /\ q \in ScreenFields(q)
              /\ q.list = list
              /\ q.focused = r.focused /\ q.hidden = r.hidden
              /\ q.main = r.main /\ q.appHidden = r.appHidden
              /\ r.focused \subseteq Windows
            BY <3>2, <3>5, <3>6 DEF ScreenFields
        <3>8. list # <<>>
            BY <3>3, ConcatEqualIffEmpty DEF list
        <3>9. q.focused \subseteq {Focused(q)}
            <4>1. CASE r.list = <<>>
                BY <4>1, <3>2, <3>7, WindowManagerAssumption DEF Sound, FocusSound, Focused
            <4>2. CASE r.list # <<>>
                BY <4>2, <3>2, <3>5, <3>7, <3>8 DEF Sound, FocusSound, Focused
            <4> QED BY <4>1, <4>2
        <3>10. Sound(q)
            BY <3>2, <3>5, <3>7, <3>9 DEF Sound, FocusSound, HiddenSound, Managed
        <3> QED BY <3>4, <3>10, MappingKeeps, KeepsSound DEF Sound
    <2>3. CASE w \in Managed(s) \cap s.miniaturized
        <3>1. s' = Deiconified(Taken, w)
            BY <1>1, <2>3 DEF HandleMapRequest, Wait
        <3> QED BY <2>3, <3>1, TakenSound, DeiconifiedSound
    <2>4. CASE w \in (Managed(s) \cap s.hidden) \ s.miniaturized
        <3>1. CASE a = NoWindow
            <4>1. s' = Taken
                BY <1>1, <2>4, <3>1 DEF HandleMapRequest, Answer
            <4> QED BY <4>1, TakenSound
        <3>2. CASE a # NoWindow
            <4>1. GoTo(Taken, s.lastWorkspace[a], a)
                BY <1>1, <2>4, <3>2 DEF HandleMapRequest
            <4> QED BY <4>1, TakenSound, GoToSound
        <3> QED BY <3>1, <3>2
    <2>5. CASE /\ ~(w \notin Managed(s) /\ (w \notin s.alive \/ s.life[w] = MaxLives))
               /\ ~(w \notin Managed(s) /\ w \in s.alive /\ s.life[w] < MaxLives)
               /\ w \notin Managed(s) \cap s.miniaturized
               /\ w \notin (Managed(s) \cap s.hidden) \ s.miniaturized
        <3>1. s' = Taken
            BY <1>1, <2>5 DEF HandleMapRequest, Answer
        <3> QED BY <3>1, TakenSound
    <2> QED BY <2>1, <2>2, <2>3, <2>4, <2>5
<1>2. CASE HandleMapNotify
    <2> DEFINE w == Next1.win
    <2>1. CASE w \notin Managed(s)
        <3>1. s' = Taken
            BY <1>2, <2>1 DEF HandleMapNotify, Answer
        <3> QED BY <3>1, TakenSound
    <2>2. CASE w \in Managed(s) /\ w \in s.miniaturized
        <3>1. s' = Deiconified(Taken, w)
            BY <1>2, <2>2 DEF HandleMapNotify, Wait
        <3> QED BY <2>2, <3>1, TakenSound, DeiconifiedSound
    <2>3. CASE w \in Managed(s) /\ w \notin s.miniaturized
        <3>1. s' = Map(Taken, {w})
            BY <1>2, <2>3 DEF HandleMapNotify, Answer
        <3> QED BY <3>1, TakenSound, MappingKeeps, KeepsSound DEF Sound
    <2> QED BY <2>1, <2>2, <2>3
<1>3. CASE HandleUnmapNotify
    <2> DEFINE w == Next1.win
               destroy == Event("DestroyNotify", w)
               shown == [Taken EXCEPT !.mapped = @ \ {w}]
               late == [shown EXCEPT !.events = Without(@, destroy)]
    <2>1. s' \in {Taken, Destroyed(late, w), Unmanage(shown, w)}
        BY <1>3 DEF HandleUnmapNotify, Answer
    <2>2. Sound(Taken) /\ Taken \in ScreenFields(Taken) /\ FocusSound(Taken)
        BY TakenSound DEF Sound, FocusSound
    <2>3. Keeps(shown, Taken)
        <3> HIDE DEF Taken
        <3> QED BY <2>2, OtherFields DEF ScreenFields
    <2>4. Sound(shown) /\ shown \in ScreenFields(shown) /\ FocusSound(shown)
        BY <2>2, <2>3, KeepsSound DEF Sound, FocusSound
    <2> HIDE DEF shown
    <2>5. Keeps(late, shown)
        BY <2>4, OtherFields DEF ScreenFields
    <2> HIDE DEF late
    <2> QED BY <2>1, <2>2, <2>4, <2>5, KeepsSound, DestroyedSound, UnmanageSound
<1>4. CASE HandleDestroyNotify
    BY <1>4, TakenSound, DestroyedSound DEF HandleDestroyNotify, Answer
<1>5. CASE HandleIconify
    <2>1. s' = Taken \/ s' = Iconified(Taken, Next1.win)
        BY <1>5 DEF HandleIconify, Answer, Wait
    <2> QED BY <2>1, TakenSound, IconifiedSound
<1>6. CASE HandleDeiconify
    <2>1. s' = Taken \/ (s' = Deiconified(Taken, Next1.win) /\ Next1.win \in Managed(s))
        BY <1>6 DEF HandleDeiconify, Answer, Wait
    <2> QED BY <2>1, TakenSound, DeiconifiedSound
<1>7. CASE HandleWorkspace
    BY <1>7, TakenSound, GoToSound DEF HandleWorkspace
<1>8. CASE HandleSend
    <2>1. s' = Taken \/ s' = ChangeWorkspace(Taken, Next1.win, Next1.to)
        BY <1>8 DEF HandleSend, Answer
    <2> QED BY <2>1, TakenSound, ChangeWorkspaceKeeps, KeepsSound DEF Sound
<1>9. CASE HandleFocus
    <2>1. s' = Taken \/ (s' = SetFocusTo(Taken, Next1.win) /\ Next1.win \in Managed(s))
        BY <1>9 DEF HandleFocus, Answer
    <2> QED BY <2>1, TakenSound, SetFocusToKeeps, KeepsSound DEF Sound
<1>10. CASE HandleHide
    <2>1. s' = Taken \/ s' = HideApplication(Taken, Next1.win)
        BY <1>10 DEF HandleHide, Answer
    <2> QED BY <2>1, TakenSound, HideApplicationSound
<1>11. CASE HandleUnhide
    <2> DEFINE a == Next1.win
    <2>1. PICK here : s' = Taken \/ s' = UnhideApplication(Taken, a, here, LastFocused(s, a))
        BY <1>11, Zenon DEF HandleUnhide, Answer
    <2>2. LastFocused(s, a) \in Managed(Taken) \cup {NoWindow}
        BY TakenSound, LastFocusedManaged
    <2>3. Sound(UnhideApplication(Taken, a, here, LastFocused(s, a)))
        BY <2>2, TakenSound, UnhideApplicationSound
    <2> QED BY <2>1, <2>3, TakenSound
<1>12. CASE ResumeWorkspace
    <2> DEFINE a == calls[1].then
               foc == IF Valid(s, calls[1].on) THEN calls[1].on.win
                      ELSE IF Focused(s) \in s.mapped THEN Focused(s) ELSE NoWindow
               free == [s EXCEPT !.ignoreFocus = FALSE]
               r == SetFocusTo(free, foc)
    <2>1. s.list # <<>>
        BY <1>12 DEF ResumeWorkspace
    <2>2. s' = r \/ s' = UnhideApplication(r, a, FALSE, LastFocused(r, a))
        BY <1>12, Zenon DEF ResumeWorkspace
    <2>3. Keeps(free, s)
        BY IgnoreFocusKeeps, Zenon DEF Sound
    <2>4. foc \in Managed(s) \cup {NoWindow}
        <3>1. Focused(s) \in Managed(s)
            BY <2>1, EmptySeq DEF Focused, Last, Managed, Range, Sound, FocusSound, ScreenFields
        <3> QED BY <3>1 DEF Valid
    <2> HIDE DEF free, foc
    <2>5. Keeps(r, free)
        BY <2>3, <2>4, SetFocusToKeeps DEF Keeps, Same
    <2> HIDE DEF r
    <2>6. Sound(r)
        BY <2>3, <2>5, KeepsSound
    <2>7. Sound(UnhideApplication(r, a, FALSE, LastFocused(r, a)))
        BY <2>6, UnhiddenSound, Zenon
    <2>8. CASE s' = r
        BY <2>6, <2>8
    <2>9. CASE s' = UnhideApplication(r, a, FALSE, LastFocused(r, a))
        BY <2>7, <2>9, Zenon
    <2> QED BY <2>2, <2>8, <2>9
<1>13. CASE User \/ \E w \in Windows : ClientMaps(w)
    <2>1. PICK events : s' = [s EXCEPT !.events = events]
        BY <1>13 DEF User, ClientMaps, Send
    <2> QED BY <2>1, EventsSound
<1>14. CASE \E w \in Windows : ClientWithdraws(w)
    <2>1. PICK viewable, events : s' = [s EXCEPT !.viewable = viewable, !.events = events]
        BY <1>14 DEF ClientWithdraws
    <2> QED BY <2>1, EventsSound
<1>15. CASE \E w \in Windows : ClientDestroys(w)
    <2>1. PICK w, viewable, events :
            s' = [s EXCEPT !.alive = s.alive \ {w}, !.viewable = viewable, !.events = events]
        BY <1>15 DEF ClientDestroys
    <2> QED BY <2>1, EventsSound
<1>16. CASE \E a \in Windows : BounceEnds(a)
    <2>1. PICK a : s' \in {[s EXCEPT !.bouncing = @ \ {a}],
                           LeaveApplication([s EXCEPT !.bouncing = @ \ {a}], a)}
        BY <1>16 DEF BounceEnds
    <2>2. s \in ScreenFields(s) /\ FocusSound(s)
        BY DEF Sound, FocusSound
    <2>3. Keeps([s EXCEPT !.bouncing = @ \ {a}], s)
        BY <2>2, OtherFields DEF ScreenFields
    <2> QED BY <2>1, <2>3, KeepsSound, LeaveApplicationSound
<1>17. CASE UNCHANGED s
    BY <1>17
<1>18. CASE LastFocusedIsGone \/ FocusedWindowIsGone \/ ApplicationIsGone \/ ResumeIconify \/ WindowIsGone
    BY <1>17, <1>18 DEF LastFocusedIsGone, FocusedWindowIsGone, ApplicationIsGone, ResumeIconify,
                        WindowIsGone, Crash
<1> QED
    BY <1>1, <1>2, <1>3, <1>4, <1>5, <1>6, <1>7, <1>8, <1>9, <1>10, <1>11, <1>12, <1>13, <1>14,
       <1>15, <1>16, <1>17, <1>18 DEF Next, Handle, Resume, Client, vars

\* manageAllWindows.
LEMMA SoundInit ==
    ASSUME Init
    PROVE  Sound(s)
<1>1. PICK list \in SetToSeqs(Initial) :
        /\ s = [alive |-> Windows, viewable |-> Initial, events |-> <<>>, list |-> list,
             life |-> [w \in Windows |-> IF w \in Initial THEN 1 ELSE 0],
             workspace |-> [w \in Windows |-> 0],
             mapped |-> Initial, miniaturized |-> {}, hidden |-> {},
             focused |-> IF list = <<>> THEN {} ELSE {Last(list)},
             main |-> [w \in Windows |-> IF w \in Initial THEN LeaderOf[w] ELSE NoWindow],
             apps |-> {LeaderOf[w] : w \in Initial}, appHidden |-> {}, bouncing |-> {},
             lastFocused |-> [w \in Windows |-> Nobody],
             lastWorkspace |-> [w \in Windows |-> 0],
             current |-> 0, ignoreFocus |-> FALSE]
    BY DEF Init
<1>2. Cardinality(Initial) \in Nat
    BY FS_Subset, FS_CardinalityType, WindowManagerAssumption
<1>3. /\ list \in [1 .. Cardinality(Initial) -> Initial]
      /\ \A i, j \in 1 .. Cardinality(Initial) : i # j => list[i] # list[j]
    BY DEF SetToSeqs
<1>4. list \in Seq(Windows) /\ IsInjective(list)
    <2>1. list \in Seq(Initial)
        BY <1>2, <1>3
    <2>2. list \in Seq(Windows)
        BY <2>1, SeqMonotonic, WindowManagerAssumption
    <2> QED BY <1>3, <2>2 DEF IsInjective
<1>5. list # <<>> => Last(list) \in Windows
    BY <1>4, EmptySeq DEF Last
<1>6. /\ s.list = list
      /\ s.focused = IF list = <<>> THEN {} ELSE {Last(list)}
      /\ s.hidden = {}
    BY <1>1
<1>7. s \in ScreenFields(s)
    <2> DEFINE main == [w \in Windows |-> IF w \in Initial THEN LeaderOf[w] ELSE NoWindow]
               apps == {LeaderOf[w] : w \in Initial}
               focused == IF list = <<>> THEN {} ELSE {Last(list)}
    <2>1. main \in [Windows -> WindowOrNone] /\ apps \subseteq Windows /\ focused \subseteq Windows
        BY <1>5, WindowManagerAssumption DEF WindowOrNone
    <2> QED BY <1>1, <1>4, <2>1 DEF ScreenFields
<1> QED BY <1>4, <1>6, <1>7 DEF Sound, FocusSound, HiddenSound, Focused

\* In every state of the window manager the screen is sound, handlers that wait
\* in ProcessPendingEvents included.
THEOREM ScreenIsSound == Spec => []Sound(s)
<1>1. Sound(s) => s.alive \subseteq Windows
    BY DEF Sound, FocusSound, ScreenFields
<1>2. Init => Sound(s)
    BY SoundInit
<1>3. Sound(s) /\ [Next]_vars => Sound(s)'
    BY <1>1, SoundStep
<1> QED BY <1>2, <1>3, PTL DEF Spec

\* Only the head of the focus list may have the focus (wSetFocusTo,
\* wHideApplication, wUnmanageWindow).
THEOREM FocusedIsHeadAlways == Spec => []FocusedIsHead
<1>1. Sound(s) => FocusedIsHead
    BY DEF Sound, FocusSound, FocusedIsHead
<1> QED BY <1>1, ScreenIsSound, PTL

\* The application of a hidden window knows that it is hidden
\* (wHideApplication, wUnhideApplication, wApplicationCreate and -Destroy).
THEOREM HiddenHasApplicationAlways == Spec => []HiddenHasApplication
<1>1. Sound(s) => HiddenHasApplication
    <2>1. Sound(s) => NoWindow \notin s.apps
        BY WindowManagerAssumption DEF Sound, FocusSound, ScreenFields
    <2> QED BY <2>1 DEF Sound, HiddenSound, HiddenHasApplication
<1> QED BY <1>1, ScreenIsSound, PTL

=============================================================================
