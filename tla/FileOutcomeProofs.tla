-------------------------- MODULE FileOutcomeProofs --------------------------
(***************************************************************************)
(* Proofs about what FileTool leaves behind: that a move keeps the data,   *)
(* that a run without a problem does everything it was asked to do, and    *)
(* that a stop before the first problem undoes it, unless its cleanup      *)
(* fails.                                                                  *)
(*                                                                         *)
(* While the tool runs, every listed file still waits, is under way, or is *)
(* over; what the two trees hold below it follows from that, and for the   *)
(* file under way from the calls on the stack.                             *)
(***************************************************************************)
EXTENDS FileToolProofs

-----------------------------------------------------------------------------
(* The calls under way and the files that wait. *)

\* Steps of a call that no other call of its file is outside of.
LastSteps == MoveSteps \cup {"delete", "deleteFailed"}

\* A move between file systems; the operations that copy.
Cross == op = "Move" /\ ~sameFS
Copies == op \in {"Copy", "Duplicate"} \/ Cross

Called(w) == {w[i] : i \in DOMAIN w}
Calls == Called(work)
Waits == Called(Tail(work))

Waiting(f) == \E i \in DOMAIN todo : todo[i] = f
Current(f) == \E t \in Calls : t.path \in Below(f)
Pending(f) == Waiting(f) \/ Current(f)

Placed(w) ==
    \A i \in DOMAIN w :
        /\ i < Len(w) => w[i].do \notin LastSteps
        /\ i = Len(w) /\ Cross => w[i].do \in LastSteps

StepsOf ==
    CASE op = "Link"           -> {"newLink", "newLinkAnswered", "makeLink"}
      [] op = "Delete"         -> {"delete", "deleteFailed"}
      [] op = "Move" /\ sameFS -> {"move", "moveAnswered", "rename"}
      [] OTHER                 -> Steps

\* The calls under way are about one listed file, which does not wait any more.
Order ==
    /\ \A i, j \in DOMAIN todo : todo[i] = todo[j] => i = j
    /\ work # <<>> => \E f \in Listed : ~Waiting(f) /\ \A t \in Calls : t.path \in Below(f)
    /\ Placed(work)
    /\ \A t \in Calls : t.do \in StepsOf

\* The source of what is not over is as it was.
Sources ==
    /\ op \notin {"Move", "Delete"} => src = src0
    /\ op = "Delete" => dst = dst0
    /\ \A f \in Listed : Pending(f) => \A p \in Below(f) : src[p] = src0[p]

-----------------------------------------------------------------------------
(* What is below what. *)

\* Every path is below exactly one listed file.
LEMMA Owners ==
    /\ \A p \in Paths : \E f \in Listed : p \in Below(f)
    /\ \A p, f, g : f \in Listed /\ g \in Listed /\ p \in Below(f) /\ p \in Below(g) => f = g
    /\ \A f \in Listed : f \in Paths /\ f \in Below(f) /\ Below(f) \subseteq Paths
    /\ \A p \in Paths : p \in Below(p) /\ Below(p) \subseteq Paths
    /\ \A p \in Paths, f \in Listed : p \in Below(f) => Below(p) \subseteq Below(f)
    /\ \A p \in Listed, f \in Listed : p \in Below(f) => p = f
    /\ \A p \in Paths, f \in Listed : \A q : q \in Below(p) /\ q \in Below(f) => p \in Below(f)
<1>1. \A p \in Paths : \E f \in Listed : p \in Below(f)
    BY DEF Paths, Below
<1>2. \A p, f, g : f \in Listed /\ g \in Listed /\ p \in Below(f) /\ p \in Below(g) => f = g
    BY FileToolAssumption DEF Below
<1>3. \A p \in Paths : p \in Below(p) /\ Below(p) \subseteq Paths
    BY DEF Paths, Below
<1>4. \A f \in Listed : f \in Paths
    BY DEF Paths
<1>5. \A p \in Paths, f \in Listed : p \in Below(f) => Below(p) \subseteq Below(f)
    BY FileToolAssumption DEF Below
<1>6. \A p \in Paths, f \in Listed : \A q : q \in Below(p) /\ q \in Below(f) => p \in Below(f)
    BY <1>1, <1>2, <1>5
<1>7. \A p \in Listed, f \in Listed : p \in Below(f) => p = f
    BY <1>2, <1>3, <1>4
<1> QED BY <1>1, <1>2, <1>3, <1>4, <1>5, <1>6, <1>7

\* Nothing is below what is not a directory.
LEMMA NothingBelow ==
    ASSUME NEW t \in Trees, NEW p \in Paths, t[p] # "dir", NEW q \in Below(p)
    PROVE  q = p \/ (t[q] = "none" /\ q \in Paths)
BY DEF Trees, Below, Above, Paths

\* What was there before is a tree.
LEMMA TreesBefore ==
    ASSUME Sound
    PROVE  /\ src0 \in Trees /\ dst0 \in Trees
           /\ src0 \in [Paths -> Entries] /\ dst0 \in [Paths -> Entries]
           /\ src \in [Paths -> Entries] /\ dst \in [Paths -> Entries]
           /\ \A p \in Paths : src0[p] \notin {"part", "old", "linkedDir"} /\ dst0[p] # "part"
<1>1. src0 \in SourceTrees /\ dst0 \in TargetTrees /\ src \in Trees /\ dst \in Trees
    BY DEF Sound, TypeOK
<1>2. src0 \in Trees /\ dst0 \in Trees
    BY <1>1, FileToolAssumption
<1> QED BY <1>1, <1>2, FilesAssumption DEF Trees

-----------------------------------------------------------------------------
(* The stack. *)

\* A stack is its head and the calls that wait.
LEMMA CalledFacts ==
    ASSUME NEW w \in Seq(Tasks), w # <<>>
    PROVE  /\ Head(w) = w[1] /\ Len(w) \in Nat /\ Len(w) > 0
           /\ Tail(w) \in Seq(Tasks) /\ Len(Tail(w)) = Len(w) - 1
           /\ \A i \in 1 .. Len(w) - 1 : Tail(w)[i] = w[i + 1]
           /\ Called(w) = {Head(w)} \cup Called(Tail(w))
<1>1. /\ Head(w) = w[1] /\ Len(w) \in Nat /\ Len(w) > 0
      /\ Tail(w) \in Seq(Tasks) /\ Len(Tail(w)) = Len(w) - 1
      /\ \A i \in 1 .. Len(w) - 1 : Tail(w)[i] = w[i + 1]
    BY EmptySeq, HeadTailProperties
<1>2. DOMAIN w = 1 .. Len(w) /\ DOMAIN Tail(w) = 1 .. Len(w) - 1
    BY <1>1
<1>3. ASSUME NEW t \in Called(w) PROVE t = Head(w) \/ t \in Called(Tail(w))
    <2>1. PICK i \in 1 .. Len(w) : t = w[i]
        BY <1>2 DEF Called
    <2>2. CASE i = 1
        BY <1>1, <2>1, <2>2
    <2>3. CASE i > 1
        <3>1. i - 1 \in 1 .. Len(w) - 1 /\ Tail(w)[i - 1] = w[(i - 1) + 1]
            BY <1>1, <2>1, <2>3
        <3>2. (i - 1) + 1 = i
            BY <2>1, <1>1
        <3> QED BY <1>2, <2>1, <3>1, <3>2 DEF Called
    <2> QED BY <1>1, <2>1, <2>2, <2>3
<1>4. Head(w) \in Called(w)
    <2>1. 1 \in DOMAIN w
        BY <1>1, <1>2
    <2> QED BY <1>1, <2>1 DEF Called
<1>5. ASSUME NEW t \in Called(Tail(w)) PROVE t \in Called(w)
    <2>1. PICK i \in 1 .. Len(w) - 1 : t = Tail(w)[i]
        BY <1>2 DEF Called
    <2>2. t = w[i + 1] /\ i + 1 \in DOMAIN w
        BY <1>1, <1>2, <2>1
    <2> QED BY <2>2 DEF Called
<1> QED BY <1>1, <1>3, <1>4, <1>5

\* Calls in front of others.
LEMMA CalledConcat ==
    ASSUME NEW v \in Seq(Tasks), NEW w \in Seq(Tasks)
    PROVE  Called(v \o w) = Called(v) \cup Called(w)
<1>1. /\ v \o w \in Seq(Tasks)
      /\ Len(v \o w) = Len(v) + Len(w)
      /\ \A i \in 1 .. Len(v) + Len(w) : (v \o w)[i] = IF i <= Len(v) THEN v[i] ELSE w[i - Len(v)]
    BY ConcatProperties
<1>2. Len(v) \in Nat /\ Len(w) \in Nat /\ DOMAIN v = 1 .. Len(v) /\ DOMAIN w = 1 .. Len(w)
      /\ DOMAIN (v \o w) = 1 .. Len(v) + Len(w)
    BY <1>1
<1> DEFINE u == v \o w
<1> HIDE DEF u
<1>3. ASSUME NEW t \in Called(u) PROVE t \in Called(v) \cup Called(w)
    <2>1. PICK i \in 1 .. Len(v) + Len(w) : t = u[i]
        BY <1>2 DEF Called, u
    <2>2. CASE i <= Len(v)
        BY <1>1, <1>2, <2>1, <2>2 DEF Called, u
    <2>3. CASE i > Len(v)
        <3>1. i - Len(v) \in DOMAIN w /\ t = w[i - Len(v)]
            BY <1>1, <1>2, <2>1, <2>3 DEF u
        <3> QED BY <3>1 DEF Called
    <2> QED BY <1>2, <2>1, <2>2, <2>3
<1>4. ASSUME NEW t \in Called(v) PROVE t \in Called(u)
    <2>1. PICK i \in 1 .. Len(v) : t = v[i]
        BY <1>2 DEF Called
    <2>2. t = u[i] /\ i \in DOMAIN u
        BY <1>1, <1>2, <2>1 DEF u
    <2> QED BY <2>2 DEF Called
<1>5. ASSUME NEW t \in Called(w) PROVE t \in Called(u)
    <2>1. PICK i \in 1 .. Len(w) : t = w[i]
        BY <1>2 DEF Called
    <2>2. i + Len(v) \in 1 .. Len(v) + Len(w) /\ ~(i + Len(v) <= Len(v)) /\ (i + Len(v)) - Len(v) = i
        BY <1>2, <2>1
    <2>3. u[i + Len(v)] = w[(i + Len(v)) - Len(v)]
        BY <1>1, <2>2 DEF u
    <2>4. t = u[i + Len(v)] /\ i + Len(v) \in DOMAIN u
        BY <1>2, <2>1, <2>2, <2>3 DEF u
    <2> QED BY <2>4 DEF Called
<1> QED BY <1>3, <1>4, <1>5 DEF u

\* What waits is placed; the last call of a file waits for no other.
LEMMA PlacedTail ==
    ASSUME NEW w \in Seq(Tasks), w # <<>>, Placed(w)
    PROVE  /\ Placed(Tail(w))
           /\ Head(w).do \in LastSteps => Tail(w) = <<>>
           /\ Cross /\ Head(w).do \notin LastSteps =>
                Tail(w) # <<>> /\ \E t \in Called(Tail(w)) : t.do \in LastSteps
<1>1. /\ Head(w) = w[1] /\ Len(w) \in Nat /\ Len(w) > 0
      /\ Tail(w) \in Seq(Tasks) /\ Len(Tail(w)) = Len(w) - 1
      /\ \A i \in 1 .. Len(w) - 1 : Tail(w)[i] = w[i + 1]
    BY CalledFacts
<1>2. DOMAIN w = 1 .. Len(w) /\ DOMAIN Tail(w) = 1 .. Len(w) - 1
    BY <1>1
<1>3. ASSUME NEW i \in DOMAIN Tail(w)
      PROVE  /\ i < Len(Tail(w)) => Tail(w)[i].do \notin LastSteps
             /\ i = Len(Tail(w)) /\ Cross => Tail(w)[i].do \in LastSteps
    <2>1. i + 1 \in DOMAIN w /\ Tail(w)[i] = w[i + 1]
          /\ (i < Len(Tail(w)) => i + 1 < Len(w)) /\ (i = Len(Tail(w)) => i + 1 = Len(w))
        BY <1>1, <1>2
    <2> QED BY <2>1 DEF Placed
<1>4. Placed(Tail(w))
    BY <1>3 DEF Placed
<1>5. ASSUME Head(w).do \in LastSteps PROVE Tail(w) = <<>>
    <2>1. 1 \in DOMAIN w /\ ~(1 < Len(w))
        BY <1>1, <1>2, <1>5 DEF Placed
    <2>2. Len(Tail(w)) = 0
        BY <1>1, <2>1
    <2> QED BY <1>1, <2>2, EmptySeq
<1>6. ASSUME Cross, Head(w).do \notin LastSteps
      PROVE  Tail(w) # <<>> /\ \E t \in Called(Tail(w)) : t.do \in LastSteps
    <2>1. 1 # Len(w)
        BY <1>1, <1>2, <1>6 DEF Placed
    <2>2. Len(Tail(w)) > 0 /\ Len(Tail(w)) \in DOMAIN Tail(w)
        BY <1>1, <1>2, <2>1
    <2>3. Tail(w)[Len(Tail(w))].do \in LastSteps
        BY <1>3, <1>6, <2>2
    <2>4. Tail(w) # <<>>
        <3>1. Tail(w) = <<>> => Len(Tail(w)) = 0
            BY ONLY Len(<<>>) = 0
        <3> QED BY <1>1, <2>2, <3>1
    <2> QED BY <2>2, <2>3, <2>4 DEF Called
<1> QED BY <1>4, <1>5, <1>6

\* Calls that are no last ones are put in front of what is placed.
LEMMA PlacedConcat ==
    ASSUME NEW v \in Seq(Tasks), NEW w \in Seq(Tasks), Placed(w),
           \A t \in Called(v) : t.do \notin LastSteps,
           Cross /\ v # <<>> => w # <<>>
    PROVE  Placed(v \o w)
<1>1. /\ v \o w \in Seq(Tasks)
      /\ Len(v \o w) = Len(v) + Len(w)
      /\ \A i \in 1 .. Len(v) + Len(w) : (v \o w)[i] = IF i <= Len(v) THEN v[i] ELSE w[i - Len(v)]
    BY ConcatProperties
<1>2. Len(v) \in Nat /\ Len(w) \in Nat /\ DOMAIN v = 1 .. Len(v) /\ DOMAIN w = 1 .. Len(w)
      /\ DOMAIN (v \o w) = 1 .. Len(v) + Len(w)
    BY <1>1
<1>3. Len(v) > 0 /\ Cross => Len(w) > 0
    <2>1. Len(v) > 0 => v # <<>>
        BY EmptySeq
    <2>2. w # <<>> => Len(w) # 0
        BY EmptySeq
    <2> QED BY <1>2, <2>1, <2>2
<1> DEFINE u == v \o w
<1> HIDE DEF u
<1>4. ASSUME NEW i \in DOMAIN u
      PROVE  /\ i < Len(u) => u[i].do \notin LastSteps
             /\ i = Len(u) /\ Cross => u[i].do \in LastSteps
    <2>1. CASE i <= Len(v)
        <3>1. i \in DOMAIN v /\ u[i] = v[i]
            BY <1>1, <1>2, <1>4, <2>1 DEF u
        <3>2. u[i].do \notin LastSteps
            BY <3>1 DEF Called
        <3>3. ~(i = Len(u) /\ Cross)
            BY <1>1, <1>2, <1>3, <1>4, <2>1 DEF u
        <3> QED BY <3>2, <3>3
    <2>2. CASE i > Len(v)
        <3>1. /\ i - Len(v) \in DOMAIN w /\ u[i] = w[i - Len(v)]
              /\ (i < Len(u) => i - Len(v) < Len(w)) /\ (i = Len(u) => i - Len(v) = Len(w))
            BY <1>1, <1>2, <1>4, <2>2 DEF u
        <3> QED BY <3>1 DEF Placed
    <2> QED BY <1>2, <1>4, <2>1, <2>2 DEF u
<1> QED BY <1>4 DEF Placed, u

\* One call.
LEMMA OneCall ==
    ASSUME NEW t \in Tasks
    PROVE  /\ <<t>> \in Seq(Tasks) /\ <<t>> # <<>> /\ Called(<<t>>) = {t}
           /\ (Cross => t.do \in LastSteps) => Placed(<<t>>)
<1>1. <<t>> \in Seq(Tasks) /\ Len(<<t>>) = 1 /\ <<t>>[1] = t /\ DOMAIN <<t>> = {1}
    BY DEF Placed
<1>2. <<t>> # <<>>
    BY <1>1, EmptySeq
<1>3. Called(<<t>>) = {t}
    BY <1>1 DEF Called
<1>4. ASSUME Cross => t.do \in LastSteps PROVE Placed(<<t>>)
    BY <1>1, <1>4 DEF Placed
<1> QED BY <1>1, <1>2, <1>3, <1>4

-----------------------------------------------------------------------------
(* What a step makes of the calls. *)

\* The innermost call and those that wait for it.
LEMMA TopCalls ==
    ASSUME Sound, Order, work # <<>>
    PROVE  /\ Calls = {Top} \cup Waits
           /\ Top \in Tasks /\ Path \in Paths /\ Path = Top.path
           /\ \A t \in Calls : t \in Tasks /\ t.path \in Paths
           /\ \A t \in Waits : t.do \in OuterSteps
           /\ \A t \in Waits : t.do \in LastSteps => t.do = "copied"
           /\ Top.do \in LastSteps => Waits = {} /\ Tail(work) = <<>>
           /\ Cross /\ Top.do \notin LastSteps =>
                Tail(work) # <<>> /\ \E t \in Waits : t.do = "copied"
           /\ Tail(work) \in Seq(Tasks) /\ Placed(Tail(work))
           /\ Tail(work) # <<>> => Head(Tail(work)) \in Waits
<1>1. work \in Seq(Tasks) /\ StackSound(work)
    BY DEF Sound, StackSound
<1>2. Calls = {Top} \cup Waits /\ Tail(work) \in Seq(Tasks)
    BY <1>1, CalledFacts DEF Calls, Waits, Top
<1>3. Top \in Tasks /\ Path \in Paths /\ Path = Top.path
    BY TopFacts DEF Path
<1>4. \A t \in Calls : t \in Tasks /\ t.path \in Paths
    <2> SUFFICES ASSUME NEW t \in Calls PROVE t \in Tasks /\ t.path \in Paths
        OBVIOUS
    <2>1. t \in Tasks
        BY <1>1 DEF Calls, Called
    <2> QED BY <2>1 DEF Tasks
<1>5. \A t \in Waits : t.do \in OuterSteps
    <2> SUFFICES ASSUME NEW t \in Waits PROVE t.do \in OuterSteps
        OBVIOUS
    <2>1. PICK i \in DOMAIN Tail(work) : t = Tail(work)[i]
        BY DEF Waits, Called
    <2>2. /\ Len(work) \in Nat /\ Len(Tail(work)) = Len(work) - 1
          /\ \A j \in 1 .. Len(work) - 1 : Tail(work)[j] = work[j + 1]
        BY <1>1, CalledFacts
    <2>3. i \in 1 .. Len(work) - 1
        BY <1>2, <2>1, <2>2
    <2>4. i + 1 \in DOMAIN work /\ i + 1 > 1 /\ t = work[i + 1]
        BY <1>1, <2>1, <2>2, <2>3
    <2> QED BY <1>1, <2>4 DEF StackSound
<1>6. \A t \in Waits : t.do \in LastSteps => t.do = "copied"
    BY <1>5 DEF OuterSteps, LastSteps, MoveSteps
<1>7. /\ Placed(Tail(work))
      /\ Top.do \in LastSteps => Tail(work) = <<>>
      /\ Cross /\ Top.do \notin LastSteps =>
            Tail(work) # <<>> /\ \E t \in Waits : t.do \in LastSteps
    BY <1>1, PlacedTail DEF Order, Top, Waits
<1>8. Tail(work) = <<>> => Waits = {}
    BY DEF Waits, Called
<1>9. Tail(work) # <<>> => Head(Tail(work)) \in Waits
    BY <1>2, CalledFacts DEF Waits
<1> QED BY <1>2, <1>3, <1>4, <1>5, <1>6, <1>7, <1>8, <1>9

\* The calls that take the place of the innermost one are about the same file.
LEMMA OrderKept ==
    ASSUME Sound, Order, work # <<>>, UNCHANGED <<fixed, todo>>,
           NEW N, Calls' = N \cup Waits,
           \A t \in N : t.path \in Below(Path) /\ t.do \in StepsOf,
           Placed(work)'
    PROVE  /\ Order'
           /\ \A f \in Listed : Waiting(f)' <=> Waiting(f)
           /\ \A f \in Listed : Pending(f)' => Pending(f)
           /\ \A f \in Listed : Pending(f) => Pending(f)' \/ Path \in Below(f)
           /\ \A f \in Listed : Path \in Below(f) => Pending(f) /\ ~Waiting(f)
           /\ \A f \in Listed : Current(f) <=> Path \in Below(f)
           /\ \A f \in Listed : Current(f)' => Current(f)
           /\ \A f \in Listed, t \in Calls : Path \in Below(f) => t.path \in Below(f)
<1>1. UNCHANGED <<op, sameFS, src0, dst0, todo>>
    BY DEF fixed
<1>2. Calls = {Top} \cup Waits /\ Path \in Paths /\ Path = Top.path
    BY TopCalls
<1>3. PICK f \in Listed : ~Waiting(f) /\ \A t \in Calls : t.path \in Below(f)
    BY DEF Order
<1>4. Path \in Below(f) /\ Below(Path) \subseteq Below(f)
    BY <1>2, <1>3, Owners
<1>5. ~Waiting(f)' /\ \A t \in Calls' : t.path \in Below(f)
    <2>1. ~Waiting(f)'
        BY <1>1, <1>3 DEF Waiting
    <2> QED BY <1>2, <1>3, <1>4, <2>1
<1>6. StepsOf' = StepsOf
    BY <1>1 DEF StepsOf
<1>7. \A t \in Calls' : t.do \in StepsOf'
    BY <1>2, <1>6 DEF Order
<1>8. \A i, j \in DOMAIN todo' : todo'[i] = todo'[j] => i = j
    BY <1>1 DEF Order
<1>9. \E g \in Listed : ~Waiting(g)' /\ \A t \in Calls' : t.path \in Below(g)
    BY <1>5
<1>10. Order'
    BY <1>7, <1>8, <1>9 DEF Order
<1>11. \A g \in Listed : Waiting(g)' <=> Waiting(g)
    BY <1>1 DEF Waiting
<1>12. \A g \in Listed : Current(g)' => g = f
    BY <1>5, Owners DEF Current
<1>13. \A g \in Listed : Current(g) => g = f
    BY <1>3, Owners DEF Current
<1>14. Current(f)
    BY <1>2, <1>4 DEF Current
<1>15. \A g \in Listed : Path \in Below(g) => g = f
    BY <1>4, Owners
<1> QED BY <1>3, <1>4, <1>10, <1>11, <1>12, <1>13, <1>14, <1>15 DEF Pending

\* A call returns.
LEMMA Returned ==
    ASSUME Sound, Order, work # <<>>, Return, UNCHANGED <<fixed, todo>>
    PROVE  /\ Order'
           /\ Calls' = {} \cup Waits
           /\ work' # <<>> => Top'.do \in OuterSteps
           /\ Top.do \in LastSteps => work' = <<>>
<1>1. UNCHANGED <<op, sameFS, src0, dst0>> /\ work' = Tail(work)
    BY DEF fixed, Return
<1>2. Calls' = {} \cup Waits
    BY <1>1 DEF Calls, Waits, Called
<1>3. Placed(work)'
    <2>1. Placed(Tail(work))
        BY TopCalls
    <2> QED BY <1>1, <2>1 DEF Placed, Cross
<1>4. Order'
    <2> DEFINE N == {}
    <2>1. Calls' = N \cup Waits
        BY <1>2
    <2>2. \A t \in N : t.path \in Below(Path) /\ t.do \in StepsOf
        OBVIOUS
    <2> HIDE DEF N
    <2> QED BY <1>3, <2>1, <2>2, OrderKept
<1>5. work' # <<>> => Top'.do \in OuterSteps
    BY <1>1, TopCalls DEF Top
<1>6. Top.do \in LastSteps => work' = <<>>
    BY <1>1, TopCalls
<1> QED BY <1>2, <1>4, <1>5, <1>6

\* A call goes on with its next step.
LEMMA Went ==
    ASSUME Sound, Order, work # <<>>, UNCHANGED <<fixed, todo>>,
           NEW step \in Steps, Goto(step), step \in StepsOf,
           step \in LastSteps <=> Top.do \in LastSteps
    PROVE  /\ Order'
           /\ Calls' = {[do |-> step, path |-> Path]} \cup Waits
           /\ work' # <<>>
           /\ Top' = [do |-> step, path |-> Path] /\ Top'.do = step /\ Path' = Path
<1> DEFINE t == [do |-> step, path |-> Path]
<1>1. [Top EXCEPT !.do = step] = t
    BY TopFacts DEF Tasks, Path
<1>2. t \in Tasks /\ t.do = step /\ t.path = Path /\ Path \in Paths
    BY TopCalls DEF Tasks
<1>3. work' = <<t>> \o Tail(work) /\ UNCHANGED <<op, sameFS, src0, dst0>>
    BY <1>1 DEF Goto, fixed
<1> HIDE DEF t
<1>4. /\ Tail(work) \in Seq(Tasks) /\ Placed(Tail(work))
      /\ Top.do \in LastSteps => Tail(work) = <<>>
      /\ Cross /\ Top.do \notin LastSteps => Tail(work) # <<>>
    BY TopCalls
<1>5. <<t>> \in Seq(Tasks) /\ <<t>> # <<>> /\ Called(<<t>>) = {t}
      /\ ((Cross => step \in LastSteps) => Placed(<<t>>))
    BY <1>2, OneCall
<1>6. Placed(<<t>> \o Tail(work))
    <2>1. CASE step \in LastSteps
        <3>1. Tail(work) = <<>> /\ Placed(<<t>>)
            BY <1>4, <1>5, <2>1
        <3>2. <<t>> \o <<>> = <<t>>
            BY ONLY <1>5, ConcatEmptySeq
        <3> QED BY <3>1, <3>2
    <2>2. CASE step \notin LastSteps
        BY <1>2, <1>4, <1>5, <2>2, PlacedConcat
    <2> QED BY <2>1, <2>2
<1>7. Placed(work)'
    BY <1>3, <1>6 DEF Placed, Cross
<1>8. Called(<<t>> \o Tail(work)) = {t} \cup Waits
    BY <1>4, <1>5, CalledConcat DEF Waits
<1>9. Calls' = {t} \cup Waits
    BY <1>3, <1>8 DEF Calls, Called
<1>10. Order'
    <2> DEFINE N == {t}
    <2>1. Calls' = N \cup Waits
        BY <1>9
    <2>2. \A u \in N : u.path \in Below(Path) /\ u.do \in StepsOf
        BY <1>2, Owners
    <2> HIDE DEF N
    <2> QED BY <1>7, <2>1, <2>2, OrderKept
<1>11. work' # <<>> /\ Top' = t
    <2>1. StackSound(Tail(work)) /\ (Tail(work) = <<>> \/ Head(Tail(work)).do \in OuterSteps)
        BY TopFacts
    <2>2. Len(<<t>> \o Tail(work)) = 1 + Len(Tail(work)) /\ (<<t>> \o Tail(work))[1] = t
          /\ <<t>> \o Tail(work) \in Seq(Tasks) /\ Len(Tail(work)) \in Nat
        BY <1>2, <1>4
    <2>3. <<t>> \o Tail(work) # <<>> /\ Head(<<t>> \o Tail(work)) = t
        BY <2>2
    <2> QED BY <1>3, <2>3 DEF Top
<1> QED BY <1>2, <1>9, <1>10, <1>11 DEF t, Path

\* A call that copies belongs to an operation that copies.
LEMMA Copier ==
    ASSUME Sound, Order, work # <<>>,
           Top.do \notin {"newLink", "newLinkAnswered", "makeLink", "delete", "deleteFailed",
                          "move", "moveAnswered", "rename"}
    PROVE  StepsOf = Steps /\ Copies /\ op \notin {"Link", "Delete"} /\ ~(op = "Move" /\ sameFS)
<1>1. Top.do \in StepsOf
    BY TopCalls DEF Order
<1>2. op \in Operations
    BY DEF Sound, TypeOK
<1> QED BY <1>1, <1>2 DEF StepsOf, Copies, Cross, Operations

\* CopyDirectory's loop: the children, then the chmod.
LEMMA Expanded ==
    ASSUME Sound, Order, work # <<>>, UNCHANGED <<fixed, todo>>,
           Path \in Listed, Top.do = "contents",
           work' = [i \in DOMAIN Kids[Path] |-> [do |-> "file", path |-> Kids[Path][i]]]
                   \o <<[do |-> "chmod", path |-> Path]>> \o Tail(work)
    PROVE  /\ Order'
           /\ Calls' = ({[do |-> "file", path |-> k] : k \in KidsOf(Path)}
                            \cup {[do |-> "chmod", path |-> Path]}) \cup Waits
           /\ work' # <<>> /\ Top'.do \in {"file", "chmod"}
<1> DEFINE k == Kids[Path]
           c == [do |-> "chmod", path |-> Path]
           v == [i \in DOMAIN k |-> [do |-> "file", path |-> k[i]]]
           N == {[do |-> "file", path |-> q] : q \in KidsOf(Path)} \cup {c}
<1>0. UNCHANGED <<op, sameFS, src0, dst0>>
    BY DEF fixed
<1>1. k \in Seq(KidsOf(Path)) /\ KidsOf(Path) \subseteq Paths /\ KidsOf(Path) \subseteq Below(Path)
    BY FileToolAssumption DEF Paths, Below
<1>2. c \in Tasks /\ c.do = "chmod" /\ c.path = Path /\ Path \in Below(Path)
    BY Owners DEF Tasks, Steps, Paths
<1>3. /\ v \in Seq(Tasks)
      /\ Called(v) = {[do |-> "file", path |-> q] : q \in KidsOf(Path)}
    <2>1. DOMAIN k = 1 .. Len(k) /\ Len(k) \in Nat /\ \A i \in 1 .. Len(k) : k[i] \in Paths
        BY <1>1
    <2>2. \A i \in 1 .. Len(k) : [do |-> "file", path |-> k[i]] \in Tasks
        BY <2>1 DEF Tasks, Steps
    <2>3. v \in Seq(Tasks) /\ DOMAIN v = DOMAIN k
        BY <2>1, <2>2
    <2>4. Called(v) = {[do |-> "file", path |-> k[i]] : i \in DOMAIN k}
        BY <2>3 DEF Called
    <2>5. KidsOf(Path) = {k[i] : i \in DOMAIN k}
        BY DEF KidsOf
    <2> QED BY <2>3, <2>4, <2>5
<1>4. \A t \in N : t.path \in Below(Path) /\ t.do \in {"file", "chmod"} /\ t \in Tasks
    BY <1>1, <1>2 DEF Tasks, Steps
<1>5. work' = (v \o <<c>>) \o Tail(work)
    OBVIOUS
<1>6. StepsOf = Steps /\ \A t \in N : t.do \in StepsOf
    BY <1>4, Copier DEF Steps
<1>7. /\ Tail(work) \in Seq(Tasks) /\ Placed(Tail(work))
      /\ Cross => Tail(work) # <<>>
    BY TopCalls DEF LastSteps, MoveSteps
<1>8. <<c>> \in Seq(Tasks) /\ Called(<<c>>) = {c} /\ <<c>> # <<>>
    BY <1>2, OneCall
<1> HIDE DEF v, c, k
<1> DEFINE u == v \o <<c>>
<1>9. u \in Seq(Tasks) /\ Called(u) = N
    <2>1. u \in Seq(Tasks)
        BY ONLY <1>3, <1>8, ConcatProperties
    <2>2. Called(u) = Called(v) \cup Called(<<c>>)
        BY ONLY <1>3, <1>8, CalledConcat
    <2> QED BY <1>3, <1>8, <2>1, <2>2
<1> HIDE DEF u, N
<1>10. Placed(u \o Tail(work))
    <2>1. \A t \in Called(u) : t.do \notin LastSteps
        BY <1>4, <1>9 DEF LastSteps, MoveSteps
    <2> QED BY <1>7, <1>9, <2>1, PlacedConcat
<1>11. work' = u \o Tail(work)
    BY <1>5 DEF u
<1>12. Calls' = N \cup Waits
    <2>1. Called(u \o Tail(work)) = N \cup Waits
        BY <1>7, <1>9, CalledConcat DEF Waits
    <2> QED BY <1>11, <2>1 DEF Calls, Called
<1>13. Placed(work)'
    BY <1>0, <1>10, <1>11 DEF Placed, Cross
<1>14. Order'
    BY <1>4, <1>6, <1>12, <1>13, OrderKept
<1>15. work' # <<>> /\ Top'.do \in {"file", "chmod"}
    <2>1. u # <<>>
        <3>1. c \in Called(u)
            BY <1>9 DEF N
        <3> QED BY <3>1 DEF Called
    <2>2. Head(u) \in Called(u)
        BY <1>9, <2>1, CalledFacts
    <2>3. work' # <<>> /\ Head(work') = Head(u)
        <3>1. Len(u) \in Nat /\ Len(u) > 0 /\ u[1] = Head(u) /\ Len(Tail(work)) \in Nat
            BY <1>7, <1>9, <2>1, CalledFacts
        <3>2. /\ u \o Tail(work) \in Seq(Tasks)
              /\ Len(u \o Tail(work)) = Len(u) + Len(Tail(work))
              /\ \A i \in 1 .. Len(u) + Len(Tail(work)) :
                    (u \o Tail(work))[i] = IF i <= Len(u) THEN u[i] ELSE Tail(work)[i - Len(u)]
            BY ONLY <1>7, <1>9, ConcatProperties
        <3>3. 1 \in 1 .. Len(u) + Len(Tail(work)) /\ 1 <= Len(u)
            BY <3>1
        <3>4. (u \o Tail(work))[1] = Head(u)
            BY <3>1, <3>2, <3>3
        <3> DEFINE all == u \o Tail(work)
        <3> HIDE DEF all
        <3>5. Len(all) > 0 /\ all \in Seq(Tasks) /\ all[1] = Head(u)
            BY ONLY <3>1, <3>2, <3>4 DEF all
        <3>6. all # <<>> /\ Head(all) = Head(u)
            BY ONLY <3>5
        <3> QED BY ONLY <1>11, <3>6 DEF all
    <2> QED BY <1>4, <1>9, <2>2, <2>3 DEF Top
<1> QED BY <1>12, <1>14, <1>15 DEF N, c

\* The copy of a move between file systems: a copy, unless stopped, and its end.
LEMMA Crossed ==
    ASSUME Sound, Order, CrossCopy
    PROVE  /\ Order' /\ Copies /\ Cross
           /\ work' # <<>> /\ Top'.path = Path /\ Path' = Path
           /\ LET copy == [do |-> StepFor(src[Path]), path |-> Path]
                  end == [do |-> "copied", path |-> Path]
              IN  IF isStopped
                  THEN Calls' = {end} \cup Waits /\ Top' = end
                  ELSE Calls' = {copy, end} \cup Waits /\ Top' = copy
<1> DEFINE end == [do |-> "copied", path |-> Path]
           copy == [do |-> StepFor(src[Path]), path |-> Path]
<1>1. /\ At("crossCopy") /\ work # <<>> /\ Top.do = "crossCopy"
      /\ UNCHANGED <<fixed, todo, op, sameFS, src0, dst0>>
      /\ work' = IF isStopped THEN <<end>> \o Tail(work) ELSE <<copy>> \o (<<end>> \o Tail(work))
    BY DEF CrossCopy, At, fixed
<1>2. Tail(work) = <<>> /\ Waits = {} /\ Path \in Paths
    BY <1>1, TopCalls DEF LastSteps, MoveSteps
<1>3. StepsOf = Steps /\ Copies /\ Cross
    <2>1. op = "Move"
        BY <1>1, AtFacts DEF MoveSteps
    <2> QED BY <1>1, <2>1, Copier DEF Cross
<1>4. /\ end \in Tasks /\ end.do = "copied" /\ end.path = Path
      /\ copy \in Tasks /\ copy.do \in {"link", "dir", "regular", "unknown"} /\ copy.path = Path
      /\ Path \in Below(Path)
    <2>1. src \in Trees
        BY DEF Sound, TypeOK
    <2> QED BY <1>2, <2>1, StepForSound, Owners DEF Tasks, Steps
<1> HIDE DEF end, copy
<1>5. /\ <<end>> \in Seq(Tasks) /\ Called(<<end>>) = {end} /\ Placed(<<end>>)
      /\ <<end>> # <<>> /\ Head(<<end>>) = end
      /\ <<copy>> \in Seq(Tasks) /\ Called(<<copy>>) = {copy} /\ <<copy>> # <<>>
    <2>1. end.do \in LastSteps
        BY <1>4 DEF LastSteps, MoveSteps
    <2>2. Head(<<end>>) = end
        OBVIOUS
    <2> QED BY ONLY <1>4, <2>1, <2>2, OneCall
<1>6. <<end>> \o Tail(work) = <<end>>
    BY ONLY <1>2, <1>5, ConcatEmptySeq
<1> DEFINE two == <<copy>> \o <<end>>
<1>7. Placed(two) /\ Called(two) = {copy, end}
    <2>1. \A t \in Called(<<copy>>) : t.do \notin LastSteps
        BY <1>4, <1>5 DEF LastSteps, MoveSteps
    <2>2. Placed(two)
        BY <1>5, <2>1, PlacedConcat
    <2>3. Called(two) = Called(<<copy>>) \cup Called(<<end>>)
        BY ONLY <1>5, CalledConcat
    <2> QED BY <1>5, <2>2, <2>3
<1>8. two # <<>> /\ Head(two) = copy
    <2>1. /\ two \in Seq(Tasks)
          /\ Len(two) = Len(<<copy>>) + Len(<<end>>)
          /\ \A i \in 1 .. Len(<<copy>>) + Len(<<end>>) :
                two[i] = IF i <= Len(<<copy>>) THEN <<copy>>[i] ELSE <<end>>[i - Len(<<copy>>)]
        BY ONLY <1>5, ConcatProperties
    <2>2. Len(<<copy>>) = 1 /\ Len(<<end>>) = 1 /\ <<copy>>[1] = copy
        OBVIOUS
    <2> HIDE DEF two
    <2>3. Len(two) = 2 /\ two[1] = copy
        BY ONLY <2>1, <2>2
    <2> QED BY ONLY <2>1, <2>3
<1> HIDE DEF two
<1>9. work' = IF isStopped THEN <<end>> ELSE two
    BY <1>1, <1>6 DEF two
<1>10. Placed(work)'
    <2>1. Placed(work')
        BY <1>5, <1>7, <1>9
    <2> QED BY <1>1, <2>1 DEF Placed, Cross
<1>11. work' # <<>> /\ Top' = IF isStopped THEN end ELSE copy
    BY <1>5, <1>8, <1>9 DEF Top
<1>12. Calls' = IF isStopped THEN {end} ELSE {copy, end}
    BY <1>5, <1>7, <1>9 DEF Calls, Called
<1>13. Order'
    <2> DEFINE N == Calls'
    <2>1. Calls' = N \cup Waits
        BY <1>2
    <2>2. \A t \in N : t.path \in Below(Path) /\ t.do \in StepsOf
        BY <1>3, <1>4, <1>12 DEF Tasks
    <2> HIDE DEF N
    <2> QED BY <1>1, <1>10, <2>1, <2>2, OrderKept
<1>14. Path' = Path
    BY <1>4, <1>11 DEF Path
<1> QED BY <1>2, <1>3, <1>4, <1>11, <1>12, <1>13, <1>14 DEF end, copy

-----------------------------------------------------------------------------
(* The invariant of a running tool. *)

\* Steps that nothing but a problem leads to.
Trouble ==
    AnsweredSteps \cup {"linkAnswered", "original", "close", "linkedDir", "elsewhere", "deleteFailed"}
        \cup IF op = "Link" THEN {} ELSE {"newLink", "makeLink"}

\* Until the first problem no operation has failed, and nobody was asked.
Smooth ==
    NoProblemMet =>
        /\ opResult /\ ~consent
        /\ work # <<>> => Top.do \notin Trouble

Unmoved(f) == \A p \in Below(f) : src[p] = src0[p] /\ dst[p] = dst0[p]
Moved(f) == \A p \in Below(f) : src[p] = "none" /\ dst[p] = src0[p]

\* A listed file is renamed in one step: it is here or there.
Renames ==
    op = "Move" /\ sameFS /\ (NoProblemMet \/ EmptyTarget) =>
        /\ \A f \in Listed :
                \/ Unmoved(f) /\ (Pending(f) \/ ~NoProblemMet)
                \/ Moved(f) /\ ~Pending(f)
        /\ work # <<>> /\ Top.do = "rename" => dst[Path] = "none"
        /\ work # <<>> => Top.do # "moveAnswered"

\* What a call is still going to copy.
Reach(t) ==
    CASE t.do \in {"file", "regular", "create", "data", "link", "unknown"} -> {t.path}
      [] t.do \in {"dir", "move", "crossCopy"} -> Below(t.path)
      [] t.do = "contents" -> KidsOf(t.path)
      [] OTHER -> {}

Ahead(p) ==
    \/ \E f \in Listed : Waiting(f) /\ p \in Below(f)
    \/ \E t \in Calls : p \in Reach(t)

\* A path is copied later, or there was nothing to copy, or it is copied.
Fine(p) ==
    \/ Ahead(p) /\ (src0[p] \notin {"file", "dir"} => dst[p] = dst0[p])
    \/ src0[p] \in {"none", "file", "dir"} /\ dst[p] = CopyOf(src0)[p]

\* The innermost call is about what it takes the source for.
Typed ==
    work # <<>> =>
        /\ Top.do \in {"regular", "create", "data"} => src0[Path] = "file"
        /\ Top.do \in {"dir", "contents"} => src0[Path] = "dir"

Copying ==
    Copies /\ NoProblemMet /\ ~isStopped => Typed /\ \A p \in Paths : Fine(p)

\* Moved to another file system: there, or still here when the tool is stopped; what
\* is half copied is removed with the listed file that it is below, unless that fails.
Crossing ==
    Cross /\ NoProblemMet =>
        /\ \A f \in Listed :
                \/ Pending(f) \/ Moved(f)
                \/ isStopped /\ \A p \in Below(f) : src[p] = src0[p]
        /\ ~isStopped /\ work # <<>> /\ Top.do # "move" =>
                \A f \in Listed : Current(f) => dst0[f] = "none"
        /\ faults = 0 => \A p \in Paths : dst[p] = "part" =>
                /\ \E t \in Calls : t.do = "copied" /\ p \in Below(t.path)
                /\ isStopped \/ (Top.do = "data" /\ Path = p)

Linking ==
    op = "Link" /\ NoProblemMet =>
        /\ \A t \in Calls : t.path \in Listed
        /\ \A f \in Listed : dst[f] = "newLink" \/ Pending(f)

Deleting ==
    op = "Delete" /\ NoProblemMet /\ ~isStopped =>
        \A f \in Listed : Pending(f) \/ \A p \in Below(f) : src[p] = "none"

Running ==
    Order /\ Sources /\ Smooth /\ Renames /\ Copying /\ Crossing /\ Linking /\ Deleting

\* While it runs, the tool is on its way; then, it has kept what it promised.
Outcome ==
    /\ Sound
    /\ IF status = "running" THEN Running
       ELSE MoveKeepsData /\ CompletesFaithfully /\ StopUndoes

-----------------------------------------------------------------------------
(* Steps of a copy. *)

\* A question is a problem, and after a problem there is no run without one.
LEMMA Questions ==
    ASSUME NoQuestion \/ \E p \in ProblemTypes : Ask(p)
    PROVE  /\ NoProblemMet' => NoProblemMet /\ NoQuestion
           /\ \A p \in ProblemTypes : Ask(p) => ~NoProblemMet'
           /\ consent' = consent
<1>1. NoProblem \notin ProblemTypes
    BY DEF NoProblem, ProblemTypes, SkipOnlyProblems
<1> QED BY <1>1 DEF NoQuestion, comm, Ask, NoProblemMet

\* After a problem, only the order of the calls and the source is of interest.
LEMMA TroubledRunning ==
    ASSUME Order', Sources', ~NoProblemMet', ~(op = "Move" /\ sameFS), UNCHANGED <<op, sameFS>>
    PROVE  Running'
BY DEF Running, Smooth, Renames, Copying, Crossing, Linking, Deleting

\* The source is not touched.
LEMMA SourcesKept ==
    ASSUME Sound, Order, Sources, work # <<>>, UNCHANGED <<fixed, todo, src>>, op # "Delete",
           NEW N, Calls' = N \cup Waits,
           \A t \in N : t.path \in Below(Path), Order'
    PROVE  Sources'
<1>1. UNCHANGED <<op, sameFS, src0, dst0>>
    BY DEF fixed
<1>2. \A t \in N : t.path \in Below(Path) /\ t.do \in StepsOf
    <2>1. StepsOf' = StepsOf
        BY <1>1 DEF StepsOf
    <2> QED BY <2>1 DEF Order
<1>3. \A f \in Listed : Pending(f)' => Pending(f)
    BY <1>2, OrderKept DEF Order
<1> QED BY <1>1, <1>3 DEF Sources

\* The copy of a move is under the end of it.
LEMMA CopiedAbove ==
    ASSUME Sound, Order, work # <<>>, Cross, Top.do \notin LastSteps
    PROVE  \E t \in Waits : t.do = "copied" /\ t.path \in Listed /\ Path \in Below(t.path)
<1>1. PICK t \in Waits : t.do = "copied"
    BY TopCalls
<1>2. t \in Calls /\ Top \in Calls /\ Path = Top.path
    BY TopCalls
<1>3. TaskSound(t)
    BY <1>2 DEF Calls, Called, Sound, StackSound
<1>4. t.path \in Listed
    BY <1>1, <1>3 DEF TaskSound, ListedSteps, MoveSteps
<1>5. PICK f \in Listed : \A u \in Calls : u.path \in Below(f)
    BY DEF Order
<1>6. t.path = f
    BY <1>2, <1>4, <1>5, Owners
<1> QED BY <1>1, <1>2, <1>4, <1>5, <1>6

\* A step of a copy that does nothing but to its own path, and does that right as
\* long as there is no problem.
LEMMA CopyStep ==
    ASSUME Sound, Running, work # <<>>, Copies, UNCHANGED <<fixed, todo, isStopped, src>>,
           faults' = 0 => faults = 0,
           NoQuestion \/ \E p \in ProblemTypes : Ask(p),
           NEW N, Calls' = N \cup Waits, \A t \in N : t.path \in Below(Path), Order',
           NoProblemMet' =>
              /\ opResult'
              /\ Top.do \notin LastSteps
              /\ \A p \in Paths \ {Path} : dst'[p] = dst[p]
              /\ work' # <<>> => Top'.do \notin Trouble
              /\ ~isStopped =>
                    /\ Typed'
                    /\ \A p \in Paths : p \in Reach(Top) \/ dst'[p] # dst[p] => Fine(p)'
              /\ dst'[Path] = "part" /\ (dst[Path] # "part" \/ Top.do = "data") =>
                    isStopped \/ (Top'.do = "data" /\ Path' = Path)
    PROVE  Running'
<1>1. UNCHANGED <<op, sameFS, src0, dst0>>
    BY DEF fixed
<1>2. /\ op \notin {"Link", "Delete"} /\ ~(op = "Move" /\ sameFS)
      /\ Copies' = Copies /\ Cross' = Cross /\ Trouble' = Trouble
    BY <1>1 DEF Copies, Cross, Trouble
<1>3. Sources'
    BY <1>2, SourcesKept DEF Running
<1>4. CASE ~NoProblemMet'
    BY <1>1, <1>2, <1>3, <1>4, TroubledRunning
<1>5. CASE NoProblemMet'
    <2>1. NoProblemMet /\ NoQuestion /\ consent' = consent
        BY <1>5, Questions
    <2>2. Smooth'
        BY <1>2, <1>5, <2>1 DEF Running, Smooth
    <2>3. /\ \A f \in Listed : Waiting(f)' <=> Waiting(f)
          /\ \A f \in Listed : Pending(f) => Pending(f)' \/ Path \in Below(f)
          /\ \A f \in Listed : Path \in Below(f) => Pending(f) /\ ~Waiting(f)
          /\ \A f \in Listed : Current(f) <=> Path \in Below(f)
          /\ \A f \in Listed : Current(f)' => Current(f)
          /\ \A f \in Listed, t \in Calls : Path \in Below(f) => t.path \in Below(f)
        <3>1. \A t \in N : t.path \in Below(Path) /\ t.do \in StepsOf
            <4>1. StepsOf' = StepsOf
                BY <1>1 DEF StepsOf
            <4> QED BY <4>1 DEF Order
        <3> QED BY <3>1, OrderKept DEF Order, Running
    <2>4. Calls = {Top} \cup Waits /\ Path \in Paths
        BY TopCalls DEF Running
    <2>5. Copying'
        <3> SUFFICES ASSUME ~isStopped, NEW p \in Paths, p \notin Reach(Top),
                            dst'[p] = dst[p]
                     PROVE  Fine(p)'
            BY <1>5 DEF Copying
        <3>1. Fine(p) /\ dst'[p] = dst[p]
            BY <1>5, <2>1 DEF Running, Copying
        <3>2. Ahead(p) => Ahead(p)'
            <4>1. ASSUME NEW t \in Calls, p \in Reach(t) PROVE \E u \in Calls' : p \in Reach(u)
                BY <2>4, <4>1
            <4>2. \A u : Reach(u)' = Reach(u)
                BY DEF Reach
            <4> QED BY <2>3, <4>1 DEF Ahead, Reach
        <3> QED BY <1>1, <3>1, <3>2 DEF Fine, CopyOf
    <2>6. Crossing'
        <3> SUFFICES ASSUME Cross PROVE Crossing'
            BY <1>2 DEF Crossing
        <3>1. PICK c \in Waits : c.do = "copied" /\ c.path \in Listed /\ Path \in Below(c.path)
            BY <1>5, CopiedAbove DEF Running
        <3>2. c \in Calls'
            OBVIOUS
        <3>3. \A f \in Listed :
                \/ Pending(f) \/ Moved(f)
                \/ isStopped /\ \A p \in Below(f) : src[p] = src0[p]
            BY <2>1 DEF Running, Crossing
        <3>4. ASSUME NEW f \in Listed
              PROVE  \/ Pending(f)' \/ Moved(f)'
                     \/ isStopped' /\ \A p \in Below(f) : src'[p] = src0'[p]
            <4>1. CASE Path \in Below(f)
                <5>1. c.path \in Below(f)
                    BY <2>3, <2>4, <4>1
                <5> QED BY <3>2, <5>1 DEF Pending, Current
            <4>2. CASE Path \notin Below(f)
                <5>1. Moved(f) => Moved(f)'
                    <6>1. \A p \in Below(f) : p \in Paths \ {Path}
                        BY <4>2, Owners
                    <6> QED BY <1>1, <1>5, <6>1 DEF Moved
                <5> QED BY <1>1, <2>3, <3>3, <4>2, <5>1
            <4> QED BY <4>1, <4>2
        <3>5. ~isStopped' => \A f \in Listed : Current(f)' => dst0'[f] = "none"
            <4>1. Top.do # "move"
                BY <1>5 DEF LastSteps, MoveSteps
            <4> QED BY <1>1, <2>1, <2>3, <4>1 DEF Running, Crossing
        <3>6. ASSUME faults' = 0, NEW p \in Paths, dst'[p] = "part"
              PROVE  /\ \E t \in Calls' : t.do = "copied" /\ p \in Below(t.path)
                     /\ isStopped' \/ (Top'.do = "data" /\ Path' = p)
            <4>1. CASE p = Path
                <5>1. dst[Path] = "part" => isStopped \/ Top.do = "data"
                    BY <2>1, <2>4, <3>6 DEF Running, Crossing
                <5> QED BY <1>5, <3>1, <3>2, <3>6, <4>1, <5>1
            <4>2. CASE p # Path
                <5>1. dst[p] = "part"
                    BY <1>5, <3>6, <4>2
                <5>2. /\ \E t \in Calls : t.do = "copied" /\ p \in Below(t.path)
                      /\ isStopped
                    BY <2>1, <3>6, <4>2, <5>1 DEF Running, Crossing
                <5>3. Top.do # "copied"
                    BY <1>5 DEF LastSteps, MoveSteps
                <5> QED BY <2>4, <5>2, <5>3
            <4> QED BY <4>1, <4>2
        <3> QED BY <3>4, <3>5, <3>6 DEF Crossing
    <2>7. Renames' /\ Linking' /\ Deleting'
        BY <1>1, <1>2 DEF Renames, Linking, Deleting
    <2> QED BY <1>3, <2>2, <2>5, <2>6, <2>7 DEF Running
<1> QED BY <1>4, <1>5

\* A path that has nothing to be copied is as it was.
LEMMA FineFacts ==
    ASSUME Sound, Running, Copies, NoProblemMet, ~isStopped, NEW p \in Paths
    PROVE  /\ src0[p] \notin {"file", "dir"} => dst[p] = dst0[p]
           /\ CopyOf(src0)[p] = IF src0[p] \in {"file", "dir"} THEN src0[p] ELSE dst0[p]
           /\ Fine(p)
<1>1. CopyOf(src0)[p] = IF src0[p] \in {"file", "dir"} THEN src0[p] ELSE dst0[p]
    BY DEF CopyOf
<1>2. Fine(p)
    BY DEF Running, Copying
<1> QED BY <1>1, <1>2 DEF Fine

\* The source of the file under way is as it was.
LEMMA SourceAt ==
    ASSUME Sound, Running, work # <<>>, NEW p \in Below(Path)
    PROVE  src[p] = src0[p] /\ p \in Paths
<1>1. Top \in Calls /\ Top.path = Path /\ Path \in Paths
    BY TopCalls DEF Running
<1>2. PICK f \in Listed : Path \in Below(f)
    BY <1>1, Owners
<1>3. Pending(f)
    BY <1>1, <1>2 DEF Pending, Current
<1>4. p \in Below(f) /\ p \in Paths
    BY <1>1, <1>2, Owners
<1> QED BY <1>2, <1>3, <1>4 DEF Running, Sources

\* A call of a copy that returns.
LEMMA ReturnStep ==
    ASSUME Sound, Running, work # <<>>, Copies, UNCHANGED <<fixed, todo, isStopped, src>>,
           faults' = 0 => faults = 0,
           NoQuestion \/ \E p \in ProblemTypes : Ask(p),
           Return,
           NoProblemMet' =>
              /\ opResult'
              /\ Top.do \notin LastSteps
              /\ \A p \in Paths \ {Path} : dst'[p] = dst[p]
              /\ ~isStopped =>
                    \A p \in Paths : p \in Reach(Top) \/ dst'[p] # dst[p] => Fine(p)'
              /\ dst'[Path] = "part" /\ (dst[Path] # "part" \/ Top.do = "data") => isStopped
    PROVE  Running'
<1> DEFINE N == {}
<1>1. Order' /\ Calls' = N \cup Waits /\ (work' # <<>> => Top'.do \in OuterSteps)
    BY Returned DEF Running
<1>2. \A t \in N : t.path \in Below(Path)
    OBVIOUS
<1> HIDE DEF N
<1>3. op # "Link"
    BY DEF Copies, Cross
<1>4. work' # <<>> => Top'.do \notin Trouble
    BY <1>1, <1>3 DEF Trouble, OuterSteps, AnsweredSteps
<1>5. Typed'
    BY <1>1 DEF Typed, OuterSteps
<1> QED BY <1>1, <1>2, <1>4, <1>5, CopyStep

\* A call of a copy that goes on.
LEMMA GotoStep ==
    ASSUME Sound, Running, work # <<>>, Copies, UNCHANGED <<fixed, todo, isStopped, src>>,
           faults' = 0 => faults = 0,
           NoQuestion \/ \E p \in ProblemTypes : Ask(p),
           Top.do \notin {"delete", "deleteFailed", "move", "moveAnswered", "rename",
                          "copied", "crossCopy"},
           NEW step \in Steps \ LastSteps, Goto(step),
           NoProblemMet' =>
              /\ opResult'
              /\ \A p \in Paths \ {Path} : dst'[p] = dst[p]
              /\ step \notin Trouble
              /\ ~isStopped =>
                    /\ step \in {"regular", "create", "data"} => src0[Path] = "file"
                    /\ step \in {"dir", "contents"} => src0[Path] = "dir"
                    /\ \A p \in Reach(Top) \cup {Path} :
                          \/ /\ p \in Reach([do |-> step, path |-> Path])
                             /\ src0[p] \notin {"file", "dir"} => dst'[p] = dst0[p]
                          \/ src0[p] \in {"none", "file", "dir"} /\ dst'[p] = CopyOf(src0)[p]
              /\ dst'[Path] = "part" /\ (dst[Path] # "part" \/ Top.do = "data") =>
                    isStopped \/ step = "data"
    PROVE  Running'
<1> DEFINE t == [do |-> step, path |-> Path]
           N == {t}
<1>0. UNCHANGED <<op, sameFS, src0, dst0>>
    BY DEF fixed
<1>1. StepsOf = Steps
    <2>1. op \notin {"Link", "Delete"} /\ ~(op = "Move" /\ sameFS)
        BY DEF Copies, Cross
    <2> QED BY <2>1 DEF StepsOf
<1>2. Top.do \notin LastSteps
    BY DEF LastSteps, MoveSteps
<1>3. /\ Order' /\ Calls' = {t} \cup Waits /\ work' # <<>>
      /\ Top' = t /\ Top'.do = step /\ Path' = Path
    BY <1>1, <1>2, Went DEF Running
<1>4. \A u \in N : u.path \in Below(Path)
    <2>1. t.path = Path /\ Path \in Paths
        BY TopCalls DEF Running
    <2> QED BY <2>1, Owners
<1>5. Calls' = N \cup Waits /\ t \in Calls'
    BY <1>3
<1> HIDE DEF N, t
<1>6. ASSUME NoProblemMet', ~isStopped, NEW p \in Paths, p \in Reach(Top) \cup {Path}
      PROVE  Fine(p)'
    <2>1. CASE p \in Reach(t) /\ (src0[p] \notin {"file", "dir"} => dst'[p] = dst0[p])
        <3>1. Ahead(p)'
            BY <1>5, <2>1 DEF Ahead, Reach
        <3> QED BY <1>0, <2>1, <3>1 DEF Fine
    <2>2. CASE src0[p] \in {"none", "file", "dir"} /\ dst'[p] = CopyOf(src0)[p]
        BY <1>0, <2>2 DEF Fine, CopyOf
    <2> QED BY <1>6, <2>1, <2>2 DEF t
<1>7. NoProblemMet' /\ ~isStopped => Typed'
    BY <1>0, <1>3 DEF Typed
<1> QED BY <1>2, <1>3, <1>4, <1>5, <1>6, <1>7, CopyStep

\* What is known at a step of a copy.
LEMMA AtCopy ==
    ASSUME Sound, Running, NEW step, At(step),
           step \notin {"newLink", "newLinkAnswered", "makeLink", "delete", "deleteFailed",
                        "move", "moveAnswered", "rename"}
    PROVE  /\ work # <<>> /\ Top.do = step /\ Path \in Paths /\ Copies
           /\ step \in ListedSteps => Path \in Listed
           /\ src \in [Paths -> Entries] /\ dst \in [Paths -> Entries]
           /\ NoProblemMet => opResult /\ step \notin Trouble
           /\ NoProblemMet /\ ~isStopped =>
                /\ step \in {"regular", "create", "data"} => src0[Path] = "file"
                /\ step \in {"dir", "contents"} => src0[Path] = "dir"
                /\ \A p \in Paths : src0[p] \notin {"file", "dir"} => dst[p] = dst0[p]
<1>1. /\ work # <<>> /\ Top.do = step /\ Path \in Paths
      /\ step \in ListedSteps => Path \in Listed
      /\ src \in [Paths -> Entries] /\ dst \in [Paths -> Entries]
    BY AtFacts
<1>2. Copies
    BY <1>1, Copier DEF Running
<1>3. NoProblemMet => opResult /\ step \notin Trouble
    BY <1>1 DEF Running, Smooth
<1>4. ASSUME NoProblemMet, ~isStopped
      PROVE  /\ step \in {"regular", "create", "data"} => src0[Path] = "file"
             /\ step \in {"dir", "contents"} => src0[Path] = "dir"
             /\ \A p \in Paths : src0[p] \notin {"file", "dir"} => dst[p] = dst0[p]
    BY <1>1, <1>2, <1>4, FineFacts DEF Running, Copying, Typed
<1> QED BY <1>1, <1>2, <1>3, <1>4

\* A call that only a problem has led to keeps the invariant, whatever it does at the
\* target.
LEMMA TroubleStep ==
    ASSUME Sound, Running, work # <<>>, Copies,
           Top.do \in Trouble \ {"moveAnswered", "deleteFailed"},
           UNCHANGED <<fixed, todo, isStopped, src>>, faults' = 0 => faults = 0,
           NoQuestion \/ \E p \in ProblemTypes : Ask(p),
           Return \/ \E step \in Steps \ LastSteps : Goto(step)
    PROVE  Running'
<1>1. ~NoProblemMet
    BY DEF Running, Smooth
<1>2. ~NoProblemMet'
    BY <1>1, Questions
<1>3. CASE Return
    BY <1>2, <1>3, ReturnStep
<1>4. CASE \E step \in Steps \ LastSteps : Goto(step)
    <2>1. PICK step \in Steps \ LastSteps : Goto(step)
        BY <1>4
    <2>2. op # "Link"
        BY DEF Copies, Cross
    <2>3. Top.do \notin {"delete", "move", "rename", "copied", "crossCopy"}
        BY <2>2 DEF Trouble, AnsweredSteps
    <2> QED BY <1>2, <2>1, <2>3, GotoStep
<1> QED BY <1>3, <1>4

\* CopyRegular.
LEMMA CopyRegularRuns ==
    ASSUME Sound, Running, faults' = 0 => faults = 0,
           Regular \/ RegularAnswered \/ Create \/ Data \/ CloseUninitialised
    PROVE  Running'
<1>0. /\ {"WriteError", "ReadError", "FileExists", "AttributesUnchangeable"} \subseteq ProblemTypes
      /\ {"regularAnswered", "create", "close", "data"} \subseteq Steps \ LastSteps
      /\ {"regularAnswered", "close"} \subseteq Trouble
      /\ {"create", "data"} \cap Trouble = {}
    BY DEF ProblemTypes, SkipOnlyProblems, Steps, LastSteps, MoveSteps, Trouble, AnsweredSteps
<1>1. ASSUME Regular PROVE Running'
    <2> USE <1>1 DEF Regular, files
    <2>1. At("regular")
        OBVIOUS
    <2>2. /\ work # <<>> /\ Top.do = "regular" /\ Path \in Paths /\ Copies
          /\ NoProblemMet => opResult
          /\ NoProblemMet /\ ~isStopped => src0[Path] = "file"
        BY <2>1, AtCopy DEF ListedSteps, MoveSteps
    <2>3. CASE Goto("regularAnswered") /\ Ask("FileExists")
        BY <1>0, <2>2, <2>3, Questions, GotoStep
    <2>4. CASE dst[Path] = "none" /\ Goto("create") /\ NoQuestion
        <3>1. Reach(Top) = {Path} /\ Path \in Reach([do |-> "create", path |-> Path])
            BY <2>2 DEF Reach, Path
        <3> QED BY <1>0, <2>2, <2>4, <3>1, Questions, GotoStep
    <2> QED BY <2>3, <2>4
<1>2. ASSUME RegularAnswered PROVE Running'
    <2> USE <1>2 DEF RegularAnswered
    <2>1. At("regularAnswered")
        OBVIOUS
    <2>2. work # <<>> /\ Top.do = "regularAnswered" /\ Copies
        BY <2>1, AtCopy
    <2> QED BY <1>0, <2>2, TroubleStep
<1>3. ASSUME Create PROVE Running'
    <2> USE <1>3 DEF Create
    <2>1. At("create")
        OBVIOUS
    <2>2. /\ work # <<>> /\ Top.do = "create" /\ Path \in Paths /\ Copies
          /\ dst \in [Paths -> Entries]
          /\ NoProblemMet => opResult
          /\ NoProblemMet /\ ~isStopped => src0[Path] = "file"
        BY <2>1, AtCopy DEF ListedSteps, MoveSteps
    <2>3. CASE /\ dst' = [dst EXCEPT ![Path] = "part"]
               /\ Goto("data") /\ NoQuestion
        <3>1. Reach(Top) = {Path} /\ Path \in Reach([do |-> "data", path |-> Path])
            BY <2>2 DEF Reach, Path
        <3>2. \A p \in Paths \ {Path} : dst'[p] = dst[p]
            BY <2>2, <2>3
        <3> QED BY <1>0, <2>2, <2>3, <3>1, <3>2, Questions, GotoStep
    <2>4. CASE Goto("close") /\ \E p \in {"WriteError", "ReadError"} : Ask(p)
        BY <1>0, <2>2, <2>4, Questions, GotoStep
    <2>5. CASE Return /\ Ask("WriteError")
        BY <1>0, <2>2, <2>5, Questions, ReturnStep
    <2> QED BY <2>3, <2>4, <2>5
<1>4. ASSUME Data PROVE Running'
    <2> USE <1>4 DEF Data
    <2>1. At("data")
        OBVIOUS
    <2>2. /\ work # <<>> /\ Top.do = "data" /\ Path \in Paths /\ Copies
          /\ dst \in [Paths -> Entries]
          /\ NoProblemMet => opResult
          /\ NoProblemMet /\ ~isStopped => src0[Path] = "file"
        BY <2>1, AtCopy DEF ListedSteps, MoveSteps
    <2>3. CASE \E p \in {"WriteError", "ReadError", "AttributesUnchangeable"} : Ask(p)
        BY <1>0, <2>2, <2>3, Questions, ReturnStep
    <2>4. CASE /\ NoQuestion
               /\ dst' = IF isStopped THEN dst ELSE [dst EXCEPT ![Path] = "file"]
        <3>1. Reach(Top) = {Path} /\ Top.do \notin LastSteps
            BY <2>2 DEF Reach, Path, LastSteps, MoveSteps
        <3>2. /\ \A p \in Paths \ {Path} : dst'[p] = dst[p]
              /\ ~isStopped => dst'[Path] = "file"
            BY <2>2, <2>4
        <3>3. src0' = src0 /\ dst0' = dst0
            BY DEF fixed
        <3>4. ASSUME ~isStopped, NoProblemMet', NEW p \in Paths, p = Path PROVE Fine(p)'
            <4>1. src0'[p] = "file" /\ dst'[p] = "file"
                BY <2>2, <2>4, <3>2, <3>3, <3>4, Questions
            <4> QED BY <4>1 DEF Fine, CopyOf
        <3> QED BY <1>0, <2>2, <2>4, <3>1, <3>2, <3>4, Questions, ReturnStep
    <2> QED BY <2>3, <2>4
<1>5. ASSUME CloseUninitialised PROVE Running'
    <2>1. At("close") /\ Return /\ NoQuestion /\ UNCHANGED <<fixed, todo, isStopped, src>>
        BY <1>5 DEF CloseUninitialised, NoQuestion, files
    <2>2. work # <<>> /\ Top.do = "close" /\ Copies
        BY <2>1, AtCopy
    <2> QED BY <1>0, <2>1, <2>2, TroubleStep
<1> QED BY <1>1, <1>2, <1>3, <1>4, <1>5

\* CopyDirectory, CopyFile for a child, and what is left out.
LEMMA CopyDirectoryRuns ==
    ASSUME Sound, Running, faults' = 0 => faults = 0,
           Directory \/ DirectoryAnswered \/ Contents \/ File \/ Chmod \/ Unknown
    PROVE  Running'
<1>0. /\ {"WriteError", "ReadError", "FileExists", "UnknownFile", "AttributesUnchangeable"}
            \subseteq ProblemTypes
      /\ {"dirAnswered", "contents"} \subseteq Steps \ LastSteps
      /\ "dirAnswered" \in Trouble
      /\ {"contents", "link", "dir", "regular", "unknown", "file", "chmod"} \cap Trouble = {}
      /\ {"contents", "link", "dir", "regular", "unknown", "file", "chmod"} \cap LastSteps = {}
    BY DEF ProblemTypes, SkipOnlyProblems, Steps, LastSteps, MoveSteps, Trouble, AnsweredSteps
<1>a. UNCHANGED fixed => src0' = src0 /\ dst0' = dst0
    BY DEF fixed
<1>1. ASSUME Directory PROVE Running'
    <2> USE <1>1 DEF Directory, MakeDirectory
    <2>1. At("dir")
        OBVIOUS
    <2>2. /\ work # <<>> /\ Top.do = "dir" /\ Path \in Paths /\ Path \in Listed /\ Copies
          /\ dst \in [Paths -> Entries]
          /\ NoProblemMet => opResult
          /\ NoProblemMet /\ ~isStopped =>
                /\ src0[Path] = "dir"
                /\ \A p \in Paths : src0[p] \notin {"file", "dir"} => dst[p] = dst0[p]
        BY <2>1, AtCopy DEF ListedSteps, MoveSteps
    <2>3. CASE /\ Goto("contents") /\ NoQuestion /\ opResult' = opResult
               /\ dst' = [dst EXCEPT ![Path] = "dir"]
        <3>1. /\ Reach(Top) = {Path} \cup KidsOf(Path)
              /\ Reach([do |-> "contents", path |-> Path]) = KidsOf(Path)
            BY <2>2 DEF Reach, Path, Below
        <3>2. dst'[Path] = "dir" /\ \A p \in Paths \ {Path} : dst'[p] = dst[p]
            BY <2>2, <2>3
        <3>3. \A p \in KidsOf(Path) : p \in Paths \ {Path}
            BY <2>2, FileToolAssumption DEF Paths
        <3>4. CopyOf(src0)[Path] = IF src0[Path] \in {"file", "dir"} THEN src0[Path] ELSE dst0[Path]
            BY <2>2 DEF CopyOf
        <3> QED BY <1>0, <2>2, <2>3, <3>1, <3>2, <3>3, <3>4, Questions, GotoStep
    <2>4. CASE Goto("dirAnswered") /\ Ask("FileExists")
        BY <1>0, <2>2, <2>4, Questions, GotoStep
    <2>5. CASE Return /\ Ask("WriteError")
        BY <1>0, <2>2, <2>5, Questions, ReturnStep
    <2>6. dst[Path] = "dir" => dst = [dst EXCEPT ![Path] = "dir"]
        BY <2>2
    <2> QED BY <2>3, <2>4, <2>5, <2>6
<1>2. ASSUME DirectoryAnswered PROVE Running'
    <2> USE <1>2 DEF DirectoryAnswered, ReplaceFile
    <2>1. At("dirAnswered")
        OBVIOUS
    <2>2. work # <<>> /\ Top.do = "dirAnswered" /\ Copies
        BY <2>1, AtCopy
    <2> QED BY <1>0, <2>2, TroubleStep
<1>3. ASSUME Contents PROVE Running'
    <2> USE <1>3 DEF Contents, files
    <2>1. At("contents")
        OBVIOUS
    <2>2. /\ work # <<>> /\ Top.do = "contents" /\ Path \in Paths /\ Path \in Listed /\ Copies
          /\ NoProblemMet => opResult
          /\ NoProblemMet /\ ~isStopped =>
                \A p \in Paths : src0[p] \notin {"file", "dir"} => dst[p] = dst0[p]
        BY <2>1, AtCopy DEF ListedSteps, MoveSteps
    <2>3. CASE Return /\ Ask("ReadError")
        BY <1>0, <2>2, <2>3, Questions, ReturnStep
    <2>4. CASE /\ NoQuestion /\ opResult' = opResult
               /\ work' = [i \in DOMAIN Kids[Path] |-> [do |-> "file", path |-> Kids[Path][i]]]
                          \o <<[do |-> "chmod", path |-> Path]>> \o Tail(work)
        <3> DEFINE N == {[do |-> "file", path |-> k] : k \in KidsOf(Path)}
                            \cup {[do |-> "chmod", path |-> Path]}
        <3>1. Order' /\ Calls' = N \cup Waits /\ work' # <<>> /\ Top'.do \in {"file", "chmod"}
            BY <2>2, <2>4, Expanded DEF Running
        <3>2. \A t \in N : t.path \in Below(Path)
            BY <2>2 DEF Below
        <3>3. ASSUME NEW p \in Reach(Top) PROVE \E t \in N : p \in Reach(t)
            <4>1. p \in KidsOf(Path)
                BY <2>2 DEF Reach, Path
            <4>2. p \in Reach([do |-> "file", path |-> p])
                BY DEF Reach
            <4> QED BY <4>1, <4>2
        <3> HIDE DEF N
        <3>4. ASSUME NoProblemMet', ~isStopped, NEW p \in Paths, p \in Reach(Top)
              PROVE  Fine(p)'
            <4>1. Ahead(p)'
                BY <3>1, <3>3, <3>4 DEF Ahead, Reach
            <4>2. src0[p] \notin {"file", "dir"} => dst[p] = dst0[p]
                BY <2>2, <2>4, <3>4, Questions
            <4> QED BY <1>a, <4>1, <4>2 DEF Fine
        <3>5. Typed'
            BY <3>1 DEF Typed
        <3>6. Top'.do \notin Trouble
            BY <1>0, <3>1
        <3> QED BY <1>0, <2>2, <2>4, <3>1, <3>2, <3>4, <3>5, <3>6, Questions, CopyStep
    <2> QED BY <2>3, <2>4
<1>4. ASSUME File PROVE Running'
    <2>1. At("file")
        BY <1>4 DEF File
    <2>2. /\ work # <<>> /\ Top.do = "file" /\ Path \in Paths /\ Copies
          /\ src \in [Paths -> Entries]
          /\ NoProblemMet => opResult
        BY <2>1, AtCopy DEF ListedSteps, MoveSteps
    <2>3. /\ UNCHANGED <<fixed, todo, isStopped, src, dst, opResult>>
          /\ NoQuestion
        BY <1>4 DEF File, files, NoQuestion
    <2>4. src[Path] = src0[Path] /\ src0[Path] \notin {"part", "old", "linkedDir"}
        BY <2>2, SourceAt, Owners, TreesBefore
    <2>5. Reach(Top) = {Path}
        BY <2>2 DEF Reach, Path
    <2>6. CASE Return /\ (isStopped \/ src[Path] = "none")
        <3>1. ASSUME NoProblemMet', ~isStopped, NEW p \in Paths, p \in Reach(Top) PROVE Fine(p)'
            <4>1. src0[p] = "none" /\ p = Path
                BY <2>4, <2>5, <2>6, <3>1
            <4>2. dst[p] = dst0[p] /\ CopyOf(src0)[p] = dst0[p]
                BY <2>2, <2>3, <3>1, <4>1, FineFacts, Questions
            <4> QED BY <1>a, <2>3, <4>1, <4>2 DEF Fine, CopyOf
        <3> QED BY <1>0, <2>2, <2>3, <2>6, <3>1, Questions, ReturnStep
    <2>7. CASE Goto(StepFor(src[Path])) /\ src[Path] # "none"
        <3> DEFINE step == StepFor(src[Path])
        <3>1. step \in {"link", "dir", "regular", "unknown"} /\ step \in Steps
            <4>1. src \in Trees
                BY DEF Sound, TypeOK
            <4> QED BY <2>2, <4>1, StepForSound
        <3>2. /\ step = "regular" => src0[Path] = "file"
              /\ step = "dir" => src0[Path] = "dir"
            BY <2>4 DEF StepFor, Links
        <3> HIDE DEF step
        <3>3. Path \in Reach([do |-> step, path |-> Path])
            BY <2>2, <3>1, Owners DEF Reach
        <3> QED BY <1>0, <2>2, <2>3, <2>5, <2>7, <3>1, <3>2, <3>3, Questions, GotoStep, FineFacts DEF step
    <2> QED BY <1>4, <2>6, <2>7 DEF File
<1>5. ASSUME Chmod PROVE Running'
    <2> USE <1>5 DEF Chmod, files
    <2>1. At("chmod")
        OBVIOUS
    <2>2. /\ work # <<>> /\ Top.do = "chmod" /\ Path \in Paths /\ Copies
          /\ NoProblemMet => opResult
        BY <2>1, AtCopy
    <2>3. Reach(Top) = {}
        BY <2>2 DEF Reach
    <2> QED BY <1>0, <2>2, <2>3, Questions, ReturnStep
<1>6. ASSUME Unknown PROVE Running'
    <2> USE <1>6 DEF Unknown, files
    <2>1. At("unknown")
        OBVIOUS
    <2>2. work # <<>> /\ Top.do = "unknown" /\ Copies
        BY <2>1, AtCopy
    <2> QED BY <1>0, <2>2, Questions, ReturnStep
<1> QED BY <1>1, <1>2, <1>3, <1>4, <1>5, <1>6

\* The directory that a link points to is copied after the question about the link.
LEMMA LinkedDirectoryRuns ==
    ASSUME Sound, Running, faults' = 0 => faults = 0,
           LinkedDirectory \/ LinkedDirectoryAnswered \/ LinkedContents
    PROVE  Running'
<1>0. /\ {"WriteError", "ReadError", "FileExists"} \subseteq ProblemTypes
      /\ Elsewhere \subseteq ProblemTypes
      /\ {"linkedDirAnswered", "elsewhere", "chmod"} \subseteq Steps \ LastSteps
      /\ {"linkedDir", "linkedDirAnswered", "elsewhere"} \subseteq Trouble \ {"moveAnswered", "deleteFailed"}
    BY FileToolAssumption
       DEF ProblemTypes, SkipOnlyProblems, Steps, LastSteps, MoveSteps, Trouble, AnsweredSteps
<1>1. ASSUME LinkedDirectory PROVE Running'
    <2>1. At("linkedDir") /\ MakeDirectory("linkedDir", "linkedDirAnswered", "elsewhere")
        BY <1>1 DEF LinkedDirectory
    <2>2. work # <<>> /\ Top.do = "linkedDir" /\ Copies
        BY <2>1, AtCopy
    <2> QED BY <1>0, <2>1, <2>2, TroubleStep DEF MakeDirectory
<1>2. ASSUME LinkedDirectoryAnswered PROVE Running'
    <2>1. At("linkedDirAnswered") /\ ReplaceFile("elsewhere")
        BY <1>2 DEF LinkedDirectoryAnswered
    <2>2. work # <<>> /\ Top.do = "linkedDirAnswered" /\ Copies
        BY <2>1, AtCopy
    <2> QED BY <1>0, <2>1, <2>2, TroubleStep DEF ReplaceFile
<1>3. ASSUME LinkedContents PROVE Running'
    <2>1. At("elsewhere") /\ UNCHANGED <<fixed, todo, isStopped, src>>
        BY <1>3 DEF LinkedContents, files
    <2>2. work # <<>> /\ Top.do = "elsewhere" /\ Copies
        BY <2>1, AtCopy
    <2>3. NoQuestion \/ \E p \in ProblemTypes : Ask(p)
        BY <1>0, <1>3 DEF LinkedContents
    <2>4. Return \/ Goto("chmod") \/ work' = work
        BY <1>3 DEF LinkedContents
    <2>5. work' = work => Goto("elsewhere")
        <3>1. [Top EXCEPT !.do = "elsewhere"] = Top
            BY <2>2, TopFacts DEF Tasks
        <3>2. work \in Seq(Tasks) /\ <<Top>> \o Tail(work) = work
            BY <2>2, HeadTailProperties DEF Sound, StackSound, Top
        <3> QED BY <3>1, <3>2 DEF Goto
    <2> QED BY <1>0, <2>1, <2>2, <2>3, <2>4, <2>5, TroubleStep
<1> QED BY <1>1, <1>2, <1>3

\* CopySymbolicLink asks before it does anything.
LEMMA CopyLinkRuns ==
    ASSUME Sound, Running, Copies, faults' = 0 => faults = 0,
           Link \/ LinkAnswered \/ Original \/ NewLink \/ NewLinkAnswered \/ MakeLink
    PROVE  Running'
<1>0. /\ {"WriteError", "ReadError", "FileExists", "SymlinkEncountered", "SymlinkTargetNotExist"}
            \subseteq ProblemTypes
      /\ {"linkAnswered", "original", "newLink", "newLinkAnswered", "makeLink",
          "regular", "unknown", "linkedDir"} \subseteq Steps \ LastSteps
    BY DEF ProblemTypes, SkipOnlyProblems, Steps, LastSteps, MoveSteps
<1>1. {"linkAnswered", "original", "newLink", "newLinkAnswered", "makeLink"} \subseteq Trouble
    BY DEF Trouble, AnsweredSteps, Copies, Cross
<1>2. ASSUME Link PROVE Running'
    <2> USE <1>2 DEF Link, files
    <2>1. work # <<>> /\ Top.do = "link"
        BY DEF At
    <2> QED BY <1>0, <2>1, Questions, GotoStep
<1>3. ASSUME LinkAnswered \/ Original \/ NewLink \/ NewLinkAnswered \/ MakeLink PROVE Running'
    <2>1. /\ work # <<>>
          /\ Top.do \in {"linkAnswered", "original", "newLink", "newLinkAnswered", "makeLink"}
          /\ UNCHANGED <<fixed, todo, isStopped, src>>
        BY <1>3 DEF LinkAnswered, Original, NewLink, NewLinkAnswered, MakeLink, At, files
    <2>2. NoQuestion \/ \E p \in ProblemTypes : Ask(p)
        BY <1>0, <1>3 DEF LinkAnswered, Original, NewLink, NewLinkAnswered, MakeLink, NoQuestion
    <2>3. Return \/ \E step \in Steps \ LastSteps : Goto(step)
        BY <1>0, <1>3 DEF LinkAnswered, Original, NewLink, NewLinkAnswered, MakeLink
    <2> QED BY <1>1, <2>1, <2>2, <2>3, TroubleStep
<1> QED BY <1>2, <1>3

-----------------------------------------------------------------------------
(* Steps of MoveOperation and DeleteOperation. *)

\* The outermost call of a listed file.
LEMMA Alone ==
    ASSUME Sound, Running, work # <<>>, Top.do \in LastSteps
    PROVE  /\ Calls = {Top} /\ Waits = {} /\ Path \in Listed /\ Path = Top.path
           /\ Path \in Paths /\ Path \in Below(Path)
           /\ \A f \in Listed : Current(f) <=> f = Path
           /\ ~Waiting(Path) /\ Pending(Path)
           /\ \A p \in Below(Path) : src[p] = src0[p] /\ p \in Paths
           /\ \A f \in Listed : \A p \in Below(f) : f # Path => p \notin Below(Path) /\ p \in Paths
<1>1. Calls = {Top} /\ Waits = {} /\ Path = Top.path
    BY TopCalls DEF Running
<1>2. Path \in Listed
    <2>1. TaskSound(Top)
        BY TopFacts
    <2> QED BY <1>1, <2>1 DEF TaskSound, LastSteps, ListedSteps
<1>3. \A f \in Listed : Current(f) <=> f = Path
    BY <1>1, <1>2, Owners DEF Current
<1>4. ~Waiting(Path)
    <2>1. PICK f \in Listed : ~Waiting(f) /\ \A t \in Calls : t.path \in Below(f)
        BY DEF Running, Order
    <2>2. f = Path
        BY <1>1, <1>2, <2>1, Owners
    <2> QED BY <2>1, <2>2
<1>5. \A p \in Below(Path) : src[p] = src0[p] /\ p \in Paths
    BY SourceAt
<1>6. \A f \in Listed : \A p \in Below(f) : f # Path => p \notin Below(Path) /\ p \in Paths
    BY <1>2, Owners
<1> QED BY <1>1, <1>2, <1>3, <1>4, <1>5, <1>6, Owners DEF Pending

\* It goes on: what waits and what is under way stay the same.
LEMMA AloneGoes ==
    ASSUME Sound, Running, work # <<>>, Top.do \in LastSteps, UNCHANGED <<fixed, todo>>,
           NEW step \in Steps \cap LastSteps, step \in StepsOf, Goto(step)
    PROVE  /\ Order' /\ Calls' = {[do |-> step, path |-> Path]}
           /\ work' # <<>> /\ Top'.do = step /\ Path' = Path
           /\ \A f \in Listed : Pending(f)' <=> Pending(f)
           /\ \A f \in Listed : Current(f)' <=> f = Path
           /\ \A f \in Listed : Waiting(f)' <=> Waiting(f)
<1>1. /\ Order' /\ Calls' = {[do |-> step, path |-> Path]} \cup Waits
      /\ work' # <<>> /\ Top'.do = step /\ Path' = Path
    BY Went DEF Running
<1>2. Calls' = {[do |-> step, path |-> Path]}
    BY <1>1, Alone
<1>3. \A f \in Listed : Waiting(f)' <=> Waiting(f)
    BY DEF Waiting
<1>4. \A f \in Listed : Current(f)' <=> f = Path
    <2>1. \A f \in Listed : Path \in Below(f) <=> f = Path
        BY Alone, Owners
    <2> QED BY <1>2, <2>1 DEF Current
<1>5. \A f \in Listed : Current(f) <=> f = Path
    BY Alone
<1> QED BY <1>1, <1>2, <1>3, <1>4, <1>5 DEF Pending

\* It returns: the file is over.
LEMMA AloneReturns ==
    ASSUME Sound, Running, work # <<>>, Top.do \in LastSteps, UNCHANGED <<fixed, todo>>, Return
    PROVE  /\ Order' /\ Calls' = {} /\ work' = <<>>
           /\ \A f \in Listed : Pending(f)' <=> Waiting(f)
           /\ \A f \in Listed : Waiting(f)' <=> Waiting(f)
           /\ \A f \in Listed : Pending(f) <=> f = Path \/ Waiting(f)
<1>1. Order' /\ Calls' = {} \cup Waits /\ work' = <<>>
    BY Returned DEF Running
<1>2. Calls' = {}
    BY <1>1, Alone
<1>3. \A f \in Listed : Waiting(f)' <=> Waiting(f)
    BY DEF Waiting
<1>4. \A f \in Listed : ~Current(f)'
    BY <1>2 DEF Current
<1>5. \A f \in Listed : Current(f) <=> f = Path
    BY Alone
<1> QED BY <1>1, <1>2, <1>3, <1>4, <1>5 DEF Pending

\* The source of what is not over is not touched.
LEMMA SourcesElsewhere ==
    ASSUME Sound, Running, UNCHANGED fixed, op \in {"Move", "Delete"},
           op = "Delete" => dst' = dst,
           \A f \in Listed : Pending(f)' =>
                Pending(f) /\ \A p \in Below(f) : src'[p] = src[p]
    PROVE  Sources'
<1>1. UNCHANGED <<op, src0, dst0>>
    BY DEF fixed
<1> QED BY <1>1 DEF Running, Sources

\* MoveOperation looks at the target.
LEMMA MoveRuns ==
    ASSUME Sound, Running, faults' = 0 => faults = 0,
           Move
    PROVE  Running'
<1> USE DEF Move
<1>0. UNCHANGED <<op, sameFS, src0, dst0>> /\ UNCHANGED <<src, dst>>
    BY DEF fixed, files
<1>1. /\ At("move") /\ work # <<>> /\ Top.do = "move" /\ Path \in Listed /\ op = "Move"
    BY AtFacts DEF ListedSteps, MoveSteps
<1>2. /\ {"moveAnswered", "rename", "crossCopy"} \subseteq Steps \cap LastSteps
      /\ Top.do \in LastSteps /\ "FileExists" \in ProblemTypes
      /\ {"rename", "crossCopy"} \cap Trouble = {}
    BY <1>1 DEF Steps, LastSteps, MoveSteps, ProblemTypes, Trouble, AnsweredSteps
<1>3. IF sameFS THEN {"moveAnswered", "rename"} \subseteq StepsOf ELSE StepsOf = Steps
    BY <1>1 DEF StepsOf
<1>4. \A f \in Listed : /\ Unmoved(f)' <=> Unmoved(f)
                        /\ Moved(f)' <=> Moved(f)
    BY <1>0 DEF Unmoved, Moved
<1>5. EmptyTarget' <=> EmptyTarget
    BY <1>0 DEF EmptyTarget
<1>6. CASE Goto("moveAnswered") /\ Ask("FileExists") /\ dst[Path] # "none"
    <2>1. ~NoProblemMet'
        BY <1>2, <1>6, Questions
    <2>2. Order' /\ \A f \in Listed : Pending(f)' <=> Pending(f)
        BY <1>1, <1>2, <1>3, <1>6, AloneGoes
    <2>3. Sources'
        BY <1>0, <1>1, <2>2, SourcesElsewhere
    <2>4. Renames'
        <3> SUFFICES ASSUME sameFS, EmptyTarget PROVE FALSE
            BY <1>0, <1>5, <2>1 DEF Renames
        <3>1. Pending(Path) /\ Path \in Paths /\ Path \in Below(Path)
            BY <1>2, <1>1, Alone
        <3>2. Unmoved(Path)
            BY <1>1, <3>1 DEF Running, Renames
        <3> QED BY <1>6, <3>1, <3>2 DEF Unmoved, EmptyTarget
    <2> QED BY <2>1, <2>2, <2>3, <2>4
            DEF Running, Smooth, Copying, Crossing, Linking, Deleting
<1>7. CASE dst[Path] = "none" /\ NoQuestion /\ Goto(IF sameFS THEN "rename" ELSE "crossCopy")
    <2> DEFINE step == IF sameFS THEN "rename" ELSE "crossCopy"
    <2>1. step \in Steps \cap LastSteps /\ step \in StepsOf /\ step \in {"rename", "crossCopy"}
        BY <1>2, <1>3
    <2>2. step = "rename" <=> sameFS
        OBVIOUS
    <2>3. Goto(step)
        BY <1>7
    <2> HIDE DEF step
    <2>4. /\ Order' /\ Calls' = {[do |-> step, path |-> Path]}
          /\ work' # <<>> /\ Top'.do = step /\ Path' = Path
          /\ \A f \in Listed : Pending(f)' <=> Pending(f)
          /\ \A f \in Listed : Current(f)' <=> f = Path
          /\ \A f \in Listed : Waiting(f)' <=> Waiting(f)
        BY <1>1, <1>2, <2>1, <2>3, AloneGoes
    <2>5. Sources'
        BY <1>0, <1>1, <2>4, SourcesElsewhere
    <2>6. (NoProblemMet' <=> NoProblemMet) /\ consent' = consent
        BY <1>7 DEF NoQuestion, comm, NoProblemMet
    <2>7. Smooth'
        <3>1. Trouble' = Trouble
            BY <1>0 DEF Trouble
        <3> QED BY <1>2, <2>1, <2>4, <2>6, <3>1 DEF Running, Smooth
    <2>8. Renames'
        <3> SUFFICES ASSUME sameFS, NoProblemMet \/ EmptyTarget PROVE Renames'
            BY <1>0, <1>5, <2>6 DEF Renames
        <3>1. \A f \in Listed :
                \/ Unmoved(f)' /\ (Pending(f)' \/ ~NoProblemMet')
                \/ Moved(f)' /\ ~Pending(f)'
            BY <1>1, <1>4, <2>4, <2>6 DEF Running, Renames
        <3> QED BY <1>0, <1>7, <2>1, <2>4, <3>1 DEF Renames
    <2>9. CASE sameFS
        BY <1>0, <1>1, <2>4, <2>5, <2>7, <2>8, <2>9
            DEF Running, Copying, Copies, Cross, Crossing, Linking, Deleting
    <2>10. CASE ~sameFS
        <3>1. Calls = {Top} /\ Top.path = Path /\ Path \in Paths /\ Copies /\ Cross
            BY <1>1, <1>2, <2>10, Alone DEF Copies, Cross
        <3>2. step = "crossCopy"
            BY <2>1, <2>2, <2>10
        <3>3. Copying'
            <4> SUFFICES ASSUME NoProblemMet, ~isStopped PROVE Typed' /\ \A p \in Paths : Fine(p)'
                BY <2>6 DEF Copying
            <4>1. Typed'
                BY <2>4, <3>2 DEF Typed
            <4>2. Reach(Top) = Reach([do |-> step, path |-> Path])
                BY <1>1, <3>1, <3>2 DEF Reach
            <4>3. ASSUME NEW p \in Paths PROVE Ahead(p) => Ahead(p)'
                <5>1. (\E t \in Calls : p \in Reach(t)) => \E t \in Calls' : p \in Reach(t)
                    BY <2>4, <3>1, <4>2
                <5> QED BY <2>4, <5>1 DEF Ahead, Reach
            <4>4. ASSUME NEW p \in Paths PROVE Fine(p)'
                <5>1. Fine(p)
                    BY <3>1, FineFacts
                <5> QED BY <1>0, <4>3, <5>1 DEF Fine, CopyOf
            <4> QED BY <4>1, <4>4
        <3>4. Crossing'
            <4> SUFFICES ASSUME NoProblemMet PROVE Crossing'
                BY <2>6 DEF Crossing
            <4>1. \A f \in Listed :
                    \/ Pending(f) \/ Moved(f)
                    \/ isStopped /\ \A p \in Below(f) : src[p] = src0[p]
                BY <3>1 DEF Running, Crossing
            <4>2. ~isStopped => dst0[Path] = "none"
                BY <1>7, <3>1 DEF Sound, TargetsNeedConsent, Running, Smooth
            <4>3. faults = 0 => \A p \in Paths : dst[p] # "part"
                BY <1>1, <3>1 DEF Running, Crossing
            <4> QED BY <1>0, <1>4, <2>4, <4>1, <4>2, <4>3 DEF Crossing
        <3> QED BY <1>0, <1>1, <2>4, <2>5, <2>7, <2>8, <3>3, <3>4 DEF Running, Linking, Deleting
    <2> QED BY <2>9, <2>10
<1> QED BY <1>6, <1>7

\* MoveOperation has been answered: only after a problem.
LEMMA MoveAnsweredRuns ==
    ASSUME Sound, Running, MoveAnswered
    PROVE  Running'
<1>0. /\ UNCHANGED <<op, sameFS, src0, dst0, todo, src, opResult, isStopped>> /\ UNCHANGED fixed
      /\ At("moveAnswered")
    BY DEF MoveAnswered, fixed
<1>1. work # <<>> /\ Top.do = "moveAnswered" /\ op = "Move"
    BY <1>0, AtFacts DEF MoveSteps
<1>2. /\ {"rename", "crossCopy"} \subseteq Steps \cap LastSteps
      /\ Top.do \in LastSteps /\ "DeleteError" \in ProblemTypes /\ Top.do \in Trouble
    BY <1>1 DEF Steps, LastSteps, MoveSteps, ProblemTypes, SkipOnlyProblems, Trouble, AnsweredSteps
<1>3. IF sameFS THEN "rename" \in StepsOf ELSE StepsOf = Steps
    BY <1>1 DEF StepsOf
<1>4. NoQuestion \/ Ask("DeleteError")
    BY DEF MoveAnswered
<1>5. ~NoProblemMet'
    <2>1. ~NoProblemMet
        BY <1>1, <1>2 DEF Running, Smooth
    <2> QED BY <1>2, <1>4, <2>1, Questions
<1>6. Order' /\ \A f \in Listed : Pending(f)' => Pending(f)
    <2>1. CASE Return
        BY <1>0, <1>1, <1>2, <2>1, AloneReturns
    <2>2. CASE Goto(IF sameFS THEN "rename" ELSE "crossCopy")
        <3> DEFINE step == IF sameFS THEN "rename" ELSE "crossCopy"
        <3>1. step \in Steps \cap LastSteps /\ step \in StepsOf
            BY <1>2, <1>3
        <3>2. Goto(step)
            BY <2>2
        <3> HIDE DEF step
        <3> QED BY <1>0, <1>1, <1>2, <3>1, <3>2, AloneGoes
    <2> QED BY <2>1, <2>2 DEF MoveAnswered
<1>7. Sources'
    BY <1>0, <1>1, <1>6, SourcesElsewhere
<1>8. Renames'
    <2>1. ~(op = "Move" /\ sameFS /\ EmptyTarget)
        BY <1>1 DEF Running, Renames
    <2> QED BY <1>0, <1>5, <2>1 DEF Renames, EmptyTarget
<1> QED BY <1>5, <1>6, <1>7, <1>8 DEF Running, Smooth, Copying, Crossing, Linking, Deleting

\* rename(2) moves a file that was not there, with everything below it.
LEMMA RenameRuns ==
    ASSUME Sound, Running, Rename
    PROVE  Running'
<1>0. /\ UNCHANGED <<op, sameFS, src0, dst0, todo, opResult, isStopped>> /\ UNCHANGED fixed
      /\ At("rename") /\ Return
    BY DEF Rename, fixed
<1>1. work # <<>> /\ Top.do = "rename" /\ op = "Move" /\ sameFS
    BY <1>0, AtFacts DEF MoveSteps
<1>2. Top.do \in LastSteps /\ "MoveError" \in ProblemTypes
    BY <1>1 DEF LastSteps, MoveSteps, ProblemTypes, SkipOnlyProblems
<1>3. /\ Order' /\ Calls' = {} /\ work' = <<>>
      /\ \A f \in Listed : Pending(f)' <=> Waiting(f)
      /\ \A f \in Listed : Pending(f) <=> f = Path \/ Waiting(f)
    BY <1>0, <1>1, <1>2, AloneReturns
<1>4. /\ Path \in Listed /\ Path \in Below(Path) /\ ~Waiting(Path) /\ Pending(Path)
      /\ \A p \in Below(Path) : src[p] = src0[p] /\ p \in Paths
      /\ \A f \in Listed : \A p \in Below(f) : f # Path => p \notin Below(Path) /\ p \in Paths
    BY <1>1, <1>2, Alone
<1>5. NoQuestion \/ Ask("MoveError")
    BY DEF Rename
<1>6. (NoProblemMet' => NoProblemMet) /\ consent' = consent /\ (EmptyTarget' <=> EmptyTarget)
    BY <1>0, <1>2, <1>5, Questions DEF EmptyTarget
<1>7. CASE Ask("MoveError") /\ UNCHANGED files
    <2>1. ~NoProblemMet' /\ src' = src /\ dst' = dst
        BY <1>2, <1>7, Questions DEF files
    <2>2. Sources'
        BY <1>0, <1>1, <1>3, <2>1, SourcesElsewhere
    <2>3. Renames'
        <3> SUFFICES ASSUME EmptyTarget
                     PROVE  \A f \in Listed : Unmoved(f)' \/ (Moved(f)' /\ ~Pending(f)')
            BY <1>3, <1>6, <2>1 DEF Renames
        <3>1. \A f \in Listed : Unmoved(f) \/ (Moved(f) /\ ~Pending(f))
            BY <1>1 DEF Running, Renames
        <3> QED BY <1>0, <1>3, <2>1, <3>1 DEF Unmoved, Moved
    <2> QED BY <1>3, <2>1, <2>2, <2>3 DEF Running, Smooth, Copying, Crossing, Linking, Deleting
<1>8. CASE /\ NoQuestion
           /\ dst' = Renamed(src, dst, Path)
           /\ src' = Remove(src, Path)
    <2>1. /\ \A p \in Below(Path) : src'[p] = "none" /\ dst'[p] = src[p]
          /\ \A p \in Paths : p \notin Below(Path) => src'[p] = src[p] /\ dst'[p] = dst[p]
        BY <1>4, <1>8 DEF Renamed, Remove
    <2>2. Sources'
        <3>1. \A f \in Listed : Waiting(f) => f # Path /\ \A p \in Below(f) : src'[p] = src[p]
            BY <1>4, <2>1
        <3> QED BY <1>0, <1>1, <1>3, <3>1, SourcesElsewhere
    <2>3. NoProblemMet' <=> NoProblemMet
        BY <1>8 DEF NoQuestion, comm, NoProblemMet
    <2>4. Smooth'
        BY <1>0, <1>3, <1>6, <2>3 DEF Running, Smooth
    <2>5. Renames'
        <3> SUFFICES ASSUME NoProblemMet \/ EmptyTarget
                     PROVE  \A f \in Listed : \/ Unmoved(f)' /\ (Pending(f)' \/ ~NoProblemMet')
                                              \/ Moved(f)' /\ ~Pending(f)'
            BY <1>3, <1>6, <2>3 DEF Renames
        <3>1. TAKE f \in Listed
        <3>2. CASE f = Path
            <4>1. Moved(f)'
                BY <1>0, <1>4, <2>1, <3>2 DEF Moved
            <4> QED BY <1>3, <1>4, <3>2, <4>1
        <3>3. CASE f # Path
            <4>1. \/ Unmoved(f) /\ (Pending(f) \/ ~NoProblemMet)
                  \/ Moved(f) /\ ~Pending(f)
                BY <1>1 DEF Running, Renames
            <4>2. (Pending(f)' <=> Pending(f)) /\ \A p \in Below(f) : src'[p] = src[p] /\ dst'[p] = dst[p]
                BY <1>3, <1>4, <2>1, <3>3
            <4>3. (Unmoved(f) => Unmoved(f)') /\ (Moved(f) => Moved(f)')
                BY <1>0, <4>2 DEF Unmoved, Moved
            <4> QED BY <2>3, <4>1, <4>2, <4>3
        <3> QED BY <3>2, <3>3
    <2> QED BY <1>0, <1>1, <1>3, <2>2, <2>4, <2>5
            DEF Running, Copying, Copies, Cross, Crossing, Linking, Deleting
<1> QED BY <1>7, <1>8 DEF Rename

\* What the first step of a copy reaches: everything but what is not there.
LEMMA CopyBegins ==
    ASSUME Sound, NEW f \in Listed, src[f] = src0[f]
    PROVE  LET t == [do |-> StepFor(src[f]), path |-> f] IN
           /\ \A p \in Below(f) : p \in Reach(t) \/ (src0[p] = "none" /\ p \in Paths)
           /\ t.do = "regular" => src0[f] = "file"
           /\ t.do = "dir" => src0[f] = "dir"
           /\ t.do \in {"link", "dir", "regular", "unknown"} /\ t.do \in Steps
           /\ t \in Tasks
<1> DEFINE step == StepFor(src[f])
           t == [do |-> step, path |-> f]
<1>1. /\ f \in Paths /\ src0 \in Trees /\ src \in Trees
      /\ src0[f] \notin {"part", "old", "linkedDir"}
    BY TreesBefore, Owners DEF Sound, TypeOK
<1>2. step \in {"link", "dir", "regular", "unknown"} /\ step \in Steps
    BY <1>1, StepForSound
<1>3. (step = "regular" => src0[f] = "file") /\ (step = "dir" <=> src0[f] = "dir")
    BY <1>1 DEF StepFor, Links
<1> HIDE DEF step
<1>4. \A p \in Below(f) : p \in Reach(t) \/ (src0[p] = "none" /\ p \in Paths)
    <2>1. CASE step = "dir"
        BY <2>1 DEF Reach
    <2>2. CASE step # "dir"
        <3>1. \A p \in Below(f) : p = f \/ (src0[p] = "none" /\ p \in Paths)
            BY <1>1, <1>3, <2>2, NothingBelow
        <3>2. f \in Reach(t)
            BY <1>2, <2>2 DEF Reach
        <3> QED BY <3>1, <3>2
    <2> QED BY <2>1, <2>2
<1>5. t \in Tasks
    BY <1>1, <1>2 DEF Tasks
<1> QED BY <1>2, <1>3, <1>4, <1>5 DEF step

\* MoveOperation's copy to another file system begins.
LEMMA CrossCopyRuns ==
    ASSUME Sound, Running, faults' = 0 => faults = 0,
           CrossCopy
    PROVE  Running'
<1> DEFINE copy == [do |-> StepFor(src[Path]), path |-> Path]
           end == [do |-> "copied", path |-> Path]
<1>0. /\ UNCHANGED <<op, sameFS, src0, dst0, src, dst, todo, isStopped>> /\ UNCHANGED fixed
      /\ At("crossCopy") /\ opResult' = TRUE
      /\ (NoProblemMet' <=> NoProblemMet) /\ consent' = consent
    BY DEF CrossCopy, fixed, files, comm, NoProblemMet
<1>1. work # <<>> /\ Top.do = "crossCopy" /\ op = "Move"
    BY <1>0, AtFacts DEF MoveSteps
<1>2. Top.do \in LastSteps
    BY <1>1 DEF LastSteps, MoveSteps
<1>3. /\ Calls = {Top} /\ Waits = {} /\ Path \in Listed /\ Path = Top.path
      /\ Path \in Paths /\ Path \in Below(Path)
      /\ \A f \in Listed : Current(f) <=> f = Path
      /\ \A p \in Below(Path) : src[p] = src0[p] /\ p \in Paths
    BY <1>1, <1>2, Alone
<1>4. /\ Order' /\ Copies /\ Cross /\ work' # <<>> /\ Path' = Path
      /\ IF isStopped THEN Calls' = {end} /\ Top' = end
                      ELSE Calls' = {copy, end} /\ Top' = copy
    BY <1>3, Crossed DEF Running
<1>5. /\ \A p \in Below(Path) : p \in Reach(copy) \/ (src0[p] = "none" /\ p \in Paths)
      /\ copy.do = "regular" => src0[Path] = "file"
      /\ copy.do = "dir" => src0[Path] = "dir"
      /\ copy.do \in {"link", "dir", "regular", "unknown"}
    BY <1>3, CopyBegins
<1>6. copy.path = Path /\ end.path = Path /\ end.do = "copied"
    OBVIOUS
<1> HIDE DEF copy, end
<1>7. /\ \A f \in Listed : Waiting(f)' <=> Waiting(f)
      /\ \A f \in Listed : Current(f)' <=> Current(f)
      /\ \A f \in Listed : Pending(f)' <=> Pending(f)
    <2>1. \A f \in Listed : Waiting(f)' <=> Waiting(f)
        BY <1>0 DEF Waiting
    <2>2. \A f \in Listed : Path \in Below(f) <=> f = Path
        BY <1>3, Owners
    <2>3. \A f \in Listed : Current(f)' <=> Current(f)
        BY <1>3, <1>4, <1>6, <2>2 DEF Current
    <2> QED BY <2>1, <2>3 DEF Pending
<1>8. Sources'
    BY <1>0, <1>1, <1>7, SourcesElsewhere
<1>9. Top'.do \in {"copied", "link", "dir", "regular", "unknown"}
    BY <1>4, <1>5, <1>6
<1>10. Smooth'
    <2>1. Top'.do \notin Trouble'
        BY <1>0, <1>9 DEF Trouble, AnsweredSteps
    <2> QED BY <1>0, <2>1 DEF Running, Smooth
<1>11. Copying'
    <2> SUFFICES ASSUME NoProblemMet, ~isStopped PROVE Typed' /\ \A p \in Paths : Fine(p)'
        BY <1>0 DEF Copying
    <2>1. Typed'
        BY <1>0, <1>4, <1>5 DEF Typed
    <2>2. ASSUME NEW p \in Paths PROVE Fine(p)'
        <3>1. /\ src0[p] \notin {"file", "dir"} => dst[p] = dst0[p]
              /\ CopyOf(src0)[p] = IF src0[p] \in {"file", "dir"} THEN src0[p] ELSE dst0[p]
              /\ Fine(p)
            BY <1>4, FineFacts
        <3>2. CASE p \in Below(Path) /\ p \in Reach(copy)
            <4>1. Ahead(p)'
                BY <1>4, <3>2 DEF Ahead, Reach
            <4> QED BY <1>0, <3>1, <4>1 DEF Fine
        <3>3. CASE p \in Below(Path) /\ src0[p] = "none"
            BY <1>0, <3>1, <3>3 DEF Fine, CopyOf
        <3>4. CASE p \notin Below(Path)
            <4>1. p \notin Reach(Top)
                BY <1>1, <1>3, <3>4 DEF Reach
            <4>2. Ahead(p) => Ahead(p)'
                BY <1>3, <1>7, <4>1 DEF Ahead
            <4> QED BY <1>0, <3>1, <4>2 DEF Fine, CopyOf
        <3> QED BY <1>5, <3>2, <3>3, <3>4
    <2> QED BY <2>1, <2>2
<1>12. Crossing'
    <2> SUFFICES ASSUME NoProblemMet PROVE Crossing'
        BY <1>0 DEF Crossing
    <2>1. /\ \A f \in Listed :
                \/ Pending(f) \/ Moved(f)
                \/ isStopped /\ \A p \in Below(f) : src[p] = src0[p]
          /\ ~isStopped => \A f \in Listed : Current(f) => dst0[f] = "none"
          /\ faults = 0 => \A p \in Paths : dst[p] # "part"
        BY <1>1, <1>3, <1>4 DEF Running, Crossing
    <2>2. \A f \in Listed : Moved(f) => Moved(f)'
        BY <1>0 DEF Moved
    <2> QED BY <1>0, <1>7, <2>1, <2>2 DEF Crossing
<1> QED BY <1>0, <1>1, <1>4, <1>8, <1>10, <1>11, <1>12
        DEF Running, Renames, Linking, Deleting, Cross

\* CopyOperation's end: what a stop has left there is removed.
LEMMA CopiedRuns ==
    ASSUME Sound, Running, faults' = 0 => faults = 0,
           Copied
    PROVE  Running'
<1>0. /\ UNCHANGED <<op, sameFS, src0, dst0, src, todo, opResult, isStopped>> /\ UNCHANGED fixed
      /\ At("copied")
      /\ (NoProblemMet' <=> NoProblemMet) /\ consent' = consent
      /\ IF opResult THEN Goto("delete") ELSE Return
    BY DEF Copied, fixed, comm, NoProblemMet
<1>a. /\ ~isStopped => dst' = dst
      /\ \A p \in Paths : p \notin Below(Path) => dst'[p] = dst[p]
      /\ isStopped /\ makeCleanupOnStop /\ faults' = 0 =>
            \A p \in Paths : p \in Below(Path) => dst'[p] = "none"
    <2>1. faults \in Nat
        BY FileToolAssumption DEF Sound, TypeOK
    <2>2. CASE isStopped /\ makeCleanupOnStop
        <3>1. PICK stuck \in SUBSET Below(Path) :
                    Clears(stuck) /\ dst' = RemoveBut(dst, Path, stuck)
            BY <2>2 DEF Copied
        <3>2. faults' = 0 => stuck = {}
            BY <2>1, <3>1 DEF Clears, Fails
        <3> QED BY <2>2, <3>1, <3>2 DEF RemoveBut
    <2>3. CASE ~(isStopped /\ makeCleanupOnStop)
        BY <2>3 DEF Copied
    <2> QED BY <2>2, <2>3
<1>1. work # <<>> /\ Top.do = "copied" /\ op = "Move"
    BY <1>0, AtFacts DEF MoveSteps
<1>2. Top.do \in LastSteps /\ "delete" \in Steps \cap LastSteps
    BY <1>1 DEF LastSteps, MoveSteps, Steps
<1>3. /\ Calls = {Top} /\ Path \in Listed /\ Path = Top.path
      /\ \A f \in Listed : Current(f) <=> f = Path
      /\ \A f \in Listed : \A p \in Below(f) : f # Path => p \notin Below(Path) /\ p \in Paths
      /\ Pending(Path)
    BY <1>1, <1>2, Alone
<1>4. StepsOf = Steps /\ Cross
    BY <1>1, Copier DEF Running, Cross
<1>5. CASE Return /\ ~opResult
    <2>1. ~NoProblemMet'
        BY <1>0, <1>5 DEF Running, Smooth
    <2>2. Order' /\ \A f \in Listed : Pending(f)' => Pending(f)
        BY <1>0, <1>1, <1>2, <1>5, AloneReturns
    <2>3. Sources'
        BY <1>0, <1>1, <2>2, SourcesElsewhere
    <2> QED BY <1>0, <1>4, <2>1, <2>2, <2>3, TroubledRunning DEF Cross
<1>6. CASE Goto("delete") /\ opResult
    <2>1. /\ Order' /\ Calls' = {[do |-> "delete", path |-> Path]}
          /\ work' # <<>> /\ Top'.do = "delete" /\ Path' = Path
          /\ \A f \in Listed : Pending(f)' <=> Pending(f)
          /\ \A f \in Listed : Current(f)' <=> f = Path
          /\ \A f \in Listed : Waiting(f)' <=> Waiting(f)
        BY <1>0, <1>1, <1>2, <1>4, <1>6, AloneGoes
    <2>2. Sources'
        BY <1>0, <1>1, <2>1, SourcesElsewhere
    <2>3. Smooth'
        <3>1. "delete" \notin Trouble'
            BY DEF Trouble, AnsweredSteps
        <3> QED BY <1>0, <1>6, <2>1, <3>1 DEF Running, Smooth
    <2>4. Copying'
        <3> SUFFICES ASSUME NoProblemMet, ~isStopped PROVE Typed' /\ \A p \in Paths : Fine(p)'
            BY <1>0 DEF Copying
        <3>0. dst' = dst
            BY <1>a
        <3>1. Typed'
            BY <2>1 DEF Typed
        <3>2. ASSUME NEW p \in Paths PROVE Fine(p)'
            <4>1. Fine(p)
                BY <1>4, FineFacts DEF Copies
            <4>2. Reach(Top) = {}
                BY <1>1 DEF Reach
            <4>3. Ahead(p) => Ahead(p)'
                BY <1>3, <2>1, <4>2 DEF Ahead
            <4> QED BY <1>0, <3>0, <4>1, <4>3 DEF Fine, CopyOf
        <3> QED BY <3>1, <3>2
    <2>5. Crossing'
        <3> SUFFICES ASSUME NoProblemMet PROVE Crossing'
            BY <1>0 DEF Crossing
        <3>1. /\ \A f \in Listed :
                    \/ Pending(f) \/ Moved(f)
                    \/ isStopped /\ \A p \in Below(f) : src[p] = src0[p]
              /\ ~isStopped => \A f \in Listed : Current(f) => dst0[f] = "none"
              /\ faults = 0 => \A p \in Paths : dst[p] = "part" => p \in Below(Path) /\ isStopped
            BY <1>1, <1>3, <1>4 DEF Running, Crossing
        <3>2. ASSUME NEW f \in Listed, Moved(f) PROVE Pending(f)' \/ Moved(f)'
            <4>1. CASE f = Path
                BY <1>3, <2>1, <4>1
            <4>2. CASE f # Path
                BY <1>0, <1>a, <1>3, <3>2, <4>2 DEF Moved
            <4> QED BY <4>1, <4>2
        <3>3. faults' = 0 => \A p \in Paths : dst'[p] # "part"
            BY <1>0, <1>a, <3>1 DEF NoProblemMet
        <3> QED BY <1>0, <1>3, <2>1, <3>1, <3>2, <3>3 DEF Crossing
    <2> QED BY <1>0, <1>1, <1>4, <2>1, <2>2, <2>3, <2>4, <2>5
            DEF Running, Renames, Linking, Deleting, Cross
<1> QED BY <1>0, <1>5, <1>6

\* DeleteOperation after an error: it goes on, and some of the file may stay.
LEMMA DeleteFails ==
    ASSUME Sound, Running, At("delete") \/ At("deleteFailed"),
           UNCHANGED <<fixed, dst, todo, isStopped>>,
           Ask("DeleteError") \/ (~NoProblemMet /\ NoQuestion),
           \/ Goto("deleteFailed") /\ src' = src
           \/ Return /\ \E stuck \in SUBSET Below(Path) : src' = RemoveBut(src, Path, stuck)
    PROVE  Running'
<1>0. UNCHANGED <<op, sameFS, src0, dst0>>
    BY DEF fixed
<1>1. work # <<>> /\ Top.do \in {"delete", "deleteFailed"} /\ op \in {"Move", "Delete"}
    BY AtFacts
<1>2. Top.do \in LastSteps /\ "DeleteError" \in ProblemTypes /\ "deleteFailed" \in Steps \cap LastSteps
    BY <1>1 DEF LastSteps, ProblemTypes, SkipOnlyProblems, Steps
<1>3. (op = "Move" => Cross) /\ "deleteFailed" \in StepsOf
    <2>1. Top.do \in StepsOf
        BY <1>1, TopCalls DEF Running, Order
    <2> QED BY <1>1, <1>2, <2>1 DEF StepsOf, Cross
<1>4. ~NoProblemMet'
    BY <1>2, Questions
<1>5. Order' /\ \A f \in Listed : Pending(f)' => Pending(f) /\ \A p \in Below(f) : src'[p] = src[p]
    <2>1. CASE Goto("deleteFailed") /\ src' = src
        BY <1>1, <1>2, <1>3, <2>1, AloneGoes
    <2>2. CASE Return /\ \E stuck \in SUBSET Below(Path) : src' = RemoveBut(src, Path, stuck)
        <3>1. /\ Order' /\ \A f \in Listed : Pending(f)' <=> Waiting(f)
              /\ \A f \in Listed : Pending(f) <=> f = Path \/ Waiting(f)
            BY <1>1, <1>2, <2>2, AloneReturns
        <3>2. /\ ~Waiting(Path) /\ Path \in Listed
              /\ \A f \in Listed : \A p \in Below(f) : f # Path => p \notin Below(Path) /\ p \in Paths
            BY <1>1, <1>2, Alone
        <3>3. \A p \in Paths : p \notin Below(Path) => src'[p] = src[p]
            BY DEF RemoveBut
        <3> QED BY <3>1, <3>2, <3>3
    <2> QED BY <2>1, <2>2
<1>6. Sources'
    BY <1>0, <1>1, <1>5, SourcesElsewhere
<1> QED BY <1>0, <1>3, <1>4, <1>5, <1>6, TroubledRunning DEF Cross

\* DeleteOperation, of its own or after the copy of a move, without an error.
LEMMA DeleteReturns ==
    ASSUME Sound, Running, faults' = 0 => faults = 0,
           At("delete"), Return, NoQuestion,
           UNCHANGED <<fixed, dst, todo, opResult, isStopped>>,
           IF isStopped THEN src' = src ELSE src' = Remove(src, Path)
    PROVE  Running'
<1>0. UNCHANGED <<op, sameFS, src0, dst0>>
    BY DEF fixed
<1>1. work # <<>> /\ Top.do = "delete" /\ op \in {"Move", "Delete"}
    BY <1>0, AtFacts
<1>2. Top.do \in LastSteps
    BY <1>1 DEF LastSteps
<1>3. op = "Move" => Cross
    <2>1. Top.do \in StepsOf
        BY <1>1, TopCalls DEF Running, Order
    <2> QED BY <1>1, <2>1 DEF StepsOf, Cross
<1>4. /\ Order' /\ Calls' = {} /\ work' = <<>>
      /\ \A f \in Listed : Pending(f)' <=> Waiting(f)
      /\ \A f \in Listed : Waiting(f)' <=> Waiting(f)
      /\ \A f \in Listed : Pending(f) <=> f = Path \/ Waiting(f)
    BY <1>0, <1>1, <1>2, AloneReturns
<1>5. /\ Calls = {Top} /\ Path \in Listed /\ Path \in Below(Path) /\ ~Waiting(Path)
      /\ \A f \in Listed : Current(f) <=> f = Path
      /\ \A p \in Below(Path) : src[p] = src0[p] /\ p \in Paths
      /\ \A f \in Listed : \A p \in Below(f) : f # Path => p \notin Below(Path) /\ p \in Paths
    BY <1>1, <1>2, Alone
<1>7. (NoProblemMet' => NoProblemMet) /\ consent' = consent
    BY Questions
<1>8. \A p \in Paths : p \notin Below(Path) => src'[p] = src[p]
    BY DEF Remove
<1>9. \A f \in Listed : \A p \in Below(f) : f # Path => src'[p] = src[p]
    BY <1>5, <1>8
<1>10. Sources'
    <2>1. \A f \in Listed : Pending(f)' => Pending(f) /\ \A p \in Below(f) : src'[p] = src[p]
        BY <1>4, <1>5, <1>9
    <2> QED BY <1>0, <1>1, <2>1, SourcesElsewhere
<1>11. CASE ~NoProblemMet'
    BY <1>0, <1>3, <1>4, <1>10, <1>11, TroubledRunning DEF Cross
<1>12. CASE NoProblemMet'
    <2>1. NoProblemMet
        BY <1>7, <1>12
    <2>3. Smooth'
        BY <1>0, <1>4, <1>7, <2>1 DEF Running, Smooth
    <2>4. Renames'
        BY <1>0, <1>1, <1>3 DEF Renames, Cross
    <2>5. Copying'
        <3> SUFFICES ASSUME Copies, ~isStopped PROVE \A p \in Paths : Fine(p)'
            BY <1>0, <1>4 DEF Copying, Copies, Cross, Typed
        <3>1. TAKE p \in Paths
        <3>2. Fine(p)
            BY <2>1, <3>1, FineFacts
        <3>3. Reach(Top) = {}
            BY <1>1 DEF Reach
        <3>4. Ahead(p) => Ahead(p)'
            BY <1>4, <1>5, <3>3 DEF Ahead
        <3> QED BY <1>0, <3>2, <3>4 DEF Fine, CopyOf
    <2>6. Crossing'
        <3> SUFFICES ASSUME Cross PROVE Crossing'
            BY <1>0 DEF Crossing, Cross
        <3>1. /\ \A f \in Listed :
                    \/ Pending(f) \/ Moved(f)
                    \/ isStopped /\ \A p \in Below(f) : src[p] = src0[p]
              /\ faults = 0 => \A p \in Paths : dst[p] # "part"
              /\ ~isStopped => dst0[Path] = "none"
            BY <1>1, <1>5, <2>1 DEF Running, Crossing
        <3>2. ASSUME NEW f \in Listed, f # Path
              PROVE  \/ Pending(f)' \/ Moved(f)'
                     \/ isStopped' /\ \A p \in Below(f) : src'[p] = src0'[p]
            <4>1. Moved(f) => Moved(f)'
                BY <1>0, <1>9, <3>2 DEF Moved
            <4>2. \A p \in Below(f) : src'[p] = src[p]
                BY <1>9, <3>2
            <4> QED BY <1>0, <1>4, <3>1, <3>2, <4>1, <4>2
        <3>3. isStopped => \A p \in Below(Path) : src'[p] = src0'[p]
            BY <1>0, <1>5
        <3>4. ASSUME ~isStopped, NEW p \in Below(Path) PROVE src'[p] = "none" /\ dst'[p] = src0'[p]
            <4>1. p \in Paths /\ src'[p] = "none"
                BY <1>5, <3>4 DEF Remove
            <4>2. ~Ahead(p)
                <5>1. p \notin Reach(Top)
                    BY <1>1 DEF Reach
                <5>2. ASSUME NEW f \in Listed, Waiting(f), p \in Below(f) PROVE FALSE
                    BY <1>5, <3>4, <5>2
                <5> QED BY <1>5, <5>1, <5>2 DEF Ahead
            <4>3. src0[p] \in {"none", "file", "dir"} /\ dst[p] = CopyOf(src0)[p]
                <5>1. Fine(p)
                    BY <2>1, <3>4, <4>1, FineFacts DEF Copies
                <5> QED BY <4>2, <5>1 DEF Fine
            <4>4. dst0[p] = "none"
                <5>1. dst0 \in Trees /\ dst0[Path] = "none" /\ Path \in Paths
                    BY <1>5, <3>1, <3>4, TreesBefore
                <5> QED BY <3>4, <5>1, NothingBelow
            <4> QED BY <1>0, <4>1, <4>3, <4>4 DEF CopyOf
        <3>5. ASSUME NEW f \in Listed, f = Path
              PROVE  \/ Moved(f)'
                     \/ isStopped' /\ \A p \in Below(f) : src'[p] = src0'[p]
            <4>1. CASE isStopped
                BY <1>0, <3>3, <3>5, <4>1
            <4>2. CASE ~isStopped
                BY <3>4, <3>5, <4>2 DEF Moved
            <4> QED BY <4>1, <4>2
        <3>6. ASSUME NEW f \in Listed
              PROVE  \/ Pending(f)' \/ Moved(f)'
                     \/ isStopped' /\ \A p \in Below(f) : src'[p] = src0'[p]
            BY <3>2, <3>5
        <3>7. faults' = 0 => \A p \in Paths : dst'[p] # "part"
            BY <1>0, <3>1
        <3> QED BY <1>4, <3>6, <3>7 DEF Crossing
    <2>7. Linking'
        BY <1>0, <1>1 DEF Linking
    <2>8. Deleting'
        <3> SUFFICES ASSUME op = "Delete", ~isStopped, NEW f \in Listed
                     PROVE  Pending(f)' \/ \A p \in Below(f) : src'[p] = "none"
            BY <1>0 DEF Deleting
        <3>1. CASE f = Path
            BY <1>5, <3>1 DEF Remove
        <3>2. CASE f # Path
            <4>1. Pending(f) \/ \A p \in Below(f) : src[p] = "none"
                BY <2>1 DEF Running, Deleting
            <4> QED BY <1>4, <1>9, <3>2, <4>1
        <3> QED BY <3>1, <3>2
    <2> QED BY <1>4, <1>10, <2>3, <2>4, <2>5, <2>6, <2>7, <2>8 DEF Running
<1> QED BY <1>11, <1>12

\* DeleteOperation for one file.
LEMMA DeleteRuns ==
    ASSUME Sound, Running, faults' = 0 => faults = 0, Delete \/ DeleteFailed
    PROVE  Running'
<1>1. CASE Delete
    <2>1. At("delete") /\ UNCHANGED <<fixed, dst, todo, opResult, isStopped>>
        BY <1>1 DEF Delete
    <2>2. CASE Goto("deleteFailed") /\ Ask("DeleteError") /\ src' = src
        BY <2>1, <2>2, DeleteFails
    <2>3. CASE Return /\ NoQuestion /\ IF isStopped THEN src' = src ELSE src' = Remove(src, Path)
        BY <2>1, <2>3, DeleteReturns
    <2> QED BY <1>1, <2>2, <2>3 DEF Delete
<1>2. CASE DeleteFailed
    <2>1. At("deleteFailed") /\ UNCHANGED <<fixed, dst, todo, isStopped>>
        BY <1>2 DEF DeleteFailed
    <2>2. work # <<>> /\ Top.do = "deleteFailed"
        BY <2>1, AtFacts
    <2>3. ~NoProblemMet
        BY <2>2 DEF Running, Smooth, Trouble
    <2>4. Ask("DeleteError") \/ NoQuestion
        BY <1>2 DEF DeleteFailed
    <2>5. CASE work' = work /\ src' = src
        <3>1. [Top EXCEPT !.do = "deleteFailed"] = Top
            BY <2>2, TopFacts DEF Tasks
        <3>2. work \in Seq(Tasks) /\ <<Top>> \o Tail(work) = work
            BY <2>2, HeadTailProperties DEF Sound, StackSound, Top
        <3>3. Goto("deleteFailed")
            BY <2>5, <3>1, <3>2 DEF Goto
        <3> QED BY <2>1, <2>3, <2>4, <2>5, <3>3, DeleteFails
    <2>6. CASE Return /\ \E stuck \in SUBSET Below(Path) \ {{}} : src' = RemoveBut(src, Path, stuck)
        BY <2>1, <2>3, <2>4, <2>6, DeleteFails
    <2> QED BY <1>2, <2>5, <2>6 DEF DeleteFailed
<1> QED BY <1>1, <1>2

\* LinkOperation, and the links of a copy.
LEMMA LinkRuns ==
    ASSUME Sound, Running, faults' = 0 => faults = 0,
           NewLink \/ NewLinkAnswered \/ MakeLink
    PROVE  Running'
<1>0. /\ UNCHANGED <<op, sameFS, src0, dst0, src, todo, opResult, isStopped>> /\ UNCHANGED fixed
      /\ work # <<>> /\ Top.do \in {"newLink", "newLinkAnswered", "makeLink"}
    BY DEF NewLink, NewLinkAnswered, MakeLink, At, fixed, files
<1>1. /\ {"WriteError", "ReadError", "FileExists"} \subseteq ProblemTypes
      /\ {"newLinkAnswered", "makeLink"} \subseteq Steps
      /\ {"newLink", "newLinkAnswered", "makeLink"} \cap LastSteps = {}
      /\ "newLinkAnswered" \in Trouble
      /\ op = "Link" => "makeLink" \notin Trouble
    BY DEF ProblemTypes, SkipOnlyProblems, Steps, LastSteps, MoveSteps, Trouble, AnsweredSteps
<1>2. CASE Copies
    BY <1>2, CopyLinkRuns
<1>3. CASE op = "Link"
    <2>1. StepsOf = {"newLink", "newLinkAnswered", "makeLink"}
        BY <1>3 DEF StepsOf
    <2>2. NoQuestion \/ \E p \in ProblemTypes : Ask(p)
        BY <1>1 DEF NewLink, NewLinkAnswered, MakeLink
    <2>3. Return \/ Goto("newLinkAnswered") \/ Goto("makeLink")
        BY DEF NewLink, NewLinkAnswered, MakeLink
    <2>4. /\ Return => Order' /\ Calls' = {} \cup Waits /\ (work' # <<>> => Top'.do \in OuterSteps)
          /\ \A step \in {"newLinkAnswered", "makeLink"} : Goto(step) =>
                /\ Order' /\ Calls' = {[do |-> step, path |-> Path]} \cup Waits
                /\ Top'.do = step /\ Path' = Path
        <3>1. Return => Order' /\ Calls' = {} \cup Waits /\ (work' # <<>> => Top'.do \in OuterSteps)
            BY <1>0, Returned DEF Running
        <3>2. ASSUME NEW step \in {"newLinkAnswered", "makeLink"}, Goto(step)
              PROVE  /\ Order' /\ Calls' = {[do |-> step, path |-> Path]} \cup Waits
                     /\ Top'.do = step /\ Path' = Path
            BY <1>0, <1>1, <2>1, <3>2, Went DEF Running
        <3> QED BY <3>1, <3>2
    <2> DEFINE N == IF Return THEN {}
                    ELSE IF Goto("makeLink") THEN {[do |-> "makeLink", path |-> Path]}
                    ELSE {[do |-> "newLinkAnswered", path |-> Path]}
    <2>5. Order' /\ Calls' = N \cup Waits
        BY <2>3, <2>4
    <2>6. \A t \in N : t.path = Path /\ t.path \in Below(Path) /\ t.do \in StepsOf
        BY <1>0, <2>1, TopCalls, Owners DEF Running
    <2>a. Goto("makeLink") /\ ~Return => N = {[do |-> "makeLink", path |-> Path]}
        OBVIOUS
    <2> HIDE DEF N
    <2>7. Sources'
        BY <1>0, <1>3, <2>5, <2>6, SourcesKept DEF Running
    <2>8. CASE ~NoProblemMet'
        BY <1>0, <1>3, <2>5, <2>7, <2>8, TroubledRunning
    <2>9. CASE NoProblemMet'
        <3>1. NoProblemMet /\ NoQuestion /\ consent' = consent
            BY <2>2, <2>9, Questions
        <3>2. /\ Top.do # "newLinkAnswered"
              /\ opResult /\ ~consent
              /\ \A t \in Calls : t.path \in Listed
              /\ \A f \in Listed : dst[f] = "newLink" \/ Pending(f)
            BY <1>0, <1>1, <1>3, <3>1 DEF Running, Smooth, Linking
        <3>3. /\ Calls = {Top} \cup Waits /\ Path \in Paths /\ Path = Top.path
              /\ dst \in [Paths -> Entries]
            BY <1>0, TopCalls DEF Running, Sound, TypeOK, Trees
        <3>4. \A p \in ProblemTypes : ~Ask(p)
            BY <2>2, <2>9, Questions
        <3>5. \/ Goto("makeLink") /\ dst' = dst
              \/ Return /\ dst' = [dst EXCEPT ![Path] = "newLink"]
            BY <1>1, <1>3, <3>2, <3>4 DEF NewLink, NewLinkAnswered, MakeLink, At, files
        <3>6. \A t \in Calls' : t.path \in Listed
            BY <2>5, <2>6, <3>2, <3>3
        <3>7. \A f \in Listed : Pending(f) => Pending(f)' \/ Path \in Below(f)
            BY <1>0, <2>5, <2>6, OrderKept DEF Running, Order
        <3>8. ASSUME NEW f \in Listed PROVE dst'[f] = "newLink" \/ Pending(f)'
            <4>1. CASE Path \in Below(f)
                <5>1. Path = f /\ f \in Paths
                    BY <3>2, <3>3, <4>1, Owners
                <5>2. CASE Return /\ dst' = [dst EXCEPT ![Path] = "newLink"]
                    BY <3>3, <5>1, <5>2
                <5>3. CASE Goto("makeLink")
                    <6>1. [do |-> "makeLink", path |-> Path] \in Calls'
                        BY <2>4, <5>3
                    <6> QED BY <4>1, <6>1 DEF Pending, Current
                <5> QED BY <3>5, <5>2, <5>3
            <4>2. CASE Path \notin Below(f)
                <5>1. f # Path /\ f \in Paths
                    BY <4>2, Owners
                <5>2. dst'[f] = dst[f]
                    BY <3>3, <3>5, <5>1
                <5> QED BY <3>2, <3>7, <4>2, <5>2
            <4> QED BY <4>1, <4>2
        <3>9. Linking'
            BY <3>6, <3>8 DEF Linking
        <3>10. Smooth'
            <4>1. work' # <<>> => Top'.do \in OuterSteps \cup {"makeLink"}
                BY <2>4, <3>5
            <4>2. Trouble' = Trouble /\ OuterSteps \cap Trouble = {}
                BY <1>0, <1>3 DEF Trouble, OuterSteps, AnsweredSteps
            <4> QED BY <1>0, <1>1, <1>3, <3>1, <3>2, <4>1, <4>2 DEF Smooth
        <3> QED BY <1>0, <1>3, <2>5, <2>7, <3>9, <3>10
                DEF Running, Renames, Copying, Copies, Cross, Crossing, Deleting
    <2> QED BY <2>8, <2>9
<1>4. Copies \/ op = "Link"
    <2>1. Top.do \in StepsOf
        BY <1>0, TopCalls DEF Running, Order
    <2>2. op \in Operations
        BY DEF Sound, TypeOK
    <2> QED BY <1>0, <2>1, <2>2 DEF StepsOf, Copies, Cross, Operations
<1> QED BY <1>2, <1>3, <1>4

-----------------------------------------------------------------------------
(* The loop, the answers and the signal. *)

\* An answer comes after a problem.
LEMMA AnswerRuns ==
    ASSUME Sound, Running, Answer
    PROVE  Running'
<1>1. /\ UNCHANGED <<op, sameFS, src0, dst0, src, dst, todo, work>>
      /\ ~makeCleanupOnStop' /\ asking # NoProblem
    BY DEF Answer, fixed, files
<1>2. ~NoProblemMet' /\ ~NoProblemMet
    BY <1>1 DEF NoProblemMet
<1>3. Order' /\ Sources' /\ (\A f \in Listed : Pending(f)' <=> Pending(f))
    <2>1. \A f \in Listed : (Waiting(f)' <=> Waiting(f)) /\ (Current(f)' <=> Current(f))
        BY <1>1 DEF Waiting, Current, Calls, Called
    <2>2. \A f \in Listed : Pending(f)' <=> Pending(f)
        BY <2>1 DEF Pending
    <2>3. Sources'
        BY <1>1, <2>2 DEF Running, Sources
    <2>4. Calls' = Calls /\ StepsOf' = StepsOf /\ (Placed(work)' <=> Placed(work))
        BY <1>1 DEF Calls, Called, StepsOf, Placed, Cross
    <2>5. Order'
        BY <1>1, <2>1, <2>4 DEF Running, Order
    <2> QED BY <2>2, <2>3, <2>5
<1>4. Renames'
    <2> SUFFICES ASSUME op = "Move", sameFS, EmptyTarget PROVE Renames'
        BY <1>1, <1>2 DEF Renames, EmptyTarget
    <2>1. \A f \in Listed : (Unmoved(f)' <=> Unmoved(f)) /\ (Moved(f)' <=> Moved(f))
        BY <1>1 DEF Unmoved, Moved
    <2>2. Top' = Top /\ Path' = Path
        BY <1>1 DEF Top, Path
    <2> QED BY <1>1, <1>2, <1>3, <2>1, <2>2 DEF Running, Renames
<1> QED BY <1>2, <1>3, <1>4 DEF Running, Smooth, Copying, Crossing, Linking, Deleting

\* SIGINT sets a flag.
LEMMA InterruptRuns ==
    ASSUME Sound, Running, faults' = 0 => faults = 0,
           Interrupt
    PROVE  Running'
<1>1. /\ UNCHANGED <<op, sameFS, src0, dst0, src, dst, todo, work, opResult>>
      /\ UNCHANGED <<asking, makeCleanupOnStop, consent>> /\ isStopped'
    BY DEF Interrupt, fixed, files, comm
<1>2. (NoProblemMet' <=> NoProblemMet) /\ (EmptyTarget' <=> EmptyTarget)
    BY <1>1 DEF NoProblemMet, EmptyTarget
<1>3. /\ Calls' = Calls /\ StepsOf' = StepsOf /\ (Placed(work)' <=> Placed(work))
      /\ Top' = Top /\ Path' = Path /\ Trouble' = Trouble /\ (Cross' <=> Cross)
    BY <1>1 DEF Calls, Called, StepsOf, Placed, Cross, Top, Path, Trouble
<1>4. \A f \in Listed : /\ Waiting(f)' <=> Waiting(f)
                        /\ Current(f)' <=> Current(f)
                        /\ Pending(f)' <=> Pending(f)
    <2>1. \A f \in Listed : (Waiting(f)' <=> Waiting(f)) /\ (Current(f)' <=> Current(f))
        BY <1>1, <1>3 DEF Waiting, Current
    <2> QED BY <2>1 DEF Pending
<1>5. \A f \in Listed : (Unmoved(f)' <=> Unmoved(f)) /\ (Moved(f)' <=> Moved(f))
    BY <1>1 DEF Unmoved, Moved
<1>6. Order'
    BY <1>1, <1>3, <1>4 DEF Running, Order
<1>7. Sources' /\ Smooth'
    BY <1>1, <1>2, <1>3, <1>4 DEF Running, Sources, Smooth
<1>8. Renames'
    BY <1>1, <1>2, <1>3, <1>4, <1>5 DEF Running, Renames
<1>9. Crossing'
    <2> SUFFICES ASSUME Cross, NoProblemMet PROVE Crossing'
        BY <1>2, <1>3 DEF Crossing
    <2>1. /\ \A f \in Listed :
                \/ Pending(f) \/ Moved(f)
                \/ isStopped /\ \A p \in Below(f) : src[p] = src0[p]
          /\ faults = 0 => \A p \in Paths : dst[p] = "part" =>
                \E t \in Calls : t.do = "copied" /\ p \in Below(t.path)
        BY DEF Running, Crossing
    <2> QED BY <1>1, <1>3, <1>4, <1>5, <2>1 DEF Crossing
<1>10. Linking'
    BY <1>1, <1>2, <1>3, <1>4 DEF Running, Linking
<1> QED BY <1>1, <1>6, <1>7, <1>8, <1>9, <1>10 DEF Running, Copying, Deleting

\* The next file: it has waited, and is under way.
LEMMA NextFileRuns ==
    ASSUME Sound, Running, faults' = 0 => faults = 0,
           NextFile
    PROVE  Running'
<1> DEFINE g == Head(todo)
           t == [do |-> FirstStep(g), path |-> g]
<1>0. /\ UNCHANGED <<op, sameFS, src0, dst0, src, dst, opResult, isStopped>>
      /\ UNCHANGED <<asking, makeCleanupOnStop, consent>>
      /\ work = <<>> /\ todo # <<>> /\ ~isStopped
      /\ todo' = Tail(todo) /\ work' = <<t>>
    BY DEF NextFile, LoopGoesOn, fixed, files, comm
<1>1. /\ todo \in Seq(Listed) /\ op \in Operations /\ src \in Trees
      /\ Len(todo) \in Nat \ {0} /\ DOMAIN todo = 1 .. Len(todo) /\ g = todo[1] /\ g \in Listed
      /\ Tail(todo) \in Seq(Listed) /\ DOMAIN Tail(todo) = 1 .. Len(todo) - 1
      /\ \A i \in 1 .. Len(todo) - 1 : Tail(todo)[i] = todo[i + 1]
    <2>1. todo \in Seq(Listed) /\ op \in Operations /\ src \in Trees
        BY DEF Sound, TypeOK
    <2> QED BY <1>0, <2>1, EmptySeq, HeadTailProperties
<1>2. \A i, j \in DOMAIN todo : todo[i] = todo[j] => i = j
    BY DEF Running, Order
<1>3. /\ \A i, j \in DOMAIN Tail(todo) : Tail(todo)[i] = Tail(todo)[j] => i = j
      /\ \A i \in DOMAIN Tail(todo) : Tail(todo)[i] # g
    <2>1. \A i \in DOMAIN Tail(todo) : Tail(todo)[i] = todo[i + 1] /\ i + 1 \in DOMAIN todo /\ i + 1 # 1
        BY <1>1
    <2>2. 1 \in DOMAIN todo
        BY <1>1
    <2>3. \A i \in DOMAIN Tail(todo) : Tail(todo)[i] # g
        BY <1>1, <1>2, <2>1, <2>2
    <2>4. ASSUME NEW i \in DOMAIN Tail(todo), NEW j \in DOMAIN Tail(todo),
                 Tail(todo)[i] = Tail(todo)[j]
          PROVE  i = j
        <3>1. i + 1 = j + 1
            BY <1>2, <2>1, <2>4
        <3> QED BY <1>1, <2>4, <3>1
    <2> QED BY <2>3, <2>4
<1>4. \A f \in Listed : Waiting(f) <=> f = g \/ Waiting(f)'
    <2> SUFFICES ASSUME NEW f \in Listed PROVE Waiting(f) <=> f = g \/ Waiting(f)'
        OBVIOUS
    <2>1. ASSUME NEW i \in DOMAIN todo, todo[i] = f
          PROVE  f = g \/ \E j \in DOMAIN Tail(todo) : Tail(todo)[j] = f
        <3>1. CASE i = 1
            BY <1>1, <2>1, <3>1
        <3>2. CASE i # 1
            <4>1. i - 1 \in DOMAIN Tail(todo) /\ (i - 1) + 1 = i
                BY <1>1, <2>1, <3>2
            <4>2. Tail(todo)[i - 1] = todo[(i - 1) + 1]
                BY <1>1, <4>1
            <4> QED BY <2>1, <4>1, <4>2
        <3> QED BY <3>1, <3>2
    <2>2. ASSUME NEW i \in DOMAIN Tail(todo), Tail(todo)[i] = f
          PROVE  \E j \in DOMAIN todo : todo[j] = f
        <3>1. i + 1 \in DOMAIN todo /\ todo[i + 1] = f
            BY <1>1, <2>2
        <3> QED BY <3>1
    <2>3. 1 \in DOMAIN todo /\ todo[1] = g
        BY <1>1
    <2> QED BY <1>0, <2>1, <2>2, <2>3 DEF Waiting
<1>5. /\ g \in Paths /\ g \in Below(g) /\ src[g] = src0[g]
      /\ \A f \in Listed : g \in Below(f) <=> f = g
      /\ Calls = {}
    <2>1. g \in Paths /\ g \in Below(g) /\ \A f \in Listed : g \in Below(f) <=> f = g
        BY <1>1, Owners
    <2>2. Pending(g)
        BY <1>1, <1>4 DEF Pending
    <2>3. src[g] = src0[g]
        BY <1>1, <2>1, <2>2 DEF Running, Sources
    <2>4. Calls = {}
        BY <1>0 DEF Calls, Called
    <2> QED BY <2>1, <2>3, <2>4
<1>6. LET c == [do |-> StepFor(src[g]), path |-> g] IN
      /\ \A p \in Below(g) : p \in Reach(c) \/ (src0[p] = "none" /\ p \in Paths)
      /\ c.do = "regular" => src0[g] = "file"
      /\ c.do = "dir" => src0[g] = "dir"
      /\ c.do \in {"link", "dir", "regular", "unknown"} /\ c.do \in Steps
    BY <1>1, <1>5, CopyBegins
<1>7. /\ op \in {"Copy", "Duplicate"} => FirstStep(g) = StepFor(src[g])
      /\ op = "Move" => FirstStep(g) = "move"
      /\ op = "Link" => FirstStep(g) = "newLink"
      /\ op = "Delete" => FirstStep(g) = "delete"
    BY <1>1 DEF FirstStep, Operations
<1>8. /\ FirstStep(g) \in Steps /\ FirstStep(g) \in StepsOf /\ FirstStep(g) \notin Trouble
      /\ Cross => FirstStep(g) \in LastSteps
      /\ FirstStep(g) \notin {"rename", "moveAnswered", "create", "data", "contents"}
      /\ FirstStep(g) \in {"link", "dir", "regular", "unknown"} => op \in {"Copy", "Duplicate"}
    BY <1>1, <1>6, <1>7 DEF Operations, Steps, StepsOf, Trouble, AnsweredSteps, Cross, LastSteps, MoveSteps
<1>9. t \in Tasks /\ t.do = FirstStep(g) /\ t.path = g
    BY <1>5, <1>8 DEF Tasks
<1> HIDE DEF g, t
<1>10. Calls' = {t} /\ work' # <<>> /\ Top' = t /\ Placed(work)'
    <2>1. /\ <<t>> \in Seq(Tasks) /\ <<t>> # <<>> /\ Called(<<t>>) = {t} /\ Placed(<<t>>)
        BY <1>8, <1>9, OneCall
    <2>2. Head(<<t>>) = t
        BY ONLY TRUE
    <2> QED BY <1>0, <2>1, <2>2 DEF Calls, Called, Top, Placed, Cross
<1>11. Path' = g
    BY <1>9, <1>10 DEF Path
<1>12. \A f \in Listed : /\ Current(f)' <=> f = g
                         /\ ~Current(f)
                         /\ Pending(f)' <=> Pending(f)
    <2>1. \A f \in Listed : (Current(f)' <=> f = g) /\ ~Current(f)
        BY <1>5, <1>9, <1>10 DEF Current
    <2> QED BY <1>4, <2>1 DEF Pending
<1>13. Order'
    <2>1. \A i, j \in DOMAIN todo' : todo'[i] = todo'[j] => i = j
        BY <1>0, <1>3
    <2>2. StepsOf' = StepsOf
        BY <1>0 DEF StepsOf
    <2>3. ASSUME NEW f \in Listed, f = g PROVE ~Waiting(f)' /\ \A u \in Calls' : u.path \in Below(f)
        <3>1. ~\E i \in DOMAIN Tail(todo) : Tail(todo)[i] = f
            BY <1>3, <2>3
        <3> QED BY <1>0, <1>5, <1>9, <1>10, <2>3, <3>1 DEF Waiting
    <2>4. \E f \in Listed : ~Waiting(f)' /\ \A u \in Calls' : u.path \in Below(f)
        BY <1>1, <2>3
    <2> QED BY <1>8, <1>9, <1>10, <2>1, <2>2, <2>4 DEF Order
<1>14. Sources'
    BY <1>0, <1>12 DEF Running, Sources
<1>15. NoProblemMet' <=> NoProblemMet
    BY <1>0 DEF NoProblemMet
<1>16. Smooth'
    <2>1. Trouble' = Trouble
        BY <1>0 DEF Trouble
    <2> QED BY <1>0, <1>8, <1>9, <1>10, <1>15, <2>1 DEF Running, Smooth
<1>17. \A f \in Listed : (Unmoved(f)' <=> Unmoved(f)) /\ (Moved(f)' <=> Moved(f))
    BY <1>0 DEF Unmoved, Moved
<1>18. Renames'
    <2>1. EmptyTarget' <=> EmptyTarget
        BY <1>0 DEF EmptyTarget
    <2> QED BY <1>0, <1>8, <1>9, <1>10, <1>12, <1>15, <1>17, <2>1 DEF Running, Renames
<1>19. Copying'
    <2> SUFFICES ASSUME Copies, NoProblemMet PROVE Typed' /\ \A p \in Paths : Fine(p)'
        BY <1>0, <1>15 DEF Copying, Copies, Cross
    <2>1. Typed'
        BY <1>0, <1>6, <1>7, <1>8, <1>9, <1>10, <1>11 DEF Typed
    <2>2. ASSUME NEW p \in Paths PROVE Fine(p)'
        <3>1. /\ src0[p] \notin {"file", "dir"} => dst[p] = dst0[p]
              /\ CopyOf(src0)[p] = IF src0[p] \in {"file", "dir"} THEN src0[p] ELSE dst0[p]
              /\ Fine(p)
            BY <1>0, FineFacts
        <3>2. CASE p \in Below(g) /\ p \in Reach(t)
            <4>1. Ahead(p)'
                BY <1>10, <3>2 DEF Ahead, Reach
            <4> QED BY <1>0, <3>1, <4>1 DEF Fine
        <3>3. CASE p \in Below(g) /\ src0[p] = "none"
            BY <1>0, <3>1, <3>3 DEF Fine, CopyOf
        <3>4. CASE p \notin Below(g)
            <4>1. Ahead(p) => Ahead(p)'
                BY <1>4, <1>5, <3>4 DEF Ahead
            <4> QED BY <1>0, <3>1, <4>1 DEF Fine, CopyOf
        <3>5. p \in Below(g) => p \in Reach(t) \/ src0[p] = "none"
            <4>1. CASE op \in {"Copy", "Duplicate"}
                BY <1>6, <1>7, <4>1 DEF t
            <4>2. CASE op = "Move"
                BY <1>7, <1>9, <4>2 DEF Reach
            <4> QED BY <4>1, <4>2 DEF Copies, Cross
        <3> QED BY <3>2, <3>3, <3>4, <3>5
    <2> QED BY <2>1, <2>2
<1>20. Crossing'
    <2> SUFFICES ASSUME Cross, NoProblemMet PROVE Crossing'
        BY <1>0, <1>15 DEF Crossing, Cross
    <2>1. /\ \A f \in Listed :
                \/ Pending(f) \/ Moved(f)
                \/ isStopped /\ \A p \in Below(f) : src[p] = src0[p]
          /\ faults = 0 => \A p \in Paths : dst[p] # "part"
        BY <1>5 DEF Running, Crossing
    <2>2. Top'.do = "move"
        BY <1>7, <1>9, <1>10 DEF Cross
    <2> QED BY <1>0, <1>12, <1>17, <2>1, <2>2 DEF Crossing
<1>21. Linking'
    BY <1>0, <1>1, <1>9, <1>10, <1>12, <1>15 DEF Running, Linking
<1>22. Deleting'
    BY <1>0, <1>12, <1>15 DEF Running, Deleting
<1> QED BY <1>13, <1>14, <1>16, <1>18, <1>19, <1>20, <1>21, <1>22 DEF Running

-----------------------------------------------------------------------------
(* The end. *)

\* While the tool runs, every file's data is still at its place or at the other.
LEMMA RunningKeepsData ==
    ASSUME Sound, Running
    PROVE  MoveKeepsData
<1> SUFFICES ASSUME op = "Move", sameFS \/ NoProblemMet, EmptyTarget,
                    NEW p \in Paths, src0[p] = "file"
             PROVE  "file" \in {src[p], dst[p]}
    BY DEF MoveKeepsData
<1>1. PICK f \in Listed : p \in Below(f)
    BY Owners
<1>2. CASE sameFS
    <2>1. Unmoved(f) \/ Moved(f)
        BY <1>2 DEF Running, Renames
    <2> QED BY <1>1, <2>1 DEF Unmoved, Moved
<1>3. CASE ~sameFS
    <2>1. Pending(f) \/ Moved(f) \/ \A q \in Below(f) : src[q] = src0[q]
        BY <1>3 DEF Running, Crossing, Cross
    <2>2. Pending(f) => src[p] = src0[p]
        BY <1>1 DEF Running, Sources
    <2> QED BY <1>1, <2>1, <2>2 DEF Moved
<1> QED BY <1>2, <1>3

\* What the cleanup of MoveOperation does below a listed file.
LEMMA MovedBack ==
    ASSUME Sound, op = "Move", CleanUp
    PROVE  \E stuck \in SUBSET Listed :
                /\ faults' = 0 => stuck = {}
                /\ \A f \in Listed : \A p \in Below(f) :
                        IF f \notin stuck /\ sameFS /\ CanRename(dst, src, f)
                        THEN src'[p] = dst[p] /\ dst'[p] = "none"
                        ELSE src'[p] = src[p] /\ dst'[p] = dst[p]
<1>0. RenameBack
    BY DEF CleanUp
<1>1. PICK stuck \in SUBSET Listed :
            LET back == {f \in Listed \ stuck : sameFS /\ CanRename(dst, src, f)}
                moved == UNION {Below(f) : f \in back} IN
            /\ Clears(stuck)
            /\ src' = [p \in Paths |-> IF p \in moved THEN dst[p] ELSE src[p]]
            /\ dst' = [p \in Paths |-> IF p \in moved THEN "none" ELSE dst[p]]
    BY <1>0 DEF RenameBack
<1> DEFINE back == {g \in Listed \ stuck : sameFS /\ CanRename(dst, src, g)}
           moved == UNION {Below(g) : g \in back}
<1>2. faults' = 0 => stuck = {}
    <2>1. faults \in Nat /\ Clears(stuck)
        BY <1>1, FileToolAssumption DEF Sound, TypeOK
    <2> QED BY <2>1 DEF Clears, Fails
<1>3. /\ src' = [q \in Paths |-> IF q \in moved THEN dst[q] ELSE src[q]]
      /\ dst' = [q \in Paths |-> IF q \in moved THEN "none" ELSE dst[q]]
    BY <1>1
<1>4. back \subseteq Listed
    OBVIOUS
<1>5. \A p : p \in moved <=> \E g \in back : p \in Below(g)
    OBVIOUS
<1>6. \A f \in Listed : f \in back <=> f \notin stuck /\ sameFS /\ CanRename(dst, src, f)
    OBVIOUS
<1> HIDE DEF back, moved
<1>7. ASSUME NEW f \in Listed, NEW p \in Below(f)
      PROVE  IF f \notin stuck /\ sameFS /\ CanRename(dst, src, f)
             THEN src'[p] = dst[p] /\ dst'[p] = "none"
             ELSE src'[p] = src[p] /\ dst'[p] = dst[p]
    <2>1. p \in Paths /\ \A g \in Listed : p \in Below(g) => g = f
        BY Owners
    <2>2. p \in moved <=> f \in back
        BY <1>4, <1>5, <2>1
    <2> QED BY <1>3, <1>6, <2>1, <2>2
<1> QED BY <1>2, <1>7

\* The loop is over: the operation is done, or is undone.
LEMMA FinishOutcome ==
    ASSUME Sound, Running, faults' = 0 => faults = 0,
           Finish
    PROVE  MoveKeepsData' /\ CompletesFaithfully' /\ StopUndoes'
<1>0. /\ UNCHANGED <<op, sameFS, src0, dst0, opResult, isStopped>>
      /\ UNCHANGED <<asking, makeCleanupOnStop>>
      /\ work = <<>> /\ asking = NoProblem /\ ~LoopGoesOn
      /\ IF isStopped /\ makeCleanupOnStop THEN CleanUp ELSE UNCHANGED <<files, faults>>
    BY DEF Finish, fixed, comm
<1>1. /\ NoProblemMet' <=> NoProblemMet
      /\ NoProblemMet <=> makeCleanupOnStop
      /\ EmptyTarget' <=> EmptyTarget
    BY <1>0 DEF NoProblemMet, EmptyTarget
<1>2. /\ src0 \in Trees /\ op \in Operations
      /\ src0 \in [Paths -> Entries] /\ dst0 \in [Paths -> Entries]
      /\ src \in [Paths -> Entries] /\ dst \in [Paths -> Entries]
      /\ \A p \in Paths : src0[p] \notin {"part", "old", "linkedDir"} /\ dst0[p] # "part"
    BY TreesBefore DEF Sound, TypeOK
<1>3. Calls = {} /\ \A f \in Listed : Pending(f) <=> Waiting(f)
    <2>1. Calls = {}
        BY <1>0 DEF Calls, Called
    <2> QED BY <2>1 DEF Pending, Current
<1>4. CASE ~(isStopped /\ makeCleanupOnStop)
    <2>1. src' = src /\ dst' = dst
        BY <1>0, <1>4 DEF files
    <2>2. MoveKeepsData'
        <3>1. MoveKeepsData
            BY RunningKeepsData
        <3> QED BY <1>0, <1>1, <2>1, <3>1 DEF MoveKeepsData
    <2>3. StopUndoes'
        BY <1>0, <1>1, <1>4 DEF StopUndoes
    <2>4. CompletesFaithfully'
        <3> SUFFICES ASSUME NoProblemMet, ~isStopped
                     PROVE  CASE op \in {"Copy", "Duplicate"} -> src = src0 /\ dst = CopyOf(src0)
                              [] op = "Move"   -> src = Nothing /\ dst = src0
                              [] op = "Link"   -> src = src0 /\ \A f \in Listed : dst[f] = "newLink"
                              [] op = "Delete" -> src = Nothing /\ dst = dst0
            BY <1>0, <1>1, <2>1 DEF CompletesFaithfully, CopyOf
        <3>1. todo = <<>>
            BY <1>0 DEF LoopGoesOn, Running, Smooth
        <3>2. \A f \in Listed : ~Waiting(f) /\ ~Pending(f)
            BY <1>3, <3>1 DEF Waiting
        <3>3. CASE op \in {"Copy", "Duplicate"}
            <4>1. src = src0
                BY <3>3 DEF Running, Sources
            <4>2. \A p \in Paths : dst[p] = CopyOf(src0)[p]
                <5>1. \A p \in Paths : Fine(p)
                    BY <3>3 DEF Running, Copying, Copies
                <5>2. \A p \in Paths : ~Ahead(p)
                    BY <1>3, <3>2 DEF Ahead
                <5> QED BY <5>1, <5>2 DEF Fine
            <4>3. dst = CopyOf(src0)
                BY <1>2, <4>2 DEF CopyOf
            <4> QED BY <3>3, <4>1, <4>3
        <3>4. CASE op = "Move"
            <4>1. \A f \in Listed : Moved(f)
                BY <3>2, <3>4 DEF Running, Renames, Crossing, Cross
            <4>2. \A p \in Paths : src[p] = "none" /\ dst[p] = src0[p]
                BY <4>1, Owners DEF Moved
            <4>3. src = Nothing /\ dst = src0
                BY <1>2, <4>2 DEF Nothing
            <4> QED BY <3>4, <4>3
        <3>5. CASE op = "Link"
            BY <3>2, <3>5 DEF Running, Sources, Linking
        <3>6. CASE op = "Delete"
            <4>1. \A f \in Listed : \A p \in Below(f) : src[p] = "none"
                BY <3>2, <3>6 DEF Running, Deleting
            <4>2. \A p \in Paths : src[p] = "none"
                BY <4>1, Owners
            <4>3. src = Nothing
                BY <1>2, <4>2 DEF Nothing
            <4> QED BY <3>6, <4>3 DEF Running, Sources
        <3> QED BY <1>2, <3>3, <3>4, <3>5, <3>6 DEF Operations
    <2> QED BY <2>2, <2>3, <2>4
<1>5. CASE isStopped /\ makeCleanupOnStop
    <2>1. CleanUp /\ NoProblemMet
        BY <1>0, <1>1, <1>5
    <2>2. CompletesFaithfully'
        BY <1>0, <1>5 DEF CompletesFaithfully
    <2>3. CASE op \in {"Copy", "Duplicate", "Link"}
        <3>0. RemoveTargets
            BY <2>1, <2>3 DEF CleanUp
        <3>1. faults' = 0 => src' = src /\ src = src0 /\ \A p \in Paths : dst'[p] = "none"
            <4>1. PICK stuck \in SUBSET Paths :
                    /\ Clears(stuck)
                    /\ dst' = [p \in Paths |-> IF Below(p) \cap stuck = {} THEN "none" ELSE dst[p]]
                    /\ UNCHANGED src
                BY <3>0 DEF RemoveTargets
            <4>2. faults \in Nat
                BY FileToolAssumption DEF Sound, TypeOK
            <4>3. faults' = 0 => stuck = {}
                BY <4>1, <4>2 DEF Clears, Fails
            <4>4. src = src0
                BY <2>3 DEF Running, Sources
            <4> QED BY <4>1, <4>3, <4>4
        <3>3. StopUndoes'
            BY <1>0, <2>3, <3>1 DEF StopUndoes
        <3>4. MoveKeepsData'
            BY <1>0, <2>3 DEF MoveKeepsData
        <3> QED BY <2>2, <3>3, <3>4
    <2>4. CASE op = "Delete"
        <3>1. src' = src /\ dst' = dst /\ dst = dst0
            BY <2>1, <2>4 DEF CleanUp, files, Running, Sources
        <3>2. StopUndoes' /\ MoveKeepsData'
            BY <1>0, <1>2, <2>4, <3>1 DEF StopUndoes, MoveKeepsData
        <3> QED BY <2>2, <3>2
    <2>5. CASE op = "Move"
        <3>0. PICK stuck \in SUBSET Listed :
                /\ faults' = 0 => stuck = {}
                /\ \A f \in Listed : \A p \in Below(f) :
                        IF f \notin stuck /\ sameFS /\ CanRename(dst, src, f)
                        THEN src'[p] = dst[p] /\ dst'[p] = "none"
                        ELSE src'[p] = src[p] /\ dst'[p] = dst[p]
            BY <2>1, <2>5, MovedBack
        <3>1. \A f \in Listed : \A p \in Below(f) :
                IF f \notin stuck /\ sameFS /\ CanRename(dst, src, f)
                THEN src'[p] = dst[p] /\ dst'[p] = "none"
                ELSE src'[p] = src[p] /\ dst'[p] = dst[p]
            BY <3>0
        <3>2. src' \in [Paths -> Entries] /\ dst' \in [Paths -> Entries]
            BY FinishSound DEF Sound, TypeOK, Trees
        <3>3. CASE ~sameFS
            <4>1. \A p \in Paths : src'[p] = src[p] /\ dst'[p] = dst[p]
                BY <3>1, <3>3, Owners
            <4>2. faults = 0 => \A p \in Paths : dst[p] # "part"
                BY <1>3, <2>1, <2>5, <3>3 DEF Running, Crossing, Cross
            <4>3. MoveKeepsData'
                <5>1. MoveKeepsData
                    BY RunningKeepsData
                <5> QED BY <1>0, <1>1, <4>1, <5>1 DEF MoveKeepsData
            <4>4. StopUndoes'
                BY <1>0, <2>5, <3>3, <4>1, <4>2 DEF StopUndoes
            <4> QED BY <2>2, <4>3, <4>4
        <3>4. CASE sameFS
            <4>1. \A f \in Listed : Unmoved(f) \/ Moved(f)
                BY <2>1, <2>5, <3>4 DEF Running, Renames
            <4>2. \A p \in Paths : dst'[p] # "part"
                <5> SUFFICES ASSUME NEW p \in Paths PROVE dst'[p] # "part"
                    OBVIOUS
                <5>1. PICK f \in Listed : p \in Below(f)
                    BY Owners
                <5>2. dst[p] \in {dst0[p], src0[p]}
                    BY <4>1, <5>1 DEF Unmoved, Moved
                <5>3. dst'[p] \in {"none", dst[p]}
                    BY <3>1, <5>1
                <5> QED BY <1>2, <5>2, <5>3
            <4>3. ASSUME EmptyTarget, NEW p \in Paths
                  PROVE  /\ src0[p] \in {src'[p], dst'[p]}
                         /\ faults' = 0 => src'[p] = src0[p] /\ dst'[p] = "none"
                <5>1. PICK f \in Listed : p \in Below(f) /\ f \in Below(f) /\ f \in Paths
                    BY Owners
                <5>2. dst0[p] = "none" /\ dst0[f] = "none"
                    BY <4>3, <5>1 DEF EmptyTarget
                <5>3. CASE Unmoved(f)
                    <6>1. dst[f] = "none" /\ src[p] = src0[p] /\ dst[p] = "none"
                        BY <5>1, <5>2, <5>3 DEF Unmoved
                    <6>2. ~CanRename(dst, src, f)
                        BY <6>1 DEF CanRename
                    <6> QED BY <3>1, <5>1, <6>1, <6>2
                <5>4. CASE Moved(f)
                    <6>1. /\ src[f] = "none" /\ src[p] = "none"
                          /\ dst[f] = src0[f] /\ dst[p] = src0[p]
                        BY <5>1, <5>4 DEF Moved
                    <6>2. CASE src0[f] = "none"
                        <7>1. src0[p] = "none"
                            BY <1>2, <5>1, <6>2, NothingBelow
                        <7>2. ~CanRename(dst, src, f)
                            BY <6>1, <6>2 DEF CanRename
                        <7> QED BY <3>1, <5>1, <6>1, <7>1, <7>2
                    <6>3. CASE src0[f] # "none"
                        <7>1. CanRename(dst, src, f)
                            BY <6>1, <6>3 DEF CanRename
                        <7>2. CASE f \in stuck
                            <8>1. dst'[p] = dst[p]
                                BY <3>1, <5>1, <7>2
                            <8> QED BY <3>0, <6>1, <7>2, <8>1
                        <7>3. CASE f \notin stuck
                            BY <3>1, <3>4, <5>1, <6>1, <7>1, <7>3
                        <7> QED BY <7>2, <7>3
                    <6> QED BY <6>2, <6>3
                <5> QED BY <4>1, <5>3, <5>4
            <4>4. EmptyTarget /\ faults' = 0 => src' = src0 /\ dst' = Nothing
                BY <1>2, <3>2, <4>3 DEF Nothing
            <4>5. MoveKeepsData'
                BY <1>0, <1>1, <4>3 DEF MoveKeepsData
            <4>6. StopUndoes'
                BY <1>0, <1>1, <2>5, <4>2, <4>4 DEF StopUndoes, Nothing
            <4> QED BY <2>2, <4>5, <4>6
        <3> QED BY <3>3, <3>4
    <2> QED BY <1>2, <2>3, <2>4, <2>5 DEF Operations
<1> QED BY <1>4, <1>5

\* A crash leaves the files as they are.
LEMMA CrashOutcome ==
    ASSUME Sound, Running, CloseUninitialised \/ LinkedContents, status' = "crashed"
    PROVE  MoveKeepsData' /\ CompletesFaithfully' /\ StopUndoes'
<1>1. /\ UNCHANGED <<op, sameFS, src0, dst0, src, dst>>
      /\ UNCHANGED <<asking, makeCleanupOnStop>>
    BY AtFacts DEF CloseUninitialised, LinkedContents, NoQuestion, fixed, files, comm
<1>2. MoveKeepsData
    BY RunningKeepsData
<1>3. MoveKeepsData'
    BY <1>1, <1>2 DEF MoveKeepsData, NoProblemMet, EmptyTarget
<1> QED BY <1>3 DEF CompletesFaithfully, StopUndoes

-----------------------------------------------------------------------------
(* The theorems. *)

\* At the start every listed file waits, and both trees are as they were.
LEMMA InitOutcome ==
    ASSUME Init
    PROVE  Outcome
<1>0. /\ src = src0 /\ dst = dst0 /\ todo = Names /\ work = <<>> /\ opResult /\ ~isStopped
      /\ ~consent /\ status = "running" /\ src0 \in SourceTrees /\ dst0 \in TargetTrees
    BY DEF Init
<1>1. Sound
    BY InitSound
<1>2. Calls = {} /\ \A f \in Listed : Waiting(f) /\ Pending(f)
    <2>1. Calls = {}
        BY <1>0 DEF Calls, Called
    <2>2. \A f \in Listed : Waiting(f)
        BY <1>0 DEF Waiting, Listed
    <2> QED BY <2>1, <2>2 DEF Pending
<1>3. Order
    <2>1. \A i, j \in DOMAIN todo : todo[i] = todo[j] => i = j
        BY <1>0, FilesAssumption
    <2>2. Placed(work)
        BY <1>0 DEF Placed
    <2> QED BY <1>0, <1>2, <2>1, <2>2 DEF Order
<1>4. Sources /\ Smooth
    BY <1>0 DEF Sources, Smooth
<1>5. Renames
    BY <1>0, <1>2 DEF Renames, Unmoved
<1>6. Copying
    <2>1. \A p \in Paths : Ahead(p)
        BY <1>2, Owners DEF Ahead
    <2> QED BY <1>0, <2>1 DEF Copying, Typed, Fine
<1>7. Crossing
    BY <1>0, <1>1, <1>2, TreesBefore DEF Crossing
<1>8. Linking /\ Deleting
    BY <1>2 DEF Linking, Deleting
<1> QED BY <1>0, <1>1, <1>3, <1>4, <1>5, <1>6, <1>7, <1>8 DEF Outcome, Running

\* What changes nothing keeps it.
LEMMA StutterRuns ==
    ASSUME Running, UNCHANGED vars
    PROVE  Running'
<1>1. /\ UNCHANGED <<op, sameFS, src0, dst0, src, dst, todo, work, opResult, isStopped>>
      /\ UNCHANGED <<asking, makeCleanupOnStop, consent, faults>>
    BY DEF vars, fixed, files, comm
<1>2. (NoProblemMet' <=> NoProblemMet) /\ (EmptyTarget' <=> EmptyTarget)
    BY <1>1 DEF NoProblemMet, EmptyTarget
<1>3. /\ Calls' = Calls /\ StepsOf' = StepsOf /\ (Placed(work)' <=> Placed(work))
      /\ Top' = Top /\ Path' = Path /\ Trouble' = Trouble /\ (Cross' <=> Cross)
    BY <1>1 DEF Calls, Called, StepsOf, Placed, Cross, Top, Path, Trouble
<1>4. \A f \in Listed : /\ Waiting(f)' <=> Waiting(f)
                        /\ Current(f)' <=> Current(f)
                        /\ Pending(f)' <=> Pending(f)
    <2>1. \A f \in Listed : (Waiting(f)' <=> Waiting(f)) /\ (Current(f)' <=> Current(f))
        BY <1>1, <1>3 DEF Waiting, Current
    <2> QED BY <2>1 DEF Pending
<1>5. \A f \in Listed : (Unmoved(f)' <=> Unmoved(f)) /\ (Moved(f)' <=> Moved(f))
    BY <1>1 DEF Unmoved, Moved
<1>6. Order'
    BY <1>1, <1>3, <1>4 DEF Running, Order
<1>7. Sources' /\ Smooth'
    BY <1>1, <1>2, <1>3, <1>4 DEF Running, Sources, Smooth
<1>8. Renames'
    BY <1>1, <1>2, <1>3, <1>4, <1>5 DEF Running, Renames
<1>9. Copying'
    <2>1. ASSUME NEW p \in Paths, Fine(p) PROVE Fine(p)'
        <3>1. Ahead(p) => Ahead(p)'
            BY <1>3, <1>4 DEF Ahead, Reach
        <3> QED BY <1>1, <2>1, <3>1 DEF Fine, CopyOf
    <2>2. Typed => Typed'
        BY <1>1, <1>3 DEF Typed
    <2>3. Copies' <=> Copies
        BY <1>1 DEF Copies, Cross
    <2> QED BY <1>1, <1>2, <2>1, <2>2, <2>3 DEF Running, Copying
<1>10. Crossing'
    BY <1>1, <1>2, <1>3, <1>4, <1>5 DEF Running, Crossing
<1>11. Linking' /\ Deleting'
    BY <1>1, <1>2, <1>3, <1>4 DEF Running, Linking, Deleting
<1> QED BY <1>6, <1>7, <1>8, <1>9, <1>10, <1>11 DEF Running

\* A call that has failed stays counted.
LEMMA FaultsGrow ==
    ASSUME Sound, [Next]_vars, faults' = 0
    PROVE  faults = 0
<1> USE DEF Works, Fails
<1>0. faults \in Nat
    BY FileToolAssumption DEF Sound, TypeOK
<1>1. CASE Answer \/ Interrupt \/ NextFile \/ Regular \/ RegularAnswered \/ Create \/ Data
    BY <1>0, <1>1 DEF Answer, Interrupt, NextFile, Regular, RegularAnswered, Create, Data
<1>2. CASE CloseUninitialised \/ File \/ Unknown
    BY <1>2 DEF CloseUninitialised, File, Unknown
<1>8. CASE Contents \/ Chmod \/ LinkedContents
    <2>1. CASE Contents
        <3>1. Works \/ Fails
            BY <2>1 DEF Contents
        <3> QED BY <1>0, <3>1
    <2>2. CASE Chmod
        BY <1>0, <2>2 DEF Chmod
    <2>3. CASE LinkedContents
        <3>1. Works \/ Fails
            BY <2>3 DEF LinkedContents
        <3> QED BY <1>0, <3>1
    <2> QED BY <1>8, <2>1, <2>2, <2>3
<1>3. CASE Directory \/ LinkedDirectory \/ DirectoryAnswered \/ LinkedDirectoryAnswered
    BY <1>0, <1>3 DEF Directory, LinkedDirectory, MakeDirectory,
                      DirectoryAnswered, LinkedDirectoryAnswered, ReplaceFile
<1>4. CASE Link \/ LinkAnswered \/ Original \/ NewLink \/ NewLinkAnswered \/ MakeLink
    BY <1>0, <1>4 DEF Link, LinkAnswered, Original, NewLink, NewLinkAnswered, MakeLink
<1>5. CASE Move \/ MoveAnswered \/ Rename \/ CrossCopy \/ Copied \/ Delete \/ DeleteFailed
    BY <1>0, <1>5 DEF Move, MoveAnswered, Rename, CrossCopy, Copied, Clears, Delete, DeleteFailed
<1>6. CASE Finish
    <2>1. CleanUp \/ faults' = faults
        BY <1>6 DEF Finish
    <2>2. op \in Operations
        BY DEF Sound, TypeOK
    <2>3. RemoveTargets \/ RenameBack \/ faults' = faults
        BY <2>1, <2>2 DEF CleanUp, Operations
    <2>4. ASSUME NEW stuck, Clears(stuck) PROVE faults = 0
        BY <1>0, <2>4 DEF Clears
    <2>5. RemoveTargets \/ RenameBack => \E stuck : Clears(stuck)
        BY DEF RemoveTargets, RenameBack
    <2> QED BY <2>3, <2>4, <2>5
<1>7. CASE UNCHANGED vars
    BY <1>7 DEF vars
<1> QED BY <1>1, <1>2, <1>3, <1>4, <1>5, <1>6, <1>7, <1>8 DEF Next, Step

\* Every step keeps what is promised, and ends as promised.
LEMMA NextOutcome ==
    ASSUME Outcome, [Next]_vars
    PROVE  Outcome'
<1>1. Sound /\ Sound' /\ (faults' = 0 => faults = 0)
    BY NextSound, FaultsGrow DEF Outcome
<1>2. CASE status # "running"
    <2>1. UNCHANGED vars
        BY <1>2 DEF Next, Step, Interrupt, Answer, NextFile, Finish, At,
                    File, Unknown, Regular, RegularAnswered, Create, Data, CloseUninitialised,
                    Directory, DirectoryAnswered, Contents, Chmod,
                    LinkedDirectory, LinkedDirectoryAnswered, LinkedContents,
                    Link, LinkAnswered, Original, NewLink, NewLinkAnswered, MakeLink,
                    Move, MoveAnswered, Rename, CrossCopy, Copied, Delete, DeleteFailed
    <2>2. /\ UNCHANGED <<op, sameFS, src0, dst0, src, dst, isStopped, faults, status>>
          /\ UNCHANGED <<asking, makeCleanupOnStop>>
        BY <2>1 DEF vars, fixed, files, comm
    <2>3. (NoProblemMet' <=> NoProblemMet) /\ (EmptyTarget' <=> EmptyTarget)
        BY <2>2 DEF NoProblemMet, EmptyTarget
    <2>4. MoveKeepsData /\ CompletesFaithfully /\ StopUndoes
        BY <1>2 DEF Outcome
    <2>5. MoveKeepsData'
        BY <2>2, <2>3, <2>4 DEF MoveKeepsData
    <2>6. CompletesFaithfully'
        BY <2>2, <2>3, <2>4 DEF CompletesFaithfully, CopyOf, Nothing
    <2>7. StopUndoes'
        BY <2>2, <2>3, <2>4 DEF StopUndoes, Nothing
    <2> QED BY <1>1, <1>2, <2>2, <2>5, <2>6, <2>7 DEF Outcome
<1>3. CASE status = "running"
    <2>0. Running
        BY <1>3 DEF Outcome
    <2>1. CASE Finish
        <3>1. status' # "running"
            BY <2>1 DEF Finish
        <3> QED BY <1>1, <2>0, <2>1, <3>1, FinishOutcome DEF Outcome
    <2>2. CASE CloseUninitialised
        <3>1. Running' /\ status' \in {"running", "crashed"}
            BY <1>1, <2>0, <2>2, CopyRegularRuns DEF CloseUninitialised
        <3>2. status' = "crashed" => MoveKeepsData' /\ CompletesFaithfully' /\ StopUndoes'
            BY <1>1, <2>0, <2>2, CrashOutcome
        <3> QED BY <1>1, <3>1, <3>2 DEF Outcome
    <2>11. CASE LinkedContents
        <3>1. Running' /\ status' \in {"running", "crashed"}
            BY <1>1, <1>3, <2>0, <2>11, LinkedDirectoryRuns DEF LinkedContents
        <3>2. status' = "crashed" => MoveKeepsData' /\ CompletesFaithfully' /\ StopUndoes'
            BY <1>1, <2>0, <2>11, CrashOutcome
        <3> QED BY <1>1, <3>1, <3>2 DEF Outcome
    <2>12. CASE LinkedDirectory \/ LinkedDirectoryAnswered
        <3>1. status' = status
            BY <2>12 DEF LinkedDirectory, LinkedDirectoryAnswered, MakeDirectory, ReplaceFile
        <3> QED BY <1>1, <1>3, <2>0, <2>12, <3>1, LinkedDirectoryRuns DEF Outcome
    <2>3. CASE Answer \/ Interrupt \/ NextFile
        <3>1. Running'
            BY <1>1, <2>0, <2>3, AnswerRuns, InterruptRuns, NextFileRuns
        <3>2. status' = status
            BY <2>3 DEF Answer, Interrupt, NextFile
        <3> QED BY <1>1, <1>3, <3>1, <3>2 DEF Outcome
    <2>4. CASE Regular \/ RegularAnswered \/ Create \/ Data
        <3>1. status' = status
            BY <2>4 DEF Regular, RegularAnswered, Create, Data
        <3> QED BY <1>1, <1>3, <2>0, <2>4, <3>1, CopyRegularRuns DEF Outcome
    <2>5. CASE Directory \/ DirectoryAnswered \/ Contents \/ File \/ Chmod \/ Unknown
        <3>1. status' = status
            BY <2>5 DEF Directory, MakeDirectory, DirectoryAnswered, ReplaceFile, Contents, File,
                        Chmod, Unknown
        <3> QED BY <1>1, <1>3, <2>0, <2>5, <3>1, CopyDirectoryRuns DEF Outcome
    <2>6. CASE Link \/ LinkAnswered \/ Original
        <3>1. status' = status /\ \E step \in {"link", "linkAnswered", "original"} : At(step)
            BY <2>6 DEF Link, LinkAnswered, Original
        <3>2. Copies
            BY <1>1, <2>0, <3>1, AtCopy
        <3> QED BY <1>1, <1>3, <2>0, <2>6, <3>1, <3>2, CopyLinkRuns DEF Outcome
    <2>7. CASE NewLink \/ NewLinkAnswered \/ MakeLink
        <3>1. status' = status
            BY <2>7 DEF NewLink, NewLinkAnswered, MakeLink
        <3> QED BY <1>1, <1>3, <2>0, <2>7, <3>1, LinkRuns DEF Outcome
    <2>8. CASE Move \/ MoveAnswered \/ Rename
        <3>1. status' = status
            BY <2>8 DEF Move, MoveAnswered, Rename
        <3> QED BY <1>1, <1>3, <2>0, <2>8, <3>1, MoveRuns, MoveAnsweredRuns, RenameRuns DEF Outcome
    <2>9. CASE CrossCopy \/ Copied \/ Delete \/ DeleteFailed
        <3>1. status' = status
            BY <2>9 DEF CrossCopy, Copied, Delete, DeleteFailed
        <3> QED BY <1>1, <1>3, <2>0, <2>9, <3>1, CrossCopyRuns, CopiedRuns, DeleteRuns DEF Outcome
    <2>10. CASE UNCHANGED vars
        <3>1. status' = status
            BY <2>10 DEF vars
        <3> QED BY <1>1, <1>3, <2>0, <2>10, <3>1, StutterRuns DEF Outcome
    <2> QED BY <2>1, <2>2, <2>3, <2>4, <2>5, <2>6, <2>7, <2>8, <2>9, <2>10, <2>11, <2>12
           DEF Next, Step
<1> QED BY <1>2, <1>3

\* The tool is always on its way to what it promises, or has kept it.
THEOREM OutcomeAlways == Spec => []Outcome
<1>1. Init => Outcome
    BY InitOutcome
<1>2. Outcome /\ [Next]_vars => Outcome'
    BY NextOutcome
<1> QED BY <1>1, <1>2, PTL DEF Spec

\* However a move to an empty target is interrupted, stopped or answered, and wherever
\* it crashes, the data of every file is at its place or completely at the other (on
\* one file system; between two, as long as it has met no problem).
THEOREM MoveKeepsDataAlways == Spec => []MoveKeepsData
<1>1. Outcome => MoveKeepsData
    BY RunningKeepsData DEF Outcome
<1> QED BY <1>1, OutcomeAlways, PTL

\* A tool that ends without a problem or a stop has copied, moved, linked or deleted
\* everything that was listed, and nothing else.
THEOREM CompletesFaithfullyAlways == Spec => []CompletesFaithfully
<1>1. Outcome => CompletesFaithfully
    BY DEF Outcome, CompletesFaithfully
<1> QED BY <1>1, OutcomeAlways, PTL

\* A tool that is stopped before the first problem leaves nothing half copied, and
\* takes back what it has copied, linked or, to where nothing was, renamed, if no call
\* of the cleanup fails.
THEOREM StopUndoesAlways == Spec => []StopUndoes
<1>1. Outcome => StopUndoes
    BY DEF Outcome, StopUndoes
<1> QED BY <1>1, OutcomeAlways, PTL

==============================================================================
