---------------------------- MODULE FileToolProofs ----------------------------
(***************************************************************************)
(* Proofs about FileTool, for any files and any number of failing calls.   *)
(*                                                                         *)
(* What the tool does to a path is spread over several tasks: it looks,    *)
(* asks, removes and writes.  The inductive invariant says what the        *)
(* earlier ones have found or done when the innermost call is at a later   *)
(* one, and that the calls outside of it have nothing of that kind ahead.  *)
(***************************************************************************)
EXTENDS FileTool, SequenceTheorems, TLAPS

-----------------------------------------------------------------------------
(* Trees stay trees. *)

\* The directory of what is not below p is not below p.
LEMMA AboveOutside ==
    ASSUME NEW p \in Paths, NEW q \in Paths \ Below(p), NEW f \in Above(q)
    PROVE  f \in Paths /\ f \notin Below(p)
BY FileToolAssumption DEF Above, Below, Paths

\* A listed file is at the top.
LEMMA AboveListed ==
    ASSUME NEW p \in Listed
    PROVE  p \in Paths /\ Above(p) = {}
BY FileToolAssumption DEF Above, Paths

\* Removing a file or a directory.
LEMMA RemoveTree ==
    ASSUME NEW t \in Trees, NEW p \in Paths
    PROVE  Remove(t, p) \in Trees
<1>1. Remove(t, p) \in [Paths -> Entries]
    BY DEF Remove, Trees, Entries
<1>2. ASSUME NEW q \in Paths, Remove(t, p)[q] # "none", NEW f \in Above(q)
      PROVE  Remove(t, p)[f] = "dir"
    BY <1>2, AboveOutside DEF Remove, Trees
<1>3. ASSUME NEW q \in Paths, Remove(t, p)[q] = "dir" PROVE q \in Listed
    BY <1>3 DEF Remove, Trees
<1> QED BY <1>1, <1>2, <1>3 DEF Trees

\* Something new at a path, in a directory that is there.
LEMMA PutTree ==
    ASSUME NEW t \in Trees, NEW p \in Paths, NEW e \in Entries \ {"none"},
           t[p] # "dir", e = "dir" => p \in Listed,
           \A f \in Above(p) : t[f] = "dir"
    PROVE  [t EXCEPT ![p] = e] \in Trees
<1> DEFINE u == [t EXCEPT ![p] = e]
<1>1. u \in [Paths -> Entries]
    BY DEF Trees
<1>2. t \in [Paths -> Entries]
    BY DEF Trees
<1>3. ASSUME NEW q \in Paths, u[q] # "none", NEW f \in Above(q)
      PROVE  u[f] = "dir"
    <2>1. f \in Paths
        BY DEF Above, Paths
    <2>2. t[f] = "dir"
        BY <1>2, <1>3 DEF Trees
    <2> QED BY <1>2, <2>1, <2>2
<1>4. ASSUME NEW q \in Paths, u[q] = "dir" PROVE q \in Listed
    BY <1>2, <1>4 DEF Trees
<1> QED BY <1>1, <1>3, <1>4 DEF Trees

\* Renaming a listed file.
LEMMA RenamedTree ==
    ASSUME NEW from \in Trees, NEW to \in Trees, NEW p \in Listed
    PROVE  Renamed(from, to, p) \in Trees
<1> DEFINE u == Renamed(from, to, p)
<1>1. u \in [Paths -> Entries]
    BY DEF Renamed, Trees
<1>2. ASSUME NEW q \in Paths, u[q] # "none", NEW f \in Above(q)
      PROVE  u[f] = "dir"
    <2>1. CASE q \in Below(p)
        <3>1. f = p /\ p \in Below(p)
            BY <2>1, FileToolAssumption DEF Above, Below
        <3> QED BY <1>2, <2>1, <3>1, AboveListed DEF Renamed, Trees
    <2>2. CASE q \notin Below(p)
        <3>1. f \in Paths /\ f \notin Below(p)
            BY <2>2, AboveOutside, AboveListed
        <3> QED BY <1>2, <2>2, <3>1 DEF Renamed, Trees
    <2> QED BY <2>1, <2>2
<1>3. ASSUME NEW q \in Paths, u[q] = "dir" PROVE q \in Listed
    BY <1>3 DEF Renamed, Trees
<1> QED BY <1>1, <1>2, <1>3 DEF Trees

\* What stays of a tree when something cannot be removed.
Kept(t, keep) == [q \in Paths |-> IF q \in keep THEN t[q] ELSE "none"]

\* What stays is a tree, if the directories that it is in stay with it.
LEMMA KeptTree ==
    ASSUME NEW t \in Trees, NEW keep,
           \A q \in Paths : \A f \in Above(q) : q \in keep => f \in keep
    PROVE  Kept(t, keep) \in Trees
<1>1. Kept(t, keep) \in [Paths -> Entries]
    BY DEF Kept, Trees, Entries
<1>2. ASSUME NEW q \in Paths, Kept(t, keep)[q] # "none", NEW f \in Above(q)
      PROVE  Kept(t, keep)[f] = "dir"
    <2>1. q \in keep /\ t[q] # "none"
        BY <1>2 DEF Kept
    <2>2. f \in Paths /\ f \in keep /\ t[f] = "dir"
        BY <2>1 DEF Trees, Above, Paths
    <2> QED BY <2>2 DEF Kept
<1>3. ASSUME NEW q \in Paths, Kept(t, keep)[q] = "dir" PROVE q \in Listed
    BY <1>3 DEF Kept, Trees
<1> QED BY <1>1, <1>2, <1>3 DEF Trees

\* A directory cannot be removed when something in it cannot.
LEMMA StuckAbove ==
    ASSUME NEW q \in Paths, NEW f \in Above(q), NEW stuck, Below(q) \cap stuck # {}
    PROVE  Below(f) \cap stuck # {}
<1>1. f \in Listed /\ q \in KidsOf(f) /\ q \notin Listed
    BY FileToolAssumption DEF Above
<1>2. Below(q) \subseteq Below(f)
    BY <1>1 DEF Below
<1> QED BY <1>2

\* A partly removed file or directory leaves a tree.
LEMMA RemoveButTree ==
    ASSUME NEW t \in Trees, NEW p \in Paths, NEW stuck
    PROVE  RemoveBut(t, p, stuck) \in Trees
<1> DEFINE keep == {q \in Paths : ~(q \in Below(p) /\ Below(q) \cap stuck = {})}
<1>1. RemoveBut(t, p, stuck) = Kept(t, keep)
    BY DEF RemoveBut, Kept
<1>2. ASSUME NEW q \in Paths, NEW f \in Above(q), q \in keep PROVE f \in keep
    <2>1. f \in Paths
        BY DEF Above, Paths
    <2>2. CASE q \notin Below(p)
        BY <2>1, <2>2, AboveOutside
    <2>3. CASE Below(q) \cap stuck # {}
        BY <2>1, <2>3, StuckAbove
    <2> QED BY <1>2, <2>2, <2>3
<1> HIDE DEF keep
<1> QED BY <1>1, <1>2, KeptTree

\* What the cleanup leaves of what was copied.
Left(t, stuck) == [p \in Paths |-> IF Below(p) \cap stuck = {} THEN "none" ELSE t[p]]

\* The cleanup of what was copied leaves a tree.
LEMMA LeftTree ==
    ASSUME NEW t \in Trees, NEW stuck
    PROVE  Left(t, stuck) \in Trees
<1> DEFINE keep == {q \in Paths : Below(q) \cap stuck # {}}
<1>1. Left(t, stuck) = Kept(t, keep)
    BY DEF Left, Kept
<1>2. ASSUME NEW q \in Paths, NEW f \in Above(q), q \in keep PROVE f \in keep
    BY <1>2, StuckAbove DEF Above, Paths
<1> HIDE DEF keep
<1> QED BY <1>1, <1>2, KeptTree

\* The cleanup of what was moved.
PutBack(t, u, moved) == [p \in Paths |-> IF p \in moved THEN u[p] ELSE t[p]]
TakenBack(u, moved) == [p \in Paths |-> IF p \in moved THEN "none" ELSE u[p]]

\* The cleanup leaves two trees.
LEMMA BackTree ==
    ASSUME NEW t \in Trees, NEW u \in Trees, NEW B \in SUBSET Listed,
           NEW moved, \A p \in Paths : p \in moved <=> \E f \in B : p \in Below(f)
    PROVE  PutBack(t, u, moved) \in Trees /\ TakenBack(u, moved) \in Trees
<1> DEFINE v == [p \in Paths |-> IF p \in moved THEN u[p] ELSE t[p]]
           w == [p \in Paths |-> IF p \in moved THEN "none" ELSE u[p]]
<1>1. v \in [Paths -> Entries] /\ w \in [Paths -> Entries]
    BY DEF Trees, Entries
<1>2. ASSUME NEW p \in Paths, NEW f \in Above(p)
      PROVE  f \in Paths /\ (f \in moved <=> p \in moved)
    <2>1. f \in Listed /\ p \in KidsOf(f) /\ f \in Paths /\ p \notin Listed
        BY FileToolAssumption DEF Above, Paths
    <2>2. f \in moved => p \in moved
        <3> SUFFICES ASSUME NEW g \in B, f \in Below(g) PROVE p \in moved
            BY <2>1
        <3>1. f = g
            BY <2>1, FileToolAssumption DEF Below
        <3> QED BY <2>1, <3>1 DEF Below
    <2>3. p \in moved => f \in moved
        <3> SUFFICES ASSUME NEW g \in B, p \in Below(g) PROVE f \in moved
            OBVIOUS
        <3>1. p \in KidsOf(g)
            BY <2>1 DEF Below
        <3>2. f = g
            BY <2>1, <3>1, FileToolAssumption
        <3> QED BY <2>1, <3>2 DEF Below
    <2> QED BY <2>1, <2>2, <2>3
<1>3. ASSUME NEW p \in Paths, NEW f \in Above(p)
      PROVE  /\ v[p] # "none" => v[f] = "dir"
             /\ w[p] # "none" => w[f] = "dir"
    BY <1>2 DEF Trees
<1>4. ASSUME NEW p \in Paths
      PROVE  /\ v[p] = "dir" => p \in Listed
             /\ w[p] = "dir" => p \in Listed
    BY DEF Trees
<1>5. v \in Trees /\ w \in Trees
    BY <1>1, <1>3, <1>4 DEF Trees
<1> QED BY <1>5 DEF PutBack, TakenBack

-----------------------------------------------------------------------------
(* The calls under way. *)

MoveSteps == {"move", "moveAnswered", "rename", "crossCopy", "copied"}
ListedSteps == MoveSteps \cup {"dir", "dirAnswered", "contents", "delete", "deleteFailed"}

\* What a call may still have ahead of it while it waits for an inner one.
OuterSteps == {"file", "chmod", "copied"}

TaskSound(t) ==
    /\ t \in Tasks
    /\ t.do \in ListedSteps => t.path \in Listed
    /\ t.do \in MoveSteps => op = "Move"
    /\ t.do = "rename" => sameFS
    /\ t.do \in {"delete", "deleteFailed"} => op \in {"Move", "Delete"}

StackSound(w) ==
    /\ w \in Seq(Tasks)
    /\ \A i \in DOMAIN w : TaskSound(w[i]) /\ (i > 1 => w[i].do \in OuterSteps)

\* A call returns.
LEMMA ReturnStack ==
    ASSUME NEW w, StackSound(w), w # <<>>
    PROVE  /\ StackSound(Tail(w))
           /\ Tail(w) # <<>> => Head(Tail(w)).do \in OuterSteps
<1>1. w \in Seq(Tasks) /\ Len(w) \in Nat /\ Len(w) > 0
    BY EmptySeq DEF StackSound
<1>2. /\ Tail(w) \in Seq(Tasks)
      /\ Len(Tail(w)) = Len(w) - 1
      /\ \A i \in 1 .. Len(Tail(w)) : Tail(w)[i] = w[i + 1]
    BY <1>1, HeadTailProperties
<1>3. ASSUME NEW i \in 1 .. Len(Tail(w))
      PROVE  TaskSound(Tail(w)[i]) /\ Tail(w)[i].do \in OuterSteps
    <2>1. i + 1 \in DOMAIN w /\ i + 1 > 1
        BY <1>1, <1>2
    <2> QED BY <1>2, <2>1 DEF StackSound
<1>4. StackSound(Tail(w))
    BY <1>2, <1>3 DEF StackSound
<1>5. Tail(w) # <<>> => Head(Tail(w)).do \in OuterSteps
    <2> SUFFICES ASSUME Tail(w) # <<>> PROVE Head(Tail(w)).do \in OuterSteps
        OBVIOUS
    <2>1. 1 \in 1 .. Len(Tail(w)) /\ Head(Tail(w)) = Tail(w)[1]
        BY <1>2, EmptySeq, HeadTailProperties
    <2> QED BY <1>3, <2>1
<1> QED BY <1>4, <1>5

\* Another call is put in front of those that wait.
LEMMA CallStack ==
    ASSUME NEW w, StackSound(w), w = <<>> \/ Head(w).do \in OuterSteps,
           NEW t, TaskSound(t)
    PROVE  /\ StackSound(<<t>> \o w)
           /\ <<t>> \o w # <<>>
           /\ Head(<<t>> \o w) = t
           /\ Tail(<<t>> \o w) = w
<1> DEFINE v == <<t>> \o w
<1>1. /\ w \in Seq(Tasks) /\ t \in Tasks /\ Len(w) \in Nat
      /\ <<t>> \in Seq(Tasks) /\ Len(<<t>>) = 1 /\ <<t>>[1] = t
    BY DEF StackSound, TaskSound
<1>2. /\ v \in Seq(Tasks)
      /\ Len(v) = 1 + Len(w)
      /\ \A i \in 1 .. 1 + Len(w) : v[i] = IF i <= 1 THEN t ELSE w[i - 1]
    <2>1. /\ v \in Seq(Tasks)
          /\ Len(v) = Len(<<t>>) + Len(w)
          /\ \A i \in 1 .. Len(<<t>>) + Len(w) :
                v[i] = IF i <= Len(<<t>>) THEN <<t>>[i] ELSE w[i - Len(<<t>>)]
        BY <1>1, ConcatProperties
    <2>2. \A i \in Nat : i <= 1 /\ i >= 1 => i = 1
        OBVIOUS
    <2> HIDE DEF v
    <2> QED BY <1>1, <2>1, <2>2
<1> HIDE DEF v
<1>3. ASSUME NEW i \in 1 .. Len(v) PROVE TaskSound(v[i]) /\ (i > 1 => v[i].do \in OuterSteps)
    <2>1. CASE i = 1
        BY <1>1, <1>2, <2>1
    <2>2. CASE i = 2
        <3>1. 1 \in DOMAIN w /\ v[i] = w[1] /\ w # <<>>
            BY <1>1, <1>2, <2>2, EmptySeq
        <3>2. Head(w) = w[1]
            BY <1>1, <3>1, HeadTailProperties
        <3> QED BY <3>1, <3>2 DEF StackSound
    <2>3. CASE i > 2
        <3>1. i - 1 \in DOMAIN w /\ i - 1 > 1 /\ v[i] = w[i - 1]
            BY <1>1, <1>2, <2>3
        <3> QED BY <3>1 DEF StackSound
    <2> QED BY <2>1, <2>2, <2>3
<1>4. StackSound(v)
    BY <1>2, <1>3 DEF StackSound
<1>5. v # <<>>
    BY <1>1, <1>2, EmptySeq
<1>6. Head(v) = t
    BY <1>1, <1>2, <1>5, HeadTailProperties
<1>7. Tail(v) = w
    BY <1>1, HeadTailAppend, ConcatEmptySeq DEF v
<1> QED BY <1>4, <1>5, <1>6, <1>7 DEF v

\* The children of a directory are put in front of the calls that wait.
LEMMA FilesStack ==
    ASSUME NEW w, StackSound(w), w = <<>> \/ Head(w).do \in OuterSteps,
           NEW k \in Seq(Paths)
    PROVE  LET v == [i \in DOMAIN k |-> [do |-> "file", path |-> k[i]]] \o w IN
           /\ StackSound(v)
           /\ v # <<>> => Head(v).do \in OuterSteps
<1> DEFINE f == [i \in DOMAIN k |-> [do |-> "file", path |-> k[i]]]
           v == f \o w
<1>1. w \in Seq(Tasks) /\ Len(w) \in Nat /\ Len(k) \in Nat /\ DOMAIN k = 1 .. Len(k)
    BY DEF StackSound
<1>2. /\ f \in Seq(Tasks)
      /\ Len(f) = Len(k)
      /\ \A i \in 1 .. Len(k) : f[i].do = "file" /\ f[i] \in Tasks
    BY <1>1 DEF Tasks, Steps
<1>3. \A i \in DOMAIN w : TaskSound(w[i]) /\ w[i].do \in OuterSteps
    <2> SUFFICES ASSUME NEW i \in DOMAIN w PROVE TaskSound(w[i]) /\ w[i].do \in OuterSteps
        OBVIOUS
    <2>1. CASE i = 1
        <3>1. w # <<>> /\ Head(w) = w[1]
            BY <1>1, <2>1, EmptySeq, HeadTailProperties
        <3> QED BY <2>1, <3>1 DEF StackSound
    <2>2. CASE i # 1
        <3>1. i > 1
            BY <1>1, <2>2
        <3> QED BY <3>1 DEF StackSound
    <2> QED BY <2>1, <2>2
<1> HIDE DEF f
<1>4. /\ v \in Seq(Tasks)
      /\ Len(v) = Len(f) + Len(w)
      /\ \A i \in 1 .. Len(f) + Len(w) : v[i] = IF i <= Len(f) THEN f[i] ELSE w[i - Len(f)]
    BY <1>1, <1>2, ConcatProperties
<1> HIDE DEF v
<1>5. ASSUME NEW i \in 1 .. Len(v) PROVE TaskSound(v[i]) /\ v[i].do \in OuterSteps
    <2>1. CASE i <= Len(f)
        <3>1. v[i].do = "file" /\ v[i] \in Tasks
            BY <1>1, <1>2, <1>4, <2>1
        <3> QED BY <3>1 DEF TaskSound, OuterSteps, ListedSteps, MoveSteps
    <2>2. CASE i > Len(f)
        <3>1. i - Len(f) \in DOMAIN w /\ v[i] = w[i - Len(f)]
            BY <1>1, <1>2, <1>4, <2>2
        <3> QED BY <1>3, <3>1
    <2> QED BY <1>1, <1>2, <2>1, <2>2
<1>6. StackSound(v)
    BY <1>4, <1>5 DEF StackSound
<1>7. v # <<>> => Head(v).do \in OuterSteps
    <2> SUFFICES ASSUME v # <<>> PROVE Head(v).do \in OuterSteps
        OBVIOUS
    <2>1. 1 \in 1 .. Len(v) /\ Head(v) = v[1]
        BY <1>4, EmptySeq, HeadTailProperties
    <2> QED BY <1>5, <2>1
<1> QED BY <1>6, <1>7 DEF f, v

-----------------------------------------------------------------------------
(* The invariant. *)

\* From then on existing targets may be gone.
Free == consent \/ isStopped

AnsweredSteps ==
    {"regularAnswered", "dirAnswered", "linkedDirAnswered", "newLinkAnswered", "moveAnswered"}

\* What the earlier steps have left to the innermost call.
TopSound ==
    work # <<>> =>
        /\ Top.do \in {"create", "makeLink"} => dst[Path] = "none"
        /\ Top.do = "data" => dst[Path] = "part" /\ (Free \/ dst0[Path] = "none")
        /\ Top.do = "rename" => Free \/ dst[Path] = "none"
        /\ Top.do = "delete" /\ op = "Move" => opResult
        /\ Top.do \in AnsweredSteps =>
                \/ asking = "FileExists"
                \/ asking = NoProblem /\ (answer = "SkipFile" \/ Free)

\* Overwriting is a default action only after it was an answer.
DefaultSound == default["FileExists"] \in {NotSet, "SkipFile"} \/ consent

Sound ==
    /\ TypeOK
    /\ StackSound(work)
    /\ TopSound
    /\ DefaultSound
    /\ TargetsNeedConsent

\* The innermost call is a sound task in front of calls that wait.
LEMMA TopFacts ==
    ASSUME Sound, work # <<>>
    PROVE  /\ Top \in Tasks /\ Path \in Paths /\ Top = [do |-> Top.do, path |-> Path]
           /\ TaskSound(Top)
           /\ StackSound(Tail(work))
           /\ Tail(work) = <<>> \/ Head(Tail(work)).do \in OuterSteps
<1>1. work \in Seq(Tasks) /\ 1 \in DOMAIN work /\ Top = work[1]
    BY EmptySeq, HeadTailProperties DEF Sound, StackSound, Top
<1>2. Top \in Tasks /\ TaskSound(Top)
    BY <1>1 DEF Sound, StackSound, TaskSound
<1> QED BY <1>2, ReturnStack DEF Sound, Path, Tasks

\* The step after a return.
LEMMA ReturnSound ==
    ASSUME Sound, work # <<>>, Return, UNCHANGED fixed
    PROVE  StackSound(work)' /\ TopSound'
<1>1. StackSound(Tail(work)) /\ work' = Tail(work) /\ op' = op /\ sameFS' = sameFS
    BY TopFacts DEF Return, fixed
<1>2. StackSound(work)'
    BY <1>1 DEF StackSound, TaskSound
<1>3. TopSound'
    <2> SUFFICES ASSUME work' # <<>> PROVE Top'.do \in OuterSteps
        BY DEF TopSound, OuterSteps, AnsweredSteps
    <2> QED BY <1>1, TopFacts DEF Top
<1> QED BY <1>2, <1>3

\* The next step of the same call.
LEMMA GotoSound ==
    ASSUME Sound, work # <<>>, NEW step \in Steps, Goto(step), UNCHANGED fixed,
           TaskSound([do |-> step, path |-> Path])
    PROVE  /\ StackSound(work)'
           /\ work' # <<>>
           /\ Top'.do = step /\ Path' = Path
<1> DEFINE t == [do |-> step, path |-> Path]
<1>1. [Top EXCEPT !.do = step] = t
    BY TopFacts DEF Tasks, Path
<1>2. work' = <<t>> \o Tail(work) /\ op' = op /\ sameFS' = sameFS
    BY <1>1 DEF Goto, fixed
<1>3. StackSound(<<t>> \o Tail(work)) /\ <<t>> \o Tail(work) # <<>> /\ Head(<<t>> \o Tail(work)) = t
    BY TopFacts, CallStack
<1>4. StackSound(work)'
    BY <1>2, <1>3 DEF StackSound, TaskSound
<1>5. work' # <<>> /\ Top' = t
    BY <1>2, <1>3 DEF Top
<1> QED BY <1>4, <1>5 DEF Path

\* What a call must leave behind when it goes on with a step.
Ready(step) ==
    /\ TaskSound([do |-> step, path |-> Path])
    /\ step \in {"create", "makeLink"} => dst'[Path] = "none"
    /\ step = "data" => dst'[Path] = "part" /\ (Free \/ dst0[Path] = "none")
    /\ step = "rename" => Free \/ dst'[Path] = "none"
    /\ step = "delete" /\ op = "Move" => opResult'
    /\ step \in AnsweredSteps => asking' = "FileExists"

\* What a step of the innermost call must do to keep the invariant: return or be
\* ready for the next, and touch no target that was there before.
LEMMA StepSound ==
    ASSUME Sound, work # <<>>, UNCHANGED <<fixed, todo, isStopped>>,
           Return \/ \E step \in Steps : Goto(step) /\ Ready(step),
           NoQuestion \/ \E p \in ProblemTypes : Ask(p),
           Works \/ Fails,
           src' \in Trees, dst' \in Trees, opResult' \in BOOLEAN,
           status' \in {"running", "finished", "crashed"},
           \A p \in Paths : dst'[p] # dst[p] => Free \/ dst0[p] = "none"
    PROVE  Sound'
<1>1. /\ UNCHANGED <<op, sameFS, src0, dst0, todo, isStopped>>
      /\ UNCHANGED <<default, consent>>
      /\ answer' = answer
      /\ makeCleanupOnStop' = makeCleanupOnStop
      /\ asking' \in ProblemTypes \cup {NoProblem}
    BY DEF fixed, NoQuestion, Ask, comm, Sound, TypeOK
<1>2. Free' = Free
    BY <1>1 DEF Free
<1>3. StackSound(work)' /\ TopSound'
    <2>1. CASE Return
        BY <2>1, ReturnSound
    <2>2. CASE \E step \in Steps : Goto(step) /\ Ready(step)
        <3>1. PICK step \in Steps : Goto(step) /\ Ready(step)
            BY <2>2
        <3>2. /\ StackSound(work)'
              /\ work' # <<>>
              /\ Top'.do = step /\ Path' = Path
            BY <3>1, GotoSound DEF Ready
        <3>3. TopSound'
            BY <1>1, <1>2, <3>1, <3>2 DEF Ready, TopSound
        <3> QED BY <3>2, <3>3
    <2> QED BY <2>1, <2>2
<1>4. faults' \in 0 .. MaxFaults
    BY FileToolAssumption DEF Works, Fails, Sound, TypeOK
<1>5. TypeOK'
    BY <1>1, <1>3, <1>4 DEF Sound, TypeOK, StackSound
<1>6. DefaultSound'
    BY <1>1 DEF Sound, DefaultSound
<1>7. TargetsNeedConsent'
    BY <1>1 DEF Sound, TargetsNeedConsent, Free
<1> QED BY <1>3, <1>5, <1>6, <1>7 DEF Sound

\* What is known at a step.
LEMMA AtFacts ==
    ASSUME Sound, NEW step, At(step)
    PROVE  /\ work # <<>> /\ Path \in Paths /\ Top.do = step
           /\ asking = NoProblem /\ status = "running"
           /\ src \in Trees /\ dst \in Trees /\ opResult \in BOOLEAN
           /\ src \in [Paths -> Entries] /\ dst \in [Paths -> Entries]
           /\ step \in ListedSteps => Path \in Listed
           /\ step \in MoveSteps => op = "Move"
           /\ step = "rename" => sameFS
           /\ step \in {"delete", "deleteFailed"} => op \in {"Move", "Delete"}
           /\ step \in {"create", "makeLink"} => dst[Path] = "none"
           /\ step = "data" => dst[Path] = "part" /\ (Free \/ dst0[Path] = "none")
           /\ step = "rename" => Free \/ dst[Path] = "none"
           /\ step = "delete" /\ op = "Move" => opResult
           /\ step \in AnsweredSteps => answer = "SkipFile" \/ Free
           /\ \A p \in Paths : dst[p] = "none" => Free \/ dst0[p] = "none"
<1>1. work # <<>> /\ Top.do = step /\ asking = NoProblem /\ status = "running"
    BY DEF At
<1>2. Path \in Paths /\ TaskSound(Top)
    BY <1>1, TopFacts
<1>3. src \in Trees /\ dst \in Trees /\ opResult \in BOOLEAN
    BY DEF Sound, TypeOK
<1>4. src \in [Paths -> Entries] /\ dst \in [Paths -> Entries]
    BY <1>3 DEF Trees
<1>5. /\ step \in ListedSteps => Path \in Listed
      /\ step \in MoveSteps => op = "Move"
      /\ step = "rename" => sameFS
      /\ step \in {"delete", "deleteFailed"} => op \in {"Move", "Delete"}
    BY <1>1, <1>2 DEF TaskSound, Path
<1>6. NoProblem # "FileExists"
    BY DEF NoProblem
<1>7. /\ step \in {"create", "makeLink"} => dst[Path] = "none"
      /\ step = "data" => dst[Path] = "part" /\ (Free \/ dst0[Path] = "none")
      /\ step = "rename" => Free \/ dst[Path] = "none"
      /\ step = "delete" /\ op = "Move" => opResult
      /\ step \in AnsweredSteps => answer = "SkipFile" \/ Free
    BY <1>1, <1>6 DEF Sound, TopSound
<1>8. \A p \in Paths : dst[p] = "none" => Free \/ dst0[p] = "none"
    BY DEF Sound, TargetsNeedConsent, Free
<1> QED BY <1>1, <1>2, <1>3, <1>4, <1>5, <1>7, <1>8

\* The step that StepFor chooses.
LEMMA StepForSound ==
    ASSUME NEW t \in Trees, NEW p \in Paths
    PROVE  /\ StepFor(t[p]) \in {"link", "dir", "regular", "unknown"}
           /\ StepFor(t[p]) \in Steps
           /\ TaskSound([do |-> StepFor(t[p]), path |-> p])
<1>1. StepFor(t[p]) \in {"link", "dir", "regular", "unknown"}
    BY DEF StepFor
<1>2. StepFor(t[p]) = "dir" => t[p] = "dir"
    BY DEF StepFor, Links
<1>3. t[p] = "dir" => p \in Listed
    BY DEF Trees
<1> QED BY <1>1, <1>2, <1>3 DEF TaskSound, Tasks, Steps, ListedSteps, MoveSteps

-----------------------------------------------------------------------------
(* One lemma for each part of the tool. *)

\* CopyRegular: the target is removed after an answer, created, filled.
LEMMA CopyRegularSound ==
    ASSUME Sound, Regular \/ RegularAnswered \/ Create \/ Data \/ CloseUninitialised
    PROVE  Sound'
<1>1. ASSUME Regular PROVE Sound'
    <2> USE <1>1 DEF Regular, files
    <2>1. At("regular")
        OBVIOUS
    <2>2. \E step \in Steps : Goto(step) /\ Ready(step)
        <3>1. CASE dst[Path] # "none"
            <4>1. Goto("regularAnswered") /\ Ready("regularAnswered")
                BY <2>1, <3>1, AtFacts DEF Ready, TaskSound, Tasks, Steps, ListedSteps, MoveSteps, Ask
            <4> QED BY <4>1 DEF Steps
        <3>2. CASE dst[Path] = "none"
            <4>1. Goto("create") /\ Ready("create")
                BY <2>1, <3>2, AtFacts DEF Ready, TaskSound, Tasks, Steps, ListedSteps, MoveSteps, AnsweredSteps
            <4> QED BY <4>1 DEF Steps
        <3> QED BY <3>1, <3>2
    <2> QED BY <2>1, <2>2, AtFacts, StepSound DEF ProblemTypes, SkipOnlyProblems, Works
<1>2. ASSUME RegularAnswered PROVE Sound'
    <2> USE <1>2 DEF RegularAnswered
    <2>1. At("regularAnswered")
        OBVIOUS
    <2>2. CASE dst' = dst /\ Goto("close") /\ ((NoQuestion /\ Works) \/ (Ask("WriteError") /\ Fails))
        <3>1. Ready("close")
            BY <2>1, AtFacts DEF Ready, TaskSound, Tasks, Steps, ListedSteps, MoveSteps, AnsweredSteps
        <3> QED BY <2>1, <2>2, <3>1, AtFacts, StepSound DEF ProblemTypes, SkipOnlyProblems, Steps
    <2>3. CASE answer # "SkipFile" /\ Works /\ dst' = Remove(dst, Path) /\ Goto("create") /\ NoQuestion
        <3>1. Free /\ Path \in Paths /\ dst' \in Trees
            BY <2>1, <2>3, AtFacts, RemoveTree DEF AnsweredSteps
        <3>2. dst'[Path] = "none"
            BY <2>3, <3>1 DEF Remove, Below
        <3>3. Ready("create")
            BY <2>1, <3>1, <3>2 DEF Ready, TaskSound, Tasks, Steps, ListedSteps, MoveSteps, AnsweredSteps
        <3> QED BY <2>1, <2>3, <3>1, <3>3, AtFacts, StepSound DEF Steps
    <2> QED BY <2>2, <2>3
<1>3. ASSUME Create PROVE Sound'
    <2> USE <1>3 DEF Create
    <2>1. At("create")
        OBVIOUS
    <2>2. /\ work # <<>> /\ Path \in Paths /\ dst \in Trees /\ dst \in [Paths -> Entries]
          /\ dst[Path] = "none" /\ (Free \/ dst0[Path] = "none")
        BY <2>1, AtFacts
    <2>3. Ready("close")
        BY <2>2 DEF Ready, TaskSound, Tasks, Steps, ListedSteps, MoveSteps, AnsweredSteps
    <2>4. CASE dst' = dst /\ Goto("close") /\ Ask("WriteError") /\ (Works \/ Fails)
        BY <2>1, <2>3, <2>4, AtFacts, StepSound DEF ProblemTypes, SkipOnlyProblems, Steps
    <2>5. ASSUME HasParent(Path), dst' = [dst EXCEPT ![Path] = "part"]
          PROVE  /\ dst' \in Trees
                 /\ dst'[Path] = "part"
                 /\ \A p \in Paths : dst'[p] # dst[p] => Free \/ dst0[p] = "none"
        <3>1. dst' \in Trees
            BY <2>2, <2>5, PutTree DEF HasParent, Entries
        <3> QED BY <2>2, <2>5, <3>1
    <2>6. CASE HasParent(Path) /\ Works /\ dst' = [dst EXCEPT ![Path] = "part"] /\ Goto("data") /\ NoQuestion
        <3>1. Ready("data")
            BY <2>2, <2>5, <2>6 DEF Ready, TaskSound, Tasks, Steps, ListedSteps, MoveSteps, AnsweredSteps
        <3> QED BY <2>1, <2>5, <2>6, <3>1, AtFacts, StepSound DEF Steps
    <2>7. CASE /\ HasParent(Path) /\ Fails /\ dst' = [dst EXCEPT ![Path] = "part"]
               /\ (Goto("close") /\ Ask("ReadError")) \/ (Return /\ Ask("WriteError"))
        BY <2>1, <2>3, <2>5, <2>7, AtFacts, StepSound DEF Steps, ProblemTypes, SkipOnlyProblems
    <2> QED BY <2>4, <2>6, <2>7
<1>4. ASSUME Data PROVE Sound'
    <2> USE <1>4 DEF Data
    <2>1. At("data")
        OBVIOUS
    <2>2. /\ work # <<>> /\ Path \in Paths /\ dst \in Trees /\ dst \in [Paths -> Entries]
          /\ dst[Path] = "part" /\ (Free \/ dst0[Path] = "none")
        BY <2>1, AtFacts
    <2>3. [dst EXCEPT ![Path] = "file"] \in Trees
        <3>1. \A f \in Above(Path) : dst[f] = "dir"
            BY <2>2 DEF Trees
        <3> QED BY <2>2, <3>1, PutTree DEF Entries
    <2>4. dst' \in Trees /\ \A p \in Paths : dst'[p] # dst[p] => Free \/ dst0[p] = "none"
        BY <2>2, <2>3
    <2>5. Return /\ (NoQuestion \/ \E p \in ProblemTypes : Ask(p)) /\ (Works \/ Fails)
        BY DEF ProblemTypes, SkipOnlyProblems
    <2> QED BY <2>1, <2>4, <2>5, AtFacts, StepSound
<1>5. ASSUME CloseUninitialised PROVE Sound'
    <2>1. At("close")
        BY <1>5 DEF CloseUninitialised
    <2> QED BY <1>5, <2>1, AtFacts, StepSound DEF CloseUninitialised, files, NoQuestion, Works
<1> QED BY <1>1, <1>2, <1>3, <1>4, <1>5

\* What is put where nothing was.
LEMMA PutSound ==
    ASSUME Sound, work # <<>>, Path \in Paths, HasParent(Path),
           NEW e \in Entries \ {"none"}, e = "dir" => Path \in Listed,
           dst[Path] = "none", dst' = [dst EXCEPT ![Path] = e]
    PROVE  /\ dst' \in Trees
           /\ dst'[Path] = e
           /\ \A p \in Paths : dst'[p] # dst[p] => Free \/ dst0[p] = "none"
<1>1. dst \in Trees /\ dst \in [Paths -> Entries]
    BY DEF Sound, TypeOK, Trees
<1>2. Free \/ dst0[Path] = "none"
    BY DEF Sound, TargetsNeedConsent, Free
<1>3. dst' \in Trees
    BY <1>1, PutTree DEF HasParent
<1> QED BY <1>1, <1>2, <1>3

\* What is removed after an answer.
LEMMA RemoveSound ==
    ASSUME Sound, work # <<>>, Path \in Paths, Free, dst' = Remove(dst, Path)
    PROVE  /\ dst' \in Trees
           /\ dst'[Path] = "none"
<1>1. dst' \in Trees
    BY RemoveTree DEF Sound, TypeOK
<1>2. dst'[Path] = "none"
    BY DEF Remove, Below
<1> QED BY <1>1, <1>2

\* The two halves of CopyDirectory before its loop, for a directory in the trees and
\* for one that a link points to.
LEMMA MakeDirectorySound ==
    ASSUME Sound, NEW step, At(step),
           NEW made \in {"dir", "linkedDir"}, NEW answered, NEW contents,
           made = "dir" => Path \in Listed,
           {answered, contents} \subseteq Steps,
           TaskSound([do |-> answered, path |-> Path]), answered \in AnsweredSteps,
           TaskSound([do |-> contents, path |-> Path]), contents \in {"contents", "elsewhere"},
           MakeDirectory(made, answered, contents)
    PROVE  Sound'
<1>0. {"WriteError", "FileExists"} \subseteq ProblemTypes
    BY DEF ProblemTypes, SkipOnlyProblems
<1>1. /\ work # <<>> /\ Path \in Paths /\ src \in Trees /\ dst \in Trees
      /\ opResult \in BOOLEAN /\ status = "running"
    BY AtFacts
<1>2. UNCHANGED <<fixed, src, todo, isStopped, status>>
    BY DEF MakeDirectory
<1>3. Ready(contents)
    BY <1>1 DEF Ready, AnsweredSteps
<1>4. CASE dst' = dst /\ opResult' = opResult /\ Works /\ Goto(contents) /\ NoQuestion
    BY <1>0, <1>1, <1>2, <1>3, <1>4, StepSound
<1>5. CASE dst' = dst /\ opResult' = opResult /\ Works /\ Goto(answered) /\ Ask("FileExists")
    <2>1. Ready(answered)
        BY <1>1, <1>5 DEF Ready, AnsweredSteps, Ask
    <2> QED BY <1>0, <1>1, <1>2, <1>5, <2>1, StepSound
<1>6. CASE dst' = dst /\ Return /\ ReturnNO /\ Ask("WriteError") /\ (Works \/ Fails)
    <2>1. opResult' \in BOOLEAN
        BY <1>1, <1>6 DEF ReturnNO
    <2> QED BY <1>0, <1>1, <1>2, <1>6, <2>1, StepSound
<1>7. CASE /\ dst[Path] = "none" /\ HasParent(Path) /\ Works
           /\ dst' = [dst EXCEPT ![Path] = made]
           /\ Goto(contents) /\ NoQuestion /\ opResult' = opResult
    <2>1. /\ dst' \in Trees
          /\ \A p \in Paths : dst'[p] # dst[p] => Free \/ dst0[p] = "none"
        BY <1>1, <1>7, PutSound DEF Entries
    <2> QED BY <1>0, <1>1, <1>2, <1>3, <1>7, <2>1, StepSound
<1> QED BY <1>4, <1>5, <1>6, <1>7 DEF MakeDirectory

LEMMA ReplaceFileSound ==
    ASSUME Sound, NEW step \in AnsweredSteps, At(step), NEW contents \in Steps,
           TaskSound([do |-> contents, path |-> Path]), contents \in {"contents", "elsewhere"},
           ReplaceFile(contents)
    PROVE  Sound'
<1>0. "WriteError" \in ProblemTypes
    BY DEF ProblemTypes, SkipOnlyProblems
<1>1. /\ work # <<>> /\ Path \in Paths /\ src \in Trees /\ dst \in Trees
      /\ opResult \in BOOLEAN /\ status = "running" /\ (answer = "SkipFile" \/ Free)
    BY AtFacts
<1>2. UNCHANGED <<fixed, src, todo, isStopped, status>>
    BY DEF ReplaceFile
<1>3. Ready(contents)
    BY <1>1 DEF Ready, AnsweredSteps
<1>4. CASE dst' = dst /\ Works /\ Return /\ ReturnNO /\ NoQuestion
    <2>1. opResult' \in BOOLEAN
        BY <1>1, <1>4 DEF ReturnNO
    <2> QED BY <1>0, <1>1, <1>2, <1>4, <2>1, StepSound
<1>5. CASE /\ answer # "SkipFile" /\ Works /\ dst' = Remove(dst, Path)
           /\ Goto(contents) /\ NoQuestion /\ opResult' = opResult
    <2>1. dst' \in Trees
        BY <1>1, <1>5, RemoveSound
    <2> QED BY <1>0, <1>1, <1>2, <1>3, <1>5, <2>1, StepSound
<1>6. CASE dst' = dst /\ opResult' = opResult /\ Fails /\ Goto(contents) /\ Ask("WriteError")
    BY <1>0, <1>1, <1>2, <1>3, <1>6, StepSound
<1> QED BY <1>4, <1>5, <1>6 DEF ReplaceFile

\* CopyDirectory of a directory that a link points to.
LEMMA LinkedDirectorySound ==
    ASSUME Sound, LinkedDirectory \/ LinkedDirectoryAnswered \/ LinkedContents
    PROVE  Sound'
<1>a. ASSUME work # <<>>, Path \in Paths,
             NEW step \in {"linkedDirAnswered", "elsewhere", "chmod"}
      PROVE  step \in Steps /\ TaskSound([do |-> step, path |-> Path])
    BY <1>a DEF TaskSound, Tasks, Steps, ListedSteps, MoveSteps
<1>1. ASSUME LinkedDirectory PROVE Sound'
    <2>1. At("linkedDir") /\ MakeDirectory("linkedDir", "linkedDirAnswered", "elsewhere")
        BY <1>1 DEF LinkedDirectory
    <2>2. work # <<>> /\ Path \in Paths
        BY <2>1, AtFacts
    <2>3. "linkedDirAnswered" \in AnsweredSteps
        BY DEF AnsweredSteps
    <2> QED BY <1>a, <2>1, <2>2, <2>3, MakeDirectorySound
<1>2. ASSUME LinkedDirectoryAnswered PROVE Sound'
    <2>1. At("linkedDirAnswered") /\ ReplaceFile("elsewhere")
        BY <1>2 DEF LinkedDirectoryAnswered
    <2>2. work # <<>> /\ Path \in Paths
        BY <2>1, AtFacts
    <2>3. "linkedDirAnswered" \in AnsweredSteps
        BY DEF AnsweredSteps
    <2> QED BY <1>a, <2>1, <2>2, <2>3, ReplaceFileSound
<1>3. ASSUME LinkedContents PROVE Sound'
    <2>1. /\ At("elsewhere") /\ UNCHANGED <<fixed, src, dst, todo, isStopped>>
          /\ status' \in {status, "crashed"} /\ (Works \/ Fails)
          /\ opResult' = opResult \/ ReturnNO
        BY <1>3 DEF LinkedContents, files
    <2>2. /\ work # <<>> /\ Path \in Paths /\ src \in Trees /\ dst \in Trees
          /\ opResult \in BOOLEAN /\ status = "running"
          /\ Top.do = "elsewhere"
        BY <2>1, AtFacts
    <2>3. opResult' \in BOOLEAN
        BY <2>1, <2>2 DEF ReturnNO
    <2>4. NoQuestion \/ \E p \in ProblemTypes : Ask(p)
        <3>1. "ReadError" \in ProblemTypes /\ Elsewhere \subseteq ProblemTypes
            BY FileToolAssumption DEF ProblemTypes, SkipOnlyProblems
        <3> QED BY <1>3, <3>1 DEF LinkedContents
    <2>5. CASE Return
        BY <2>1, <2>2, <2>3, <2>4, <2>5, StepSound
    <2>6. CASE Goto("chmod")
        <3>1. Ready("chmod")
            BY <1>a, <2>2 DEF Ready, AnsweredSteps
        <3> QED BY <1>a, <2>1, <2>2, <2>3, <2>4, <2>6, <3>1, StepSound
    <2>7. CASE work' = work
        <3>1. Goto("elsewhere")
            <4>1. [Top EXCEPT !.do = "elsewhere"] = Top
                BY <2>2, TopFacts DEF Tasks
            <4>2. work \in Seq(Tasks) /\ <<Top>> \o Tail(work) = work
                BY <2>2, HeadTailProperties DEF Sound, StackSound, Top
            <4> QED BY <2>7, <4>1, <4>2 DEF Goto
        <3>2. Ready("elsewhere")
            BY <1>a, <2>2 DEF Ready, AnsweredSteps
        <3> QED BY <1>a, <2>1, <2>2, <2>3, <2>4, <3>1, <3>2, StepSound
    <2> QED BY <1>3, <2>5, <2>6, <2>7 DEF LinkedContents
<1> QED BY <1>1, <1>2, <1>3

\* CopyDirectory, without the loop over the children, and CopyFile for a child.
LEMMA CopyDirectorySound ==
    ASSUME Sound, Directory \/ DirectoryAnswered \/ File \/ Chmod \/ Unknown
    PROVE  Sound'
<1>0. {"WriteError", "ReadError", "FileExists", "UnknownFile", "AttributesUnchangeable"}
            \subseteq ProblemTypes
    BY DEF ProblemTypes, SkipOnlyProblems
<1>a. ASSUME work # <<>>, Path \in Listed, Path \in Paths,
             NEW step \in {"dirAnswered", "contents"}
      PROVE  step \in Steps /\ TaskSound([do |-> step, path |-> Path])
    BY <1>a DEF TaskSound, Tasks, Steps, ListedSteps, MoveSteps
<1>1. ASSUME Directory PROVE Sound'
    <2>1. At("dir") /\ MakeDirectory("dir", "dirAnswered", "contents")
        BY <1>1 DEF Directory
    <2>2. work # <<>> /\ Path \in Paths /\ Path \in Listed
        BY <2>1, AtFacts DEF ListedSteps
    <2>3. "dirAnswered" \in AnsweredSteps
        BY DEF AnsweredSteps
    <2> QED BY <1>a, <2>1, <2>2, <2>3, MakeDirectorySound
<1>2. ASSUME DirectoryAnswered PROVE Sound'
    <2>1. At("dirAnswered") /\ ReplaceFile("contents")
        BY <1>2 DEF DirectoryAnswered
    <2>2. work # <<>> /\ Path \in Paths /\ Path \in Listed
        BY <2>1, AtFacts DEF ListedSteps
    <2>3. "dirAnswered" \in AnsweredSteps
        BY DEF AnsweredSteps
    <2> QED BY <1>a, <2>1, <2>2, <2>3, ReplaceFileSound
<1>3. ASSUME File PROVE Sound'
    <2>1. At("file")
        BY <1>3 DEF File
    <2>2. /\ work # <<>> /\ Path \in Paths /\ src \in Trees /\ dst \in Trees
          /\ opResult \in BOOLEAN /\ status = "running"
        BY <2>1, AtFacts
    <2>3. /\ UNCHANGED <<fixed, todo, isStopped, src, dst, opResult, status>>
          /\ NoQuestion /\ Works
        BY <1>3 DEF File, files, NoQuestion, Works
    <2>4. CASE Return
        BY <2>2, <2>3, <2>4, StepSound
    <2>5. CASE Goto(StepFor(src[Path]))
        <3> DEFINE step == StepFor(src[Path])
        <3>1. step \in {"link", "dir", "regular", "unknown"} /\ step \in Steps
              /\ TaskSound([do |-> step, path |-> Path])
            BY <2>2, StepForSound
        <3> HIDE DEF step
        <3>2. Ready(step)
            BY <3>1 DEF Ready, AnsweredSteps
        <3> QED BY <2>2, <2>3, <2>5, <3>1, <3>2, StepSound DEF step
    <2> QED BY <1>3, <2>4, <2>5 DEF File
<1>4. ASSUME Chmod PROVE Sound'
    <2> USE <1>4 DEF Chmod, files
    <2>1. At("chmod")
        OBVIOUS
    <2> QED BY <1>0, <2>1, AtFacts, StepSound
<1>5. ASSUME Unknown PROVE Sound'
    <2> USE <1>5 DEF Unknown, files
    <2>1. At("unknown")
        OBVIOUS
    <2>2. opResult' \in BOOLEAN
        BY <2>1, AtFacts DEF ReturnNO
    <2> QED BY <1>0, <2>1, <2>2, AtFacts, StepSound DEF Works
<1> QED BY <1>1, <1>2, <1>3, <1>4, <1>5

\* The children of a directory are copied before the rest of it.
LEMMA ContentsSound ==
    ASSUME Sound, Contents
    PROVE  Sound'
<1>1. At("contents") /\ UNCHANGED <<fixed, src, dst, todo, isStopped, status>>
    BY DEF Contents, files
<1>2. /\ work # <<>> /\ Path \in Paths /\ Path \in Listed /\ src \in Trees /\ dst \in Trees
      /\ opResult \in BOOLEAN /\ status = "running" /\ asking = NoProblem
    BY <1>1, AtFacts DEF ListedSteps
<1>3. CASE Fails /\ Return /\ ReturnNO /\ Ask("ReadError")
    <2>1. opResult' \in BOOLEAN /\ "ReadError" \in ProblemTypes
        BY <1>2, <1>3 DEF ReturnNO, ProblemTypes, SkipOnlyProblems
    <2> QED BY <1>1, <1>2, <1>3, <2>1, StepSound
<1>4. CASE /\ Works /\ NoQuestion /\ opResult' = opResult
           /\ work' = [i \in DOMAIN Kids[Path] |-> [do |-> "file", path |-> Kids[Path][i]]]
                      \o <<[do |-> "chmod", path |-> Path]>> \o Tail(work)
    <2> DEFINE k == Kids[Path]
               t == [do |-> "chmod", path |-> Path]
               f == [i \in DOMAIN k |-> [do |-> "file", path |-> k[i]]]
    <2>1. k \in Seq(Paths)
        <3>1. k \in Seq(KidsOf(Path)) /\ KidsOf(Path) \subseteq Paths
            BY <1>2, FileToolAssumption DEF Paths
        <3> QED BY <3>1
    <2>2. TaskSound(t) /\ t.do \in OuterSteps
        BY <1>2 DEF TaskSound, Tasks, Steps, ListedSteps, MoveSteps, OuterSteps
    <2>3. StackSound(Tail(work)) /\ (Tail(work) = <<>> \/ Head(Tail(work)).do \in OuterSteps)
        BY <1>2, TopFacts
    <2> HIDE DEF t
    <2>4. /\ StackSound(<<t>> \o Tail(work))
          /\ Head(<<t>> \o Tail(work)) = t
        BY <2>2, <2>3, CallStack
    <2>5. /\ StackSound(f \o (<<t>> \o Tail(work)))
          /\ f \o (<<t>> \o Tail(work)) # <<>> =>
                Head(f \o (<<t>> \o Tail(work))).do \in OuterSteps
        <3> DEFINE w == <<t>> \o Tail(work)
        <3>1. StackSound(w) /\ (w = <<>> \/ Head(w).do \in OuterSteps)
            BY <2>2, <2>4
        <3> HIDE DEF w, k
        <3>2. /\ StackSound(f \o w)
              /\ f \o w # <<>> => Head(f \o w).do \in OuterSteps
            BY <2>1, <3>1, FilesStack DEF f
        <3> QED BY <3>2 DEF w
    <2>6. work' = f \o (<<t>> \o Tail(work))
        <3>1. /\ f \in Seq(Tasks) /\ <<t>> \in Seq(Tasks) /\ Tail(work) \in Seq(Tasks)
            <4>1. \A i \in DOMAIN k : f[i] \in Tasks
                BY <2>1 DEF Tasks, Steps
            <4>2. DOMAIN k = 1 .. Len(k) /\ Len(k) \in Nat
                BY <2>1
            <4>3. t \in Tasks /\ Tail(work) \in Seq(Tasks)
                BY <2>2, <2>3 DEF TaskSound, StackSound
            <4> HIDE DEF k
            <4> QED BY <4>1, <4>2, <4>3
        <3>2. work' = (f \o <<t>>) \o Tail(work)
            BY <1>4 DEF t
        <3> HIDE DEF f
        <3> QED BY <3>1, <3>2, ConcatAssociative
    <2>7. StackSound(work') /\ (work' # <<>> => Head(work').do \in OuterSteps)
        BY <2>5, <2>6
    <2>8. /\ UNCHANGED <<op, sameFS, src0, dst0, consent, isStopped, default, asking, answer>>
          /\ UNCHANGED <<makeCleanupOnStop, faults>>
        BY <1>1, <1>4 DEF fixed, NoQuestion, comm, Works
    <2>9. StackSound(work)'
        BY <2>7, <2>8 DEF StackSound, TaskSound
    <2>10. TopSound'
        BY <2>7 DEF TopSound, Top, OuterSteps, AnsweredSteps
    <2>11. TypeOK'
        BY <1>1, <1>4, <2>8, <2>9 DEF Sound, TypeOK, StackSound
    <2>12. DefaultSound' /\ TargetsNeedConsent'
        BY <1>1, <2>8 DEF Sound, DefaultSound, TargetsNeedConsent
    <2> QED BY <2>9, <2>10, <2>11, <2>12 DEF Sound
<1> QED BY <1>3, <1>4 DEF Contents

\* CopySymbolicLink and DuplicateSymbolicLink, and LinkOperation's part of them.
LEMMA CopyLinkSound ==
    ASSUME Sound, Link \/ LinkAnswered \/ Original \/ NewLink \/ NewLinkAnswered \/ MakeLink
    PROVE  Sound'
<1>0. /\ {"WriteError", "ReadError", "FileExists", "SymlinkEncountered", "SymlinkTargetNotExist"}
            \subseteq ProblemTypes
      /\ {"linkAnswered", "original", "newLink", "newLinkAnswered", "makeLink", "regular",
          "linkedDir", "unknown"} \subseteq Steps
    BY DEF ProblemTypes, SkipOnlyProblems, Steps
<1>a. ASSUME work # <<>>, Path \in Paths,
             NEW step \in {"linkAnswered", "original", "newLink", "regular", "linkedDir", "unknown"}
      PROVE  Ready(step)
    BY <1>a DEF Ready, TaskSound, Tasks, Steps, ListedSteps, MoveSteps, AnsweredSteps
<1>1. ASSUME Link PROVE Sound'
    <2> USE <1>1 DEF Link, files
    <2>1. At("link")
        OBVIOUS
    <2> QED BY <1>0, <1>a, <2>1, AtFacts, StepSound DEF Works
<1>2. ASSUME LinkAnswered PROVE Sound'
    <2> USE <1>2 DEF LinkAnswered, files
    <2>1. At("linkAnswered")
        OBVIOUS
    <2>2. /\ work # <<>> /\ Path \in Paths /\ src \in Trees /\ dst \in Trees
          /\ opResult \in BOOLEAN /\ status = "running"
        BY <2>1, AtFacts
    <2>3. Ready("original") /\ Ready("newLink") /\ Ready("linkAnswered")
        BY <1>a, <2>2
    <2>4. (Works \/ Fails) /\ UNCHANGED <<fixed, todo, isStopped, src, dst, opResult, status>>
        OBVIOUS
    <2>5. \/ Goto("newLink") /\ NoQuestion
          \/ Goto("original") /\ NoQuestion
          \/ Goto("linkAnswered") /\ Ask("SymlinkTargetNotExist")
          \/ Return /\ (NoQuestion \/ Ask("ReadError"))
        OBVIOUS
    <2> QED BY <1>0, <2>2, <2>3, <2>4, <2>5, StepSound
<1>3. ASSUME Original PROVE Sound'
    <2> USE <1>3 DEF Original
    <2>1. At("original")
        OBVIOUS
    <2>2. /\ work # <<>> /\ Path \in Paths /\ src \in Trees /\ dst \in Trees
          /\ opResult \in BOOLEAN /\ status = "running"
        BY <2>1, AtFacts
    <2>3. Ready("regular") /\ Ready("linkedDir") /\ Ready("unknown")
        BY <1>a, <2>2
    <2>4. Works /\ NoQuestion /\ UNCHANGED <<fixed, todo, isStopped, src, dst, opResult, status>>
        BY DEF Works, NoQuestion, files
    <2>5. Goto("regular") \/ Goto("linkedDir") \/ Goto("unknown")
        OBVIOUS
    <2> QED BY <1>0, <2>2, <2>3, <2>4, <2>5, StepSound
<1>4. ASSUME NewLink PROVE Sound'
    <2> USE <1>4 DEF NewLink, files
    <2>1. At("newLink")
        OBVIOUS
    <2>2. /\ work # <<>> /\ Path \in Paths /\ src \in Trees /\ dst \in Trees
          /\ opResult \in BOOLEAN /\ status = "running"
        BY <2>1, AtFacts
    <2>3. Ready("makeLink") \/ dst[Path] # "none"
        BY <2>2 DEF Ready, TaskSound, Tasks, Steps, ListedSteps, MoveSteps, AnsweredSteps
    <2>4. Ready("newLinkAnswered") \/ ~Ask("FileExists")
        BY <2>2 DEF Ready, TaskSound, Tasks, Steps, ListedSteps, MoveSteps, Ask
    <2>5. \/ Works /\ Goto("newLinkAnswered") /\ Ask("FileExists")
          \/ dst[Path] = "none" /\ Works /\ Goto("makeLink") /\ NoQuestion
          \/ Fails /\ Return /\ Ask("ReadError")
        OBVIOUS
    <2> QED BY <1>0, <2>2, <2>3, <2>4, <2>5, StepSound
<1>5. ASSUME NewLinkAnswered PROVE Sound'
    <2> USE <1>5 DEF NewLinkAnswered
    <2>1. At("newLinkAnswered")
        OBVIOUS
    <2>2. /\ work # <<>> /\ Path \in Paths /\ src \in Trees /\ dst \in Trees
          /\ opResult \in BOOLEAN /\ status = "running" /\ (answer = "SkipFile" \/ Free)
        BY <2>1, AtFacts DEF AnsweredSteps
    <2>3. CASE dst' = dst /\ Return /\ ((Works /\ NoQuestion) \/ (Fails /\ Ask("WriteError")))
        BY <1>0, <2>2, <2>3, StepSound
    <2>4. CASE /\ answer # "SkipFile" /\ Works /\ dst' = Remove(dst, Path)
               /\ Goto("makeLink") /\ NoQuestion
        <3>1. dst' \in Trees /\ dst'[Path] = "none"
            BY <2>2, <2>4, RemoveSound
        <3>2. Ready("makeLink")
            BY <2>2, <3>1 DEF Ready, TaskSound, Tasks, Steps, ListedSteps, MoveSteps, AnsweredSteps
        <3> QED BY <1>0, <2>2, <2>4, <3>1, <3>2, StepSound
    <2> QED BY <2>3, <2>4
<1>6. ASSUME MakeLink PROVE Sound'
    <2> USE <1>6 DEF MakeLink
    <2>1. At("makeLink")
        OBVIOUS
    <2>2. /\ work # <<>> /\ Path \in Paths /\ src \in Trees /\ dst \in Trees
          /\ opResult \in BOOLEAN /\ status = "running" /\ dst[Path] = "none"
        BY <2>1, AtFacts
    <2>3. CASE dst' = dst /\ (Works \/ Fails) /\ Ask("WriteError")
        BY <1>0, <2>2, <2>3, StepSound
    <2>4. CASE HasParent(Path) /\ Works /\ dst' = [dst EXCEPT ![Path] = "newLink"] /\ NoQuestion
        <3>1. /\ dst' \in Trees
              /\ \A p \in Paths : dst'[p] # dst[p] => Free \/ dst0[p] = "none"
            BY <2>2, <2>4, PutSound DEF Entries
        <3> QED BY <2>2, <2>4, <3>1, StepSound
    <2> QED BY <2>3, <2>4
<1> QED BY <1>1, <1>2, <1>3, <1>4, <1>5, <1>6

\* A copy is put in front of the end of the move.
LEMMA CrossCopySound ==
    ASSUME Sound, CrossCopy
    PROVE  Sound'
<1>1. /\ At("crossCopy") /\ opResult' = TRUE
      /\ UNCHANGED <<fixed, files, comm, todo, isStopped, faults, status>>
    BY DEF CrossCopy
<1>2. /\ work # <<>> /\ Path \in Paths /\ Path \in Listed /\ src \in Trees /\ op = "Move"
      /\ asking = NoProblem
    BY <1>1, AtFacts DEF ListedSteps, MoveSteps
<1> DEFINE end == [do |-> "copied", path |-> Path]
           copy == [do |-> StepFor(src[Path]), path |-> Path]
           rest == <<end>> \o Tail(work)
<1>3. TaskSound(end) /\ end.do \in OuterSteps
    BY <1>2 DEF TaskSound, Tasks, Steps, ListedSteps, MoveSteps, OuterSteps
<1>4. TaskSound(copy) /\ copy.do \in {"link", "dir", "regular", "unknown"}
    BY <1>2, StepForSound
<1>5. work' = IF isStopped THEN rest ELSE <<copy>> \o rest
    BY DEF CrossCopy
<1>6. StackSound(Tail(work)) /\ (Tail(work) = <<>> \/ Head(Tail(work)).do \in OuterSteps)
    BY <1>2, TopFacts
<1> HIDE DEF end, copy
<1>7. StackSound(rest) /\ Head(rest) = end
    BY <1>3, <1>6, CallStack
<1> HIDE DEF rest
<1>8. StackSound(<<copy>> \o rest) /\ Head(<<copy>> \o rest) = copy
    BY <1>3, <1>4, <1>7, CallStack
<1>9. StackSound(work') /\ Head(work').do \in {"copied", "link", "dir", "regular", "unknown"}
    <2>1. end.do = "copied"
        BY DEF end
    <2>2. CASE isStopped
        BY <1>5, <1>7, <2>1, <2>2
    <2>3. CASE ~isStopped
        BY <1>4, <1>5, <1>8, <2>3
    <2> QED BY <2>2, <2>3
<1>10. /\ UNCHANGED <<op, sameFS, src0, dst0, consent, isStopped, default, asking, answer>>
       /\ UNCHANGED <<makeCleanupOnStop, faults, src, dst, todo, status>>
    BY <1>1 DEF fixed, files, comm
<1>11. StackSound(work)'
    BY <1>9, <1>10 DEF StackSound, TaskSound
<1>12. TopSound'
    BY <1>9 DEF TopSound, Top, AnsweredSteps
<1>13. TypeOK'
    BY <1>1, <1>10, <1>11 DEF Sound, TypeOK, StackSound
<1>14. DefaultSound' /\ TargetsNeedConsent'
    BY <1>10 DEF Sound, DefaultSound, TargetsNeedConsent
<1> QED BY <1>11, <1>12, <1>13, <1>14 DEF Sound

\* MoveOperation and DeleteOperation: rename(2), the copy's end, removeFileAtPath:.
LEMMA MoveSound ==
    ASSUME Sound, Move \/ MoveAnswered \/ Rename \/ Copied \/ Delete \/ DeleteFailed
    PROVE  Sound'
<1>0. /\ {"DeleteError", "MoveError", "FileExists"} \subseteq ProblemTypes
      /\ {"moveAnswered", "rename", "crossCopy", "delete", "deleteFailed"} \subseteq Steps
    BY DEF ProblemTypes, SkipOnlyProblems, Steps
<1>a. ASSUME work # <<>>, Path \in Listed, Path \in Paths, op = "Move",
             sameFS, dst'[Path] = "none"
      PROVE  Ready("rename")
    BY <1>a DEF Ready, TaskSound, Tasks, Steps, ListedSteps, MoveSteps, AnsweredSteps
<1>b. ASSUME work # <<>>, Path \in Listed, Path \in Paths, op = "Move"
      PROVE  Ready("crossCopy")
    BY <1>b DEF Ready, TaskSound, Tasks, Steps, ListedSteps, MoveSteps, AnsweredSteps
<1>c. ASSUME work # <<>>, Path \in Listed, Path \in Paths, op \in {"Move", "Delete"}
      PROVE  Ready("deleteFailed")
    BY <1>c DEF Ready, TaskSound, Tasks, Steps, ListedSteps, MoveSteps, AnsweredSteps
<1>1. ASSUME Move PROVE Sound'
    <2> USE <1>1 DEF Move, files
    <2>1. At("move")
        OBVIOUS
    <2>2. /\ work # <<>> /\ Path \in Paths /\ Path \in Listed /\ op = "Move"
          /\ src \in Trees /\ dst \in Trees /\ opResult \in BOOLEAN /\ status = "running"
        BY <2>1, AtFacts DEF ListedSteps, MoveSteps
    <2>3. Works /\ UNCHANGED <<fixed, todo, isStopped, src, dst, opResult, status>>
        BY DEF Works
    <2>4. CASE dst[Path] # "none"
        <3>1. Goto("moveAnswered") /\ Ask("FileExists")
            BY <2>4
        <3>2. Ready("moveAnswered")
            BY <2>2, <3>1 DEF Ready, TaskSound, Tasks, Steps, ListedSteps, MoveSteps, Ask
        <3> QED BY <1>0, <2>2, <2>3, <3>1, <3>2, StepSound
    <2>5. CASE dst[Path] = "none" /\ sameFS
        <3>1. Goto("rename") /\ NoQuestion
            BY <2>5
        <3>2. Ready("rename")
            BY <1>a, <2>2, <2>3, <2>5
        <3> QED BY <1>0, <2>2, <2>3, <3>1, <3>2, StepSound
    <2>6. CASE dst[Path] = "none" /\ ~sameFS
        <3>1. Goto("crossCopy") /\ NoQuestion
            BY <2>6
        <3>2. Ready("crossCopy")
            BY <1>b, <2>2
        <3> QED BY <1>0, <2>2, <2>3, <3>1, <3>2, StepSound
    <2> QED BY <2>4, <2>5, <2>6
<1>2. ASSUME MoveAnswered PROVE Sound'
    <2> USE <1>2 DEF MoveAnswered
    <2>1. At("moveAnswered")
        OBVIOUS
    <2>2. /\ work # <<>> /\ Path \in Paths /\ Path \in Listed /\ op = "Move"
          /\ src \in Trees /\ dst \in Trees /\ opResult \in BOOLEAN /\ status = "running"
          /\ (answer = "SkipFile" \/ Free)
        BY <2>1, AtFacts DEF ListedSteps, MoveSteps, AnsweredSteps
    <2>3. CASE dst' = dst /\ Return /\ ((Works /\ NoQuestion) \/ (Fails /\ Ask("DeleteError")))
        BY <1>0, <2>2, <2>3, StepSound
    <2>4. CASE /\ answer # "SkipFile" /\ Works /\ dst' = Remove(dst, Path)
               /\ Goto(IF sameFS THEN "rename" ELSE "crossCopy") /\ NoQuestion
        <3>1. dst' \in Trees /\ dst'[Path] = "none"
            BY <2>2, <2>4, RemoveSound
        <3>2. CASE sameFS
            BY <1>0, <1>a, <2>2, <2>4, <3>1, <3>2, StepSound
        <3>3. CASE ~sameFS
            BY <1>0, <1>b, <2>2, <2>4, <3>1, <3>3, StepSound
        <3> QED BY <3>2, <3>3
    <2> QED BY <2>3, <2>4
<1>3. ASSUME Rename PROVE Sound'
    <2> USE <1>3 DEF Rename
    <2>1. At("rename")
        OBVIOUS
    <2>2. /\ work # <<>> /\ Path \in Paths /\ Path \in Listed /\ op = "Move"
          /\ src \in Trees /\ dst \in Trees /\ opResult \in BOOLEAN /\ status = "running"
          /\ Free \/ dst[Path] = "none"
          /\ \A p \in Paths : dst[p] = "none" => Free \/ dst0[p] = "none"
        BY <2>1, AtFacts DEF ListedSteps, MoveSteps
    <2>3. CASE Fails /\ Ask("MoveError") /\ UNCHANGED files
        BY <1>0, <2>2, <2>3, StepSound DEF files
    <2>4. CASE /\ Works /\ NoQuestion
               /\ dst' = Renamed(src, dst, Path) /\ src' = Remove(src, Path)
        <3>1. dst' \in Trees /\ src' \in Trees
            BY <2>2, <2>4, RenamedTree, RemoveTree
        <3>2. ASSUME NEW p \in Paths, dst'[p] # dst[p] PROVE Free \/ dst0[p] = "none"
            <4>1. p \in Below(Path)
                BY <2>4, <3>2, <2>2 DEF Renamed, Trees
            <4>2. CASE Free
                BY <4>2
            <4>3. CASE dst[Path] = "none"
                <5>1. dst[p] = "none"
                    BY <2>2, <4>1, <4>3 DEF Below, Trees, Above
                <5> QED BY <2>2, <5>1
            <4> QED BY <2>2, <4>2, <4>3
        <3> QED BY <2>2, <2>4, <3>1, <3>2, StepSound
    <2> QED BY <2>3, <2>4
<1>4. ASSUME Copied PROVE Sound'
    <2> USE <1>4 DEF Copied
    <2>1. At("copied")
        OBVIOUS
    <2>2. /\ work # <<>> /\ Path \in Paths /\ Path \in Listed /\ op = "Move"
          /\ src \in Trees /\ dst \in Trees /\ opResult \in BOOLEAN /\ status = "running"
        BY <2>1, AtFacts DEF ListedSteps, MoveSteps
    <2>3. (Works \/ Fails) /\ NoQuestion
        BY DEF Clears, NoQuestion
    <2>4. dst' \in Trees /\ (dst' # dst => Free)
        BY <2>2, RemoveButTree DEF Free
    <2>5. CASE Return
        BY <2>2, <2>3, <2>4, <2>5, StepSound
    <2>6. CASE opResult /\ Goto("delete")
        <3>1. Ready("delete")
            BY <2>2, <2>6 DEF Ready, TaskSound, Tasks, Steps, ListedSteps, MoveSteps, AnsweredSteps
        <3> QED BY <1>0, <2>2, <2>3, <2>4, <2>6, <3>1, StepSound
    <2> QED BY <2>5, <2>6
<1>5. ASSUME Delete PROVE Sound'
    <2> USE <1>5 DEF Delete
    <2>1. At("delete")
        OBVIOUS
    <2>2. /\ work # <<>> /\ Path \in Paths
          /\ src \in Trees /\ dst \in Trees /\ opResult \in BOOLEAN /\ status = "running"
        BY <2>1, AtFacts
    <2>3. src' \in Trees
        BY <2>2, RemoveTree
    <2>4. CASE Return /\ Works /\ NoQuestion
        BY <1>0, <2>2, <2>3, <2>4, StepSound
    <2>5. CASE Goto("deleteFailed") /\ Fails /\ Ask("DeleteError")
        <3>1. Ready("deleteFailed")
            BY <1>c, <2>1, AtFacts DEF ListedSteps
        <3> QED BY <1>0, <2>2, <2>3, <2>5, <3>1, StepSound
    <2> QED BY <2>4, <2>5
<1>6. ASSUME DeleteFailed PROVE Sound'
    <2>1. At("deleteFailed") /\ UNCHANGED <<fixed, dst, todo, opResult, isStopped, status>>
        BY <1>6 DEF DeleteFailed
    <2>2. /\ work # <<>> /\ Path \in Paths /\ Path \in Listed /\ Top.do = "deleteFailed"
          /\ src \in Trees /\ dst \in Trees /\ opResult \in BOOLEAN /\ status = "running"
        BY <2>1, AtFacts DEF ListedSteps
    <2>3. CASE Fails /\ Ask("DeleteError") /\ UNCHANGED <<src, work>>
        <3>1. Goto("deleteFailed")
            <4>1. [Top EXCEPT !.do = "deleteFailed"] = Top
                BY <2>2, TopFacts DEF Tasks
            <4>2. work \in Seq(Tasks) /\ <<Top>> \o Tail(work) = work
                BY <2>2, HeadTailProperties DEF Sound, StackSound, Top
            <4> QED BY <2>3, <4>1, <4>2 DEF Goto
        <3>2. Ready("deleteFailed")
            BY <1>c, <2>1, <2>2, AtFacts
        <3> QED BY <1>0, <2>1, <2>2, <2>3, <3>1, <3>2, StepSound
    <2>4. CASE /\ Works /\ Return
               /\ \E stuck \in SUBSET Below(Path) \ {{}} :
                    /\ src' = RemoveBut(src, Path, stuck)
                    /\ IF stuck = {Path} THEN NoQuestion ELSE Ask("DeleteError")
        <3>1. src' \in Trees
            BY <2>2, <2>4, RemoveButTree
        <3>2. NoQuestion \/ Ask("DeleteError")
            BY <2>4
        <3> QED BY <1>0, <2>1, <2>2, <2>4, <3>1, <3>2, StepSound
    <2> QED BY <1>6, <2>3, <2>4 DEF DeleteFailed
<1> QED BY <1>1, <1>2, <1>3, <1>4, <1>5, <1>6

-----------------------------------------------------------------------------
(* Answers, the loop, and the invariance of Sound. *)

\* -howToHandleProblem:: an answer that overwrites is a consent, Stop stops.
LEMMA AnswerSound ==
    ASSUME Sound, Answer
    PROVE  Sound'
<1>1. /\ status = "running" /\ asking # NoProblem /\ asking' = NoProblem
      /\ makeCleanupOnStop' = FALSE
      /\ consent' = (consent \/ (asking = "FileExists" /\ answer' = "OverwriteFile"))
      /\ UNCHANGED <<op, sameFS, src0, dst0, src, dst, todo, work, opResult, faults, status>>
    BY DEF Answer, fixed, files
<1>2. asking \in ProblemTypes /\ default \in [ProblemTypes -> Solutions \cup {NotSet}]
    BY <1>1 DEF Sound, TypeOK
<1>3. "FileExists" \in ProblemTypes /\ NoProblem # "FileExists"
    BY DEF ProblemTypes, NoProblem
<1>4. /\ answer' \in Solutions \cup {"Stop"}
      /\ isStopped' \in BOOLEAN /\ (isStopped => isStopped')
      /\ default' \in [ProblemTypes -> Solutions \cup {NotSet}]
      /\ default'["FileExists"] \in {NotSet, "SkipFile"} \/ consent'
      /\ asking = "FileExists" => answer' = "SkipFile" \/ consent' \/ isStopped'
    <2>1. CASE /\ default[asking] # NotSet /\ answer' = default[asking]
               /\ UNCHANGED <<default, isStopped>>
        BY <1>1, <1>2, <1>3, <2>1 DEF Sound, TypeOK, DefaultSound
    <2>2. CASE /\ UNCHANGED isStopped
               /\ \E letter \in Accepts(asking) \ {"t"}, all \in BOOLEAN :
                    /\ answer' = SolutionOf(letter)
                    /\ default' = IF all THEN [default EXCEPT ![asking] = SolutionOf(letter)]
                                         ELSE default
        <3>1. PICK letter \in Accepts(asking) \ {"t"} :
                    /\ answer' = SolutionOf(letter)
                    /\ \/ default' = [default EXCEPT ![asking] = SolutionOf(letter)]
                       \/ default' = default
            BY <2>2
        <3>2. SolutionOf(letter) \in Solutions
            <4>1. letter \in AnswerLetters \ {"t"}
                BY <1>2 DEF Accepts, AnswerLetters, ProblemTypes
            <4> QED BY <4>1 DEF Solutions
        <3>3. asking = "FileExists" => SolutionOf(letter) \in {"SkipFile", "OverwriteFile"}
            BY <1>2 DEF Accepts, SolutionOf, SkipOnlyProblems
        <3>4. default' \in [ProblemTypes -> Solutions \cup {NotSet}]
            BY <1>2, <3>1, <3>2
        <3>5. asking = "FileExists" => answer' = "SkipFile" \/ consent'
            BY <1>1, <3>1, <3>3
        <3>6. default'["FileExists"] \in {NotSet, "SkipFile"} \/ consent'
            BY <1>1, <1>2, <1>3, <3>1, <3>3 DEF Sound, DefaultSound
        <3> QED BY <2>2, <3>1, <3>2, <3>4, <3>5, <3>6 DEF Sound, TypeOK
    <2>3. CASE answer' = "Stop" /\ isStopped' = TRUE /\ UNCHANGED default
        BY <1>1, <1>2, <2>3 DEF Sound, DefaultSound
    <2> QED BY <2>1, <2>2, <2>3 DEF Answer
<1>5. consent' \in BOOLEAN /\ (consent => consent')
    BY <1>1 DEF Sound, TypeOK
<1>6. Free => Free'
    BY <1>4, <1>5 DEF Free
<1>7. StackSound(work)'
    BY <1>1 DEF Sound, StackSound, TaskSound
<1>8. TopSound'
    <2>1. Top' = Top /\ Path' = Path /\ work' = work /\ dst' = dst /\ dst0' = dst0
          /\ op' = op /\ opResult' = opResult
        BY <1>1 DEF Top, Path
    <2>2. ASSUME work # <<>>, Top.do \in AnsweredSteps PROVE answer' = "SkipFile" \/ Free'
        BY <1>1, <1>3, <1>4, <2>2 DEF Sound, TopSound, Free
    <2>3. ASSUME work # <<>>
          PROVE  /\ Top.do \in {"create", "makeLink"} => dst[Path] = "none"
                 /\ Top.do = "data" => dst[Path] = "part" /\ (Free \/ dst0[Path] = "none")
                 /\ Top.do = "rename" => Free \/ dst[Path] = "none"
                 /\ Top.do = "delete" /\ op = "Move" => opResult
        BY <2>3 DEF Sound, TopSound
    <2> QED BY <1>1, <1>6, <2>1, <2>2, <2>3 DEF TopSound
<1>9. TypeOK'
    BY <1>1, <1>4, <1>5 DEF Sound, TypeOK
<1>10. DefaultSound'
    BY <1>4 DEF DefaultSound
<1>11. TargetsNeedConsent'
    BY <1>1, <1>4, <1>5 DEF Sound, TargetsNeedConsent
<1> QED BY <1>7, <1>8, <1>9, <1>10, <1>11 DEF Sound

\* SIGINT makes what is not stopped stopped, between any two steps.
LEMMA InterruptSound ==
    ASSUME Sound, Interrupt
    PROVE  Sound'
<1>1. /\ isStopped' = TRUE
      /\ UNCHANGED <<op, sameFS, src0, dst0, src, dst, todo, work, opResult, faults, status>>
      /\ UNCHANGED <<asking, answer, default, makeCleanupOnStop, consent>>
    BY DEF Interrupt, fixed, files, comm
<1>2. Free'
    BY <1>1 DEF Free
<1>3. StackSound(work)'
    BY <1>1 DEF Sound, StackSound, TaskSound
<1>4. TopSound'
    <2>1. Top' = Top /\ Path' = Path
        BY <1>1 DEF Top, Path
    <2> QED BY <1>1, <1>2, <2>1 DEF Sound, TopSound
<1>5. TypeOK' /\ DefaultSound' /\ TargetsNeedConsent'
    BY <1>1 DEF Sound, TypeOK, DefaultSound, TargetsNeedConsent
<1> QED BY <1>3, <1>4, <1>5 DEF Sound

\* The cleanup leaves trees, and is begun only when the tool is stopped.
LEMMA FinishSound ==
    ASSUME Sound, Finish
    PROVE  Sound'
<1>1. /\ work = <<>> /\ status' = "finished"
      /\ UNCHANGED <<op, sameFS, src0, dst0, todo, work, opResult, isStopped>>
      /\ UNCHANGED <<asking, answer, default, makeCleanupOnStop, consent>>
    BY DEF Finish, fixed, comm
<1>2. src \in Trees /\ dst \in Trees
    BY DEF Sound, TypeOK
<1>3. src' \in Trees /\ dst' \in Trees /\ (Works \/ Fails) /\ (dst' = dst \/ isStopped)
    <2>1. CASE UNCHANGED <<files, faults>>
        BY <1>2, <2>1 DEF files, Works
    <2>2. CASE isStopped /\ CleanUp
        <3>1. CASE op \in {"Copy", "Duplicate", "Link"}
            <4>1. RemoveTargets
                BY <2>2, <3>1 DEF CleanUp
            <4>2. PICK stuck \in SUBSET Paths :
                        Clears(stuck) /\ dst' = Left(dst, stuck) /\ src' = src
                BY <4>1 DEF RemoveTargets, Left
            <4> QED BY <1>2, <2>2, <4>2, LeftTree DEF Clears
        <3>2. CASE op = "Move"
            <4>0. RenameBack
                BY <2>2, <3>2 DEF CleanUp
            <4>b. PICK stuck \in SUBSET Listed :
                    LET back == {f \in Listed \ stuck : sameFS /\ CanRename(dst, src, f)}
                        moved == UNION {Below(f) : f \in back} IN
                    /\ Clears(stuck)
                    /\ src' = [p \in Paths |-> IF p \in moved THEN dst[p] ELSE src[p]]
                    /\ dst' = [p \in Paths |-> IF p \in moved THEN "none" ELSE dst[p]]
                BY <4>0 DEF RenameBack
            <4> DEFINE back == {f \in Listed \ stuck : sameFS /\ CanRename(dst, src, f)}
                       moved == UNION {Below(f) : f \in back}
            <4>1. /\ src' = [p \in Paths |-> IF p \in moved THEN dst[p] ELSE src[p]]
                  /\ dst' = [p \in Paths |-> IF p \in moved THEN "none" ELSE dst[p]]
                  /\ Works \/ Fails
                BY <4>b DEF Clears
            <4>2. back \in SUBSET Listed
                OBVIOUS
            <4> HIDE DEF back
            <4>a. \A p \in Paths : p \in moved <=> \E f \in back : p \in Below(f)
                OBVIOUS
            <4> HIDE DEF moved
            <4>3. PutBack(src, dst, moved) \in Trees /\ TakenBack(dst, moved) \in Trees
                BY <1>2, <4>2, <4>a, BackTree
            <4> QED BY <2>2, <4>1, <4>3 DEF PutBack, TakenBack
        <3>3. CASE op = "Delete"
            BY <1>2, <2>2, <3>3 DEF CleanUp, files, Works
        <3> QED BY <3>1, <3>2, <3>3 DEF Sound, TypeOK, Operations
    <2> QED BY <2>1, <2>2 DEF Finish
<1>a. faults' \in 0 .. MaxFaults
    BY <1>3, FileToolAssumption DEF Works, Fails, Sound, TypeOK
<1>4. StackSound(work)' /\ TopSound'
    BY <1>1 DEF Sound, StackSound, TaskSound, TopSound
<1>5. TypeOK' /\ DefaultSound' /\ TargetsNeedConsent'
    BY <1>1, <1>3, <1>a DEF Sound, TypeOK, DefaultSound, TargetsNeedConsent
<1> QED BY <1>4, <1>5 DEF Sound

\* The loop begins the next listed file.
LEMMA NextFileSound ==
    ASSUME Sound, NextFile
    PROVE  Sound'
<1>1. /\ work = <<>> /\ status = "running" /\ asking = NoProblem /\ todo # <<>>
      /\ todo' = Tail(todo)
      /\ work' = <<[do |-> FirstStep(Head(todo)), path |-> Head(todo)]>>
      /\ UNCHANGED <<op, sameFS, src0, dst0, src, dst, opResult, faults, isStopped, status>>
      /\ UNCHANGED <<asking, answer, default, makeCleanupOnStop, consent>>
    BY DEF NextFile, LoopGoesOn, fixed, files, comm
<1> DEFINE f == Head(todo)
           t == [do |-> FirstStep(f), path |-> f]
<1>2. f \in Listed /\ f \in Paths /\ todo' \in Seq(Listed)
    <2>1. todo \in Seq(Listed)
        BY DEF Sound, TypeOK
    <2>2. f \in Listed /\ Tail(todo) \in Seq(Listed)
        BY <1>1, <2>1, HeadTailProperties
    <2> QED BY <1>1, <2>2 DEF Paths
<1>3. TaskSound(t) /\ FirstStep(f) \notin AnsweredSteps \cup {"create", "makeLink", "data", "rename"}
      /\ (FirstStep(f) = "delete" => op # "Move")
    <2>1. CASE op \in {"Copy", "Duplicate"}
        <3>1. FirstStep(f) = StepFor(src[f])
            BY <2>1 DEF FirstStep
        <3>2. src \in Trees
            BY DEF Sound, TypeOK
        <3> QED BY <1>2, <2>1, <3>1, <3>2, StepForSound DEF AnsweredSteps
    <2>2. CASE op = "Move"
        <3>1. FirstStep(f) = "move"
            BY <2>2 DEF FirstStep
        <3> QED BY <1>2, <2>2, <3>1 DEF AnsweredSteps, TaskSound, Tasks, Steps, ListedSteps, MoveSteps
    <2>3. CASE op = "Link"
        <3>1. FirstStep(f) = "newLink"
            BY <2>3 DEF FirstStep
        <3> QED BY <1>2, <2>3, <3>1 DEF AnsweredSteps, TaskSound, Tasks, Steps, ListedSteps, MoveSteps
    <2>4. CASE op = "Delete"
        <3>1. FirstStep(f) = "delete"
            BY <2>4 DEF FirstStep
        <3> QED BY <1>2, <2>4, <3>1 DEF AnsweredSteps, TaskSound, Tasks, Steps, ListedSteps, MoveSteps
    <2> QED BY <2>1, <2>2, <2>3, <2>4 DEF Sound, TypeOK, Operations
<1> HIDE DEF f
<1>4. work' = <<t>>
    BY <1>1 DEF f
<1>5. t.do = FirstStep(f) /\ t.path = f
    OBVIOUS
<1> HIDE DEF t
<1>6. StackSound(<<t>>)
    <2>1. t \in Tasks
        BY <1>3 DEF TaskSound
    <2> QED BY <1>3, <2>1 DEF StackSound
<1>7. StackSound(work)'
    BY <1>1, <1>4, <1>6 DEF StackSound, TaskSound
<1>8. TopSound'
    <2>1. Top' = t
        BY <1>4 DEF Top
    <2> QED BY <1>1, <1>3, <1>5, <2>1 DEF TopSound
<1>9. TypeOK'
    BY <1>1, <1>2, <1>7 DEF Sound, TypeOK, StackSound
<1>10. DefaultSound' /\ TargetsNeedConsent'
    BY <1>1 DEF Sound, DefaultSound, TargetsNeedConsent
<1> QED BY <1>7, <1>8, <1>9, <1>10 DEF Sound

\* Nothing has been looked at, asked or written when the tool starts.
LEMMA InitSound ==
    ASSUME Init
    PROVE  Sound
<1>1. /\ src \in Trees /\ dst \in Trees /\ todo \in Seq(Listed) /\ faults \in 0 .. MaxFaults
    BY FileToolAssumption DEF Init
<1>2. work = <<>> /\ work \in Seq(Tasks)
    BY DEF Init
<1>3. "SkipFile" \in Solutions
    <2>1. "s" \in AnswerLetters \ {"t"} /\ SolutionOf("s") = "SkipFile"
        BY DEF AnswerLetters, SolutionOf
    <2> QED BY <2>1 DEF Solutions
<1>4. TypeOK
    BY <1>1, <1>2, <1>3 DEF Init, TypeOK
<1>5. StackSound(work) /\ TopSound
    BY <1>2 DEF StackSound, TopSound
<1>6. DefaultSound
    BY DEF Init, DefaultSound, ProblemTypes
<1>7. TargetsNeedConsent
    BY DEF Init, TargetsNeedConsent
<1> QED BY <1>4, <1>5, <1>6, <1>7 DEF Sound

\* Every step of the tool keeps the invariant.
LEMMA NextSound ==
    ASSUME Sound, [Next]_vars
    PROVE  Sound'
<1>1. CASE Answer
    BY <1>1, AnswerSound
<1>2. CASE Interrupt
    BY <1>2, InterruptSound
<1>3. CASE NextFile \/ Finish
    BY <1>3, NextFileSound, FinishSound
<1>4. CASE Regular \/ RegularAnswered \/ Create \/ Data \/ CloseUninitialised
    BY <1>4, CopyRegularSound
<1>5. CASE Directory \/ DirectoryAnswered \/ File \/ Chmod \/ Unknown
    BY <1>5, CopyDirectorySound
<1>6. CASE Contents
    BY <1>6, ContentsSound
<1>7. CASE Link \/ LinkAnswered \/ Original \/ NewLink \/ NewLinkAnswered \/ MakeLink
    BY <1>7, CopyLinkSound
<1>8. CASE CrossCopy
    BY <1>8, CrossCopySound
<1>9. CASE Move \/ MoveAnswered \/ Rename \/ Copied \/ Delete \/ DeleteFailed
    BY <1>9, MoveSound
<1>11. CASE LinkedDirectory \/ LinkedDirectoryAnswered \/ LinkedContents
    BY <1>11, LinkedDirectorySound
<1>10. CASE UNCHANGED vars
    <2>1. /\ UNCHANGED <<op, sameFS, src0, dst0, src, dst, todo, work, opResult, faults, isStopped, status>>
          /\ UNCHANGED <<asking, answer, default, makeCleanupOnStop, consent>>
        BY <1>10 DEF vars, fixed, files, comm
    <2>2. StackSound(work)'
        BY <2>1 DEF Sound, StackSound, TaskSound
    <2>3. TopSound'
        <3>1. Top' = Top /\ Path' = Path /\ Free' = Free
            BY <2>1 DEF Top, Path, Free
        <3> QED BY <2>1, <3>1 DEF Sound, TopSound
    <2>4. TypeOK' /\ DefaultSound' /\ TargetsNeedConsent'
        BY <2>1 DEF Sound, TypeOK, DefaultSound, TargetsNeedConsent
    <2> QED BY <2>2, <2>3, <2>4 DEF Sound
<1> QED BY <1>1, <1>2, <1>3, <1>4, <1>5, <1>6, <1>7, <1>8, <1>9, <1>10, <1>11 DEF Next, Step

\* The invariant holds whatever the files, the answers, the failing calls and the
\* moment of SIGINT.
THEOREM SoundAlways == Spec => []Sound
<1>1. Init => Sound
    BY InitSound
<1>2. Sound /\ [Next]_vars => Sound'
    BY NextSound
<1> QED BY <1>1, <1>2, PTL DEF Spec

\* The state of FileMover.tool is always one of those declared; the trees stay trees.
THEOREM FileToolTypeOK == Spec => []TypeOK
<1>1. Sound => TypeOK
    BY DEF Sound
<1> QED BY <1>1, SoundAlways, PTL

\* CopyRegular, CopyDirectory, CopySymbolicLink and MoveOperation destroy nothing at
\* the target unless the user has answered Overwrite or has stopped the tool.
THEOREM TargetsNeedConsentAlways == Spec => []TargetsNeedConsent
<1>1. Sound => TargetsNeedConsent
    BY DEF Sound
<1> QED BY <1>1, SoundAlways, PTL

===============================================================================
