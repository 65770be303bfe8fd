------------------------------ MODULE FileTool ------------------------------
(***************************************************************************)
(* FileMover.tool: what its five operations do to the files (Copy.m,       *)
(* Move.m, Link.m, Delete.m), how it asks about problems (Communicator.m)  *)
(* and how it is stopped (FileMover_main.m).                               *)
(*                                                                         *)
(* The listed files are the top of a tree of height two: a listed          *)
(* directory has children, a child is not a directory.  `src' and `dst'    *)
(* say what is at each path of the two trees; for Duplicate, `dst' holds   *)
(* the CopyOf_ files.  The C call stack is the sequence `work'; every task *)
(* is one piece of code between two reads of isStopped or two questions,   *)
(* and SIGINT may come between any two of them.                            *)
(***************************************************************************)
EXTENDS AlertProtocol, FiniteSets

CONSTANTS
    Names,          \* the listed files, in their order
    Kids,           \* Kids[f]: the sequence of the children of the listed f
    SourceTrees,    \* the source trees to start from
    TargetTrees,    \* the target trees to start from
    Elsewhere,      \* what may be asked about in a directory that a link points to
    MaxFaults       \* bound: system calls that fail

Operations == {"Copy", "Duplicate", "Move", "Link", "Delete"}

Listed == {Names[i] : i \in DOMAIN Names}
KidsOf(f) == {Kids[f][i] : i \in DOMAIN Kids[f]}
Paths == Listed \cup UNION {KidsOf(f) : f \in Listed}

\* p and everything below it; the directory p is in.
Below(p) == {p} \cup IF p \in Listed THEN KidsOf(p) ELSE {}
Above(p) == {f \in Listed : p \in KidsOf(f)}

\* What can be at a path.  "file" is the data of the source (or of the original of
\* a link), "part" a piece of it; "old" is a file that was at the target before.
\* A link may point to a file, to nothing, to its own directory or to another one,
\* whose copy is a "linkedDir"; what is in there is not in the trees.
Links == {"link", "danglingLink", "dotLink", "dirLink"}
Entries == {"none", "file", "part", "old", "dir", "linkedDir", "special", "newLink"} \cup Links

Trees ==
    {t \in [Paths -> Entries] :
        \A p \in Paths :
            /\ t[p] # "none" => \A f \in Above(p) : t[f] = "dir"
            /\ t[p] = "dir" => p \in Listed}

ASSUME FileToolAssumption ==
    /\ Names \in Seq(Listed)
    /\ \A f \in Listed : Kids[f] \in Seq(KidsOf(f)) /\ KidsOf(f) \cap Listed = {}
    /\ \A f, g \in Listed : f # g => KidsOf(f) \cap KidsOf(g) = {}
    /\ SourceTrees \subseteq Trees
    /\ TargetTrees \subseteq Trees
    /\ Elsewhere \subseteq ProblemTypes
    /\ MaxFaults \in Nat

\* The names in a directory are distinct; what a tree can start with.  A link to a
\* directory has no children of its own, in neither tree.
ASSUME FilesAssumption ==
    /\ \A i, j \in DOMAIN Names : Names[i] = Names[j] => i = j
    /\ \A t \in SourceTrees, f \in Listed : t[f] \in {"dirLink", "dotLink"} => KidsOf(f) = {}
    /\ \A t \in SourceTrees, p \in Paths : t[p] \notin {"part", "old", "linkedDir"}
    /\ \A t \in TargetTrees, p \in Paths : t[p] \notin {"part", "linkedDir"}

NotSet == "NotSet"

VARIABLES
    op,         \* -Operation
    sameFS,     \* source and destination are on one mounted file system
    src, dst,   \* the two trees
    todo,       \* listed files the operation's loop has not begun
    work,       \* the calls under way, the innermost first
    opResult,   \* CopyOperation's opResult
    asking,     \* the problem -howToHandleProblem: is called for
    answer,     \* what it returned
    default,    \* the default...Action of each problem
    isStopped, makeCleanupOnStop,   \* the global flags
    faults,     \* number of failed calls (bounded by MaxFaults)
    status,     \* "running", "finished", "crashed"
    src0, dst0, \* history: the trees before
    consent     \* history: an existing target may be destroyed

files == <<src, dst>>
comm == <<asking, answer, default, makeCleanupOnStop, consent>>
fixed == <<op, sameFS, src0, dst0>>
vars == <<fixed, files, comm, todo, work, opResult, isStopped, faults, status>>

Steps == {"file", "regular", "regularAnswered", "create", "data", "close",
          "dir", "dirAnswered", "contents", "chmod",
          "link", "linkAnswered", "original", "newLink", "newLinkAnswered", "makeLink",
          "linkedDir", "linkedDirAnswered", "elsewhere",
          "move", "moveAnswered", "rename", "crossCopy", "copied",
          "delete", "deleteFailed", "unknown"}

Tasks == [do : Steps, path : Paths]

TypeOK ==
    /\ op \in Operations
    /\ sameFS \in BOOLEAN
    /\ src \in Trees
    /\ dst \in Trees
    /\ todo \in Seq(Listed)
    /\ work \in Seq(Tasks)
    /\ opResult \in BOOLEAN
    /\ asking \in ProblemTypes \cup {NoProblem}
    /\ answer \in Solutions \cup {"Stop"}
    /\ default \in [ProblemTypes -> Solutions \cup {NotSet}]
    /\ isStopped \in BOOLEAN
    /\ makeCleanupOnStop \in BOOLEAN
    /\ faults \in 0..MaxFaults
    /\ status \in {"running", "finished", "crashed"}
    /\ src0 \in SourceTrees
    /\ dst0 \in TargetTrees
    /\ consent \in BOOLEAN

Init ==
    /\ op \in Operations
    /\ sameFS \in BOOLEAN
    /\ src \in SourceTrees /\ src0 = src
    /\ dst \in TargetTrees /\ dst0 = dst
    /\ todo = Names
    /\ work = <<>>
    /\ opResult = TRUE
    /\ asking = NoProblem
    /\ answer = "SkipFile"
    /\ default = [p \in ProblemTypes |-> NotSet]
    /\ isStopped = FALSE
    /\ makeCleanupOnStop = TRUE
    /\ faults = 0
    /\ status = "running"
    /\ consent = FALSE

-----------------------------------------------------------------------------
(* The call stack, the questions and the failures. *)

Top == Head(work)
Path == Top.path
At(step) == status = "running" /\ asking = NoProblem /\ work # <<>> /\ Top.do = step

Return == work' = Tail(work)
Goto(step) == work' = <<[Top EXCEPT !.do = step]>> \o Tail(work)
NoQuestion == UNCHANGED comm
Ask(p) == asking' = p /\ UNCHANGED <<answer, default, makeCleanupOnStop, consent>>

Fails == faults < MaxFaults /\ faults' = faults + 1
Works == UNCHANGED faults

\* Mutant of Remove: a directory is removed, its contents are not.
MutantRemove(t, p) == [t EXCEPT ![p] = "none"]

Remove(t, p) == [q \in Paths |-> IF q \in Below(p) THEN "none" ELSE t[q]]

\* What is left when something cannot be removed: that, and the directories it is in.
RemoveBut(t, p, stuck) ==
    [q \in Paths |-> IF q \in Below(p) /\ Below(q) \cap stuck = {} THEN "none" ELSE t[q]]

\* A cleanup does not look at what its calls return.
Clears(stuck) == IF stuck = {} THEN Works ELSE Fails

\* The directory that p is to be put into is there.
HasParent(p) == \A f \in Above(p) : dst[f] = "dir"

\* CopyFile, DuplicateFile: what is done with what they find at p.
StepFor(entry) ==
    CASE entry \in Links           -> "link"
      [] entry = "dir"             -> "dir"
      [] entry \in {"file", "old"} -> "regular"
      [] OTHER                     -> "unknown"

\* -howToHandleProblem:: the default action, or a question to Workspace.
Answer ==
    /\ status = "running"
    /\ asking # NoProblem
    /\ asking' = NoProblem
    /\ makeCleanupOnStop' = FALSE
    /\ \/ /\ default[asking] # NotSet
          /\ answer' = default[asking]
          /\ UNCHANGED <<default, isStopped>>
       \/ /\ default[asking] = NotSet
          /\ \E letter \in Accepts(asking) \ {"t"}, all \in BOOLEAN :
                /\ answer' = SolutionOf(letter)
                /\ default' = IF all THEN [default EXCEPT ![asking] = SolutionOf(letter)]
                                     ELSE default
          /\ UNCHANGED isStopped
       \/ /\ default[asking] = NotSet
          /\ answer' = "Stop"
          /\ isStopped' = TRUE
          /\ UNCHANGED default
    /\ consent' = (consent \/ (asking = "FileExists" /\ answer' = "OverwriteFile"))
    /\ UNCHANGED <<fixed, files, todo, work, opResult, faults, status>>

\* SIGINT: only the flag is set.
Interrupt ==
    /\ status = "running"
    /\ ~isStopped
    /\ isStopped' = TRUE
    /\ UNCHANGED <<fixed, files, comm, todo, work, opResult, faults, status>>

-----------------------------------------------------------------------------
(* CopyRegular.  Before writeHandle is assigned, the end of the function      *)
(* closes handles that were never initialised.                                *)

Regular ==
    /\ At("regular")
    /\ IF dst[Path] # "none"
       THEN Goto("regularAnswered") /\ Ask("FileExists")
       ELSE Goto("create") /\ NoQuestion
    /\ UNCHANGED <<fixed, files, todo, opResult, isStopped, faults, status>>

\* Mutant of RegularAnswered: the answer is not looked at.
MutantRegularAnswered ==
    /\ At("regularAnswered")
    /\ dst' = Remove(dst, Path)
    /\ Goto("create")
    /\ UNCHANGED <<fixed, src, comm, todo, opResult, isStopped, faults, status>>

\* Only Skip keeps the target: an answer that stops the operation removes it as well.
RegularAnswered ==
    /\ At("regularAnswered")
    /\ \/ /\ answer = "SkipFile"
          /\ Goto("close") /\ NoQuestion /\ Works
          /\ UNCHANGED dst
       \/ /\ answer # "SkipFile"
          /\ Works
          /\ dst' = Remove(dst, Path)
          /\ Goto("create") /\ NoQuestion
       \/ /\ answer # "SkipFile"
          /\ Fails
          /\ Goto("close") /\ Ask("WriteError")
          /\ UNCHANGED dst
    /\ UNCHANGED <<fixed, src, todo, opResult, isStopped, status>>

\* Creates the file, opens it and the source.
Create ==
    /\ At("create")
    /\ \/ /\ HasParent(Path)
          /\ Works
          /\ dst' = [dst EXCEPT ![Path] = "part"]
          /\ Goto("data") /\ NoQuestion
       \/ /\ IF HasParent(Path) THEN Fails ELSE Works
          /\ Goto("close") /\ Ask("WriteError")
          /\ UNCHANGED dst
       \/ /\ HasParent(Path)
          /\ Fails
          /\ dst' = [dst EXCEPT ![Path] = "part"]
          /\ (Goto("close") /\ Ask("ReadError")) \/ (Return /\ Ask("WriteError"))
    /\ UNCHANGED <<fixed, src, todo, opResult, isStopped, status>>

\* The loop over the blocks, left early when stopped or when a call fails, and
\* the chmod that follows it.
Data ==
    /\ At("data")
    /\ Return
    /\ \/ /\ Works
          /\ dst' = IF isStopped THEN dst ELSE [dst EXCEPT ![Path] = "file"]
          /\ NoQuestion
       \/ /\ Fails
          /\ dst' = IF isStopped THEN dst ELSE [dst EXCEPT ![Path] = "file"]
          /\ Ask("AttributesUnchangeable")
       \/ /\ Fails
          /\ ~isStopped
          /\ UNCHANGED dst
          /\ Ask("ReadError") \/ Ask("WriteError")
    /\ UNCHANGED <<fixed, src, todo, opResult, isStopped, status>>

\* copyRegularEnd with handles that hold whatever was on the stack.
CloseUninitialised ==
    /\ At("close")
    /\ Return
    /\ status' \in {"running", "crashed"}
    /\ UNCHANGED <<fixed, files, comm, todo, opResult, isStopped, faults>>

-----------------------------------------------------------------------------
(* CopyDirectory, of a directory in the trees or of one that a link points to. *)

\* What CopyFile returns is looked at for a listed file only.
ReturnNO == opResult' = (opResult /\ Path \notin Listed)

MakeDirectory(made, answered, contents) ==
    /\ \/ /\ dst[Path] \notin {"none", "dir"}
          /\ Works
          /\ Goto(answered) /\ Ask("FileExists")
          /\ UNCHANGED <<dst, opResult>>
       \/ /\ dst[Path] = "dir"
          /\ Works
          /\ Goto(contents) /\ NoQuestion
          /\ UNCHANGED <<dst, opResult>>
       \/ /\ dst[Path] = "none" /\ HasParent(Path)
          /\ Works
          /\ dst' = [dst EXCEPT ![Path] = made]
          /\ Goto(contents) /\ NoQuestion
          /\ UNCHANGED opResult
       \/ /\ dst[Path] = "none"
          /\ IF HasParent(Path) THEN Fails ELSE Works
          /\ Return /\ ReturnNO /\ Ask("WriteError")
          /\ UNCHANGED dst
    /\ UNCHANGED <<fixed, src, todo, isStopped, status>>

\* The file in the way is removed, but no directory is created in its place.
ReplaceFile(contents) ==
    /\ \/ /\ answer = "SkipFile"
          /\ Works
          /\ Return /\ ReturnNO /\ NoQuestion
          /\ UNCHANGED dst
       \/ /\ answer # "SkipFile"
          /\ Works
          /\ dst' = Remove(dst, Path)
          /\ Goto(contents) /\ NoQuestion
          /\ UNCHANGED opResult
       \/ /\ answer # "SkipFile"
          /\ Fails
          /\ Goto(contents) /\ Ask("WriteError")
          /\ UNCHANGED <<dst, opResult>>
    /\ UNCHANGED <<fixed, src, todo, isStopped, status>>

Directory == At("dir") /\ MakeDirectory("dir", "dirAnswered", "contents")
DirectoryAnswered == At("dirAnswered") /\ ReplaceFile("contents")

LinkedDirectory == At("linkedDir") /\ MakeDirectory("linkedDir", "linkedDirAnswered", "elsewhere")
LinkedDirectoryAnswered == At("linkedDirAnswered") /\ ReplaceFile("elsewhere")

\* The children that are there are copied one after the other, then chmod.
Contents ==
    /\ At("contents")
    /\ \/ /\ Works
          /\ work' = [i \in DOMAIN Kids[Path] |-> [do |-> "file", path |-> Kids[Path][i]]]
                     \o <<[do |-> "chmod", path |-> Path]>> \o Tail(work)
          /\ NoQuestion
          /\ UNCHANGED opResult
       \/ /\ Fails
          /\ Return /\ ReturnNO /\ Ask("ReadError")
    /\ UNCHANGED <<fixed, files, todo, isStopped, status>>

\* CopyFile for a child that is there; its result is not looked at.
File ==
    /\ At("file")
    /\ IF isStopped \/ src[Path] = "none" THEN Return ELSE Goto(StepFor(src[Path]))
    /\ UNCHANGED <<fixed, files, comm, todo, opResult, isStopped, faults, status>>

Chmod ==
    /\ At("chmod")
    /\ Return
    /\ \/ dst[Path] # "none" /\ Works /\ NoQuestion
       \/ (IF dst[Path] = "none" THEN Works ELSE Fails) /\ Ask("AttributesUnchangeable")
    /\ UNCHANGED <<fixed, files, todo, opResult, isStopped, status>>

\* Mutant of LinkedContents: isStopped is not looked at in the loop over the contents.
MutantLinkedContents ==
    /\ At("elsewhere")
    /\ \E p \in Elsewhere : Ask(p)
    /\ UNCHANGED <<fixed, files, todo, work, opResult, isStopped, faults, status>>

\* The contents of a directory that a link points to, which may be or hold such links
\* in their turn: as long as the tool is not stopped there may be more to copy, and to
\* ask about.  Once it is stopped only the calls that are open come to their ends,
\* with at most one question that no failing call is the reason for.
LinkedContents ==
    /\ At("elsewhere")
    /\ \/ /\ Works /\ ~isStopped
          /\ \E p \in Elsewhere : Ask(p)
          /\ UNCHANGED <<work, opResult, status>>
       \/ /\ Fails
          /\ \E p \in Elsewhere : Ask(p)
          /\ UNCHANGED <<work, opResult, status>>
       \/ /\ Works
          /\ Goto("chmod") /\ (NoQuestion \/ \E p \in Elsewhere : Ask(p))
          /\ UNCHANGED <<opResult, status>>
       \/ /\ Fails
          /\ Return /\ ReturnNO /\ Ask("ReadError")
          /\ UNCHANGED status
       \/ /\ Works
          /\ status' = "crashed"
          /\ NoQuestion
          /\ UNCHANGED <<work, opResult>>
    /\ UNCHANGED <<fixed, files, todo, isStopped>>

\* Sockets, devices and files that are gone.
Unknown ==
    /\ At("unknown")
    /\ Return
    /\ ReturnNO
    /\ Ask("UnknownFile")
    /\ UNCHANGED <<fixed, files, todo, isStopped, faults, status>>

-----------------------------------------------------------------------------
(* CopySymbolicLink and DuplicateSymbolicLink. *)

Link ==
    /\ At("link")
    /\ Goto("linkAnswered")
    /\ Ask("SymlinkEncountered")
    /\ UNCHANGED <<fixed, files, todo, opResult, isStopped, faults, status>>

\* DuplicateSymbolicLink does not look at what a listed link points to.
InDuplicate == op = "Duplicate" /\ Path \in Listed

\* A link to the directory itself is always linked again.  Whether the original
\* exists is looked up from the tool's own directory: a relative link may seem
\* dangling, or not.
LinkAnswered ==
    /\ At("linkAnswered")
    /\ \/ /\ src[Path] = "dotLink" /\ ~InDuplicate
          /\ Works
          /\ Goto("newLink") /\ NoQuestion
       \/ /\ src[Path] # "dotLink" \/ InDuplicate
          /\ answer = "CopyOriginal"
          /\ Works
          /\ Goto("original") /\ NoQuestion
       \/ /\ src[Path] # "dotLink" /\ ~InDuplicate
          /\ answer = "CopyOriginal"
          /\ Works
          /\ Goto("linkAnswered") /\ Ask("SymlinkTargetNotExist")
       \/ /\ src[Path] # "dotLink" \/ InDuplicate
          /\ answer = "NewLink"
          /\ Works
          /\ Goto("newLink") /\ NoQuestion
       \/ /\ src[Path] # "dotLink" \/ InDuplicate
          /\ answer \in {"SkipFile", "Stop"}
          /\ Works
          /\ Return /\ NoQuestion
       \/ /\ InDuplicate
          /\ Fails
          /\ Return /\ Ask("ReadError")
    /\ UNCHANGED <<fixed, files, todo, opResult, isStopped, status>>

\* CopyFile with traverseLink: the original is a regular file, a directory, or missing.
Original ==
    /\ At("original")
    /\ Goto(CASE src[Path] = "link"                   -> "regular"
              [] src[Path] \in {"dirLink", "dotLink"} -> "linkedDir"
              [] OTHER                                -> "unknown")
    /\ UNCHANGED <<fixed, files, comm, todo, opResult, isStopped, faults, status>>

NewLink ==
    /\ At("newLink")
    /\ \/ /\ dst[Path] # "none"
          /\ Works
          /\ Goto("newLinkAnswered") /\ Ask("FileExists")
       \/ /\ dst[Path] = "none"
          /\ Works
          /\ Goto("makeLink") /\ NoQuestion
       \/ /\ op # "Link" /\ ~InDuplicate
          /\ Fails
          /\ Return /\ Ask("ReadError")
    /\ UNCHANGED <<fixed, files, todo, opResult, isStopped, status>>

\* Also LinkOperation, after its own question.
NewLinkAnswered ==
    /\ At("newLinkAnswered")
    /\ \/ /\ answer = "SkipFile"
          /\ Works
          /\ Return /\ NoQuestion
          /\ UNCHANGED dst
       \/ /\ answer # "SkipFile"
          /\ Works
          /\ dst' = Remove(dst, Path)
          /\ Goto("makeLink") /\ NoQuestion
       \/ /\ answer # "SkipFile"
          /\ Fails
          /\ Return /\ Ask("WriteError")
          /\ UNCHANGED dst
    /\ UNCHANGED <<fixed, src, todo, opResult, isStopped, status>>

MakeLink ==
    /\ At("makeLink")
    /\ Return
    /\ \/ /\ HasParent(Path)
          /\ Works
          /\ dst' = [dst EXCEPT ![Path] = "newLink"]
          /\ NoQuestion
       \/ /\ IF HasParent(Path) THEN Fails ELSE Works
          /\ Ask("WriteError")
          /\ UNCHANGED dst
    /\ UNCHANGED <<fixed, src, todo, opResult, isStopped, status>>

-----------------------------------------------------------------------------
(* MoveOperation and DeleteOperation. *)

Move ==
    /\ At("move")
    /\ IF dst[Path] # "none"
       THEN Goto("moveAnswered") /\ Ask("FileExists")
       ELSE Goto(IF sameFS THEN "rename" ELSE "crossCopy") /\ NoQuestion
    /\ UNCHANGED <<fixed, files, todo, opResult, isStopped, faults, status>>

MoveAnswered ==
    /\ At("moveAnswered")
    /\ \/ /\ answer = "SkipFile"
          /\ Works
          /\ Return /\ NoQuestion
          /\ UNCHANGED dst
       \/ /\ answer # "SkipFile"
          /\ Works
          /\ dst' = Remove(dst, Path)
          /\ Goto(IF sameFS THEN "rename" ELSE "crossCopy") /\ NoQuestion
       \/ /\ answer # "SkipFile"
          /\ Fails
          /\ Return /\ Ask("DeleteError")
          /\ UNCHANGED dst
    /\ UNCHANGED <<fixed, src, todo, opResult, isStopped, status>>

\* rename(2) of `from'/p over `to'/p.
CanRename(from, to, p) ==
    /\ from[p] # "none"
    /\ \/ to[p] = "none"
       \/ to[p] # "dir" /\ from[p] # "dir"
       \/ to[p] = "dir" /\ from[p] = "dir" /\ \A q \in Below(p) \ {p} : to[q] = "none"

Renamed(from, to, p) == [q \in Paths |-> IF q \in Below(p) THEN from[q] ELSE to[q]]

Rename ==
    /\ At("rename")
    /\ Return
    /\ \/ /\ Works
          /\ CanRename(src, dst, Path)
          /\ dst' = Renamed(src, dst, Path)
          /\ src' = Remove(src, Path)
          /\ NoQuestion
       \/ /\ Fails
          /\ Ask("MoveError")
          /\ UNCHANGED files
    /\ UNCHANGED <<fixed, todo, opResult, isStopped, status>>

\* The CopyOperation for one file: unless stopped, the file, then its end.
CrossCopy ==
    /\ At("crossCopy")
    /\ opResult' = TRUE
    /\ LET end == <<[do |-> "copied", path |-> Path]>> \o Tail(work) IN
       work' = IF isStopped THEN end
               ELSE <<[do |-> StepFor(src[Path]), path |-> Path]>> \o end
    /\ UNCHANGED <<fixed, files, comm, todo, isStopped, faults, status>>

\* CopyOperation's cleanup, then the source is deleted if it answered YES.
Copied ==
    /\ At("copied")
    /\ \/ /\ isStopped /\ makeCleanupOnStop
          /\ \E stuck \in SUBSET Below(Path) :
                Clears(stuck) /\ dst' = RemoveBut(dst, Path, stuck)
       \/ /\ ~(isStopped /\ makeCleanupOnStop)
          /\ Works
          /\ UNCHANGED dst
    /\ IF opResult THEN Goto("delete") ELSE Return
    /\ UNCHANGED <<fixed, src, comm, todo, opResult, isStopped, status>>

\* Mutant of Delete: it does not stop.
MutantDelete ==
    /\ At("delete")
    /\ Return
    /\ src' = Remove(src, Path)
    /\ UNCHANGED <<fixed, dst, comm, todo, opResult, isStopped, faults, status>>

\* DeleteOperation: removeFileAtPath: with a handler.
Delete ==
    /\ At("delete")
    /\ \/ /\ isStopped
          /\ Works
          /\ Return /\ NoQuestion
          /\ UNCHANGED src
       \/ /\ ~isStopped
          /\ Works
          /\ Return /\ NoQuestion
          /\ src' = Remove(src, Path)
       \/ /\ ~isStopped
          /\ Fails
          /\ Goto("deleteFailed") /\ Ask("DeleteError")
          /\ UNCHANGED src
    /\ UNCHANGED <<fixed, dst, todo, opResult, isStopped, status>>

\* The handler asks at each error and always goes on: the other files below are
\* removed, and a directory that is not empty then is an error of its own.
DeleteFailed ==
    /\ At("deleteFailed")
    /\ \/ /\ Fails
          /\ Ask("DeleteError")
          /\ UNCHANGED <<src, work>>
       \/ /\ Works
          /\ \E stuck \in SUBSET Below(Path) \ {{}} :
                /\ src' = RemoveBut(src, Path, stuck)
                /\ IF stuck = {Path} THEN NoQuestion ELSE Ask("DeleteError")
          /\ Return
    /\ UNCHANGED <<fixed, dst, todo, opResult, isStopped, status>>

-----------------------------------------------------------------------------
(* main() and the operations' loops. *)

\* Copy and Duplicate begin with CopyFile, the others with what they do themselves.
FirstStep(f) ==
    CASE op \in {"Copy", "Duplicate"} -> StepFor(src[f])
      [] op = "Move"                  -> "move"
      [] op = "Link"                  -> "newLink"
      [] op = "Delete"                -> "delete"

\* Mutant of LoopGoesOn: off by one.
MutantLoopGoesOn == Len(todo) > 1 /\ ~isStopped /\ (op = "Copy" => opResult)

LoopGoesOn == todo # <<>> /\ ~isStopped /\ (op = "Copy" => opResult)

NextFile ==
    /\ status = "running" /\ asking = NoProblem /\ work = <<>>
    /\ LoopGoesOn
    /\ todo' = Tail(todo)
    /\ work' = <<[do |-> FirstStep(Head(todo)), path |-> Head(todo)]>>
    /\ UNCHANGED <<fixed, files, comm, opResult, isStopped, faults, status>>

\* Mutant of CleanUp: only the last file begun is cleaned up.
MutantCleanUp ==
    LET last == Names[Len(Names) - Len(todo)] IN
    /\ dst' = IF Len(todo) = Len(Names) THEN dst ELSE Remove(dst, last)
    /\ UNCHANGED <<src, faults>>

\* CleanUpAfterCopy, -Duplicate and -Link remove every listed target, CleanUpAfterMove
\* renames every listed target back, as far as they can.
RemoveTargets ==
    \E stuck \in SUBSET Paths :
        /\ Clears(stuck)
        /\ dst' = [p \in Paths |-> IF Below(p) \cap stuck = {} THEN "none" ELSE dst[p]]
        /\ UNCHANGED src

RenameBack ==
    \E stuck \in SUBSET Listed :
        LET back == {f \in Listed \ stuck : sameFS /\ CanRename(dst, src, f)}
            moved == UNION {Below(f) : f \in back} IN
        /\ Clears(stuck)
        /\ src' = [p \in Paths |-> IF p \in moved THEN dst[p] ELSE src[p]]
        /\ dst' = [p \in Paths |-> IF p \in moved THEN "none" ELSE dst[p]]

CleanUp ==
    CASE op \in {"Copy", "Duplicate", "Link"} -> RemoveTargets
      [] op = "Move"                          -> RenameBack
      [] op = "Delete"                        -> UNCHANGED <<files, faults>>

\* The loop is over; isStopped is read once more.  (The blocks that CopyRegular
\* releases once too often are touched again when main() drains its pool, after the
\* last file operation: that crash looks like an end.)
Finish ==
    /\ status = "running" /\ asking = NoProblem /\ work = <<>>
    /\ ~LoopGoesOn
    /\ status' = "finished"
    /\ IF isStopped /\ makeCleanupOnStop THEN CleanUp ELSE UNCHANGED <<files, faults>>
    /\ UNCHANGED <<fixed, comm, todo, work, opResult, isStopped>>

Step ==
    \/ Answer
    \/ NextFile \/ Finish
    \/ File \/ Unknown
    \/ Regular \/ RegularAnswered \/ Create \/ Data \/ CloseUninitialised
    \/ Directory \/ DirectoryAnswered \/ Contents \/ Chmod
    \/ Link \/ LinkAnswered \/ Original \/ NewLink \/ NewLinkAnswered \/ MakeLink
    \/ LinkedDirectory \/ LinkedDirectoryAnswered \/ LinkedContents
    \/ Move \/ MoveAnswered \/ Rename \/ CrossCopy \/ Copied \/ Delete \/ DeleteFailed

Next == Step \/ Interrupt

Spec == Init /\ [][Next]_vars

\* The tool gets the processor, and Workspace answers its questions.
FairSpec == Spec /\ WF_vars(Step)

-----------------------------------------------------------------------------
(* Properties. *)

\* Until the first question the tool has met no problem.
NoProblemMet == makeCleanupOnStop /\ asking = NoProblem

EmptyTarget == \A p \in Paths : dst0[p] = "none"

\* A move never loses a file's data, in whatever state it is stopped: each file is
\* still at its place or completely at the other.  Not so when a move to another
\* file system met a problem, or when the cleanup finds targets that were there
\* before (see the properties at the end).
MoveKeepsData ==
    op = "Move" /\ (sameFS \/ NoProblemMet) /\ EmptyTarget =>
        \A p \in Paths : src0[p] = "file" => "file" \in {src[p], dst[p]}

\* What a run that met no problem and was not stopped leaves: CopyOperation copied
\* everything, MoveOperation moved it, LinkOperation linked it, DeleteOperation
\* deleted it.
CopyOf(t) == [p \in Paths |-> IF t[p] \in {"file", "dir"} THEN t[p] ELSE dst0[p]]
Nothing == [p \in Paths |-> "none"]

CompletesFaithfully ==
    status = "finished" /\ NoProblemMet /\ ~isStopped =>
        CASE op \in {"Copy", "Duplicate"} -> src = src0 /\ dst = CopyOf(src0)
          [] op = "Move"                  -> src = Nothing /\ dst = src0
          [] op = "Link"                  -> src = src0 /\ \A f \in Listed : dst[f] = "newLink"
          [] op = "Delete"                -> src = Nothing /\ dst = dst0

\* A stop before the first problem leaves nothing of the operation behind, wherever in
\* the list and in a file it comes, if no call of the cleanup fails: nothing half copied
\* stays, no copy and no link; with nothing in its way, a move is taken back.  A target
\* that was there before is as it was or lost, which CleanUpRemovesTheCreated below is
\* about; a file moved to another file system stays there, a deleted one stays deleted.
StopUndoes ==
    status = "finished" /\ NoProblemMet /\ isStopped /\ faults = 0 =>
        /\ \A p \in Paths : dst[p] # "part"
        /\ op \in {"Copy", "Duplicate", "Link"} =>
                src = src0 /\ \A p \in Paths : dst[p] \in {"none", dst0[p]}
        /\ op = "Move" /\ sameFS /\ EmptyTarget => src = src0 /\ dst = Nothing

\* While the user has consented to no overwriting and has not stopped the tool,
\* what was at the target before stays as it was: Skip, an error and a default
\* action never destroy it.
TargetsNeedConsent ==
    ~consent /\ ~isStopped =>
        \A p \in Paths : dst0[p] # "none" => dst[p] = dst0[p]

\* The tool ends, however it is answered; what a link to a directory leads to may have
\* no end (the link may lead to a directory above it), but a stop ends that as well.
Ends ==
    \/ <>(status # "running")
    \/ <>[](~isStopped /\ work # <<>> /\ Top.do = "elsewhere")

-----------------------------------------------------------------------------
(* What the repository says of the tool, and the code does not do. *)

\* Copy.m:61 "We received SIGTERM signal or 'Stop' command", 62 "Remove created
\* duplicates and exit": what is removed was created.
CleanUpRemovesTheCreated ==
    status = "finished" /\ NoProblemMet /\ isStopped /\ op \in {"Copy", "Duplicate", "Link"} =>
        \A p \in Paths : dst0[p] # "none" => dst[p] = dst0[p]

\* Move.m:107, the same comment: a stop does not make the source anything else.
CleanUpKeepsTheSource ==
    status = "finished" /\ NoProblemMet /\ isStopped /\ op = "Move" =>
        \A p \in Paths : src[p] \in {"none", src0[p]}

\* Move.m:96 "Copy then Delete": only what was copied is deleted.
DeletesOnlyWhatWasCopied ==
    [][op = "Move" /\ ~sameFS =>
        \A p \in Paths : src[p] = "file" /\ src'[p] = "none" => dst[p] = "file"]_vars

=============================================================================
