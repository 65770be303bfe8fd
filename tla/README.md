# NEXTSPACE: a verification project for the Workspace and its helpers

TLA+ modules that model the parts of NEXTSPACE where steps of several actors
meet, or where a long sequence of legal steps may spoil a shared structure:
background file operations, the tool that carries them out, the list of running
applications and Log Out; and, in the window manager that runs inside
Workspace, the stacking order, the windows with their applications and
workspaces, the container those rest on, and the timers of the event loop. TLC
checks them on small instances, and TLAPS checks proofs of what matters most
about file operations, their tool, Log Out, the stacking order, the windows and
the timers. Paths below are
relative to `src/Applications/Workspace/` unless they begin with `src/`.

## The system

NEXTSPACE is a desktop: a login manager, a Workspace (file manager, launcher,
dock, window manager in one process), frameworks below them and small
applications beside them.

| component | state | operations | talks to |
|---|---|---|---|
| **File operation** `Operations/FileMover.m`, `BGOperation.m` | state, problem, suspended?, sizer or mover, a pipe each way, a truncated line | start sizer, start mover, `-readInput:`, `-pause:`, `-stop:`, `-postSolution:`, end of a task, destroy | its two tools (pipes, SIGSTOP, SIGINT, child's end), ProcessManager (notifications), panel |
| **FileMover.tool** `Tools/FileMover/*.m`, `Tools/Communicator.m` | two directory trees, `isStopped`, `makeCleanupOnStop`, a default answer for each problem | Copy, Duplicate, Move, Link, Delete, questions, cleanup | Workspace (stdin, stdout, SIGINT), the file system |
| **ProcessManager** `Operations/ProcessManager.m` | `applications`, `operations`, `_workspaceQuitting` | launch, end, end of a subprocess, operation created, destroyed, changed, terminate all | the panel, the Controller, gdnc, the window manager's thread |
| **Log Out** `Controller.m` | `isQuitting`, where it is | `-applicationShouldTerminate:` | ProcessManager, every application |
| **X11 applications** `Workspace+WindowMaker.m` | Window Maker's windows | created, closed a window, destroyed | ProcessManager, from another thread |
| **Processes panel** `Processes/*.m` | selected rows | Kill, Suspend, Stop, alert buttons | ProcessManager, operations |
| Sizer operation and Sizer.tool `Operations/Sizer.m`, `Tools/Sizer` | totals | start, read, stop, end | its tool |
| Mounter and media notifications `Operations/Mounter.m`, `Controller.m` | an operation for each device | start, end | NXSystem |
| Removable media `src/Frameworks/NXSystem/NXUDisks*.m` | drives, volumes, `needsDetach` | mount, unmount, eject | udisksd, Mounter |
| File system monitor `src/Frameworks/NXSystem/NXFileSystemMonitor*.m` | watches with counts, started, paused, stopped, terminated | start, pause, resume, stop, terminate, addPath, removePath | its thread (one-way messages) |
| Login `src/Applications/Login` | sessions | authenticate, open session, run scripts, close | PAM, X server |
| **Stacking order** `WindowMaker/src/stacking.c` | a doubly linked list for each window level, the X server's order, `child_of`, `window_count` | raise (recursive), lower, change of level, move under, create, destroy, client's restack, bounce | the X server, dock, window handlers |
| **Windows, applications, workspaces** `WindowMaker/src/{window,actions,event,workspace,application}.c` | the focus list, flags of every window, applications and their leaders, the current workspace, the event queue | map request, map, unmap and destroy notify, focus, iconify, deiconify, hide, unhide, send, change of workspace | the X server, clients, Workspace |
| **Bags** `WindowMaker/WINGs/bagtree.c` | a red-black tree with a sentinel | put, insert, delete, erase, replace, empty, walk | the stacking order keeps its lists in one |
| **Timers, event loop** `WindowMaker/WINGs/{handlers,wevent}.c` | a queue of handlers, sorted by time | start, stop, walk, sweep, wait | everyone who starts a timer; select(2) |
| Viewers, Recycler, Inspectors, Launcher, Preferences, Terminal, TextEdit, Review, TimeMon, Weather, OpenUp, NXFoundation, NXAppKit | user interface | | |
| The rest of Window Maker (dock, menus, moves, defaults, drawing) and of WINGs, libraries, build recipes | third party, sequential | | |

What is hard: Workspace's main thread is an event loop, but everything it
controls runs beside it. A helper tool asks a question, blocks, and may be
suspended, stopped, killed or answered in any order; pipes deliver half lines;
Log Out works through lists that change under it; an application may end,
crash, or refuse; X11 applications report from another thread. A file operation may be stopped
between any two system calls and must then undo what it did and nothing else,
with calls that may fail in their turn. The window manager handles one event at
a time on a thread of its own (but Workspace's main thread calls
`AddToStackList` and `RemoveFromStackList` beside it), yet three of its handlers
serve other events in their middle (`ProcessPendingEvents`), clients take their windows away at any
time, timer callbacks change the queue that is being walked, and the order of
the frames is kept twice, here and in the X server, which is told of one frame
at a time.

What makes each part correct:

* a file operation: no question lost, no answer taken for another, no tool left
  suspended or running when the operation leaves the list, and it leaves the
  list at last;
* the tool: no file lost by a move, nothing overwritten without consent, nothing
  half done after a stop that comes before the first question, everything done
  when nothing went wrong;
* ProcessManager: what runs is listed, what is listed runs or is about to be
  noticed gone; Log Out leaves nothing it knows of behind, and is answered unless
  somebody it waits for never replies;
* the stacking order: the lists stay lists, the server shows what they say,
  transients stay over their owners, a raise ends, and what one sees changes by
  one frame at a time;
* the windows: one focus, and it is the head of the list; no window that ought
  to be seen stays away; what is hidden can be shown again as long as its
  application is there; an application goes with its leader;
* a bag is what its header describes; timers fire when they are due, not
  after they were stopped, and nobody keeps the address of a freed one;
* (not modelled) media operations end; eject detaches once, and only when asked
  to; the monitor is never both paused and stopped; a session is closed once.

`PROJECT.json` lists every component, modelled or not, and under "hazards" the
places where the code can go wrong in a way a test would hardly reach.

## The modules

| module | models | 
|---|---|
| `AlertProtocol` | the letters between Workspace and the tool, both sides |
| `BGOperation` | abstract: what Workspace relies on from any background operation |
| `FileMover` | one file operation, its sizer and its mover |
| `FileMoverProofs` | theorems about `FileMover` |
| `FileTool` | what FileMover.tool does to the files |
| `FileToolProofs`, `FileOutcomeProofs` | theorems about `FileTool` |
| `ProcessManager` | the two lists, Log Out and Power Off |
| `ProcessManagerProofs` | theorems about `ProcessManager` |
| `StackOrder` | abstract: what one sees of the stacking order |
| `Stacking` | the lists of `stacking.c` and the server's order |
| `StackingProofs` | theorems about `Stacking` |
| `WindowManager` | windows, applications, workspaces, and events within events |
| `WindowManagerProofs`, `WindowsProofs` | theorems about `WindowManager` |
| `Bag` | abstract: the ordered elements that `WUtil.h` promises |
| `BagTree` | the red-black tree of `bagtree.c`, pointer by pointer |
| `Timers` | the queue of timers under `WMNextEvent` |
| `TimersProofs` | theorems about `Timers` |
| `MC...` | instances for TLC, with the `.cfg` of the same name |

`FileMover` and `FileTool` share `AlertProtocol` and divide the tool between
them: `FileMover` sees it as a process that asks, waits, goes on and ends;
`FileTool` sees the files, and Workspace as someone who gives any answer that
the protocol accepts, at any time, and may send SIGINT. `ProcessManager` sees
an operation only come and go: when it goes is the matter of `FileMover`'s
`EndsUnlessStranded`, and what it may do in between is `BGOperation`.
`Stacking` takes the bag of its lists as what `Bag` says it is, and `BagTree`
says when it is that. `WindowManager` and `Stacking` divide the frames: which
are there and mapped, and which is over which.

### FileMover

The variables of `opVars` are the ivars of BGOperation and FileMover (`timer`
is the one-second timer to `-destroyOperation`, `dataWait` is the pending
`waitForDataInBackgroundAndNotify`, `listed` is membership in ProcessManager's
list); `sizer`, `mover` and `frozen` are the processes; `question`, `defaults`
and `isStopped` belong to the tool; `output` and `answers` are the two pipes,
with alert lines and letters as their elements. Progress lines are left out:
they change no state that the properties speak of.

`quitting` says what Log Out does: nothing, waiting for the operation ("wait",
after Cancel and Review), or waiting after it has sent `-stop:` ("stop"). While
it waits, in `-[NSRunLoop runUntilDate:]`, pipes, timers and notifications are
served but no click is dispatched (`ClicksAreServed`).

One action per handler: `UserPause` (`-pause:`), `UserStop` and `LogoutStop`
(`-stop:`, from the button or from Log Out), `LogoutWait`, `UserAnswer` (`-postSolution:`),
`ReadInput` (`-readInput:`), `SizerTaskTerminated`, `TaskTerminated`,
`DestroyOperation`; and one per step of the tools. A read that ends inside a
line is the parameter `split`: the code handles the piece at once and again
with its rest. Writing to a tool that has died raises before anything is
assigned; SIGINT to a tool that has not reached `isStopped = NO` kills it or
is forgotten. A tool may die at any time, which covers `kill -9`, exceptions,
and the uninitialised handles that `CopyRegular` closes when it skips a file.

### FileTool

`src` and `dst` say what is at each path of two trees of height two (a listed
directory has children, which are not directories). The C call stack is `work`,
a sequence of pieces of code between two points where `isStopped` is read or a
question is asked. `Copy`, `Duplicate` and the copy half of a `Move` to another
file system share the actions from `Regular` to `MakeLink`; `Move`,
`Rename`, `CrossCopy`, `Copied`, `Delete` and `DeleteFailed` are the rest.
`Answer` is `-howToHandleProblem:`. A failing system call is a disjunct guarded
by `Fails`; the calls of a cleanup may fail as well, each for itself, and leave
what they were to take away (`Clears`, `RemoveBut`, `RenameBack`), with no
question asked. Data is "file" (complete), "part", or "old" (what was at the
target before).

A link may point to a file, to nothing, to its own directory or to another
directory. The copy of the last (`LinkedDirectory`) is of files outside the
listed tree, of any number and depth, for the link may point to a directory
above it: `LinkedContents` asks the questions that `Elsewhere` allows and goes
on, and ends when there is no more, when a call fails, when the tool is stopped,
or in a crash.

### ProcessManager

A GNUstep application's launch and orderly end are notifications that wait in
`gdnc`; a crash announces nothing. An X11 application is announced when its
first window appears (`WindowDidAppear`). `WindowDidClose` (a PID without a
process is dropped) comes when any of its windows is destroyed, and
`WindowsAreGone` (the entry is removed) when its leader window is, whether the
process has ended or lives on, and perhaps makes another leader: `withdrawn`
remembers whose was destroyed. The PIDs of `Anonymous` instances are unknown,
which the code writes as "-1". `ShowApp` is the click on a row, which alone
decides whether there is a Kill button: `killable` is the entry it would kill,
and a removal from the list may put another entry into the selected row.

`Quit`, `AnswerPanel`, `WaitIsOver`, `QuitNext` and `AppsTerminated` are
the stages of `-applicationShouldTerminate:`. Between stages everyone else may
step: processes and the window manager's thread always, the run loop (new and
finished operations) only while Workspace is idle or waits for the operations.
"Stop and quit" may end in an exception, when the tool of an operation with an
alert is dead (`StopRaises`); the session goes on in phase "aborted".
`QuitNext` is one turn of the loop of `-terminateAllApps`. The panel that
reports a refusal and the reset of `isQuitting` after it are one step with the
refusal. The list is a set, so the order in which Log Out comes to the
applications, and in which the panel shows them, is left open. `known`, `crashed`,
`ignored` and `withdrawn` are history.

### Stacking and StackOrder

`links` holds `stack->above`, `stack->under` and `scr->stacking_list`; every
operation is written as the code writes it, pointer by pointer, and then tells
the server: `over` is the relation "is drawn over" that results. `CommitStacking`
gives it the order of the lists (`ListOrder`), `CommitStackingForWindow` moves
one frame (`PlaceFrame`), `moveFrameToUnder` likewise. Window Maker handles one
event at a time, so an operation is one step (`Idle`; that Workspace's main
thread adds and removes the frames of launching icons meanwhile,
`Workspace+WindowMaker.m:1030`, `1044`, `1090` and `1103`, is left out); only `wRaiseFrame`, which calls
itself for each transient and starts over after each call, is a step for each
call and each return, with `raising` as its stack, and `MoveInStackListUnder`,
which has two halves. A level is cut to the short that `WStacking` keeps
(`Short`): `WMBackLevel`, INT_MIN + 1, becomes 1, and the model's levels may be of any
width. A client's `XConfigureWindow` (`ClientRestack`) and a bouncing icon
(`BounceTick`, `BounceEnd`) move frames in the server without the lists.

`StackOrder` is what someone at the screen may rely on: one order, by levels,
that changes by one frame that comes, goes or moves. `OneFrameAtATime` is the
refinement; its mapping takes the level from what the code stored.

### WindowManager

The screen is one record, `s`, because the handlers are functions over it: each
operator takes a screen and returns the next, as each function of the code
changes its `WScreen`. The event queue is in it. `calls` are the handlers that
wait within `ProcessPendingEvents`, with what they have read before it and will
use after it; `left` is the number of events that were pending when they began,
for the code serves so many. A window that is withdrawn and managed again is
another WWindow at, possibly, another address: a pointer names the window and
which of its lives it means. Where the code goes on with memory that is not
there, the model stops, and `crashed` says at what.

Handlers: `HandleMapRequest`, `HandleMapNotify`, `HandleUnmapNotify`,
`HandleDestroyNotify`, `HandleFocus`, `HandleIconify`, `HandleDeiconify`,
`HandleHide`, `HandleUnhide`, `HandleSend`, `HandleWorkspace`; second halves:
`ResumeWorkspace`, `ResumeIconify`, and the cases in which what was read is
gone. `User`, `ClientMaps`, `ClientWithdraws` and `ClientDestroys` put events into
the queue; `BounceEnds` is the timer that lets go of an application whose icon
still bounces when its leader is destroyed.

### BagTree and Bag

Every function of `bagtree.c` is an operator over the record `tree`, in the order
of its assignments, because the sentinel is written as well: rotations store a
parent in it, and the repair after a deletion goes on from there. `child` is
indexed by the side, where the code spells left and right out. `items` is what a
walk finds, `destroyed` what the last call handed to the destructor. `WMPutInBag`
takes the number of elements for an index without a search (`Put`), so that
elements may share an index; `treeSearch` then finds the one that is higher in
the tree. `SetNull` is `WMReplaceInBag` with NULL; where nothing is, it deletes the
sentinel and frees it, and nothing follows. What operations do to a tree that is broken or out of order already is not
followed.

`Bag` is the promise of `WUtil.h`, with its words quoted: a sequence of elements
in the order of their indexes. It leaves open which of several elements under an
index a call means, and says nothing of the destructor.

### Timers

`queue` is `timerHandler`'s list, `timers` the fields of the handlers, `timerID`
what the owner of each timer keeps. `loop` is where `WMNextEvent` is: `Check`,
`Call`, `CallbackReturn` and `WalkEnds` are the first loop of
`W_CheckTimerHandlers`, `Requeue`, `Free` and `SweepEnds` its second, a turn at a
time; `Top` and `Unblock` are the wait. `StartTimer` and `StopTimer` happen in
event handlers and in callbacks, any number of them.

## The runs

Each takes less than four minutes on two cores.

* `file_mover`: two kinds of problem, three questions, one split read. With
  three questions an answer can be early, late or given by a default, and a
  stale answer can meet a later question; one split read is enough to duplicate
  a line. Invariants `AlertHasProblem`, `QuestionNotForgotten`,
  `OneMessageInFlight` (question and answer take turns while no line was
  split), `NoOrphanTool`, `FrozenIsKnown`; action property
  `StoppingOnlyEndsOrAsks`; refinement `ImplementsBGOperation`; liveness
  `EndsUnlessStranded`.
* `file_tool`: all five operations, on one and on two file systems, over a file or
  link and a directory with one child (plain or a socket), with nothing, a file or
  a directory at the targets; one failing call, any answers, SIGINT anywhere.
  Two listed files are what it takes for a stop between them, one child for a
  directory that is half done. Invariants `MoveKeepsData` (the cleanup with its
  failing calls included), `CompletesFaithfully`, `StopUndoes` (for cleanups whose
  calls succeed; a target that was there before is as it was or lost, see
  `CleanUpRemovesTheCreated` below), `TargetsNeedConsent`; liveness `Ends`: the tool
  ends, or copies what a link to a directory leads to for ever, and a stop ends
  that too.
* `process_manager`: Workspace, a GNUstep application, an X11 application with
  two instances of which one has no PID, and an operation that may come and go.
  Workspace is there first, so that every launch is announced. Invariants
  `KnownIsListed`, `StaleIsExplained`, `FlagsFollowLogOut` (on every path, the
  exception of `-stop:` included, which leaves `isQuitting` alone behind) and
  `NothingIsLeftBehind`; liveness `LogOutIsAnswered`: Log Out ends, goes back or is
  aborted, unless it waits for operations that stay listed or follow each other, or
  for an application that does not reply.
* `stacking`: three windows, any of them a transient of another, and a client
  that restacks. `Linked`, action property `TransientsStayOver`, liveness
  `RaiseEnds`, refinement `OneFrameAtATime` (of `StackOrder`).
* `stacking_icons`: a window and two dock icons, which move under each other,
  change their level and bounce. `CommitFits` (the array of `CommitStacking` is
  large enough and no frame is missed) and `ServerAgrees` (what the server was
  told, one frame at a time, adds up to the lists).
* `window_manager`: two windows of one application, one of them its leader, two
  workspaces, four acts of users and clients. `FocusedIsHead`, `NoWindowIsLost`,
  `HiddenHasApplication`, `NoOrphan`.
* `bag_tree`: five nodes under four indexes, two items; every sequence of
  operations, elements being taken from bags of three at most, in which the loop
  of `rbDeleteFixup` has nothing to repair. `IsBag` is the refinement of `Bag`: all
  insertions and rotations, elements that share an index, and the splicing of the
  successor. `InsertionBalances` says that an insertion keeps the tree red-black.
* `timers`: a one-shot and a persistent timer over three addresses.
  `QueueIsSound` (sorted, nothing dangles), action property `WalkIsExact`,
  liveness `OverdueFires`.

Deadlock is not checked in these runs because the systems do stop: an operation
that has left the list, a tool that has ended, a session that is over, a
screen on which nobody acts any more, a clock at its bound.

### Where the code does not do what its comments say

Each of these is a run that TLC must find violated, and a finding in
`PROJECT.json` with the quoted line:

* `logout_ends`: a tool that asks while Log Out stops it is sent SIGINT, which
  does not end its wait for an answer; its alert comes up, but Log Out's loop
  dispatches no clicks, and both wait for ever;
* `deletes_only_what_was_copied`: a move to another file system deletes what it
  failed to copy;
* `last_focused_is_managed`: an application that is shown again reads the window
  that had its focus when it was hidden, which may have been freed meanwhile;
* `bag_loses_elements`: erasing one of four elements of a bag can lose another,
  because the repair starts from a parent of the sentinel that a rotation wrote.
  A bag of three loses none, and a stacking order with three levels needs no
  more. Window Maker has more levels than three, and erases an emptied level
  from its bag, so `Stacking`, whose bag is a function of the levels, speaks of
  screens on which three of them are in use.

The models refute these properties as well, which the comments and the interface
of the code suggest. They are no findings of `PROJECT.json`; each has a
configuration, named after module and property, that finds the counterexample
(`tlc -config FileTool_CleanUpRemovesTheCreated.cfg MCFileTool.tla`):

* `CleanUpRemovesTheCreated` (`FileTool`): a stop of a copy, duplicate or link
  removes every listed target, those that the operation never created included,
  while `Copy.m:62` says "Remove created duplicates and exit";
* `CleanUpKeepsTheSource` (`FileTool`): a stop of a move renames every listed target
  back, a target that was there before over the file that was to be moved;
* `RunningIsListed` (`ProcessManager`): the end of one of two instances takes the
  other off the list, and Log Out does not come to it;
* `QuittingMeansLogOut` (`ProcessManager`): "Stop and quit" when an operation's tool
  is dead raises an exception on the way, and `isQuitting` stays set for good;
* `KillNeedsKnownPids` (`ProcessManager`): the Kill button stays enabled when the
  selected entry becomes one with the PID -1;
* `KeepsIndex` (`BagTree`): after an erasure `WMPutInBag` gives an index that is in
  use, and setting a later one changes which element is found under it;
* `DestroysTheErased` (`BagTree`): erasing an element with two children hands the
  item of another, which stays, to the destructor;
* `NullLeavesTheRest` (`BagTree`): setting NULL where nothing is empties the bag and
  frees the sentinel.

And the models show the following; the properties that hold are stated so that they
exclude exactly this:

* Stop while the sizer runs starts a mover that was never told to stop, with its
  buttons disabled (`EndsUnlessStranded` excepts it);
* Stop in the File Exists alert removes the file (`TargetsNeedConsent` is about
  tools that were not stopped);
* the first question switches the cleanup off, and a cleanup that fails is not
  noticed (`StopUndoes` excepts both);
* a crashed application refuses Log Out for ever (`StaleIsExplained`);
* Power Off leaves the applications alone, while the comment at `Controller.m:552`
  says that it does all that Log Out does: its call of `-terminateAllApps` is
  commented out (594-602), and `Quit("Power off")` says so;
* `child_of` of a transient is not cleared when its owner goes, and a new frame
  may get the owner's address: with `Reuse = TRUE` the model has two frames that
  are each other's transients, and `wRaiseFrame` never returns. The runs set
  `Reuse = FALSE`, without which `RaiseEnds` fails. The other properties of
  `Stacking` do not depend on it, and are proved for both values;
* a bouncing icon leaves the server's order different from the lists until the
  next `CommitStacking` (`unsettled`);
* the head of the focus list, an application or a window that was read before
  `ProcessPendingEvents` may be gone after it (`crashed` = "focused_window",
  "wapp", "wwin").

### Bounds

`MaxAsk`, `MaxSplits`, `MaxFaults` and `MaxNotices` bound questions, split
reads, failed calls and waiting notifications at the time of a Kill; they are guards of the actions that
would otherwise make the state space infinite, or large without new cases.

* `Stacking`: three frames make a transient of a transient, two transients of one
  owner, and two icons beside a window; three levels leave one empty between two
  others. `MaxDepth` bounds the calls of `wRaiseFrame` within each other and
  refuses none: without reuse of addresses, three frames are at most three deep.
* `WindowManager`: four acts (`MaxEvents`) suffice for a handler within a handler
  with a client that takes its window away in between and the user who hides
  the application; two lives (`MaxLives`) for a pointer that outlives its window
  and meets the next one. Two workspaces, for every change is from one to
  another.
* `FileTool`: `Elsewhere` is what may be asked about in a directory that a link
  points to, a link and a file in the way; it has no other bound, because the
  contents are not followed.
* `ProcessManager`: one operation at a time, which may end and be followed by the
  next, for the list is only asked whether it is empty; two instances of one
  application, for they share an entry.
* `BagTree`: five nodes give trees with every case of the repair after an
  insertion (red uncle, inner and outer grandchild, on both sides), and four
  indexes for five nodes make some share one. `Small` = 3 is
  not there for size but because `IsBag` fails above it; `bag_loses_elements` runs
  with 4. What follows after the sentinel is freed is excepted from `IsBag`.
* `Timers`: delays of zero and two ticks make timers that are due at once, at the
  same time as another, and later; the clock stops at 4 (`MaxTime`), after two
  periods. With three addresses a freed one is used again while two are live.

### Fairness

* `FileMover`: strong fairness for each step by which a tool goes on (it may be
  suspended and resumed for ever), weak fairness for each event of the run
  loop; and a user who answers alerts and resumes what was suspended, without
  which no operation need end. Nothing is assumed about Stop, Suspend, crashes
  or Log Out; while Log Out waits, the user can do nothing.
* `FileTool`: weak fairness of its own steps (`FairSpec`); answers are given. The
  theorems are about `Spec`, without fairness.
* `Stacking`: weak fairness of `Continue`, the recursion that has begun; nothing in
  it waits. No operation need ever begin.
* `Timers`: weak fairness of the steps of the event loop. Handlers and callbacks
  return, because the loop's steps include their return; neither events nor
  clients are assumed to come, only the clock may stop at its bound, which
  `OverdueFires` respects: what is overdue fires although time stands still.
* `WindowManager`, `BagTree`: none; their properties are about safety.
* `ProcessManager` (`FairSpec`): Log Out is a thread of control that goes on, and its
  panel is answered. Nothing is assumed of gdnc, of the window manager, of
  operations, or of an application that was asked to terminate: the call has no
  timeout, so that `QuitNext` is fair only where nobody is asked (`Asked`), and
  `LogOutIsAnswered` names both waits.

## What is proved

### FileMoverProofs

It proves, for every set of problems and every value of the
bounds, from `FileMoverAssumption` alone:

* `ButtonsUnderstood`: every letter a button sends for a problem ends the
  tool's wait for that problem;
* `TypeCorrect`, `AlertsAreAnswerable`, `QuestionsAreKept`,
  `OneQuestionAtATime`, `NoToolOutlivesItsOperation`, `FrozenToolsAreKnown`:
  the invariants of the run;
* `StoppingIsFinal`: the action property;
* `ImplementsBGOperationLifecycle`: the refinement.

The invariants are not inductive by themselves. `TypeOK` needs to know that an
answer is only given to a real question (`Asks`, `AlertHasProblem`), otherwise
`defaults` might get "NoProblem"; these three make `TInv`, which is inductive. `Order` says in
which order the processes live (sizer, mover, timer, end) and that no operation
is Stopped before its mover was collected, which is what keeps
`-sizerTaskTerminated` from arming the timer. `NothingBefore` says that the
pipes and `problem` are empty until the mover runs, and `LastLine` that the last
line in the pipe is about the last question, so that a read that empties the
pipe leaves the right problem. `IInv` is their conjunction with the safety
properties. The central lemma, `ProtocolSteps`, reduces every step to one of six
ways to touch the protocol; each property is then proved once for each way.

### ProcessManagerProofs

It proves, for every set of processes, names and operations that
`ProcessManagerAssumption` allows:

* `TypeCorrect`, `FlagsAreRight`, `KnownAreListed`, `StaleAreExplained`,
  `NothingStaysBehind`: the invariants of the run. `FlagsAreRight` covers the
  exception of `-stop:`, after which `isQuitting` alone stays set, and
  `KnownAreListed` the leader windows that go before their process.

None of the invariants but the flags is inductive. `Named` says what an entry
looks like (one for each name, with PIDs of that name, never empty for a
GNUstep application, whose processes run or have ended); without it the Kill
button could announce the end of an application no instance of which ends. `Lifecycle` and `Launches` say that a
process gets into the list once, and not before it runs: a launch that is still
on its way is of a process that is neither known nor listed, and if that process
has ended in good order, its end is queued behind. That order is what
`StaleIsExplained` rests on when a late launch puts a dead application into the
list. An X11 application without its leader window is not known until it
has another one (`Lifecycle`), and only `WindowsAreGone` takes it away
(`WindowsGo`), which is how `KnownIsListed` gets past a process that lives on. `EndsAreReal` says that a queued end is that of some instance, which
`KnownIsListed` needs when the end takes the entry away. `ToQuitIsListed` and
`LeftToQuit` say how far `-terminateAllApps` has got: what it has still to come
to is in the list, because the handlers take nothing away while
`_workspaceQuitting` is set, and what is known and listed it has still to come
to. `EntrySteps`, `NoticeSteps` and `ProcessSteps` reduce the steps of `Next` to
the few ways to change the list, the queue and a process; each part of `IInv` is
then carried over those.

### FileToolProofs

It proves, for any files in a tree of height two, any targets, any number of
failing calls, any answers and SIGINT between any two steps, from
`FileToolAssumption`:

* `FileToolTypeOK` and `TargetsNeedConsentAlways`: two invariants of the run.

`TargetsNeedConsent` is not inductive: what destroys a target, the write, is some
steps after what allows it, the look or the question. `TopSound` says what the
earlier steps have left to the innermost call: a file about to be created or
linked is not there (it was not, or it was removed), a rename finds nothing at
the target or someone has consented, and a call that waits for "File exists" has
either asked, or has an answer that is Skip unless the user consented or stopped.
`StackSound` says that the calls outside of it are ones that have nothing of
the kind ahead, so that a return is harmless, and that only what is listed is
moved or deleted. `DefaultSound` says that Overwrite is a default action only
after it was an answer. `StepSound` reduces every step of the innermost call to
four facts: it returns or is ready for the next step, asks at most one
question, leaves trees, and changes at the target only what was not there
before, unless somebody consented. Each action is then one case.

### FileOutcomeProofs

It proves, for any files in a tree of height two, any trees to start from, any
answers, failing calls and SIGINT, the other three invariants of the tool's run:

* `MoveKeepsDataAlways`: a move to an empty target keeps every file's data, in
  every state, with a crash and with the cleanup after a stop;
* `CompletesFaithfullyAlways`: a run that met no problem and no stop has done all
  that it was asked to do, and nothing else;
* `StopUndoesAlways`: a run stopped before the first problem leaves nothing half
  copied, no copy and no link, and its renames are taken back when the targets
  were empty, if no call of the cleanup fails. It does not say that what was at the
  targets before is there: the code removes that, as TLC shows.

Beside `FileToolAssumption` it needs `FilesAssumption`: no name is listed twice,
as in a directory, and the trees to start with hold no piece of a copy (and the
source nothing of the target's), which is what "part" and "old" mean.

All three speak of the end; the invariant, `Outcome`, says how the tool gets
there. While it runs, `Order` says that every listed file waits, is under way, or
is over, that the calls on the stack are all about the one under way, and that
the last of them is the end of the copy when the operation is a move between file
systems. `Sources` says that the source of what is not over is as it was. Then
there is one part for each operation. `Copying`: every path is reached by a call
still to come, or there was nothing to copy, or it is copied (`Fine`; `Reach` says
what a call on the stack is still going to copy, so that a step is sound when what
its call reached is reached by the calls it leaves). `Renames`: a listed file is
wholly here or wholly there. `Crossing`: a file that is over has moved, or is
still here because the tool was stopped; what is half copied is below the file
whose end is on the stack, which removes it unless a call fails. `Linking` and `Deleting` are of the
same kind. `Smooth` makes these hold only until the first problem: it says that
no operation has failed by then, and that no call is at a step which only an
answer leads to (the copy of a directory behind a link among them), so that those steps need not be looked at. `CopyStep` does for
the steps of a copy what `StepSound` does in `FileToolProofs`; `Alone`,
`AloneGoes` and `AloneReturns` do it for the outermost call of a listed file.
`FinishOutcome` is the only step that has to look at the operation as a whole.

### WindowManagerProofs

It proves, for every finite set of windows, every choice of leaders, any
workspaces and any bounds, from `WindowManagerAssumption`:

* `FocusedIsHeadAlways` and `HiddenHasApplicationAlways`: two invariants of the
  run;
* `ScreenIsSound`: the invariant they rest on, in the middle of handlers too.

`Sound` has the shape of the part of the screen that matters (`ScreenFields`: the
focus list is a list of windows, and so on), the focus part, and `HiddenSound`:
every hidden window is managed, and its application is hidden or gone. The
property itself speaks only of applications that are there; it is not inductive
because an application may go and come again while one of its windows is
hidden, so the invariant says that such a window has lost its application.
Handlers build the next screen from the operators, so there is a lemma for each
operator (`Keeps` and its kin) before there is one for each action.

### WindowsProofs

It goes on from there, with the same assumption:

* `NoWindowIsLostEver` and `NoOrphanEver`: the other two invariants of the run;
* `TypesAreKept`: the types of screens, queues and waiting handlers;
* `EveryScreenIsGood`: the invariant they rest on.

Both properties speak of the rest between events, so that no action can be
looked at by itself: while a handler waits in `ProcessPendingEvents`, a mapped
window may be gone from the server and an application may have lost its leader.
The invariant, `Good`, says what must be true instead. `Seen`: a managed window
of the current workspace is mapped, miniaturized or hidden. `Shown`: a window
that is mapped and not viewable has an event in the queue that tells of it
(UnmapNotify, or a client's withdrawal). `Owned`: an application whose leader is
gone bounces, or the queue tells of the leader's end. When the queue is empty,
the differences are gone. `SeenElsewhere` is the same with one window left out,
for `wUnmanageWindow`, which takes a window apart in several steps. There is a
lemma for each operator of a screen, and three about queues: taking an event off
the head, or out of the middle, loses that event alone, and `MapClients` adds
events for windows that are there.

### StackingProofs

It proves, for any frames, icons and levels, any depth of the recursion, and
whether or not addresses are used again, from `StackingAssumption`:

* `TypeCorrect`, `ListsAreLinked`, `CommitFindsAll`, `ServerHasTheOrder`: the
  invariants of the two runs;
* `RefinesStackOrder`: the refinement of `StackOrder`, for `Icons = {}`;
* `TransientsKeepTheirPlace`: the action property, for levels that fit in the
  short of `WStacking`.

The last two have a hypothesis because the code needs it. A bouncing icon is
raised past the lists, so that the server's order does not follow the levels
until the next `CommitStacking`. And with levels wider than a short,
`ChangeStackingLevel` may move a frame to a level that is the same after the
cut, above or below its transient: `TransientsStayOver` then fails, as TLC shows
with one such level. `WMBackLevel` and `WMOuterSpaceLevel` are that wide, but no
transient has them.

`IInv` is `TypeOK` with: the lists are `Sound` (above and under are inverse of each
other, every list is of one level, and a frame is under its top); `windowCount` is
the number of frames, which `CommitFits` rests on; `over` is a strict total order;
`Settled`, `ServerAgrees` for every frame but those that `wRaiseFrame` has still
to place, because the code tells the server last; `RaisingInOrder`, what the calls
of `wRaiseFrame` within each other have to do with the lists, which is what makes
it enough that each tells the server of its own frame only; `OwnersAreFrames`; and
`MoveIsPossible`, what `MoveInStackListUnder` has taken for granted in its first
half. "Under" is the least set closed under a pointer, so that nothing is summed
or counted along a list: `BelowClosed`, `BelowLeast` and `Comparable` make it an
order, and where a proof needs the lowest frame of a set it takes one from the
well-founded inclusion of finite sets (`LowestExists`) in place of an induction.

### TimersProofs

It proves, for any handlers, owners, delays and times that `TimersAssumption`
allows:

* `QueueStaysSound`: the invariant of the run, types included;
* `WalksAreExact`: the action property.

`Sorted` speaks of who is `Before` whom, not of positions, and the lemmas of the
first part say what `enqueueTimerHandler`, `WMDeleteTimerHandler`, the tail and
the next handler are in these words. `Books` says that a handler its owner has
forgotten has fired and will not be queued again, and that a handler its owner
knows is still to fire; without it the sweep might free a handler whose address
someone keeps, or queue again one that was stopped. `Walk` says that exactly the
handlers before the one that `W_CheckTimerHandlers` has come to have fired, so
that what callbacks add comes behind it, and what they take away is not it.

### Only model-checked

`IsBag` and `InsertionBalances` of `BagTree`, where the walk and the height of a
tree are defined by recursion over it, and of which the first holds for small bags
only; and the properties that the code contradicts: `LogoutEnds`,
`DeletesOnlyWhatWasCopied`, `CleanUpRemovesTheCreated`, `CleanUpKeepsTheSource`,
`RunningIsListed`, `QuittingMeansLogOut`, `KillNeedsKnownPids`,
`LastFocusedIsManaged`, `KeepsIndex`, `DestroysTheErased`, `NullLeavesTheRest`. All liveness
(`EndsUnlessStranded`, `Ends`, `LogOutIsAnswered`, `RaiseEnds`, `OverdueFires`) is
out of the prover's reach together with ENABLED.

## What is not modelled

* The text of progress lines and how `-readInput:` takes a chunk apart: dropped
  chunks that end inside a multi-byte character, byte counts added twice. Only
  alert lines and the splitting of one are in the model.
* The data race between the window manager's thread and the main thread on the
  array of applications: handlers are single steps. A PID is used once, so the
  killing of a process that got an old PID is not in the model either.
* In `FileTool`, a crash caused by blocks that `CopyRegular` releases once too
  often: it happens when main() drains its pool, after the last file operation.
  The original of a link is a file, a directory or missing; what is in such a
  directory is asked about but not in the trees. Listed directories have one
  level.
* In `Stacking`, `MoveInStackListAbove`, which nobody calls, and the main thread's
  calls of `AddToStackList` and `RemoveFromStackList` in the middle of others.
* In `WindowManager`: shaded, omnipresent and selected windows, transients, focus
  that follows the mouse, the creation and deletion of workspaces
  (`wWorkspaceDelete`), placement and drawing. They add flags to the same
  handlers; their part of hiding and of focus would be new cases of `Hide` and
  `SetFocusTo`.
* In `BagTree`, `WMSortBag` and the callbacks of the walks, which change no
  node's place.
* In `Timers`, `WMDeleteTimerWithClientData` (of its two callers, `window.c:1533`
  passes what no timer has, and `menu.c:1564` a timer of its own), a clock that is
  set back, input handlers (nobody adds any), idle handlers and queued
  notifications; and the loop of `misc.c:396` that waits for a selection without
  serving anything.
* The rest of Window Maker and WINGs: the dock, menus, interactive moves,
  defaults, drawing and widgets. It is far the largest part of the code, but
  sequential within one event, and what it does is mostly what one sees.
* The other components marked `not_modelled` in `PROJECT.json`, with the reason
  given there.

## Plan

Done, in this order: `AlertProtocol`, `BGOperation`, `FileMover` with its
proofs, `FileTool`, `ProcessManager` with its proofs, `Stacking` against
`StackOrder`, `WindowManager` with its proofs, `BagTree` against `Bag`, `Timers`,
`FileToolProofs`, `StackingProofs`, `WindowsProofs`, `TimersProofs`,
`FileOutcomeProofs`. What would come next:

1. `MediaOperations` (Mounter, the Controller's table by device,
   `NXUDisksDrive`'s eject with its start and end notifications) against
   `BGOperation`: every operation that was started ends; a drive is detached
   once, and only after an eject that was asked for and did not fail.
2. `FileSystemMonitor`: the flags and the one-way messages to the thread; never
   both paused and stopped, as the comment at
   `src/Frameworks/NXSystem/NXFileSystemMonitor.m:149` says; a watch is there as
   long as someone asked for it.
3. `LineReader`: `-readInput:`'s splitting and joining of lines over bounded
   inputs, against "every line is handled once".
4. `Login`: sessions and what ends them.
