--------------------------- MODULE ProcessManager ---------------------------
(***************************************************************************)
(* The list of running applications and of background operations           *)
(* (Operations/ProcessManager.m) and Log Out and Power Off, which empty    *)
(* both (Controller.m, -applicationShouldTerminate:).                      *)
(*                                                                         *)
(* A GNUstep application announces its launch and its end by notifications *)
(* that gdnc, the distributed notification center, delivers in order; one  *)
(* that crashes announces nothing.  An X11 application is seen by the      *)
(* window manager, whose thread calls ProcessManager when its first window *)
(* appears, when a window is destroyed, and when its leader window is,     *)
(* whether its process lives on or not.  A handler is one step, and so is  *)
(* the work of Log Out between two points where others get a turn.  The    *)
(* order of the list, in which Log Out comes to the applications and the   *)
(* panel shows them, is left open.                                         *)
(*                                                                         *)
(* What an operation does while it is listed is FileMover's business; here *)
(* it only comes and goes.                                                 *)
(***************************************************************************)
EXTENDS Naturals, Sequences

CONSTANTS
    Pids,           \* the processes; each one runs once
    Names,          \* application names
    NameOf,         \* NameOf[p]: the application that p is an instance of
    XApps,          \* the names that belong to X11 applications
    SystemApps,     \* "Workspace" and "Login"
    Anonymous,      \* processes of X11 applications whose PID is not known
    Initial,        \* the processes that run when Workspace starts
    Operations,     \* background operations, as many as may run at once
    MaxNotices      \* bound: notifications on their way when Kill is pressed

NoPid == "-1"

ASSUME ProcessManagerAssumption ==
    /\ NameOf \in [Pids -> Names]
    /\ XApps \cap SystemApps = {}
    /\ NoPid \notin Pids
    /\ \A p \in Anonymous : p \in Pids /\ NameOf[p] \in XApps
    /\ \A p \in Initial : p \in Pids /\ NameOf[p] \notin XApps
    /\ \A p, q \in Initial : NameOf[p] = NameOf[q] => p = q
    /\ \A p \in Pids : NameOf[p] \in SystemApps => p \in Initial
    /\ MaxNotices \in Nat

VARIABLES
    applications,       \* ProcessManager's list, as a set of entries [name, pids]
    killable,           \* the entry that the panel's Kill button is there for
    workspaceQuitting,  \* ProcessManager's _workspaceQuitting
    isQuitting,         \* Controller's isQuitting, which disables every menu item
    phase,              \* where -applicationShouldTerminate: is
    choice,             \* "Log out" or "Power off", "none" before it is asked for
    success,            \* what -terminateAllBGOperations will answer, FALSE elsewhere
    toQuit,             \* names -terminateAllApps has not come to yet
    operations,         \* ProcessManager's list of background operations
    process,            \* what each process is doing
    gdnc,               \* notifications of GNUstep applications on their way
    known,              \* history: processes announced while Workspace was not quitting,
                        \* an X11 application's until its leader window is gone
    crashed,            \* history: processes that crashed
    ignored,            \* history: names whose end was announced but ignored
    withdrawn           \* history: processes whose leader window was destroyed once

logout == <<workspaceQuitting, isQuitting, phase, choice, success, toQuit>>
history == <<known, crashed, ignored, withdrawn>>
vars == <<applications, killable, logout, operations, process, gdnc, history>>

\* "aborted": an exception has left -applicationShouldTerminate: for the run loop.
\* "killed": so has SIGKILL, for good.
Phases == {"idle", "operations panel", "wait", "apps", "finished", "aborted", "killed"}

\* "windowless": an X11 application without a leader window.  "dying": one that has
\* ended, and the window manager has yet to see it.
Statuses == {"absent", "windowless", "running", "dying", "gone"}
Notices == [what : {"launched", "terminated"}, pid : Pids]
Notice(what, p) == [what |-> what, pid |-> p]
PidStrings == Pids \cup {NoPid}
Entries == [name : Names, pids : SUBSET PidStrings]

IsX(p) == NameOf[p] \in XApps
IsSystem(p) == NameOf[p] \in SystemApps
Alive(p) == process[p] \in {"windowless", "running"}

\* What becomes of a process that ends.
End(p) == IF IsX(p) /\ process[p] = "running" THEN "dying" ELSE "gone"

\* Mutant of PidString: an unknown PID is announced as the empty string.
MutantPidString(p) == IF p \in Anonymous THEN "" ELSE p

\* -_normalizeApplicationInfo: and _applicationInfoForWApp: the strings of an entry.
PidString(p) == IF p \in Anonymous THEN NoPid ELSE p

TypeOK ==
    /\ applications \subseteq Entries
    /\ killable \in Names \cup {"none"}
    /\ workspaceQuitting \in BOOLEAN
    /\ isQuitting \in BOOLEAN
    /\ phase \in Phases
    /\ choice \in {"none", "Log out", "Power off"}
    /\ success \in BOOLEAN
    /\ toQuit \subseteq Names
    /\ operations \subseteq Operations
    /\ process \in [Pids -> Statuses]
    /\ gdnc \in Seq(Notices)
    /\ known \subseteq Pids
    /\ crashed \subseteq Pids
    /\ ignored \subseteq Names
    /\ withdrawn \subseteq Pids

Entry(p) == [name |-> NameOf[p], pids |-> {PidString(p)}]

\* -init has taken what -launchedApplications knows.
Init ==
    /\ applications = {Entry(p) : p \in Initial}
    /\ killable = "none"
    /\ workspaceQuitting = FALSE
    /\ isQuitting = FALSE
    /\ phase = "idle"
    /\ choice = "none"
    /\ success = FALSE
    /\ toQuit = {}
    /\ operations = {}
    /\ process = [p \in Pids |-> IF p \in Initial THEN "running" ELSE "absent"]
    /\ gdnc = <<>>
    /\ known = Initial
    /\ crashed = {}
    /\ ignored = {}
    /\ withdrawn = {}

\* Workspace is there to handle events.
Up == phase \notin {"finished", "killed"}

\* Workspace's run loop is served: not while a panel is up or Log Out works.
RunLoop == phase \in {"idle", "wait", "aborted"}

\* And so are the buttons of its panels: Log Out waits in a run loop without events.
Buttons == phase \in {"idle", "aborted"}

-----------------------------------------------------------------------------
(* The processes. *)

\* A GNUstep application announces itself; an X11 application has no window yet.
Launch(p) ==
    /\ process[p] = "absent"
    /\ IF IsX(p)
       THEN process' = [process EXCEPT ![p] = "windowless"] /\ UNCHANGED gdnc
       ELSE /\ process' = [process EXCEPT ![p] = "running"]
            /\ gdnc' = Append(gdnc, Notice("launched", p))
    /\ UNCHANGED <<applications, killable, logout, operations, history>>

\* An orderly end.
Exit(p) ==
    /\ Alive(p)
    /\ ~IsSystem(p)
    /\ process' = [process EXCEPT ![p] = End(p)]
    /\ gdnc' = IF IsX(p) THEN gdnc ELSE Append(gdnc, Notice("terminated", p))
    /\ UNCHANGED <<applications, killable, logout, operations, history>>

\* A GNUstep application that crashes tells nobody.
Crash(p) ==
    /\ process[p] = "running"
    /\ ~IsSystem(p)
    /\ ~IsX(p)
    /\ process' = [process EXCEPT ![p] = "gone"]
    /\ crashed' = crashed \cup {p}
    /\ UNCHANGED <<applications, killable, logout, operations, gdnc, known, ignored,
                   withdrawn>>

-----------------------------------------------------------------------------
(* ProcessManager's handlers. *)

\* Mutant of DidLaunch: a second instance gets no place in the list.
MutantDidLaunch(p) ==
    /\ applications' = IF \E e \in applications : e.name = NameOf[p]
                       THEN applications
                       ELSE applications \cup {Entry(p)}
    /\ known' = IF workspaceQuitting THEN known ELSE known \cup {p}
    /\ UNCHANGED killable

\* -applicationDidLaunch: adds an entry, or the PID to the entry of that name.
DidLaunch(p) ==
    /\ applications' =
           IF \E e \in applications : e.name = NameOf[p]
           THEN {IF e.name = NameOf[p] THEN [e EXCEPT !.pids = @ \cup {PidString(p)}] ELSE e :
                    e \in applications}
           ELSE applications \cup {Entry(p)}
    /\ known' = IF workspaceQuitting THEN known ELSE known \cup {p}
    /\ UNCHANGED killable

Without(name) == {e \in applications : e.name # name}

\* -removeObject:.  The panel's list is drawn anew; the row that is selected may now
\* be another entry's, and the Kill button, which only -showApp: looks at, stays.
Remove(name) ==
    /\ applications' = Without(name)
    /\ IF killable = "none" \/ Without(name) = applications
       THEN UNCHANGED killable
       ELSE killable' \in {e.name : e \in Without(name)} \cup {"none"}

\* Mutant of DidTerminate: the entry of an X11 application stays.
MutantDidTerminate(name) ==
    IF workspaceQuitting
    THEN ignored' = ignored \cup {name} /\ UNCHANGED <<applications, killable>>
    ELSE /\ applications' = IF name \in XApps THEN applications ELSE Without(name)
         /\ UNCHANGED <<killable, ignored>>

\* -applicationDidTerminate: removes the entry of that name, whatever its PIDs.
DidTerminate(name) ==
    IF workspaceQuitting
    THEN ignored' = ignored \cup {name} /\ UNCHANGED <<applications, killable>>
    ELSE Remove(name) /\ UNCHANGED ignored

\* -applicationDidTerminateSubprocess: drops the PIDs that no longer exist.
DidTerminateSubprocess(name) ==
    LET exists(s) == s = NoPid \/ Alive(s) IN
    /\ applications' =
           IF workspaceQuitting THEN applications
           ELSE {IF e.name = name THEN [e EXCEPT !.pids = {s \in @ : exists(s)}] ELSE e :
                    e \in applications}
    /\ UNCHANGED killable

\* gdnc delivers its next notification.
Notify ==
    /\ Up
    /\ gdnc # <<>>
    /\ gdnc' = Tail(gdnc)
    /\ LET n == Head(gdnc) IN
       \/ n.what = "launched" /\ DidLaunch(n.pid) /\ UNCHANGED <<crashed, ignored>>
       \/ n.what = "terminated" /\ DidTerminate(NameOf[n.pid]) /\ UNCHANGED <<known, crashed>>
    /\ UNCHANGED <<logout, operations, process, withdrawn>>

\* XWApplicationDidCreate, on the window manager's thread.
WindowDidAppear(p) ==
    /\ Up
    /\ process[p] = "windowless"
    /\ process' = [process EXCEPT ![p] = "running"]
    /\ DidLaunch(p)
    /\ UNCHANGED <<logout, operations, gdnc, crashed, ignored, withdrawn>>

\* XWApplicationDidCloseWindow, for any window that is destroyed, the leader's before
\* or after the others.
WindowDidClose(p) ==
    /\ Up
    /\ IsX(p)
    /\ process[p] \in {"running", "dying"} \/ p \in withdrawn
    /\ DidTerminateSubprocess(NameOf[p])
    /\ UNCHANGED <<logout, operations, process, gdnc, history>>

\* XWApplicationDidDestroy, when the leader window is destroyed.  The process may live
\* on, and may make another one.
WindowsAreGone(p) ==
    /\ Up
    /\ IsX(p)
    /\ \/ process[p] = "running" /\ process' = [process EXCEPT ![p] = "windowless"]
       \/ process[p] = "dying" /\ process' = [process EXCEPT ![p] = "gone"]
    /\ DidTerminate(NameOf[p])
    /\ known' = known \ {p}
    /\ withdrawn' = withdrawn \cup {p}
    /\ UNCHANGED <<logout, operations, gdnc, crashed>>

\* -showApp:, when the entry e is clicked: the Kill button is hidden from entries
\* without a PID and from Workspace.
ShowApp(e) ==
    /\ Buttons
    /\ killable' = IF NoPid \in e.pids \/ e.name = "Workspace" THEN "none" ELSE e.name
    /\ UNCHANGED <<applications, logout, operations, process, gdnc, history>>

\* The Kill button of the Processes panel, for the entry e.  Login is root's and
\* survives.  A GNUstep application's end is announced on its behalf.  The PID "-1"
\* makes it kill(-1, SIGKILL), which reaches every process, Workspace too.
Kill(e) ==
    /\ Buttons
    /\ e.name = killable
    /\ Len(gdnc) < MaxNotices
    /\ IF NoPid \in e.pids \/ e.name = "Workspace"
       THEN phase' = "killed" /\ UNCHANGED <<process, gdnc>>
       ELSE LET victims == {p \in Pids \cap e.pids : Alive(p) /\ ~IsSystem(p)} IN
            /\ process' = [p \in Pids |-> IF p \in victims THEN End(p) ELSE process[p]]
            /\ gdnc' = IF e.name \in XApps THEN gdnc
                       ELSE Append(gdnc, Notice("terminated",
                                            CHOOSE p \in Pids : NameOf[p] = e.name))
            /\ UNCHANGED phase
    /\ UNCHANGED <<applications, killable, workspaceQuitting, isQuitting, choice, success,
                   toQuit, operations, history>>

-----------------------------------------------------------------------------
(* Background operations. *)

\* WMOperationDidCreate: the user's operation, or one of a disk.
OperationDidCreate(o) ==
    /\ RunLoop
    /\ o \notin operations
    /\ operations' = operations \cup {o}
    /\ UNCHANGED <<applications, killable, logout, process, gdnc, history>>

\* WMOperationWillDestroy.
OperationWillDestroy(o) ==
    /\ RunLoop
    /\ o \in operations
    /\ operations' = operations \ {o}
    /\ UNCHANGED <<applications, killable, logout, process, gdnc, history>>

-----------------------------------------------------------------------------
(* -applicationShouldTerminate:. *)

\* Mutant of Refuse: isQuitting is not reset.
MutantRefuse == phase' = "idle" /\ choice' = "none" /\ UNCHANGED isQuitting

\* The last thing it does before it answers NO.
Refuse ==
    /\ phase' = "idle"
    /\ choice' = "none"
    /\ isQuitting' = FALSE

\* After the operations.  Log Out goes on with -terminateAllApps, which works on a
\* copy of the list; Power Off leaves the applications alone.
QuitApplications(c) ==
    IF c = "Log out"
    THEN /\ phase' = "apps"
         /\ workspaceQuitting' = TRUE
         /\ toQuit' = {e.name : e \in applications}
    ELSE /\ phase' = "finished"
         /\ UNCHANGED <<workspaceQuitting, toQuit>>

\* Log Out is chosen from the menu and confirmed.
Quit(c) ==
    /\ phase = "idle"
    /\ ~isQuitting
    /\ isQuitting' = TRUE
    /\ choice' = c
    /\ IF operations = {}
       THEN QuitApplications(c)
       ELSE phase' = "operations panel" /\ UNCHANGED <<workspaceQuitting, toQuit>>
    /\ UNCHANGED <<applications, killable, success, operations, process, gdnc, history>>

\* "Stop and quit" when the tool of an operation that shows an alert is dead: -stop:
\* writes to the tool's pipe, which raises, and nothing up to the run loop's own
\* handler catches it.  The other operations are not stopped.
StopRaises ==
    /\ phase' = "aborted"
    /\ choice' = "none"
    /\ UNCHANGED success

\* Cancel and Review, or "Stop and quit", which sends -stop: to the operations.
\* All three wait for the operations.
AnswerPanel ==
    /\ phase = "operations panel"
    /\ \/ phase' = "wait" /\ success' \in BOOLEAN /\ UNCHANGED choice
       \/ StopRaises
    /\ UNCHANGED <<applications, killable, workspaceQuitting, isQuitting, toQuit,
                   operations, process, gdnc, history>>

\* The loop at the end of -terminateAllBGOperations ends.
WaitIsOver ==
    /\ phase = "wait"
    /\ operations = {}
    /\ success' = FALSE
    /\ IF success THEN QuitApplications(choice) /\ UNCHANGED <<isQuitting, choice>>
       ELSE Refuse /\ UNCHANGED <<workspaceQuitting, toQuit>>
    /\ UNCHANGED <<applications, killable, operations, process, gdnc, history>>

\* An X11 application is killed, except for instances without a PID.
KillX(name) ==
    LET e == CHOOSE entry \in applications : entry.name = name IN
    /\ process' = [p \in Pids |-> IF p \in e.pids /\ Alive(p) THEN End(p) ELSE process[p]]
    /\ Remove(name)
    /\ UNCHANGED <<workspaceQuitting, isQuitting, phase, choice, gdnc>>

\* An instance of a GNUstep application does what -terminate: asks of it: the call
\* raises an exception, because the connection is gone.
AppQuits(name) ==
    /\ \E p \in Pids :
          /\ NameOf[p] = name
          /\ Alive(p)
          /\ process' = [process EXCEPT ![p] = "gone"]
          /\ gdnc' = Append(gdnc, Notice("terminated", p))
    /\ Remove(name)
    /\ UNCHANGED <<workspaceQuitting, isQuitting, phase, choice>>

\* Mutant of Veto: the flag keeps its value.
MutantVetoKeepsFlag ==
    /\ Refuse
    /\ UNCHANGED <<workspaceQuitting, applications, killable, process, gdnc>>

\* Mutant of Veto: the loop is not left.
MutantVetoGoesOn ==
    UNCHANGED <<phase, choice, isQuitting, workspaceQuitting, applications, killable,
                process, gdnc>>

\* The call returns: the application refused, or there was none to call.
Veto ==
    /\ Refuse
    /\ workspaceQuitting' = FALSE
    /\ UNCHANGED <<applications, killable, process, gdnc>>

\* One turn of the loop of -terminateAllApps.  The call of a GNUstep application is
\* synchronous and has no timeout: this step may not come.
QuitNext(name) ==
    /\ phase = "apps"
    /\ name \in toQuit
    /\ \/ /\ name \in XApps
          /\ KillX(name)
       \/ /\ name \in SystemApps
          /\ UNCHANGED <<applications, killable, workspaceQuitting, isQuitting, phase,
                         choice, process, gdnc>>
       \/ /\ name \notin XApps \cup SystemApps
          /\ AppQuits(name) \/ Veto
    /\ toQuit' = IF phase' = "apps" THEN toQuit \ {name} ELSE {}
    /\ UNCHANGED <<success, operations, history>>

\* -terminateAllApps answers YES; Workspace closes its windows and ends.
AppsTerminated ==
    /\ phase = "apps"
    /\ toQuit = {}
    /\ phase' = "finished"
    /\ UNCHANGED <<applications, killable, workspaceQuitting, isQuitting, choice, success,
                   toQuit, operations, process, gdnc, history>>

-----------------------------------------------------------------------------
ProcessStep == \E p \in Pids : Launch(p) \/ Exit(p) \/ Crash(p)

WindowStep == \E p \in Pids : WindowDidAppear(p) \/ WindowDidClose(p) \/ WindowsAreGone(p)

Next ==
    \/ Up /\ ProcessStep
    \/ WindowStep
    \/ Notify
    \/ \E e \in applications : ShowApp(e) \/ Kill(e)
    \/ \E o \in Operations : OperationDidCreate(o) \/ OperationWillDestroy(o)
    \/ \E c \in {"Log out", "Power off"} : Quit(c)
    \/ AnswerPanel
    \/ WaitIsOver
    \/ \E name \in Names : QuitNext(name)
    \/ AppsTerminated

Spec == Init /\ [][Next]_vars

(***************************************************************************)
(* Fairness: the panel is answered, and Log Out is one thread of control   *)
(* that goes on where it does not wait for others: for the operations,     *)
(* which FileMover shows may never end, and for an application that was    *)
(* asked to terminate, which may never reply.                              *)
(***************************************************************************)
Asked(name) ==
    /\ name \notin XApps \cup SystemApps
    /\ \E p \in Pids : NameOf[p] = name /\ Alive(p)

FairSpec ==
    /\ Spec
    /\ WF_vars(AnswerPanel)
    /\ WF_vars(WaitIsOver)
    /\ WF_vars(\E name \in Names : ~Asked(name) /\ QuitNext(name))
    /\ WF_vars(AppsTerminated)

-----------------------------------------------------------------------------
(* Properties. *)

Listed(p) == \E e \in applications : e.name = NameOf[p] /\ PidString(p) \in e.pids

\* An application that was announced and still runs (an X11 application: with its leader
\* window) is in the list, so that Log Out will come to it -- unless another instance of
\* that name has ended or lost its leader window, which takes the whole entry away, or
\* it has no PID and is left to the window manager.
KnownIsListed ==
    \A p \in known \ Anonymous :
        process[p] = "running" /\ ~IsSystem(p) =>
            \/ Listed(p)
            \/ \E q \in Pids \ {p} : /\ NameOf[q] = NameOf[p]
                                     /\ process[q] = "gone" \/ q \in withdrawn

\* Without the exception: the list tells which applications run.  It does not, because
\* -applicationDidTerminate: removes the entry of all the instances of that name.
RunningIsListed ==
    \A p \in known \ Anonymous : process[p] = "running" => Listed(p)

\* An entry without a process is about to go: its end is on its way.  Only a crash, or
\* an end that was announced while Workspace was quitting, leaves one behind.
StaleIsExplained ==
    \A e \in applications :
        \/ \E p \in Pids : NameOf[p] = e.name /\ process[p] \in {"running", "dying"}
        \/ \E i \in DOMAIN gdnc : gdnc[i].what = "terminated" /\ NameOf[gdnc[i].pid] = e.name
        \/ \E p \in crashed : NameOf[p] = e.name
        \/ e.name \in ignored

\* The two flags say what is going on: after a refused or cancelled Log Out the menus
\* work again and the ends of applications are noticed again.  isQuitting alone is also
\* left by an exception of -stop: ("aborted"), and then the menus never work again.
FlagsFollowLogOut ==
    /\ phase # "killed" => (isQuitting <=> phase # "idle")
    /\ workspaceQuitting <=> phase = "apps" \/ (phase = "finished" /\ choice = "Log out")

\* "Stop and quit" stops the operations and quits: isQuitting is set only while a Log Out
\* goes on.  It is not so, because -stop: may raise and nothing resets the flag.
QuittingMeansLogOut ==
    isQuitting => phase \in {"operations panel", "wait", "apps", "finished"}

\* The Kill button is not there for an entry with an unknown PID.  It is not so: an entry
\* that is shown may gain the PID "-1", or its row become another entry's.
KillNeedsKnownPids == \A e \in applications : e.name = killable => NoPid \notin e.pids

\* When Workspace is gone, no background operation is left behind, and, after a Log
\* Out, no listed application that was announced before it.
NothingIsLeftBehind ==
    phase = "finished" =>
        /\ operations = {}
        /\ choice = "Log out" =>
               \A e \in applications : e.name \in SystemApps \/ e.pids \cap known = {}

\* Log Out is answered again and again: Workspace ends, or goes on.  It is kept from
\* that by operations that never end or come one after another, by an application that
\* never replies to -terminate:, or by an exception of -stop:.
LogOutIsAnswered ==
    \/ []<>(~isQuitting \/ phase \in {"finished", "aborted", "killed"})
    \/ <>[](phase = "wait") /\ []<>(operations # {})
    \/ <>[](phase = "apps" /\ \E name \in toQuit : Asked(name))

=============================================================================
