------------------------ MODULE ProcessManagerProofs ------------------------
(***************************************************************************)
(* Proofs about ProcessManager for every set of processes, applications    *)
(* and operations.                                                         *)
(*                                                                         *)
(* The properties of ProcessManager.tla rest on what the list looks like   *)
(* (Named), on a process being announced at most once and not before it    *)
(* runs (Lifecycle, Launches), on an end being announced only when there   *)
(* was one (EndsAreReal), and on where -terminateAllApps has got to        *)
(* (ToQuitIsListed, LeftToQuit).                                           *)
(***************************************************************************)
EXTENDS ProcessManager, TLAPS

-----------------------------------------------------------------------------
(* The inductive invariant. *)

Launched(i) == gdnc[i].what = "launched"
Terminated(i) == gdnc[i].what = "terminated"

\* An entry stands for one application; a PID in it is one of its processes, and that
\* of a GNUstep application has been announced.
Named ==
    \A e \in applications :
        /\ \A f \in applications : f.name = e.name => f = e
        /\ \E p \in Pids : NameOf[p] = e.name
        /\ \A s \in e.pids : s # NoPid => NameOf[s] = e.name
        /\ e.name \notin XApps =>
              /\ e.pids # {}
              /\ \A s \in e.pids : s \in Pids /\ process[s] \in {"running", "gone"}

\* Only X11 applications have windows; one without is not known, and a process that has
\* not been started is neither known nor listed.
Lifecycle ==
    \A p \in Pids :
        /\ ~IsX(p) => process[p] \in {"absent", "running", "gone"}
        /\ process[p] \in {"absent", "windowless"} => p \notin known
        /\ process[p] = "absent" => \A e \in applications : p \notin e.pids

\* A launch on its way is announced once, and if the process has ended in good order
\* since, that comes later.
Launches ==
    \A i \in DOMAIN gdnc : Launched(i) =>
        LET p == gdnc[i].pid IN
        /\ process[p] \in {"running", "gone"}
        /\ ~IsX(p)
        /\ p \notin known
        /\ \A e \in applications : p \notin e.pids
        /\ \A j \in DOMAIN gdnc : j # i /\ Launched(j) => gdnc[j].pid # p
        /\ process[p] = "gone" /\ p \notin crashed =>
              \E j \in DOMAIN gdnc :
                  j > i /\ Terminated(j) /\ NameOf[gdnc[j].pid] = NameOf[p]

\* An end on its way is that of some instance, except when Login was "killed".
EndsAreReal ==
    \A i \in DOMAIN gdnc : Terminated(i) =>
        \/ IsSystem(gdnc[i].pid)
        \/ \E q \in Pids : NameOf[q] = NameOf[gdnc[i].pid] /\ process[q] = "gone"

\* What Log Out has still to come to is in the list: nobody else takes it away.
ToQuitIsListed ==
    phase = "apps" => \A name \in toQuit : \E e \in applications : e.name = name

\* The applications Log Out has come to have left the list, or were not known.
LeftToQuit ==
    /\ phase \in {"apps", "finished"} => operations = {}
    /\ phase = "apps" => choice = "Log out"
    /\ phase = "apps" =>
          \A e \in applications : e.name \in SystemApps \cup toQuit \/ e.pids \cap known = {}

Lists == Named /\ Lifecycle /\ Launches /\ ToQuitIsListed

IInv ==
    /\ TypeOK
    /\ Lists
    /\ EndsAreReal
    /\ FlagsFollowLogOut
    /\ LeftToQuit
    /\ KnownIsListed
    /\ StaleIsExplained
    /\ NothingIsLeftBehind

-----------------------------------------------------------------------------
(* Notifications. *)

\* gdnc queues a notification: the ones before keep their places.
LEMMA QueueNotice ==
    ASSUME NEW s \in Seq(Notices), NEW n \in Notices
    PROVE  /\ Append(s, n) \in Seq(Notices)
           /\ Len(s) \in Nat
           /\ DOMAIN s = 1..Len(s)
           /\ DOMAIN Append(s, n) = 1..(Len(s) + 1)
           /\ Append(s, n)[Len(s) + 1] = n
           /\ \A i \in DOMAIN s : Append(s, n)[i] = s[i]
           /\ s # <<>> => Append(s, n) # Tail(s)
<1>1. Len(Append(s, n)) = Len(s) + 1
  OBVIOUS
<1>2. s # <<>> => Len(Tail(s)) = Len(s) - 1
  OBVIOUS
<1>q. QED
  BY <1>1, <1>2

\* gdnc delivers a notification: the others move up by one.
LEMMA DeliverNotice ==
    ASSUME NEW s \in Seq(Notices), s # <<>>
    PROVE  /\ Head(s) = s[1] /\ Head(s) \in Notices
           /\ 1 \in DOMAIN s
           /\ Tail(s) \in Seq(Notices)
           /\ \A i \in DOMAIN Tail(s) : i \in Nat /\ i + 1 \in DOMAIN s /\ i + 1 # 1
                                        /\ Tail(s)[i] = s[i + 1]
           /\ \A i \in DOMAIN s : i # 1 => /\ i \in Nat /\ i > 1
                                          /\ i - 1 \in DOMAIN Tail(s)
                                          /\ Tail(s)[i - 1] = s[i]
  OBVIOUS

\* A notification is made of what it says and of whom.
LEMMA NoticeIsOne ==
    ASSUME NEW p \in Pids, NEW what \in {"launched", "terminated"}
    PROVE  /\ Notice(what, p) \in Notices
           /\ Notice(what, p).what = what /\ Notice(what, p).pid = p
  BY DEF Notice, Notices

\* The fields of a notification.
LEMMA NoticeFields ==
    ASSUME NEW s \in Seq(Notices), NEW i \in DOMAIN s
    PROVE  s[i].what \in {"launched", "terminated"} /\ s[i].pid \in Pids
<1>1. s[i] \in Notices
  OBVIOUS
<1>q. QED
  BY <1>1 DEF Notices

-----------------------------------------------------------------------------
(* The steps that change a list. *)

lists == <<applications, process, gdnc, known, crashed, ignored, withdrawn>>

\* The Kill button, for an entry that is not Workspace's and has a PID.
KillEntry(e) ==
    /\ e \in applications
    /\ Kill(e)
    /\ ~(NoPid \in e.pids \/ e.name = "Workspace")

\* One turn of Log Out's loop that ends an application.
QuitApp(name) ==
    /\ phase = "apps" /\ phase' = "apps"
    /\ name \in toQuit /\ toQuit' = toQuit \ {name}
    /\ \/ KillX(name) /\ name \in XApps
       \/ AppQuits(name) /\ name \notin XApps \cup SystemApps
    /\ UNCHANGED <<known, crashed, ignored, withdrawn>>

\* Every other step leaves the lists, the processes and the notifications alone.
LEMMA ListSteps ==
    ASSUME [Next]_vars
    PROVE  \/ UNCHANGED lists
           \/ \E p \in Pids : Launch(p) \/ Exit(p) \/ Crash(p) \/ WindowDidAppear(p)
                                \/ WindowDidClose(p) \/ WindowsAreGone(p)
           \/ Notify
           \/ \E e \in applications : KillEntry(e)
           \/ \E name \in Names : QuitApp(name)
<1> USE DEF lists
<1>1. CASE (Up /\ ProcessStep) \/ WindowStep \/ Notify
  BY <1>1 DEF ProcessStep, WindowStep
<1>2. ASSUME NEW e \in applications, Kill(e)
      PROVE  KillEntry(e) \/ UNCHANGED lists
  BY <1>2 DEF Kill, KillEntry, history
<1>s. CASE \E e \in applications : ShowApp(e)
  BY <1>s DEF ShowApp, history
<1>3. CASE \E o \in Operations : OperationDidCreate(o) \/ OperationWillDestroy(o)
  BY <1>3 DEF OperationDidCreate, OperationWillDestroy, history
<1>4. CASE \E c \in {"Log out", "Power off"} : Quit(c)
  BY <1>4 DEF Quit, history
<1>5. CASE AnswerPanel \/ WaitIsOver \/ AppsTerminated
  BY <1>5 DEF AnswerPanel, WaitIsOver, AppsTerminated, history
<1>6. ASSUME NEW name \in Names, QuitNext(name)
      PROVE  QuitApp(name) \/ UNCHANGED lists
  <2>1. CASE name \in XApps /\ KillX(name)
    BY <1>6, <2>1 DEF QuitNext, QuitApp, KillX, history
  <2>2. CASE name \notin XApps \cup SystemApps /\ AppQuits(name)
    BY <1>6, <2>2 DEF QuitNext, QuitApp, AppQuits, history
  <2>3. CASE UNCHANGED <<applications, process, gdnc>>
    BY <1>6, <2>3 DEF QuitNext, history
  <2>q. QED
    BY <1>6, <2>1, <2>2, <2>3 DEF QuitNext, Veto
<1>7. CASE UNCHANGED vars
  BY <1>7 DEF vars, history
<1>q. QED
  BY <1>1, <1>2, <1>3, <1>4, <1>5, <1>6, <1>7, <1>s DEF Next

-----------------------------------------------------------------------------
(* Entries. *)

\* What -applicationDidLaunch: makes of the entries that are there.
With(e, p) == IF e.name = NameOf[p] THEN [e EXCEPT !.pids = @ \cup {PidString(p)}] ELSE e

\* What -applicationDidTerminateSubprocess: makes of them.
Pruned(e, name) ==
    IF e.name = name THEN [e EXCEPT !.pids = {s \in @ : s = NoPid \/ Alive(s)}] ELSE e

\* An entry has a name and a set of PIDs, and both may be replaced.
LEMMA EntryFields ==
    ASSUME NEW e \in Entries, NEW S
    PROVE  /\ e.name \in Names /\ e.pids \subseteq PidStrings
           /\ [e EXCEPT !.pids = S].name = e.name
           /\ [e EXCEPT !.pids = S].pids = S
           /\ S \subseteq PidStrings => [e EXCEPT !.pids = S] \in Entries
  BY DEF Entries

\* The entry of a process that is alone of its name.
LEMMA NewEntry ==
    ASSUME NEW p \in Pids
    PROVE  /\ Entry(p) \in Entries
           /\ Entry(p).name = NameOf[p] /\ Entry(p).pids = {PidString(p)}
           /\ PidString(p) \in PidStrings
           /\ PidString(p) \in {p, NoPid}
           /\ ~IsX(p) => PidString(p) = p
  BY ProcessManagerAssumption DEF Entry, Entries, PidString, PidStrings, IsX

\* The PID of a launched process is added to the entry of its name, and to no other.
LEMMA WithFields ==
    ASSUME NEW e \in Entries, NEW p \in Pids
    PROVE  /\ With(e, p) \in Entries
           /\ With(e, p).name = e.name
           /\ e.pids \subseteq With(e, p).pids
           /\ With(e, p).pids \subseteq e.pids \cup {PidString(p)}
           /\ e.name = NameOf[p] => PidString(p) \in With(e, p).pids
           /\ e.name # NameOf[p] => With(e, p) = e
<1>1. e.pids \cup {PidString(p)} \subseteq PidStrings
  BY EntryFields, NewEntry
<1>q. QED
  BY <1>1, EntryFields DEF With

\* The PIDs that no longer exist go from the entry of that name, and from no other.
LEMMA PrunedFields ==
    ASSUME NEW e \in Entries, NEW name
    PROVE  /\ Pruned(e, name) \in Entries
           /\ Pruned(e, name).name = e.name
           /\ Pruned(e, name).pids \subseteq e.pids
           /\ \A s \in e.pids : Alive(s) => s \in Pruned(e, name).pids
           /\ e.name # name => Pruned(e, name) = e
<1>1. {s \in e.pids : s = NoPid \/ Alive(s)} \subseteq PidStrings
  BY EntryFields
<1>q. QED
  BY <1>1, EntryFields DEF Pruned

\* -applicationDidLaunch: as a change of entries.
LEMMA LaunchedList ==
    ASSUME applications \subseteq Entries, NEW p \in Pids, DidLaunch(p)
    PROVE  /\ applications' \subseteq Entries
           /\ \A e \in applications' :
                 \/ \E f \in applications : e = With(f, p)
                 \/ e = Entry(p) /\ \A f \in applications : f.name # NameOf[p]
           /\ \A f \in applications : With(f, p) \in applications'
           /\ \E e \in applications' : e.name = NameOf[p] /\ PidString(p) \in e.pids
<1>1. CASE \E e \in applications : e.name = NameOf[p]
  <2>1. applications' = {With(e, p) : e \in applications}
    BY <1>1 DEF DidLaunch, With
  <2>q. QED
    BY <1>1, <2>1, WithFields
<1>2. CASE ~\E e \in applications : e.name = NameOf[p]
  <2>1. applications' = applications \cup {Entry(p)}
    BY <1>2 DEF DidLaunch
  <2>2. \A f \in applications : With(f, p) = f
    BY <1>2 DEF With
  <2>q. QED
    BY <1>2, <2>1, <2>2, NewEntry
<1>q. QED
  BY <1>1, <1>2

\* -applicationDidTerminateSubprocess: as a change of entries.
LEMMA PrunedList ==
    ASSUME applications \subseteq Entries, NEW name, DidTerminateSubprocess(name)
    PROVE  \/ UNCHANGED applications
           \/ /\ applications' \subseteq Entries
              /\ \A e \in applications' : \E f \in applications : e = Pruned(f, name)
              /\ \A f \in applications : Pruned(f, name) \in applications'
<1>1. CASE workspaceQuitting
  BY <1>1 DEF DidTerminateSubprocess
<1>2. CASE ~workspaceQuitting
  <2>1. applications' = {Pruned(e, name) : e \in applications}
    BY <1>2 DEF DidTerminateSubprocess, Pruned
  <2>q. QED
    BY <2>1, PrunedFields
<1>q. QED
  BY <1>1, <1>2

-----------------------------------------------------------------------------
(* Type correctness. *)

\* What -init finds satisfies the inductive invariant.
LEMMA InitIInv == Init => IInv
<1> SUFFICES ASSUME Init PROVE IInv
  OBVIOUS
<1> USE DEF Init
<1>1. \A p \in Initial : /\ p \in Pids /\ ~IsX(p) /\ Entry(p) \in Entries
                         /\ Entry(p).name = NameOf[p] /\ Entry(p).pids = {p}
                         /\ PidString(p) = p
  BY ProcessManagerAssumption, NewEntry DEF IsX
<1>2. TypeOK
  <2>1. process \in [Pids -> Statuses]
    BY DEF Statuses
  <2>2. applications \subseteq Entries
    BY <1>1
  <2>3. gdnc \in Seq(Notices)
    OBVIOUS
  <2>4. operations \subseteq Operations /\ known \subseteq Pids
    BY <1>1
  <2>5. phase \in Phases
    BY DEF Phases
  <2>q. QED
    BY <2>1, <2>2, <2>3, <2>4, <2>5 DEF TypeOK
<1>3. Named
  <2> SUFFICES ASSUME NEW e \in applications
               PROVE  /\ \A f \in applications : f.name = e.name => f = e
                      /\ \E p \in Pids : NameOf[p] = e.name
                      /\ \A s \in e.pids : s # NoPid => NameOf[s] = e.name
                      /\ e.pids # {}
                      /\ \A s \in e.pids : s \in Pids /\ process[s] \in {"running", "gone"}
    BY DEF Named
  <2>1. PICK p \in Initial : e = Entry(p)
    OBVIOUS
  <2>2. ASSUME NEW f \in applications, f.name = e.name PROVE f = e
    <3>1. PICK q \in Initial : f = Entry(q)
      OBVIOUS
    <3>2. q = p
      BY <1>1, <2>1, <2>2, <3>1, ProcessManagerAssumption
    <3>q. QED
      BY <2>1, <3>1, <3>2
  <2>q. QED
    BY <1>1, <2>1, <2>2
<1>4. Lifecycle
  <2> SUFFICES ASSUME NEW p \in Pids
               PROVE  /\ process[p] \in {"absent", "running"}
                      /\ process[p] # "running" =>
                            p \notin known /\ \A e \in applications : p \notin e.pids
    BY DEF Lifecycle
  <2>q. QED
    BY <1>1
<1>5. Launches /\ EndsAreReal
  BY DEF Launches, EndsAreReal
<1>6. KnownIsListed
  BY <1>1 DEF KnownIsListed, Listed
<1>7. StaleIsExplained
  BY <1>1 DEF StaleIsExplained
<1>8. FlagsFollowLogOut /\ LeftToQuit /\ NothingIsLeftBehind
  BY DEF FlagsFollowLogOut, LeftToQuit, NothingIsLeftBehind
<1>9. ToQuitIsListed
  BY DEF ToQuitIsListed
<1>q. QED
  BY <1>2, <1>3, <1>4, <1>5, <1>6, <1>7, <1>8, <1>9 DEF IInv, Lists

\* The lists, the processes and the notifications keep to their types.
LEMMA ListTypeStep ==
    ASSUME TypeOK, Named, [Next]_vars
    PROVE  /\ applications' \subseteq Entries
           /\ process' \in [Pids -> Statuses]
           /\ gdnc' \in Seq(Notices)
           /\ known' \subseteq Pids /\ crashed' \subseteq Pids /\ ignored' \subseteq Names
           /\ withdrawn' \subseteq Pids
<1> USE ProcessManagerAssumption DEF TypeOK
<1>n. \A p \in Pids : NameOf[p] \in Names
  OBVIOUS
<1>s. \A p \in Pids : /\ Append(gdnc, Notice("launched", p)) \in Seq(Notices)
                      /\ Append(gdnc, Notice("terminated", p)) \in Seq(Notices)
  BY NoticeIsOne, QueueNotice
<1>a. ASSUME NEW p \in Pids, DidLaunch(p)
      PROVE  applications' \subseteq Entries /\ known' \subseteq Pids
  BY <1>a, LaunchedList DEF DidLaunch
<1>d. ASSUME NEW name \in Names, DidTerminate(name)
      PROVE  applications' \subseteq Entries /\ ignored' \subseteq Names
  BY <1>d DEF DidTerminate, Remove, Without
<1>1. CASE UNCHANGED lists
  BY <1>1 DEF lists
<1>2. ASSUME NEW p \in Pids, Launch(p) \/ Exit(p) \/ Crash(p)
      PROVE  /\ process' \in [Pids -> Statuses]
             /\ gdnc' \in Seq(Notices)
             /\ crashed' \subseteq Pids
             /\ UNCHANGED <<applications, known, ignored, withdrawn>>
  <2>1. process' \in [Pids -> Statuses]
    BY <1>2 DEF Launch, Exit, Crash, Statuses, End
  <2>2. \/ UNCHANGED gdnc
        \/ gdnc' = Append(gdnc, Notice("launched", p))
        \/ gdnc' = Append(gdnc, Notice("terminated", p))
    BY <1>2 DEF Launch, Exit, Crash
  <2>3. gdnc' \in Seq(Notices)
    BY <2>2, <1>s
  <2>q. QED
    BY <1>2, <2>1, <2>3 DEF Launch, Exit, Crash, history
<1>3. ASSUME NEW p \in Pids, WindowDidAppear(p)
      PROVE  /\ applications' \subseteq Entries /\ known' \subseteq Pids
             /\ process' \in [Pids -> Statuses]
             /\ UNCHANGED <<gdnc, crashed, ignored, withdrawn>>
  BY <1>3, <1>a DEF WindowDidAppear, Statuses
<1>4. ASSUME NEW p \in Pids, WindowDidClose(p)
      PROVE  /\ applications' \subseteq Entries
             /\ process' \in [Pids -> Statuses]
             /\ UNCHANGED <<gdnc, known, crashed, ignored, withdrawn>>
  <2>1. process' \in [Pids -> Statuses]
    BY <1>4 DEF WindowDidClose
  <2>q. QED
    BY <1>4, <2>1, PrunedList DEF WindowDidClose, history
<1>5. ASSUME NEW p \in Pids, WindowsAreGone(p)
      PROVE  /\ applications' \subseteq Entries /\ ignored' \subseteq Names
             /\ process' \in [Pids -> Statuses]
             /\ known' \subseteq Pids /\ withdrawn' \subseteq Pids
             /\ UNCHANGED <<gdnc, crashed>>
  BY <1>5, <1>d, <1>n DEF WindowsAreGone, Statuses
<1>6. CASE Notify
  <2>1. Head(gdnc) \in Notices /\ Tail(gdnc) \in Seq(Notices)
    BY <1>6, DeliverNotice DEF Notify
  <2>2. Head(gdnc).pid \in Pids /\ NameOf[Head(gdnc).pid] \in Names
    BY <2>1, <1>n DEF Notices
  <2>q. QED
    BY <1>6, <2>1, <2>2, <1>a, <1>d DEF Notify
<1>7. ASSUME NEW e \in applications, KillEntry(e)
      PROVE  /\ process' \in [Pids -> Statuses]
             /\ gdnc' \in Seq(Notices)
             /\ UNCHANGED <<applications, known, crashed, ignored, withdrawn>>
  <2>1. (CHOOSE p \in Pids : NameOf[p] = e.name) \in Pids
    BY DEF Named
  <2>2. process' \in [Pids -> Statuses]
    BY <1>7 DEF KillEntry, Kill, Statuses, End
  <2>3. \/ UNCHANGED gdnc
        \/ gdnc' = Append(gdnc, Notice("terminated", CHOOSE p \in Pids : NameOf[p] = e.name))
    BY <1>7 DEF KillEntry, Kill
  <2>4. gdnc' \in Seq(Notices)
    BY <2>1, <2>3, <1>s
  <2>q. QED
    BY <1>7, <2>2, <2>4 DEF KillEntry, Kill, history
<1>8. ASSUME NEW name \in Names, QuitApp(name)
      PROVE  /\ applications' \subseteq Entries
             /\ process' \in [Pids -> Statuses]
             /\ gdnc' \in Seq(Notices)
             /\ UNCHANGED <<known, crashed, ignored, withdrawn>>
  <2>1. CASE KillX(name)
    BY <1>8, <2>1 DEF QuitApp, KillX, Remove, Without, Statuses, End
  <2>2. CASE AppQuits(name)
    BY <1>8, <2>2, <1>s DEF QuitApp, AppQuits, Remove, Without, Statuses
  <2>q. QED
    BY <1>8, <2>1, <2>2 DEF QuitApp
<1>q. QED
  BY <1>1, <1>2, <1>3, <1>4, <1>5, <1>6, <1>7, <1>8, ListSteps

\* The Kill button is that of an entry, or is not there.
LEMMA KillableTypeStep ==
    ASSUME TypeOK, [Next]_vars
    PROVE  killable' \in Names \cup {"none"}
<1>n. /\ killable \in Names \cup {"none"}
      /\ \A e \in applications : e.name \in Names
  BY EntryFields DEF TypeOK
<1>l. ASSUME NEW p, DidLaunch(p) PROVE UNCHANGED killable
  BY <1>l DEF DidLaunch
<1>r. ASSUME NEW name, Remove(name) PROVE killable' \in Names \cup {"none"}
  <2>1. {e.name : e \in Without(name)} \subseteq Names
    BY <1>n DEF Without
  <2>q. QED
    BY <1>n, <1>r, <2>1 DEF Remove
<1>d. ASSUME NEW name, DidTerminate(name) PROVE killable' \in Names \cup {"none"}
  BY <1>d, <1>n, <1>r DEF DidTerminate
<1>1. CASE Up /\ ProcessStep
  BY <1>1, <1>n DEF ProcessStep, Launch, Exit, Crash
<1>2. CASE WindowStep
  BY <1>2, <1>n, <1>l, <1>d DEF WindowStep, WindowDidAppear, WindowDidClose, WindowsAreGone,
                                DidTerminateSubprocess
<1>3. CASE Notify
  BY <1>3, <1>n, <1>l, <1>d DEF Notify
<1>4. CASE \E e \in applications : ShowApp(e) \/ Kill(e)
  BY <1>4, <1>n DEF ShowApp, Kill
<1>5. CASE \E o \in Operations : OperationDidCreate(o) \/ OperationWillDestroy(o)
  BY <1>5, <1>n DEF OperationDidCreate, OperationWillDestroy
<1>6. CASE \E c \in {"Log out", "Power off"} : Quit(c)
  BY <1>6, <1>n DEF Quit
<1>7. CASE AnswerPanel \/ WaitIsOver \/ AppsTerminated
  BY <1>7, <1>n DEF AnswerPanel, WaitIsOver, AppsTerminated
<1>8. CASE \E name \in Names : QuitNext(name)
  BY <1>8, <1>n, <1>r DEF QuitNext, KillX, AppQuits, Veto
<1>9. CASE UNCHANGED vars
  BY <1>9, <1>n DEF vars
<1>q. QED
  BY <1>1, <1>2, <1>3, <1>4, <1>5, <1>6, <1>7, <1>8, <1>9 DEF Next

\* The variables of Log Out and the operations keep to their types.
LEMMA LogOutTypeStep ==
    ASSUME TypeOK, [Next]_vars
    PROVE  /\ workspaceQuitting' \in BOOLEAN /\ isQuitting' \in BOOLEAN
           /\ phase' \in Phases
           /\ choice' \in {"none", "Log out", "Power off"}
           /\ success' \in BOOLEAN
           /\ toQuit' \subseteq Names
           /\ operations' \subseteq Operations
<1> USE DEF TypeOK, Phases
<1>1. CASE UNCHANGED <<logout, operations>>
  BY <1>1 DEF logout
<1>2. CASE \E p \in Pids : Launch(p) \/ Exit(p) \/ Crash(p)
  BY <1>1, <1>2 DEF Launch, Exit, Crash
<1>3. CASE WindowStep \/ Notify
  BY <1>1, <1>3 DEF WindowStep, WindowDidAppear, WindowDidClose, WindowsAreGone, Notify
<1>s. CASE \E e \in applications : ShowApp(e)
  BY <1>1, <1>s DEF ShowApp
<1>4. CASE \E e \in applications : Kill(e)
  BY <1>4 DEF Kill
<1>5. CASE \E o \in Operations : OperationDidCreate(o) \/ OperationWillDestroy(o)
  BY <1>5 DEF OperationDidCreate, OperationWillDestroy, logout
<1>6. CASE \E c \in {"Log out", "Power off"} : Quit(c)
  <2>1. {e.name : e \in applications} \subseteq Names
    BY EntryFields
  <2>q. QED
    BY <1>6, <2>1 DEF Quit, QuitApplications
<1>7. CASE AnswerPanel
  BY <1>7 DEF AnswerPanel, StopRaises
<1>8. CASE WaitIsOver
  <2>1. {e.name : e \in applications} \subseteq Names
    BY EntryFields
  <2>q. QED
    BY <1>8, <2>1 DEF WaitIsOver, QuitApplications, Refuse
<1>9. CASE \E name \in Names : QuitNext(name)
  BY <1>9 DEF QuitNext, KillX, AppQuits, Veto, Refuse
<1>10. CASE AppsTerminated
  BY <1>10 DEF AppsTerminated
<1>11. CASE UNCHANGED vars
  BY <1>1, <1>11 DEF vars
<1>q. QED
  BY <1>2, <1>3, <1>4, <1>5, <1>6, <1>7, <1>8, <1>9, <1>10, <1>11, <1>s DEF Next, ProcessStep

\* No step leaves the types.
LEMMA TypeStep == TypeOK /\ Named /\ [Next]_vars => TypeOK'
  BY ListTypeStep, KillableTypeStep, LogOutTypeStep DEF TypeOK

-----------------------------------------------------------------------------
(* Log Out. *)

\* -applicationShouldTerminate: and the methods it calls set and reset the flags with
\* the phase, and no operation is listed once the applications are ended.
LEMMA FlagsStep ==
    ASSUME TypeOK, FlagsFollowLogOut, [Next]_vars,
           phase \in {"apps", "finished"} => operations = {},
           phase = "apps" => choice = "Log out"
    PROVE  /\ FlagsFollowLogOut'
           /\ phase' \in {"apps", "finished"} => operations' = {}
           /\ phase' = "apps" => choice' = "Log out"
<1> USE DEF FlagsFollowLogOut
<1>1. CASE UNCHANGED <<logout, operations>>
  BY <1>1 DEF logout
<1>2. CASE \E p \in Pids : Launch(p) \/ Exit(p) \/ Crash(p)
  BY <1>1, <1>2 DEF Launch, Exit, Crash
<1>3. CASE WindowStep \/ Notify
  BY <1>1, <1>3 DEF WindowStep, WindowDidAppear, WindowDidClose, WindowsAreGone, Notify
<1>s. CASE \E e \in applications : ShowApp(e)
  BY <1>1, <1>s DEF ShowApp
<1>4. CASE \E e \in applications : Kill(e)
  <2>1. /\ phase \in {"idle", "aborted"} /\ phase' \in {phase, "killed"}
        /\ UNCHANGED <<workspaceQuitting, isQuitting, choice, operations>>
    BY <1>4 DEF Kill, Buttons
  <2>q. QED
    BY <2>1
<1>5. CASE \E o \in Operations : OperationDidCreate(o) \/ OperationWillDestroy(o)
  <2>1. phase \in {"idle", "wait", "aborted"} \/ operations' \subseteq operations
    BY <1>5 DEF OperationDidCreate, OperationWillDestroy, RunLoop
  <2>2. UNCHANGED <<workspaceQuitting, isQuitting, choice, phase>>
    BY <1>5 DEF OperationDidCreate, OperationWillDestroy, logout
  <2>q. QED
    BY <2>1, <2>2
<1>6. CASE \E c \in {"Log out", "Power off"} : Quit(c)
  BY <1>6 DEF Quit, QuitApplications
<1>7. CASE AnswerPanel
  BY <1>7 DEF AnswerPanel, StopRaises
<1>8. CASE WaitIsOver
  BY <1>8 DEF WaitIsOver, QuitApplications, Refuse
<1>9. CASE \E name \in Names : QuitNext(name)
  <2>1. /\ phase = "apps" /\ UNCHANGED operations
        /\ \/ UNCHANGED <<workspaceQuitting, isQuitting, choice, phase>>
           \/ Veto
    BY <1>9 DEF QuitNext, KillX, AppQuits
  <2>q. QED
    BY <2>1 DEF Veto, Refuse
<1>10. CASE AppsTerminated
  BY <1>10 DEF AppsTerminated
<1>11. CASE UNCHANGED vars
  BY <1>1, <1>11 DEF vars
<1>q. QED
  BY <1>2, <1>3, <1>4, <1>5, <1>6, <1>7, <1>8, <1>9, <1>10, <1>11, <1>s DEF Next, ProcessStep

-----------------------------------------------------------------------------
(* What a step does to a process, to the entries and to the notifications. *)

\* A process starts once and ends once; an X11 application's windows come and go.
LEMMA ProcessSteps ==
    ASSUME TypeOK, Lifecycle, [Next]_vars, NEW p \in Pids
    PROVE  \/ process'[p] = process[p]
           \/ ~IsX(p) /\ process[p] = "absent" /\ process'[p] = "running"
           \/ ~IsX(p) /\ process[p] = "running" /\ process'[p] = "gone"
           \/ IsX(p) /\ process[p] = "absent" /\ process'[p] = "windowless"
           \/ IsX(p) /\ process[p] = "windowless" /\ process'[p] = "running"
           \/ IsX(p) /\ process[p] = "running" /\ process'[p] \in {"windowless", "dying"}
           \/ IsX(p) /\ process[p] \in {"windowless", "dying"} /\ process'[p] = "gone"
<1>t. process \in [Pids -> Statuses]
  BY DEF TypeOK
<1>l. ~IsX(p) => process[p] \in {"absent", "running", "gone"}
  BY DEF Lifecycle
<1>e. ASSUME Alive(p), process'[p] = End(p)
      PROVE  \/ ~IsX(p) /\ process[p] = "running" /\ process'[p] = "gone"
             \/ IsX(p) /\ process[p] = "running" /\ process'[p] = "dying"
             \/ IsX(p) /\ process[p] = "windowless" /\ process'[p] = "gone"
  BY <1>e, <1>l DEF Alive, End
<1>1. CASE UNCHANGED lists
  BY <1>1 DEF lists
<1>2. CASE \E q \in Pids : Launch(q)
  BY <1>2, <1>t DEF Launch
<1>3. CASE \E q \in Pids : Exit(q) \/ Crash(q)
  BY <1>3, <1>t, <1>e DEF Exit, Crash
<1>4. CASE \E q \in Pids : WindowDidAppear(q) \/ WindowDidClose(q) \/ WindowsAreGone(q)
  BY <1>4, <1>t, <1>l DEF WindowDidAppear, WindowDidClose, WindowsAreGone
<1>5. CASE Notify
  BY <1>5 DEF Notify
<1>6. ASSUME NEW e \in applications, KillEntry(e), process'[p] # process[p]
      PROVE  Alive(p) /\ process'[p] = End(p)
  BY <1>6, <1>t DEF KillEntry, Kill
<1>7. ASSUME NEW name \in Names, QuitApp(name), process'[p] # process[p]
      PROVE  Alive(p) /\ process'[p] = End(p)
  <2>1. CASE KillX(name)
    BY <1>7, <1>t, <2>1 DEF KillX
  <2>2. CASE AppQuits(name) /\ name \notin XApps
    BY <1>7, <1>t, <2>2 DEF AppQuits, IsX, End
  <2>q. QED
    BY <1>7, <2>1, <2>2 DEF QuitApp
<1>q. QED
  BY <1>1, <1>2, <1>3, <1>4, <1>5, <1>6, <1>7, <1>e, ListSteps

\* Only the window manager takes an X11 application's windows away.
LEMMA WindowsGo ==
    ASSUME TypeOK, [Next]_vars, NEW p \in Pids, IsX(p),
           process[p] \in {"running", "dying"}, process'[p] \in {"windowless", "gone"}
    PROVE  WindowsAreGone(p)
<1>t. process \in [Pids -> Statuses]
  BY DEF TypeOK
<1>1. ~UNCHANGED lists
  BY DEF lists
<1>2. ~\E q \in Pids : Launch(q) \/ Exit(q) \/ Crash(q) \/ WindowDidAppear(q)
                         \/ WindowDidClose(q)
  BY <1>t DEF Launch, Exit, Crash, WindowDidAppear, WindowDidClose, Alive, End
<1>3. ~Notify
  BY DEF Notify
<1>4. ~\E f \in applications : KillEntry(f)
  BY <1>t DEF KillEntry, Kill, Alive, End
<1>5. ~\E name \in Names : QuitApp(name)
  <2>1. ~\E name \in Names : KillX(name)
    BY <1>t DEF KillX, Alive, End
  <2>2. ~\E name \in Names : AppQuits(name) /\ name \notin XApps
    BY <1>t DEF AppQuits, Alive, IsX
  <2>q. QED
    BY <2>1, <2>2 DEF QuitApp
<1>6. PICK q \in Pids : WindowsAreGone(q)
  BY <1>1, <1>2, <1>3, <1>4, <1>5, ListSteps
<1>7. q = p
  BY <1>t, <1>6 DEF WindowsAreGone
<1>q. QED
  BY <1>6, <1>7

\* The list is changed by a launch, by a window that closes, or by removing entries.
LEMMA EntrySteps ==
    ASSUME TypeOK, Lifecycle, [Next]_vars
    PROVE  \/ applications' \subseteq applications /\ known' \subseteq known
           \/ \E p \in Pids :
                 /\ DidLaunch(p)
                 /\ UNCHANGED <<crashed, ignored>>
                 /\ \/ /\ process[p] = "windowless" /\ process'[p] = "running" /\ IsX(p)
                       /\ UNCHANGED gdnc
                    \/ /\ gdnc # <<>> /\ gdnc' = Tail(gdnc)
                       /\ Head(gdnc).what = "launched" /\ Head(gdnc).pid = p
                       /\ UNCHANGED process
           \/ \E p \in Pids :
                 /\ DidTerminateSubprocess(NameOf[p])
                 /\ IsX(p)
                 /\ UNCHANGED <<known, gdnc>>
<1>t. process \in [Pids -> Statuses] /\ gdnc \in Seq(Notices)
  BY DEF TypeOK
<1>1. CASE UNCHANGED lists
  BY <1>1 DEF lists
<1>2. CASE \E p \in Pids : Launch(p) \/ Exit(p) \/ Crash(p)
  BY <1>2 DEF Launch, Exit, Crash, history
<1>3. ASSUME NEW p \in Pids, WindowDidAppear(p)
      PROVE  /\ DidLaunch(p) /\ UNCHANGED <<gdnc, crashed, ignored>>
             /\ process[p] = "windowless" /\ process'[p] = "running" /\ IsX(p)
  BY <1>3, <1>t DEF WindowDidAppear, Lifecycle
<1>4. ASSUME NEW p \in Pids, WindowDidClose(p)
      PROVE  DidTerminateSubprocess(NameOf[p]) /\ IsX(p) /\ UNCHANGED <<known, gdnc>>
  BY <1>4 DEF WindowDidClose, history
<1>d. ASSUME NEW name, DidTerminate(name) PROVE applications' \subseteq applications
  BY <1>d DEF DidTerminate, Remove, Without
<1>5. CASE \E p \in Pids : WindowsAreGone(p)
  BY <1>5, <1>d DEF WindowsAreGone
<1>6. CASE Notify
  <2>1. Head(gdnc).pid \in Pids
    BY <1>6, <1>t, DeliverNotice DEF Notify, Notices
  <2>q. QED
    BY <1>6, <2>1, <1>d DEF Notify
<1>7. CASE \E e \in applications : KillEntry(e)
  BY <1>7 DEF KillEntry, Kill, history
<1>8. CASE \E name \in Names : QuitApp(name)
  BY <1>8 DEF QuitApp, KillX, AppQuits, Remove, Without
<1>q. QED
  BY <1>1, <1>2, <1>3, <1>4, <1>5, <1>6, <1>7, <1>8, ListSteps

\* A process becomes known, or its PID listed, by its launch only.
LEMMA OnlyLaunched ==
    ASSUME TypeOK, Lifecycle, [Next]_vars, NEW p \in Pids
    PROVE  \/ /\ p \in known' => p \in known
              /\ \A e \in applications' : p \in e.pids =>
                    \E f \in applications : f.name = e.name /\ p \in f.pids
           \/ /\ DidLaunch(p)
              /\ process[p] = "windowless" /\ process'[p] = "running" /\ IsX(p)
           \/ /\ DidLaunch(p)
              /\ gdnc # <<>> /\ gdnc' = Tail(gdnc)
              /\ Head(gdnc).what = "launched" /\ Head(gdnc).pid = p
<1>t. applications \subseteq Entries
  BY DEF TypeOK
<1>1. CASE applications' \subseteq applications /\ known' \subseteq known
  BY <1>1
<1>2. ASSUME NEW q \in Pids, DidLaunch(q), q # p
      PROVE  /\ p \in known' => p \in known
             /\ \A e \in applications' : p \in e.pids =>
                    \E f \in applications : f.name = e.name /\ p \in f.pids
  <2>1. p \in known' => p \in known
    BY <1>2 DEF DidLaunch
  <2>2. p # PidString(q)
    BY <1>2, NewEntry, ProcessManagerAssumption
  <2>3. ASSUME NEW e \in applications', p \in e.pids
        PROVE  \E f \in applications : f.name = e.name /\ p \in f.pids
    <3>1. e # Entry(q)
      BY <2>2, <2>3, NewEntry
    <3>2. PICK f \in applications : e = With(f, q)
      BY <1>2, <1>t, <3>1, LaunchedList
    <3>q. QED
      BY <1>t, <2>2, <2>3, <3>2, WithFields
  <2>q. QED
    BY <2>1, <2>3
<1>3. ASSUME NEW name, DidTerminateSubprocess(name), NEW e \in applications', p \in e.pids
      PROVE  \E f \in applications : f.name = e.name /\ p \in f.pids
  <2>1. CASE UNCHANGED applications
    BY <1>3, <2>1
  <2>2. CASE \E f \in applications : e = Pruned(f, name)
    BY <1>t, <1>3, <2>2, PrunedFields
  <2>q. QED
    BY <1>t, <1>3, <2>1, <2>2, PrunedList
<1>q. QED
  BY <1>1, <1>2, <1>3, EntrySteps

\* gdnc gets the launch of a process that did not run, or the end of one that has ended;
\* it delivers in order.
LEMMA NoticeSteps ==
    ASSUME TypeOK, Named, Lifecycle, [Next]_vars
    PROVE  \/ UNCHANGED gdnc
           \/ \E p \in Pids :
                 /\ gdnc' = Append(gdnc, Notice("launched", p))
                 /\ ~IsX(p) /\ process[p] = "absent" /\ process'[p] = "running"
                 /\ UNCHANGED <<applications, known, crashed>>
           \/ \E p \in Pids :
                 /\ gdnc' = Append(gdnc, Notice("terminated", p))
                 /\ IsSystem(p) \/ \E q \in Pids : NameOf[q] = NameOf[p] /\ process'[q] = "gone"
           \/ gdnc # <<>> /\ gdnc' = Tail(gdnc) /\ UNCHANGED process
<1>t. process \in [Pids -> Statuses]
  BY DEF TypeOK
<1>1. CASE UNCHANGED lists
  BY <1>1 DEF lists
<1>2. ASSUME NEW p \in Pids, Launch(p), gdnc' # gdnc
      PROVE  /\ gdnc' = Append(gdnc, Notice("launched", p))
             /\ ~IsX(p) /\ process[p] = "absent" /\ process'[p] = "running"
             /\ UNCHANGED <<applications, known, crashed>>
  BY <1>2, <1>t DEF Launch, history
<1>3. ASSUME NEW p \in Pids, Exit(p) \/ Crash(p), gdnc' # gdnc
      PROVE  gdnc' = Append(gdnc, Notice("terminated", p)) /\ process'[p] = "gone"
  BY <1>3, <1>t DEF Exit, Crash, End
<1>4. CASE \E p \in Pids : WindowDidAppear(p) \/ WindowDidClose(p) \/ WindowsAreGone(p)
  BY <1>4 DEF WindowDidAppear, WindowDidClose, WindowsAreGone
<1>5. CASE Notify
  BY <1>5 DEF Notify
<1>6. ASSUME NEW e \in applications, KillEntry(e), gdnc' # gdnc
      PROVE  \E p \in Pids :
                 /\ gdnc' = Append(gdnc, Notice("terminated", p))
                 /\ IsSystem(p) \/ \E q \in Pids : NameOf[q] = NameOf[p] /\ process'[q] = "gone"
  <2> DEFINE p == CHOOSE r \in Pids : NameOf[r] = e.name
  <2>1. p \in Pids /\ NameOf[p] = e.name
    BY DEF Named
  <2>2. e.name \notin XApps /\ gdnc' = Append(gdnc, Notice("terminated", p))
    BY <1>6 DEF KillEntry, Kill
  <2>3. CASE ~IsSystem(p)
    <3>1. PICK q \in e.pids : q \in Pids /\ process[q] \in {"running", "gone"}
      BY <2>2 DEF Named
    <3>2. NameOf[q] = e.name
      BY <3>1, ProcessManagerAssumption DEF Named
    <3>3. ~IsSystem(q)
      BY <2>1, <2>3, <3>2 DEF IsSystem
    <3>4. process'[q] = "gone"
      BY <1>6, <1>t, <2>2, <3>1, <3>2, <3>3 DEF KillEntry, Kill, Alive, End, IsX
    <3>q. QED
      BY <2>1, <2>2, <3>1, <3>2, <3>4
  <2>q. QED
    BY <2>1, <2>2, <2>3
<1>7. ASSUME NEW name \in Names, QuitApp(name), gdnc' # gdnc
      PROVE  \E p \in Pids : gdnc' = Append(gdnc, Notice("terminated", p)) /\ process'[p] = "gone"
  <2>1. AppQuits(name)
    BY <1>7 DEF QuitApp, KillX
  <2>q. QED
    BY <2>1, <1>t DEF AppQuits
<1>q. QED
  BY <1>1, <1>2, <1>3, <1>4, <1>5, <1>6, <1>7, ListSteps

\* A GNUstep application that ends has crashed, or its end is announced.
LEMMA EndsAreAnnounced ==
    ASSUME TypeOK, Named, Lifecycle, ToQuitIsListed, [Next]_vars, NEW p \in Pids,
           ~IsX(p), process[p] = "running", process'[p] = "gone"
    PROVE  \/ p \in crashed'
           \/ \E q \in Pids :
                 NameOf[q] = NameOf[p] /\ gdnc' = Append(gdnc, Notice("terminated", q))
<1>t. process \in [Pids -> Statuses]
  BY DEF TypeOK
<1>1. ~UNCHANGED lists
  BY DEF lists
<1>2. CASE \E q \in Pids : Launch(q)
  BY <1>2, <1>t DEF Launch
<1>3. CASE \E q \in Pids : Exit(q) \/ Crash(q)
  BY <1>3, <1>t DEF Exit, Crash, End
<1>4. ASSUME NEW q \in Pids, WindowDidAppear(q) \/ WindowDidClose(q) \/ WindowsAreGone(q)
      PROVE  FALSE
  BY <1>4, <1>t DEF WindowDidAppear, WindowDidClose, WindowsAreGone
<1>5. ~Notify
  BY DEF Notify
<1>6. ASSUME NEW e \in applications, KillEntry(e)
      PROVE  \E q \in Pids :
                 NameOf[q] = NameOf[p] /\ gdnc' = Append(gdnc, Notice("terminated", q))
  <2>1. p \in e.pids
    BY <1>6, <1>t DEF KillEntry, Kill
  <2>2. NameOf[p] = e.name
    BY <2>1, ProcessManagerAssumption DEF Named
  <2>3. gdnc' = Append(gdnc, Notice("terminated", CHOOSE q \in Pids : NameOf[q] = e.name))
    BY <1>6, <2>2 DEF KillEntry, Kill, IsX
  <2>q. QED
    BY <2>2, <2>3
<1>7. ASSUME NEW name \in Names, QuitApp(name)
      PROVE  gdnc' = Append(gdnc, Notice("terminated", p))
  <2>1. CASE KillX(name) /\ name \in XApps
    <3> DEFINE e == CHOOSE entry \in applications : entry.name = name
    <3>1. e \in applications /\ e.name = name
      BY <1>7 DEF QuitApp, ToQuitIsListed
    <3>2. p \in e.pids
      BY <1>t, <2>1 DEF KillX
    <3>3. NameOf[p] = name
      BY <3>1, <3>2, ProcessManagerAssumption DEF Named
    <3>q. QED
      BY <2>1, <3>3 DEF IsX
  <2>2. CASE AppQuits(name)
    BY <1>t, <2>2 DEF AppQuits
  <2>q. QED
    BY <1>7, <2>1, <2>2 DEF QuitApp
<1>q. QED
  BY <1>1, <1>2, <1>3, <1>4, <1>5, <1>6, <1>7, ListSteps

\* History is never rewritten, and the dead stay dead.
LEMMA Monotone ==
    ASSUME TypeOK, Lifecycle, [Next]_vars
    PROVE  /\ crashed \subseteq crashed' /\ ignored \subseteq ignored'
           /\ withdrawn \subseteq withdrawn'
           /\ \A p \in Pids : process[p] = "gone" => process'[p] = "gone"
           /\ \A p \in Pids : ~IsX(p) /\ process[p] \in {"running", "gone"} =>
                  process'[p] \in {"running", "gone"}
<1>n. ASSUME NEW name, DidTerminate(name) PROVE ignored \subseteq ignored'
  BY <1>n DEF DidTerminate
<1>1. /\ crashed \subseteq crashed' /\ ignored \subseteq ignored'
      /\ withdrawn \subseteq withdrawn'
  <2>1. CASE UNCHANGED lists
    BY <2>1 DEF lists
  <2>2. CASE \E p \in Pids : Launch(p) \/ Exit(p) \/ Crash(p) \/ WindowDidAppear(p)
                               \/ WindowDidClose(p) \/ WindowsAreGone(p)
    BY <2>2, <1>n DEF Launch, Exit, Crash, WindowDidAppear, WindowDidClose, WindowsAreGone,
                      history
  <2>3. CASE Notify
    BY <2>3, <1>n DEF Notify
  <2>4. CASE \E e \in applications : KillEntry(e)
    BY <2>4 DEF KillEntry, Kill, history
  <2>5. CASE \E name \in Names : QuitApp(name)
    BY <2>5 DEF QuitApp
  <2>q. QED
    BY <2>1, <2>2, <2>3, <2>4, <2>5, ListSteps
<1>2. ASSUME NEW p \in Pids
      PROVE  /\ process[p] = "gone" => process'[p] = "gone"
             /\ ~IsX(p) /\ process[p] \in {"running", "gone"} =>
                    process'[p] \in {"running", "gone"}
  BY ProcessSteps
<1>q. QED
  BY <1>1, <1>2

-----------------------------------------------------------------------------
(* The list, the processes and the notifications stay as the invariant says. *)

\* An entry keeps to the processes of its application.
LEMMA NamedStep ==
    ASSUME TypeOK, Lists, [Next]_vars
    PROVE  Named'
<1> USE DEF Lists
<1>t. applications \subseteq Entries /\ gdnc \in Seq(Notices)
  BY DEF TypeOK
<1>p. ASSUME NEW p \in Pids, NameOf[p] \notin XApps, process[p] \in {"running", "gone"}
      PROVE  process'[p] \in {"running", "gone"}
  BY <1>p, Monotone DEF IsX
<1>f. ASSUME NEW f \in applications, f.name \notin XApps, NEW s \in f.pids
      PROVE  s \in Pids /\ process'[s] \in {"running", "gone"}
  BY <1>f, <1>p, ProcessManagerAssumption DEF Named
<1>1. CASE applications' \subseteq applications
  BY <1>1, <1>f DEF Named
<1>2. ASSUME NEW p \in Pids, DidLaunch(p),
             ~IsX(p) => process[p] \in {"running", "gone"}
      PROVE  Named'
  <2>1. ASSUME NEW e \in applications', NEW f \in applications', f.name = e.name
        PROVE  f = e
    <3>1. CASE \E g, h \in applications : e = With(g, p) /\ f = With(h, p)
      <4>1. PICK g, h \in applications : e = With(g, p) /\ f = With(h, p)
        BY <3>1
      <4>2. g.name = h.name
        BY <1>t, <2>1, <4>1, WithFields
      <4>q. QED
        BY <4>1, <4>2 DEF Named
    <3>2. CASE e = Entry(p) /\ f = Entry(p)
      BY <3>2
    <3>3. CASE \E g \in applications : \/ e = With(g, p) /\ f = Entry(p)
                                       \/ f = With(g, p) /\ e = Entry(p)
      <4>1. \A g \in applications : With(g, p).name # Entry(p).name
                                      \/ g.name = NameOf[p]
        BY <1>t, WithFields, NewEntry
      <4>2. CASE \A g \in applications : g.name # NameOf[p]
        BY <2>1, <3>3, <4>1, <4>2
      <4>3. CASE \E g \in applications : g.name = NameOf[p]
        <5>1. \E g, h \in applications : e = With(g, p) /\ f = With(h, p)
          BY <1>2, <1>t, <4>3, LaunchedList
        <5>q. QED
          BY <3>1, <5>1
      <4>q. QED
        BY <4>2, <4>3
    <3>q. QED
      BY <1>2, <1>t, <3>1, <3>2, <3>3, LaunchedList
  <2>2. ASSUME NEW e \in applications'
        PROVE  /\ \E q \in Pids : NameOf[q] = e.name
               /\ \A s \in e.pids : s # NoPid => NameOf[s] = e.name
               /\ e.name \notin XApps =>
                     /\ e.pids # {}
                     /\ \A s \in e.pids : s \in Pids /\ process'[s] \in {"running", "gone"}
    <3>p. PidString(p) # NoPid => PidString(p) = p
      BY NewEntry
    <3>r. NameOf[p] \notin XApps => PidString(p) = p /\ process'[p] \in {"running", "gone"}
      BY <1>2, <1>p, NewEntry DEF IsX
    <3>1. CASE e = Entry(p)
      BY <3>1, <3>p, <3>r, NewEntry
    <3>2. ASSUME NEW f \in applications, e = With(f, p)
          PROVE  /\ \E q \in Pids : NameOf[q] = e.name
                 /\ \A s \in e.pids : s # NoPid => NameOf[s] = e.name
                 /\ e.name \notin XApps =>
                       /\ e.pids # {}
                       /\ \A s \in e.pids : s \in Pids /\ process'[s] \in {"running", "gone"}
      <4>1. e.name = f.name /\ f.pids \subseteq e.pids
            /\ e.pids \subseteq f.pids \cup {PidString(p)}
            /\ (e.name # NameOf[p] => e.pids = f.pids)
        BY <1>t, <3>2, WithFields
      <4>2. /\ \E q \in Pids : NameOf[q] = f.name
            /\ \A s \in f.pids : s # NoPid => NameOf[s] = f.name
            /\ f.name \notin XApps => f.pids # {}
        BY DEF Named
      <4>q. QED
        BY <4>1, <4>2, <3>p, <3>r, <1>f
    <3>q. QED
      BY <1>2, <1>t, <3>1, <3>2, LaunchedList
  <2>q. QED
    BY <2>1, <2>2 DEF Named
<1>3. ASSUME NEW p \in Pids, DidTerminateSubprocess(NameOf[p]), IsX(p)
      PROVE  Named'
  <2>1. CASE \A e \in applications' : \E f \in applications : e = Pruned(f, NameOf[p])
    <3>1. ASSUME NEW f \in applications
          PROVE  /\ Pruned(f, NameOf[p]).name = f.name
                 /\ Pruned(f, NameOf[p]).pids \subseteq f.pids
                 /\ f.name \notin XApps => Pruned(f, NameOf[p]).pids = f.pids
      BY <1>3, <1>t, PrunedFields DEF IsX
    <3>2. ASSUME NEW e \in applications'
          PROVE  /\ \A f \in applications' : f.name = e.name => f = e
                 /\ \E q \in Pids : NameOf[q] = e.name
                 /\ \A s \in e.pids : s # NoPid => NameOf[s] = e.name
                 /\ e.name \notin XApps =>
                       /\ e.pids # {}
                       /\ \A s \in e.pids : s \in Pids /\ process'[s] \in {"running", "gone"}
      <4>1. PICK f \in applications : e = Pruned(f, NameOf[p])
        BY <2>1
      <4>2. \A g \in applications' : g.name = e.name => g = e
        BY <2>1, <3>1, <4>1 DEF Named
      <4>q. QED
        BY <3>1, <4>1, <4>2, <1>f DEF Named
    <3>q. QED
      BY <3>2 DEF Named
  <2>q. QED
    BY <1>1, <1>3, <1>t, <2>1, PrunedList
<1>4. ASSUME NEW p \in Pids, gdnc # <<>>, Head(gdnc).what = "launched", Head(gdnc).pid = p
      PROVE  process[p] \in {"running", "gone"}
  <2>1. 1 \in DOMAIN gdnc /\ Head(gdnc) = gdnc[1]
    BY <1>4, <1>t, DeliverNotice
  <2>q. QED
    BY <1>4, <2>1 DEF Launches, Launched
<1>q. QED
  BY <1>1, <1>2, <1>3, <1>4, EntrySteps

\* A process that has not been announced stays unknown and unlisted.
LEMMA LifecycleStep ==
    ASSUME TypeOK, Lists, [Next]_vars
    PROVE  Lifecycle'
<1> USE DEF Lists
<1> SUFFICES ASSUME NEW p \in Pids
             PROVE  /\ ~IsX(p) => process'[p] \in {"absent", "running", "gone"}
                    /\ process'[p] \in {"absent", "windowless"} => p \notin known'
                    /\ process'[p] = "absent" =>
                          \A e \in applications' : p \notin e.pids
  BY DEF Lifecycle, IsX
<1>1. ~IsX(p) => process[p] \in {"absent", "running", "gone"}
  BY DEF Lifecycle
<1>2. ~IsX(p) => process'[p] \in {"absent", "running", "gone"}
  BY <1>1, ProcessSteps
<1>3. ASSUME process[p] \in {"absent", "windowless"}, process'[p] \in {"absent", "windowless"}
      PROVE  /\ p \notin known'
             /\ process'[p] = "absent" => \A e \in applications' : p \notin e.pids
  <2>1. process'[p] = "absent" => process[p] = "absent"
    BY ProcessSteps
  <2>2. /\ p \notin known
        /\ process'[p] = "absent" => \A e \in applications : p \notin e.pids
    BY <1>3, <2>1 DEF Lifecycle
  <2>3. ~(gdnc # <<>> /\ Head(gdnc).what = "launched" /\ Head(gdnc).pid = p)
    <3> SUFFICES ASSUME gdnc # <<>>, Head(gdnc).what = "launched", Head(gdnc).pid = p
                 PROVE  FALSE
      OBVIOUS
    <3>1. 1 \in DOMAIN gdnc /\ Head(gdnc) = gdnc[1]
      BY DeliverNotice DEF TypeOK
    <3>q. QED
      BY <1>3, <3>1 DEF Launches, Launched
  <2>q. QED
    BY <1>3, <2>2, <2>3, OnlyLaunched
<1>4. ASSUME process[p] \notin {"absent", "windowless"},
             process'[p] \in {"absent", "windowless"}
      PROVE  process'[p] # "absent" /\ p \notin known'
  <2>1. IsX(p) /\ process[p] = "running" /\ process'[p] = "windowless"
    BY <1>4, ProcessSteps
  <2>2. WindowsAreGone(p)
    BY <2>1, WindowsGo
  <2>q. QED
    BY <2>1, <2>2 DEF WindowsAreGone
<1>q. QED
  BY <1>2, <1>3, <1>4

\* A launch is queued once, by a process that did not run before; while it is queued the
\* process stays out of the list, and its end, if it is announced, comes after it.
LEMMA LaunchesStep ==
    ASSUME TypeOK, Lists, [Next]_vars
    PROVE  Launches'
<1> USE DEF Lists, Launched, Terminated
<1>t. gdnc \in Seq(Notices) /\ process \in [Pids -> Statuses]
  BY DEF TypeOK
<1> DEFINE Fine(p) ==
        /\ process'[p] \in {"running", "gone"}
        /\ ~IsX(p)
        /\ p \notin known'
        /\ \A e \in applications' : p \notin e.pids
\* One that was queued and is not delivered now.
<1>1. ASSUME NEW i \in DOMAIN gdnc, Launched(i),
             gdnc # <<>> /\ gdnc' = Tail(gdnc) => i # 1
      PROVE  Fine(gdnc[i].pid)
  <2> DEFINE p == gdnc[i].pid
  <2>1. /\ p \in Pids /\ process[p] \in {"running", "gone"} /\ ~IsX(p) /\ p \notin known
        /\ \A e \in applications : p \notin e.pids
    BY <1>1, <1>t, NoticeFields DEF Launches
  <2>2. ~(gdnc # <<>> /\ gdnc' = Tail(gdnc) /\ Head(gdnc).what = "launched"
          /\ Head(gdnc).pid = p)
    <3> SUFFICES ASSUME gdnc # <<>>, gdnc' = Tail(gdnc), Head(gdnc).what = "launched",
                        Head(gdnc).pid = p
                 PROVE  FALSE
      OBVIOUS
    <3>1. 1 \in DOMAIN gdnc /\ Head(gdnc) = gdnc[1] /\ i # 1
      BY <1>1, <1>t, DeliverNotice
    <3>q. QED
      BY <1>1, <3>1 DEF Launches
  <2>3. p \notin known' /\ \A e \in applications' : p \notin e.pids
    BY <2>1, <2>2, OnlyLaunched
  <2>4. process'[p] \in {"running", "gone"}
    BY <2>1, Monotone
  <2>q. QED
    BY <2>1, <2>3, <2>4
\* A process whose launch is queued and that has ended: the end is queued behind it.
<1>2. ASSUME NEW i \in DOMAIN gdnc, Launched(i),
             process'[gdnc[i].pid] = "gone", gdnc[i].pid \notin crashed'
      PROVE  \/ \E j \in DOMAIN gdnc :
                    j > i /\ Terminated(j) /\ NameOf[gdnc[j].pid] = NameOf[gdnc[i].pid]
             \/ \E q \in Pids : /\ NameOf[q] = NameOf[gdnc[i].pid]
                                /\ gdnc' = Append(gdnc, Notice("terminated", q))
  <2> DEFINE p == gdnc[i].pid
  <2>1. /\ p \in Pids /\ process[p] \in {"running", "gone"} /\ ~IsX(p)
        /\ process[p] = "gone" /\ p \notin crashed =>
              \E j \in DOMAIN gdnc :
                  j > i /\ Terminated(j) /\ NameOf[gdnc[j].pid] = NameOf[p]
    BY <1>2, <1>t, NoticeFields DEF Launches
  <2>2. p \notin crashed
    BY <1>2, Monotone
  <2>3. CASE process[p] = "gone"
    BY <2>1, <2>2, <2>3
  <2>4. CASE process[p] = "running"
    BY <1>2, <2>1, <2>4, EndsAreAnnounced
  <2>q. QED
    BY <2>1, <2>3, <2>4
<1>d. \A i, j \in DOMAIN gdnc : Launched(i) /\ Launched(j) /\ i # j => gdnc[i].pid # gdnc[j].pid
  BY DEF Launches
<1>3. CASE UNCHANGED gdnc
  <2>1. ~(gdnc # <<>> /\ gdnc' = Tail(gdnc))
    BY <1>3, <1>t
  <2>2. \A q \in Pids : gdnc' # Append(gdnc, Notice("terminated", q))
    BY <1>3, <1>t, NoticeIsOne, QueueNotice
  <2>q. QED
    BY <1>1, <1>2, <1>3, <1>d, <2>1, <2>2 DEF Launches
<1>4. ASSUME NEW p \in Pids, gdnc' = Append(gdnc, Notice("launched", p)),
             ~IsX(p), process[p] = "absent", process'[p] = "running",
             UNCHANGED <<applications, known, crashed>>
      PROVE  Launches'
  <2>a. /\ Notice("launched", p) \in Notices
        /\ Notice("launched", p).what = "launched" /\ Notice("launched", p).pid = p
    BY NoticeIsOne
  <2>b. /\ Len(gdnc) \in Nat
        /\ DOMAIN gdnc = 1..Len(gdnc) /\ DOMAIN gdnc' = 1..(Len(gdnc) + 1)
        /\ gdnc'[Len(gdnc) + 1] = Notice("launched", p)
        /\ \A i \in DOMAIN gdnc : gdnc'[i] = gdnc[i]
    BY <1>4, <1>t, <2>a, QueueNotice
  <2>c. \A i \in DOMAIN gdnc : Launched(i) => gdnc[i].pid # p
    BY <1>4 DEF Launches
  <2>d. ~(gdnc # <<>> /\ gdnc' = Tail(gdnc))
    BY <1>4, <1>t, <2>a, QueueNotice
  <2>e. \A q \in Pids : gdnc' # Append(gdnc, Notice("terminated", q))
    BY <2>a, <2>b, <1>t, NoticeIsOne, QueueNotice
  <2>f. Fine(p)
    BY <1>4 DEF Lifecycle
  <2> SUFFICES ASSUME NEW i \in DOMAIN gdnc', gdnc'[i].what = "launched"
               PROVE  /\ Fine(gdnc'[i].pid)
                      /\ \A j \in DOMAIN gdnc' : j # i /\ gdnc'[j].what = "launched" =>
                             gdnc'[j].pid # gdnc'[i].pid
                      /\ process'[gdnc'[i].pid] = "gone" /\ gdnc'[i].pid \notin crashed' =>
                             \E j \in DOMAIN gdnc' :
                                /\ j > i /\ gdnc'[j].what = "terminated"
                                /\ NameOf[gdnc'[j].pid] = NameOf[gdnc'[i].pid]
    BY DEF Launches
  <2>1. CASE i \in DOMAIN gdnc
    <3>1. gdnc'[i] = gdnc[i] /\ Launched(i) /\ gdnc[i].pid # p
      BY <2>1, <2>b, <2>c
    <3>2. Fine(gdnc[i].pid)
      BY <1>1, <2>1, <2>d, <3>1
    <3>3. \A j \in DOMAIN gdnc' : j # i /\ gdnc'[j].what = "launched" =>
              gdnc'[j].pid # gdnc[i].pid
      BY <1>d, <2>1, <2>a, <2>b, <3>1
    <3>4. ASSUME process'[gdnc[i].pid] = "gone", gdnc[i].pid \notin crashed'
          PROVE  \E j \in DOMAIN gdnc' : /\ j > i /\ gdnc'[j].what = "terminated"
                                         /\ NameOf[gdnc'[j].pid] = NameOf[gdnc[i].pid]
      BY <1>2, <2>1, <2>b, <2>e, <3>1, <3>4
    <3>q. QED
      BY <3>1, <3>2, <3>3, <3>4
  <2>2. CASE i = Len(gdnc) + 1
    BY <1>4, <2>2, <2>a, <2>b, <2>c, <2>f
  <2>q. QED
    BY <2>1, <2>2, <2>b
<1>5. ASSUME NEW p \in Pids, gdnc' = Append(gdnc, Notice("terminated", p))
      PROVE  Launches'
  <2>a. /\ Notice("terminated", p) \in Notices
        /\ Notice("terminated", p).what = "terminated" /\ Notice("terminated", p).pid = p
    BY NoticeIsOne
  <2>b. /\ Len(gdnc) \in Nat
        /\ DOMAIN gdnc = 1..Len(gdnc) /\ DOMAIN gdnc' = 1..(Len(gdnc) + 1)
        /\ gdnc'[Len(gdnc) + 1] = Notice("terminated", p)
        /\ \A i \in DOMAIN gdnc : gdnc'[i] = gdnc[i]
    BY <1>5, <1>t, <2>a, QueueNotice
  <2>d. ~(gdnc # <<>> /\ gdnc' = Tail(gdnc))
    BY <1>5, <1>t, <2>a, QueueNotice
  <2> SUFFICES ASSUME NEW i \in DOMAIN gdnc', gdnc'[i].what = "launched"
               PROVE  /\ Fine(gdnc'[i].pid)
                      /\ \A j \in DOMAIN gdnc' : j # i /\ gdnc'[j].what = "launched" =>
                             gdnc'[j].pid # gdnc'[i].pid
                      /\ process'[gdnc'[i].pid] = "gone" /\ gdnc'[i].pid \notin crashed' =>
                             \E j \in DOMAIN gdnc' :
                                /\ j > i /\ gdnc'[j].what = "terminated"
                                /\ NameOf[gdnc'[j].pid] = NameOf[gdnc'[i].pid]
    BY DEF Launches
  <2>1. i \in DOMAIN gdnc /\ i < Len(gdnc) + 1
    BY <2>a, <2>b
  <2>2. gdnc'[i] = gdnc[i] /\ Launched(i)
    BY <2>1, <2>b
  <2>3. Fine(gdnc[i].pid)
    BY <1>1, <2>1, <2>d, <2>2
  <2>4. \A j \in DOMAIN gdnc' : j # i /\ gdnc'[j].what = "launched" =>
            gdnc'[j].pid # gdnc[i].pid
    BY <1>d, <2>1, <2>2, <2>a, <2>b
  <2>5. ASSUME process'[gdnc[i].pid] = "gone", gdnc[i].pid \notin crashed'
        PROVE  \E j \in DOMAIN gdnc' : /\ j > i /\ gdnc'[j].what = "terminated"
                                       /\ NameOf[gdnc'[j].pid] = NameOf[gdnc[i].pid]
    <3>1. CASE \E j \in DOMAIN gdnc :
                    j > i /\ Terminated(j) /\ NameOf[gdnc[j].pid] = NameOf[gdnc[i].pid]
      BY <2>b, <3>1
    <3>2. CASE \E q \in Pids : /\ NameOf[q] = NameOf[gdnc[i].pid]
                               /\ gdnc' = Append(gdnc, Notice("terminated", q))
      <4>1. PICK q \in Pids : /\ NameOf[q] = NameOf[gdnc[i].pid]
                              /\ gdnc' = Append(gdnc, Notice("terminated", q))
        BY <3>2
      <4>2. /\ gdnc'[Len(gdnc) + 1].what = "terminated"
            /\ gdnc'[Len(gdnc) + 1].pid = q
        BY <1>t, <4>1, NoticeIsOne, QueueNotice
      <4>q. QED
        BY <2>1, <2>b, <4>1, <4>2
    <3>q. QED
      BY <1>2, <2>1, <2>2, <2>5, <3>1, <3>2
  <2>q. QED
    BY <2>2, <2>3, <2>4, <2>5
<1>6. CASE gdnc # <<>> /\ gdnc' = Tail(gdnc)
  <2>a. /\ \A i \in DOMAIN gdnc' : i \in Nat /\ i + 1 \in DOMAIN gdnc /\ i + 1 # 1
                                   /\ gdnc'[i] = gdnc[i + 1]
        /\ \A i \in DOMAIN gdnc : i # 1 => /\ i \in Nat /\ i > 1 /\ i - 1 \in DOMAIN gdnc'
                                          /\ gdnc'[i - 1] = gdnc[i]
    BY <1>6, <1>t, DeliverNotice
  <2>b. \A q \in Pids : gdnc' # Append(gdnc, Notice("terminated", q))
    BY <1>6, <1>t, NoticeIsOne, QueueNotice
  <2> SUFFICES ASSUME NEW i \in DOMAIN gdnc', gdnc'[i].what = "launched"
               PROVE  /\ Fine(gdnc'[i].pid)
                      /\ \A j \in DOMAIN gdnc' : j # i /\ gdnc'[j].what = "launched" =>
                             gdnc'[j].pid # gdnc'[i].pid
                      /\ process'[gdnc'[i].pid] = "gone" /\ gdnc'[i].pid \notin crashed' =>
                             \E j \in DOMAIN gdnc' :
                                /\ j > i /\ gdnc'[j].what = "terminated"
                                /\ NameOf[gdnc'[j].pid] = NameOf[gdnc'[i].pid]
    BY DEF Launches
  <2>1. i + 1 \in DOMAIN gdnc /\ i + 1 # 1 /\ gdnc'[i] = gdnc[i + 1] /\ Launched(i + 1)
    BY <2>a
  <2>2. Fine(gdnc[i + 1].pid)
    BY <1>1, <2>1
  <2>3. \A j \in DOMAIN gdnc' : j # i /\ gdnc'[j].what = "launched" =>
            gdnc'[j].pid # gdnc[i + 1].pid
    <3> SUFFICES ASSUME NEW j \in DOMAIN gdnc', j # i, gdnc'[j].what = "launched"
                 PROVE  gdnc'[j].pid # gdnc[i + 1].pid
      OBVIOUS
    <3>1. j + 1 \in DOMAIN gdnc /\ j + 1 # i + 1 /\ gdnc'[j] = gdnc[j + 1] /\ Launched(j + 1)
      BY <2>a
    <3>q. QED
      BY <1>d, <2>1, <3>1
  <2>4. ASSUME process'[gdnc[i + 1].pid] = "gone", gdnc[i + 1].pid \notin crashed'
        PROVE  \E j \in DOMAIN gdnc' : /\ j > i /\ gdnc'[j].what = "terminated"
                                       /\ NameOf[gdnc'[j].pid] = NameOf[gdnc[i + 1].pid]
    <3>1. PICK k \in DOMAIN gdnc :
              k > i + 1 /\ Terminated(k) /\ NameOf[gdnc[k].pid] = NameOf[gdnc[i + 1].pid]
      BY <1>2, <2>1, <2>4, <2>b
    <3>2. i \in Nat /\ k \in Nat /\ k # 1
      BY <2>a, <3>1, <1>t
    <3>3. k - 1 \in DOMAIN gdnc' /\ gdnc'[k - 1] = gdnc[k] /\ k - 1 > i
      BY <2>a, <3>1, <3>2
    <3>q. QED
      BY <3>1, <3>3
  <2>q. QED
    BY <2>1, <2>2, <2>3, <2>4
<1>q. QED
  BY <1>3, <1>4, <1>5, <1>6, NoticeSteps

\* Once applications are being ended, only Log Out takes entries away, and nothing
\* becomes known.
LEMMA EntriesWhileQuitting ==
    ASSUME TypeOK, Lifecycle, FlagsFollowLogOut, [Next]_vars, phase = "apps"
    PROVE  /\ known' \subseteq known
           /\ \A e \in applications :
                 \/ \E f \in applications' : f.name = e.name
                 \/ QuitApp(e.name)
<1> USE DEF TypeOK
<1>w. workspaceQuitting
  BY DEF FlagsFollowLogOut
<1>a. ASSUME NEW p \in Pids, DidLaunch(p)
      PROVE  UNCHANGED known /\ \A e \in applications : \E f \in applications' : f.name = e.name
  <2>1. UNCHANGED known
    BY <1>a, <1>w DEF DidLaunch
  <2>q. QED
    BY <1>a, <2>1, LaunchedList, WithFields
<1>d. ASSUME NEW name, DidTerminate(name) PROVE UNCHANGED applications
  BY <1>d, <1>w DEF DidTerminate
<1>1. CASE UNCHANGED lists
  BY <1>1 DEF lists
<1>2. CASE \E p \in Pids : Launch(p) \/ Exit(p) \/ Crash(p)
  BY <1>2 DEF Launch, Exit, Crash, history
<1>3. CASE \E p \in Pids : WindowDidAppear(p)
  BY <1>3, <1>a DEF WindowDidAppear
<1>4. CASE \E p \in Pids : WindowDidClose(p)
  BY <1>4, <1>w DEF WindowDidClose, DidTerminateSubprocess, history
<1>5. CASE \E p \in Pids : WindowsAreGone(p)
  BY <1>5, <1>d DEF WindowsAreGone
<1>6. CASE Notify
  <2>1. Head(gdnc).pid \in Pids
    BY <1>6, DeliverNotice DEF Notify, Notices
  <2>q. QED
    BY <1>6, <2>1, <1>a, <1>d DEF Notify
<1>7. CASE \E e \in applications : KillEntry(e)
  BY <1>7 DEF KillEntry, Kill, Buttons
<1>8. ASSUME NEW name \in Names, QuitApp(name)
      PROVE  UNCHANGED known /\ applications' = Without(name)
  BY <1>8 DEF QuitApp, KillX, AppQuits, Remove
<1>9. CASE \E name \in Names : QuitApp(name)
  BY <1>8, <1>9 DEF Without
<1>q. QED
  BY <1>1, <1>2, <1>3, <1>4, <1>5, <1>6, <1>7, <1>9, ListSteps

\* -terminateAllApps starts from the names in the list and only ever takes from them.
LEMMA ToQuitSteps ==
    ASSUME TypeOK, LeftToQuit, [Next]_vars, phase' = "apps"
    PROVE  \/ /\ phase # "apps"
              /\ toQuit' = {e.name : e \in applications}
              /\ UNCHANGED applications
           \/ /\ phase = "apps" /\ UNCHANGED toQuit
           \/ \E name \in toQuit :
                 /\ phase = "apps" /\ toQuit' = toQuit \ {name}
                 /\ QuitApp(name) \/ (name \in SystemApps /\ UNCHANGED lists)
<1>1. CASE UNCHANGED logout
  BY <1>1 DEF logout
<1>2. CASE (Up /\ ProcessStep) \/ WindowStep \/ Notify
  BY <1>1, <1>2 DEF ProcessStep, Launch, Exit, Crash, WindowStep, WindowDidAppear,
                    WindowDidClose, WindowsAreGone, Notify
<1>3. CASE \E e \in applications : Kill(e)
  BY <1>3 DEF Kill, Buttons
<1>s. CASE \E e \in applications : ShowApp(e)
  BY <1>1, <1>s DEF ShowApp
<1>4. CASE \E o \in Operations : OperationDidCreate(o) \/ OperationWillDestroy(o)
  BY <1>1, <1>4 DEF OperationDidCreate, OperationWillDestroy
<1>5. CASE \E c \in {"Log out", "Power off"} : Quit(c)
  BY <1>5 DEF Quit, QuitApplications
<1>6. CASE AnswerPanel \/ AppsTerminated
  BY <1>6 DEF AnswerPanel, StopRaises, AppsTerminated
<1>7. CASE WaitIsOver
  BY <1>7 DEF WaitIsOver, QuitApplications, Refuse
<1>8. ASSUME NEW name \in Names, QuitNext(name)
      PROVE  /\ name \in toQuit /\ phase = "apps" /\ toQuit' = toQuit \ {name}
             /\ QuitApp(name) \/ (name \in SystemApps /\ UNCHANGED lists)
  <2>1. name \in toQuit /\ phase = "apps" /\ toQuit' = toQuit \ {name} /\ UNCHANGED history
    BY <1>8 DEF QuitNext
  <2>2. CASE name \in XApps /\ KillX(name)
    BY <2>1, <2>2 DEF QuitApp, history
  <2>3. CASE name \in SystemApps /\ UNCHANGED <<applications, process, gdnc>>
    BY <2>1, <2>3 DEF lists, history
  <2>4. CASE name \notin XApps \cup SystemApps /\ AppQuits(name)
    BY <2>1, <2>4 DEF QuitApp, history
  <2>q. QED
    BY <1>8, <2>1, <2>2, <2>3, <2>4 DEF QuitNext, Veto, Refuse
<1>9. CASE UNCHANGED vars
  BY <1>1, <1>9 DEF vars
<1>q. QED
  BY <1>1, <1>2, <1>3, <1>4, <1>5, <1>6, <1>7, <1>8, <1>9, <1>s DEF Next

\* Nobody else takes away what Log Out has still to come to.
LEMMA ToQuitIsListedStep ==
    ASSUME TypeOK, Lists, FlagsFollowLogOut, LeftToQuit, [Next]_vars
    PROVE  ToQuitIsListed'
<1> USE DEF Lists
<1> SUFFICES ASSUME phase' = "apps", NEW name \in toQuit'
             PROVE  \E e \in applications' : e.name = name
  BY DEF ToQuitIsListed
<1>1. CASE phase # "apps"
  BY <1>1, ToQuitSteps
<1>2. CASE phase = "apps"
  <2>1. name \in toQuit /\ ~QuitApp(name)
    <3>1. toQuit' \subseteq toQuit
      BY <1>2, ToQuitSteps
    <3>2. QuitApp(name) => name \notin toQuit'
      BY DEF QuitApp
    <3>q. QED
      BY <3>1, <3>2
  <2>2. PICK e \in applications : e.name = name
    BY <1>2, <2>1 DEF ToQuitIsListed
  <2>q. QED
    BY <1>2, <2>1, <2>2, EntriesWhileQuitting
<1>q. QED
  BY <1>1, <1>2

\* What Log Out has come to has left the list.
LEMMA LeftToQuitStep ==
    ASSUME TypeOK, Lists, FlagsFollowLogOut, LeftToQuit, [Next]_vars
    PROVE  LeftToQuit'
<1> USE DEF Lists
<1>1. /\ phase' \in {"apps", "finished"} => operations' = {}
      /\ phase' = "apps" => choice' = "Log out"
  BY FlagsStep DEF LeftToQuit
<1>2. ASSUME phase' = "apps", NEW e \in applications', NEW p \in e.pids \cap known'
      PROVE  e.name \in SystemApps \cup toQuit'
  <2>1. CASE phase # "apps"
    BY <1>2, <2>1, ToQuitSteps
  <2>2. CASE phase = "apps"
    <3>1. p \in known
      BY <1>2, <2>2, EntriesWhileQuitting
    <3>2. p \in Pids /\ process[p] # "windowless"
      BY <3>1 DEF TypeOK, Lifecycle
    <3>3. ~(gdnc # <<>> /\ Head(gdnc).what = "launched" /\ Head(gdnc).pid = p)
      <4> SUFFICES ASSUME gdnc # <<>>, Head(gdnc).what = "launched", Head(gdnc).pid = p
                   PROVE  FALSE
        OBVIOUS
      <4>1. 1 \in DOMAIN gdnc /\ Head(gdnc) = gdnc[1]
        BY DeliverNotice DEF TypeOK
      <4>q. QED
        BY <3>1, <4>1 DEF Launches, Launched
    <3>4. PICK f \in applications : f.name = e.name /\ p \in f.pids
      BY <1>2, <3>2, <3>3, OnlyLaunched
    <3>5. e.name \in SystemApps \cup toQuit
      BY <2>2, <3>1, <3>4 DEF LeftToQuit
    <3>6. ASSUME QuitApp(e.name) PROVE FALSE
      <4>1. applications' = Without(e.name)
        BY <3>6 DEF QuitApp, KillX, AppQuits, Remove
      <4>q. QED
        BY <4>1 DEF Without
    <3>q. QED
      BY <1>2, <2>2, <3>5, <3>6, ToQuitSteps
  <2>q. QED
    BY <2>1, <2>2
<1>q. QED
  BY <1>1, <1>2 DEF LeftToQuit

\* Log Out ends when nothing is left that it has to come to.
LEMMA NothingIsLeftBehindStep ==
    ASSUME TypeOK, FlagsFollowLogOut, LeftToQuit, NothingIsLeftBehind, [Next]_vars
    PROVE  NothingIsLeftBehind'
<1> SUFFICES ASSUME phase' = "finished"
             PROVE  /\ operations' = {}
                    /\ choice' = "Log out" =>
                           \A e \in applications' :
                               e.name \in SystemApps \/ e.pids \cap known' = {}
  BY DEF NothingIsLeftBehind
<1>1. operations' = {}
  BY FlagsStep DEF LeftToQuit
<1>2. ASSUME choice' = "Log out"
      PROVE  \A e \in applications' : e.name \in SystemApps \/ e.pids \cap known' = {}
  <2>1. CASE UNCHANGED vars
    BY <1>2, <2>1 DEF vars, logout, history, NothingIsLeftBehind
  <2>2. CASE AppsTerminated
    BY <2>2 DEF AppsTerminated, history, LeftToQuit
  <2>3. ASSUME phase = "finished", Next PROVE FALSE
    BY <2>3 DEF Next, Up, WindowStep, WindowDidAppear, WindowDidClose, WindowsAreGone, Notify,
                ShowApp, Kill, Buttons, OperationDidCreate, OperationWillDestroy, RunLoop, Quit,
                AnswerPanel,
                WaitIsOver, QuitNext, AppsTerminated, FlagsFollowLogOut
  <2>4. ~UNCHANGED phase \/ UNCHANGED vars
    BY <2>3
  <2>5. CASE (Up /\ ProcessStep) \/ WindowStep \/ Notify
    BY <2>1, <2>4, <2>5 DEF ProcessStep, Launch, Exit, Crash, WindowStep, WindowDidAppear,
                            WindowDidClose, WindowsAreGone, Notify, logout
  <2>6. CASE \E o \in Operations : OperationDidCreate(o) \/ OperationWillDestroy(o)
    BY <2>1, <2>4, <2>6 DEF OperationDidCreate, OperationWillDestroy, logout
  <2>7. ~\E e \in applications : Kill(e)
    BY DEF Kill, Buttons
  <2>s. ~\E e \in applications : ShowApp(e)
    BY DEF ShowApp, Buttons, logout
  <2>8. ~\E c \in {"Log out", "Power off"} : Quit(c)
    BY <1>2 DEF Quit, QuitApplications
  <2>9. ~WaitIsOver
    BY <1>2 DEF WaitIsOver, QuitApplications, Refuse
  <2>10. ~AnswerPanel
    BY DEF AnswerPanel, StopRaises
  <2>11. ~\E name \in Names : QuitNext(name)
    BY DEF QuitNext, KillX, AppQuits, Veto, Refuse
  <2>q. QED
    BY <2>1, <2>2, <2>5, <2>6, <2>7, <2>8, <2>9, <2>10, <2>11, <2>s DEF Next
<1>q. QED
  BY <1>1, <1>2

-----------------------------------------------------------------------------
(* Ends. *)

\* An end that is announced stays true.
LEMMA EndsAreRealStep ==
    ASSUME TypeOK, Lists, EndsAreReal, [Next]_vars
    PROVE  EndsAreReal'
<1> USE DEF Lists
<1>t. gdnc \in Seq(Notices)
  BY DEF TypeOK
<1> DEFINE Real(p) == IsSystem(p) \/ \E q \in Pids : NameOf[q] = NameOf[p] /\ process'[q] = "gone"
<1>1. \A i \in DOMAIN gdnc : Terminated(i) => Real(gdnc[i].pid)
  BY Monotone DEF EndsAreReal
<1> SUFFICES ASSUME NEW i \in DOMAIN gdnc', gdnc'[i].what = "terminated"
             PROVE  Real(gdnc'[i].pid)
  BY DEF EndsAreReal, Terminated, IsSystem
<1>2. CASE UNCHANGED gdnc
  BY <1>1, <1>2 DEF Terminated
<1>3. ASSUME NEW what \in {"launched", "terminated"}, NEW p \in Pids,
             gdnc' = Append(gdnc, Notice(what, p)), what = "terminated" => Real(p)
      PROVE  Real(gdnc'[i].pid)
  <2>1. /\ Notice(what, p) \in Notices
        /\ Notice(what, p).what = what /\ Notice(what, p).pid = p
    BY NoticeIsOne
  <2>2. /\ Len(gdnc) \in Nat
        /\ DOMAIN gdnc = 1..Len(gdnc) /\ DOMAIN gdnc' = 1..(Len(gdnc) + 1)
        /\ gdnc'[Len(gdnc) + 1] = Notice(what, p)
        /\ \A j \in DOMAIN gdnc : gdnc'[j] = gdnc[j]
    BY <1>3, <1>t, <2>1, QueueNotice
  <2>3. CASE i \in DOMAIN gdnc
    BY <1>1, <2>2, <2>3 DEF Terminated
  <2>4. CASE i = Len(gdnc) + 1
    BY <1>3, <2>1, <2>2, <2>4
  <2>q. QED
    BY <2>2, <2>3, <2>4
<1>4. CASE gdnc # <<>> /\ gdnc' = Tail(gdnc)
  <2>1. i + 1 \in DOMAIN gdnc /\ gdnc'[i] = gdnc[i + 1]
    BY <1>4, <1>t, DeliverNotice
  <2>q. QED
    BY <1>1, <2>1 DEF Terminated
<1>q. QED
  BY <1>2, <1>3, <1>4, NoticeSteps

\* An entry is taken away only after the end of one of its processes or of its leader
\* window, or with its processes; otherwise it keeps those that run.
LEMMA EntriesStay ==
    ASSUME TypeOK, Lists, EndsAreReal, [Next]_vars, NEW e \in applications
    PROVE  \/ \E f \in applications' :
                  f.name = e.name /\ \A s \in e.pids : Alive(s) => s \in f.pids
           \/ e.name \in SystemApps
           \/ \E q \in Pids : NameOf[q] = e.name /\ process'[q] = "gone"
           \/ \E q \in withdrawn' : NameOf[q] = e.name /\ process'[q] = "windowless"
           \/ \A p \in Pids \cap e.pids : process'[p] # "running"
<1> USE DEF Lists
<1>t. applications \subseteq Entries /\ gdnc \in Seq(Notices) /\ process \in [Pids -> Statuses]
  BY DEF TypeOK
<1> DEFINE Stays == \E f \in applications' :
                        f.name = e.name /\ \A s \in e.pids : Alive(s) => s \in f.pids
<1>a. ASSUME NEW p \in Pids, DidLaunch(p) PROVE Stays
  <2>1. With(e, p) \in applications' /\ With(e, p).name = e.name /\ e.pids \subseteq With(e, p).pids
    BY <1>a, <1>t, LaunchedList, WithFields
  <2>q. QED
    BY <2>1
<1>d. ASSUME NEW name, DidTerminate(name), e.name # name PROVE Stays
  BY <1>d DEF DidTerminate, Remove, Without
<1>1. CASE UNCHANGED lists
  BY <1>1 DEF lists
<1>2. CASE \E p \in Pids : Launch(p) \/ Exit(p) \/ Crash(p)
  BY <1>2 DEF Launch, Exit, Crash
<1>3. CASE \E p \in Pids : WindowDidAppear(p)
  BY <1>3, <1>a DEF WindowDidAppear
<1>4. ASSUME NEW p \in Pids, WindowDidClose(p) PROVE Stays
  <2>1. DidTerminateSubprocess(NameOf[p])
    BY <1>4 DEF WindowDidClose
  <2>2. UNCHANGED applications \/ Pruned(e, NameOf[p]) \in applications'
    BY <1>t, <2>1, PrunedList
  <2>q. QED
    BY <1>t, <2>2, PrunedFields
<1>5. ASSUME NEW p \in Pids, WindowsAreGone(p)
      PROVE  \/ Stays
             \/ NameOf[p] = e.name /\ process'[p] = "gone"
             \/ NameOf[p] = e.name /\ process'[p] = "windowless" /\ p \in withdrawn'
  BY <1>5, <1>d, <1>t DEF WindowsAreGone
<1>6. CASE Notify
  <2>1. Head(gdnc) = gdnc[1] /\ 1 \in DOMAIN gdnc /\ Head(gdnc).pid \in Pids
    BY <1>6, <1>t, DeliverNotice, NoticeFields DEF Notify
  <2>2. CASE Head(gdnc).what = "launched" /\ DidLaunch(Head(gdnc).pid)
    BY <1>a, <2>1, <2>2
  <2>3. CASE Head(gdnc).what = "terminated" /\ DidTerminate(NameOf[Head(gdnc).pid])
    <3>1. \/ IsSystem(Head(gdnc).pid)
          \/ \E q \in Pids : NameOf[q] = NameOf[Head(gdnc).pid] /\ process[q] = "gone"
      BY <2>1, <2>3 DEF EndsAreReal, Terminated
    <3>2. UNCHANGED process
      BY <1>6 DEF Notify
    <3>q. QED
      BY <1>d, <2>3, <3>1, <3>2 DEF IsSystem
  <2>q. QED
    BY <1>6, <2>2, <2>3 DEF Notify
<1>7. CASE \E f \in applications : KillEntry(f)
  BY <1>7 DEF KillEntry, Kill
<1>8. ASSUME NEW name \in Names, QuitApp(name)
      PROVE  \/ Stays
             \/ \E q \in Pids : NameOf[q] = e.name /\ process'[q] = "gone"
             \/ \A p \in Pids \cap e.pids : process'[p] # "running"
  <2>1. CASE e.name # name
    BY <1>8, <2>1 DEF QuitApp, KillX, AppQuits, Remove, Without
  <2>2. CASE e.name = name /\ KillX(name)
    <3>1. (CHOOSE entry \in applications : entry.name = name) = e
      BY <2>2 DEF Named
    <3>q. QED
      BY <2>2, <3>1 DEF KillX, Alive, End
  <2>3. CASE e.name = name /\ AppQuits(name)
    BY <1>t, <2>3 DEF AppQuits
  <2>q. QED
    BY <1>8, <2>1, <2>2, <2>3 DEF QuitApp
<1>q. QED
  BY <1>1, <1>2, <1>3, <1>4, <1>5, <1>6, <1>7, <1>8, ListSteps

\* A known application that runs keeps its place in the list.
LEMMA KnownIsListedStep ==
    ASSUME TypeOK, Lists, EndsAreReal, KnownIsListed, [Next]_vars
    PROVE  KnownIsListed'
<1> USE DEF Lists
<1> SUFFICES ASSUME NEW p \in known' \ Anonymous,
                    process'[p] = "running", ~IsSystem(p)
             PROVE  \/ \E e \in applications' : e.name = NameOf[p] /\ p \in e.pids
                    \/ \E q \in Pids \ {p} : /\ NameOf[q] = NameOf[p]
                                             /\ process'[q] = "gone" \/ q \in withdrawn'
  BY DEF KnownIsListed, Listed, IsSystem, PidString
<1>t. applications \subseteq Entries /\ p \in Pids
  BY ListTypeStep DEF TypeOK
<1>p. PidString(p) = p
  BY DEF PidString
<1>1. CASE p \in known
  <2>1. process[p] \notin {"absent", "windowless"}
    BY <1>1, <1>t DEF Lifecycle
  <2>2. process[p] = "running" /\ Alive(p)
    BY <2>1, <1>t, ProcessSteps DEF Alive
  <2>w. withdrawn' \subseteq Pids
    BY ListTypeStep
  <2>3. CASE \E q \in Pids \ {p} : /\ NameOf[q] = NameOf[p]
                                   /\ process[q] = "gone" \/ q \in withdrawn
    BY <2>3, Monotone
  <2>4. CASE Listed(p)
    <3>1. PICK e \in applications : e.name = NameOf[p] /\ p \in e.pids
      BY <1>p, <2>4 DEF Listed
    <3>2. \/ \E f \in applications' : f.name = e.name /\ p \in f.pids
          \/ \E q \in Pids : NameOf[q] = e.name /\ process'[q] = "gone"
          \/ \E q \in withdrawn' : NameOf[q] = e.name /\ process'[q] = "windowless"
      BY <1>t, <2>2, <3>1, EntriesStay DEF IsSystem
    <3>q. QED
      BY <2>w, <3>1, <3>2
  <2>q. QED
    BY <1>1, <2>2, <2>3, <2>4 DEF KnownIsListed
<1>2. CASE p \notin known
  <2>1. DidLaunch(p)
    BY <1>2, <1>t, OnlyLaunched
  <2>q. QED
    BY <1>p, <1>t, <2>1, LaunchedList
<1>q. QED
  BY <1>1, <1>2

\* What keeps an entry's place justified.
Going(name) ==
    \/ \E p \in Pids : NameOf[p] = name /\ process[p] \in {"running", "dying"}
    \/ \E i \in DOMAIN gdnc : Terminated(i) /\ NameOf[gdnc[i].pid] = name
    \/ \E p \in crashed : NameOf[p] = name
    \/ name \in ignored

\* An end that is queued stays queued, unless it is delivered and takes the entry away
\* or is ignored.
LEMMA QueuedEnd ==
    ASSUME TypeOK, Lists, [Next]_vars, NEW e \in applications',
           NEW i \in DOMAIN gdnc, Terminated(i), NameOf[gdnc[i].pid] = e.name
    PROVE  Going(e.name)'
<1> USE DEF Lists, Terminated
<1>t. gdnc \in Seq(Notices)
  BY DEF TypeOK
<1>1. CASE UNCHANGED gdnc
  BY <1>1 DEF Going
<1>2. ASSUME NEW what \in {"launched", "terminated"}, NEW p \in Pids,
             gdnc' = Append(gdnc, Notice(what, p))
      PROVE  Going(e.name)'
  <2>1. i \in DOMAIN gdnc' /\ gdnc'[i] = gdnc[i]
    BY <1>2, <1>t, NoticeIsOne, QueueNotice
  <2>q. QED
    BY <2>1 DEF Going
<1>3. CASE gdnc # <<>> /\ gdnc' = Tail(gdnc) /\ i # 1
  <2>1. i - 1 \in DOMAIN gdnc' /\ gdnc'[i - 1] = gdnc[i]
    BY <1>3, <1>t, DeliverNotice
  <2>q. QED
    BY <2>1 DEF Going
<1>4. CASE gdnc # <<>> /\ gdnc' = Tail(gdnc) /\ i = 1
  <2>1. Head(gdnc) = gdnc[i]
    BY <1>4, <1>t, DeliverNotice
  <2>2. Notify
    <3>1. ASSUME gdnc' = gdnc PROVE FALSE
      BY <1>4, <1>t, <3>1
    <3>2. \A p \in Pids : /\ gdnc' # Append(gdnc, Notice("launched", p))
                          /\ gdnc' # Append(gdnc, Notice("terminated", p))
      BY <1>4, <1>t, NoticeIsOne, QueueNotice
    <3>3. ~\E p \in Pids : Launch(p) \/ Exit(p) \/ Crash(p) \/ WindowDidAppear(p)
                             \/ WindowDidClose(p) \/ WindowsAreGone(p)
      BY <3>1, <3>2 DEF Launch, Exit, Crash, WindowDidAppear, WindowDidClose, WindowsAreGone
    <3>4. ~\E f \in applications : KillEntry(f)
      <4> SUFFICES ASSUME NEW f \in applications, KillEntry(f) PROVE FALSE
        OBVIOUS
      <4>1. (CHOOSE p \in Pids : NameOf[p] = f.name) \in Pids
        BY DEF Named
      <4>q. QED
        BY <3>1, <3>2, <4>1 DEF KillEntry, Kill
    <3>5. ~\E name \in Names : QuitApp(name)
      BY <3>1, <3>2 DEF QuitApp, KillX, AppQuits
    <3>q. QED
      BY <3>1, <3>3, <3>4, <3>5, ListSteps DEF lists
  <2>3. DidTerminate(e.name)
    BY <2>1, <2>2 DEF Notify
  <2>4. e.name \in ignored'
    BY <2>3 DEF DidTerminate, Remove, Without
  <2>q. QED
    BY <2>4 DEF Going
<1>q. QED
  BY <1>1, <1>2, <1>3, <1>4, NoticeSteps

\* So does a process, until its end is announced.
LEMMA RunningEntry ==
    ASSUME TypeOK, Lists, [Next]_vars, NEW e \in applications',
           NEW p \in Pids, process[p] \in {"running", "dying"}, NameOf[p] = e.name
    PROVE  Going(e.name)'
<1> USE DEF Lists
<1>t. gdnc \in Seq(Notices) /\ process \in [Pids -> Statuses]
  BY DEF TypeOK
<1>1. CASE process'[p] \in {"running", "dying"}
  BY <1>1 DEF Going
<1>2. CASE ~IsX(p) /\ process[p] = "running" /\ process'[p] = "gone"
  <2>1. CASE p \in crashed'
    BY <2>1 DEF Going
  <2>2. ASSUME NEW q \in Pids, NameOf[q] = NameOf[p],
               gdnc' = Append(gdnc, Notice("terminated", q))
        PROVE  Going(e.name)'
    <3>1. /\ Len(gdnc) + 1 \in DOMAIN gdnc'
          /\ gdnc'[Len(gdnc) + 1].what = "terminated"
          /\ gdnc'[Len(gdnc) + 1].pid = q
      BY <1>t, <2>2, NoticeIsOne, QueueNotice
    <3>q. QED
      BY <2>2, <3>1 DEF Going, Terminated
  <2>q. QED
    BY <1>2, <2>1, <2>2, EndsAreAnnounced
<1>3. CASE IsX(p) /\ process'[p] \in {"windowless", "gone"}
  <2>1. DidTerminate(e.name)
    BY <1>3, WindowsGo DEF WindowsAreGone
  <2>2. e.name \in ignored'
    BY <2>1 DEF DidTerminate, Remove, Without
  <2>q. QED
    BY <2>2 DEF Going
<1>q. QED
  BY <1>1, <1>2, <1>3, ProcessSteps

\* An entry without a process is about to go.
LEMMA StaleStep ==
    ASSUME TypeOK, Lists, StaleIsExplained, [Next]_vars
    PROVE  StaleIsExplained'
<1> USE DEF Lists
<1>t. applications \subseteq Entries /\ gdnc \in Seq(Notices) /\ process \in [Pids -> Statuses]
  BY DEF TypeOK
<1> SUFFICES ASSUME NEW e \in applications' PROVE Going(e.name)'
  BY DEF StaleIsExplained, Going, Terminated
<1>1. ASSUME NEW f \in applications, f.name = e.name PROVE Going(e.name)'
  <2>1. \/ \E p \in Pids : NameOf[p] = f.name /\ process[p] \in {"running", "dying"}
        \/ \E i \in DOMAIN gdnc : Terminated(i) /\ NameOf[gdnc[i].pid] = f.name
        \/ \E p \in crashed : NameOf[p] = f.name
        \/ f.name \in ignored
    BY DEF StaleIsExplained, Terminated
  <2>2. CASE (\E p \in crashed : NameOf[p] = f.name) \/ f.name \in ignored
    BY <1>1, <2>2, Monotone DEF Going
  <2>q. QED
    BY <1>1, <2>1, <2>2, QueuedEnd, RunningEntry
<1>2. ASSUME NEW p \in Pids, e = Entry(p),
             process[p] = "windowless" /\ process'[p] = "running"
      PROVE  Going(e.name)'
  <2>1. e.name = NameOf[p]
    BY <1>2, NewEntry
  <2>q. QED
    BY <1>2, <2>1 DEF Going
<1>3. ASSUME NEW p \in Pids, e = Entry(p), gdnc # <<>>, gdnc' = Tail(gdnc),
             Head(gdnc).what = "launched", Head(gdnc).pid = p, UNCHANGED <<process, crashed>>
      PROVE  Going(e.name)'
  <2>1. e.name = NameOf[p]
    BY <1>3, NewEntry
  <2>2. 1 \in DOMAIN gdnc /\ Head(gdnc) = gdnc[1]
    BY <1>3, <1>t, DeliverNotice
  <2>3. /\ process[p] \in {"running", "gone"}
        /\ process[p] = "gone" /\ p \notin crashed =>
              \E j \in DOMAIN gdnc :
                  j > 1 /\ Terminated(j) /\ NameOf[gdnc[j].pid] = NameOf[p]
    BY <1>3, <2>2 DEF Launches, Launched
  <2>4. CASE process[p] = "running"
    BY <1>3, <2>1, <2>4 DEF Going
  <2>5. CASE p \in crashed
    BY <1>3, <2>1, <2>5 DEF Going
  <2>6. ASSUME NEW j \in DOMAIN gdnc, j > 1, Terminated(j), NameOf[gdnc[j].pid] = NameOf[p]
        PROVE  Going(e.name)'
    <3>1. j - 1 \in DOMAIN gdnc' /\ gdnc'[j - 1] = gdnc[j]
      BY <1>3, <1>t, <2>6, DeliverNotice
    <3>q. QED
      BY <2>1, <2>6, <3>1 DEF Going, Terminated
  <2>q. QED
    BY <2>3, <2>4, <2>5, <2>6
<1>4. CASE applications' \subseteq applications
  BY <1>1, <1>4
<1>5. ASSUME NEW p \in Pids, DidLaunch(p)
      PROVE  e = Entry(p) \/ \E f \in applications : f.name = e.name
  BY <1>t, <1>5, LaunchedList, WithFields
<1>6. ASSUME NEW name, DidTerminateSubprocess(name)
      PROVE  \E f \in applications : f.name = e.name
  BY <1>t, <1>6, PrunedList, PrunedFields
<1>q. QED
  BY <1>1, <1>2, <1>3, <1>4, <1>5, <1>6, EntrySteps

-----------------------------------------------------------------------------
(* The theorems. *)

\* Every step preserves the inductive invariant.
LEMMA StepIInv == IInv /\ [Next]_vars => IInv'
<1> SUFFICES ASSUME IInv, [Next]_vars PROVE IInv'
  OBVIOUS
<1> USE DEF IInv
<1>1. TypeOK'
  BY TypeStep DEF Lists
<1>2. Lists'
  BY NamedStep, LifecycleStep, LaunchesStep, ToQuitIsListedStep DEF Lists
<1>3. EndsAreReal' /\ KnownIsListed' /\ StaleIsExplained'
  BY EndsAreRealStep, KnownIsListedStep, StaleStep
<1>4. FlagsFollowLogOut'
  BY FlagsStep DEF LeftToQuit
<1>5. LeftToQuit' /\ NothingIsLeftBehind'
  BY LeftToQuitStep, NothingIsLeftBehindStep
<1>q. QED
  BY <1>1, <1>2, <1>3, <1>4, <1>5

\* The inductive invariant holds in every reachable state: the list, the processes and
\* the notifications agree with each other while Log Out empties the list.
THEOREM Invariant == Spec => []IInv
  BY InitIInv, StepIInv, PTL DEF Spec

\* The handlers keep every variable to its type.
THEOREM TypeCorrect == Spec => []TypeOK
<1>1. IInv => TypeOK
  BY DEF IInv
<1>q. QED
  BY <1>1, Invariant, PTL

\* isQuitting and _workspaceQuitting are set and reset with Log Out on every path through
\* -applicationShouldTerminate: that ends with an answer, refused or cancelled; the one
\* that ends with an exception of -stop: is the only one to leave isQuitting set.
THEOREM FlagsAreRight == Spec => []FlagsFollowLogOut
<1>1. IInv => FlagsFollowLogOut
  BY DEF IInv
<1>q. QED
  BY <1>1, Invariant, PTL

\* Whatever notifications, windows and Log Out do to the list, and whether a process
\* outlives its windows or not, a known application that runs is in it, unless another
\* instance of it has ended or lost its leader window.
THEOREM KnownAreListed == Spec => []KnownIsListed
<1>1. IInv => KnownIsListed
  BY DEF IInv
<1>q. QED
  BY <1>1, Invariant, PTL

\* An entry whose application has ended is there only until that is announced, or
\* because of a crash or of an end during a Log Out.
THEOREM StaleAreExplained == Spec => []StaleIsExplained
<1>1. IInv => StaleIsExplained
  BY DEF IInv
<1>q. QED
  BY <1>1, Invariant, PTL

\* When -applicationShouldTerminate: has answered YES, no operation is listed and Log Out
\* has come to every application that was known.
THEOREM NothingStaysBehind == Spec => []NothingIsLeftBehind
<1>1. IInv => NothingIsLeftBehind
  BY DEF IInv
<1>q. QED
  BY <1>1, Invariant, PTL

=============================================================================
