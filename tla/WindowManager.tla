--------------------------- MODULE WindowManager ---------------------------
(***************************************************************************)
(* Windows, applications and workspaces of the window manager that runs    *)
(* inside Workspace: which windows are managed, which of them are mapped,  *)
(* miniaturized, hidden or on another workspace, and which has the focus.  *)
(*                                                                         *)
(* Events come from the X server in one queue.  A handler is one step with *)
(* one exception that makes it hard: changing the workspace, iconifying    *)
(* and deiconifying call ProcessPendingEvents in the middle, so that other *)
(* handlers run, and finish or stop halfway themselves, before they go on. *)
(*                                                                         *)
(* Left out: shaded, omnipresent and selected windows, transients, focus   *)
(* that follows the mouse, and how windows are drawn.                      *)
(***************************************************************************)
EXTENDS Integers, Sequences, SequencesExt

CONSTANTS
    Windows,        \* windows of clients
    LeaderOf,       \* LeaderOf[w]: the group leader that w names, perhaps w itself
    Workspaces,     \* numbers of workspaces
    Initial,        \* the windows that are there when the window manager starts
    NoWindow,       \* NULL, and None
    MaxEvents,      \* bound: what users and clients do
    MaxLives        \* bound: how many times a window is managed

ASSUME WindowManagerAssumption ==
    /\ LeaderOf \in [Windows -> Windows]
    /\ \A w \in Windows : LeaderOf[LeaderOf[w]] = LeaderOf[w]
    /\ IsFiniteSet(Windows)
    /\ Initial \subseteq Windows
    /\ Workspaces \subseteq Nat /\ 0 \in Workspaces
    /\ NoWindow \notin Windows
    /\ MaxEvents \in Nat
    /\ MaxLives \in Nat \ {0}

VARIABLES
    s,          \* the screen, a record; the operators below take and return one
    calls,      \* handlers within ProcessPendingEvents, the latest first
    done,       \* what users and clients have done so far
    crashed     \* what an access to memory that is not there would be blamed on

vars == <<s, calls, done, crashed>>

WindowOrNone == Windows \cup {NoWindow}
Kinds == {"MapRequest", "MapNotify", "UnmapNotify", "Withdraw", "DestroyNotify",
          "Iconify", "Deiconify", "Focus", "Hide", "Unhide", "UnhideHere"}
Events == [kind : Kinds, win : Windows]
            \cup [kind : {"Workspace"}, to : Workspaces]
            \cup [kind : {"Send"}, win : Windows, to : Workspaces]
Event(kind, w) == [kind |-> kind, win |-> w]

\* A pointer to a WWindow: the window, and which of its lives is meant.
Pointers == [win : WindowOrNone, life : 0 .. MaxLives]
Nobody == [win |-> NoWindow, life |-> 0]

\* What a screen is made of.
Screens ==
    [alive : SUBSET Windows,        \* exist in the X server
     viewable : SUBSET Windows,     \* are mapped there
     events : Seq(Events),          \* the queue
     list : Seq(Windows),           \* the focus list; the last is scr->focused_window
     life : [Windows -> 0 .. MaxLives],
     workspace : [Windows -> Workspaces],
     mapped : SUBSET Windows,       \* flags of WWindow
     miniaturized : SUBSET Windows,
     hidden : SUBSET Windows,
     focused : SUBSET Windows,
     main : [Windows -> WindowOrNone],
     apps : SUBSET Windows,         \* leaders with a WApplication
     appHidden : SUBSET Windows,
     bouncing : SUBSET Windows,
     lastFocused : [Windows -> Pointers],
     lastWorkspace : [Windows -> Workspaces],
     current : Workspaces,
     ignoreFocus : BOOLEAN]         \* scr->flags.ignore_focus_events

\* A handler that waits.
Handlers ==
    [op : {"workspace", "iconify", "deiconify"},
     on : Pointers,                 \* the WWindow that it will look at again
     left : Nat,                    \* events still to be handled
     then : WindowOrNone]           \* application to unhide afterwards

TypeOK ==
    /\ s \in Screens
    /\ calls \in Seq(Handlers)
    /\ done \in 0 .. MaxEvents
    /\ crashed \in {"no", "focused_window", "last_focused", "wapp", "wwin"}

\* manageAllWindows has taken the windows that were there.
Init ==
    /\ \E list \in SetToSeqs(Initial) :
        s = [alive |-> Windows, viewable |-> Initial, events |-> <<>>, list |-> list,
             life |-> [w \in Windows |-> IF w \in Initial THEN 1 ELSE 0],
             workspace |-> [w \in Windows |-> 0],
             mapped |-> Initial, miniaturized |-> {}, hidden |-> {},
             focused |-> IF list = <<>> THEN {} ELSE {Last(list)},
             main |-> [w \in Windows |-> IF w \in Initial THEN LeaderOf[w] ELSE NoWindow],
             apps |-> {LeaderOf[w] : w \in Initial}, appHidden |-> {}, bouncing |-> {},
             lastFocused |-> [w \in Windows |-> Nobody],
             lastWorkspace |-> [w \in Windows |-> 0],
             current |-> 0, ignoreFocus |-> FALSE]
    /\ calls = <<>>
    /\ done = 0
    /\ crashed = "no"

-----------------------------------------------------------------------------
(* Windows and focus.  r stands for a value of s. *)

Managed(r) == Range(r.list)
Focused(r) == IF r.list = <<>> THEN NoWindow ELSE Last(r.list)
AppOf(r, w) == IF r.main[w] \in r.apps THEN r.main[w] ELSE NoWindow
WindowsOf(r, a) == {w \in Managed(r) : r.main[w] = a}
Pointer(r, w) == IF w = NoWindow THEN Nobody ELSE [win |-> w, life |-> r.life[w]]
Valid(r, p) == p.win \in Managed(r) /\ r.life[p.win] = p.life

\* The window of W that comes first when the focus list is walked from its head.
FirstOf(r, W) ==
    LET first == {i \in DOMAIN r.list :
                    /\ r.list[i] \in W
                    /\ \A j \in DOMAIN r.list : r.list[j] \in W => j <= i}
    IN  IF first = {} THEN NoWindow ELSE r.list[CHOOSE i \in first : TRUE]

\* The list q without w, which is in it at most once.
Without(q, w) ==
    IF w \in Range(q) THEN RemoveAt(q, CHOOSE i \in DOMAIN q : q[i] = w) ELSE q

\* Mutant of SetFocusTo: the window is not put at the head of the list.
MutantSetFocusTo(r, w) ==
    IF r.ignoreFocus THEN r
    ELSE IF w = NoWindow THEN [r EXCEPT !.focused = @ \ {Focused(r)}]
    ELSE [r EXCEPT
            !.focused = (@ \ {Focused(r)}) \cup {w},
            !.lastWorkspace = IF AppOf(r, w) = NoWindow THEN @
                              ELSE [@ EXCEPT ![AppOf(r, w)] = r.workspace[w]]]

\* wSetFocusTo
SetFocusTo(r, w) ==
    IF r.ignoreFocus THEN r
    ELSE IF w = NoWindow THEN [r EXCEPT !.focused = @ \ {Focused(r)}]
    ELSE [r EXCEPT
            !.list = Append(Without(@, w), w),
            !.focused = (@ \ {Focused(r)}) \cup {w},
            !.lastWorkspace = IF AppOf(r, w) = NoWindow THEN @
                              ELSE [@ EXCEPT ![AppOf(r, w)] = r.workspace[w]]]

\* wWindowMap and wWindowUnmap: the server says nothing of these.
Map(r, W) == [r EXCEPT !.mapped = @ \cup W, !.viewable = @ \cup (W \cap r.alive)]
Unmap(r, W) == [r EXCEPT !.mapped = @ \ W, !.viewable = @ \ W]

\* The n-th number of S.
Nth(S, n) == CHOOSE i \in S : Cardinality({j \in S : j <= i}) = n

\* XMapWindow of clients, for which the server sends MapNotify, in the
\* order of the focus list.
MapClients(r, W) ==
    LET new == (W \cap r.alive) \ r.viewable
        at == {i \in DOMAIN r.list : r.list[i] \in new}
    IN  [r EXCEPT !.mapped = @ \cup W,
                  !.viewable = @ \cup new,
                  !.events = @ \o [n \in 1 .. Cardinality(at) |->
                                    Event("MapNotify", r.list[Nth(at, n)])]]

\* Mutant of ChangeWorkspace: a window that comes here is not mapped.
MutantChangeWorkspace(r, w, n) ==
    IF n = r.workspace[w] THEN r
    ELSE LET to == [r EXCEPT !.workspace[w] = n] IN
         IF n # r.current /\ w \in r.mapped
         THEN Unmap([SetFocusTo(r, NoWindow) EXCEPT !.workspace[w] = n], {w})
         ELSE to

\* wWindowChangeWorkspace
ChangeWorkspace(r, w, n) ==
    IF n = r.workspace[w] THEN r
    ELSE LET left == IF AppOf(r, w) # NoWindow /\ w \in r.mapped \cup r.miniaturized
                     THEN [r EXCEPT !.lastWorkspace[AppOf(r, w)] = n] ELSE r
             to(q) == [q EXCEPT !.workspace[w] = n]
         IN  IF n # r.current
             THEN IF w \in r.mapped
                  THEN Unmap(to(SetFocusTo(left, NoWindow)), {w})
                  ELSE to(left)
             ELSE IF w \in r.miniaturized \cup r.hidden THEN to(r)
             ELSE to(Map(r, {w}))

-----------------------------------------------------------------------------
(* Applications. *)

\* Mutant of HideApplication: an application whose windows lack the focus is
\* not marked as hidden.
MutantHideApplication(r, a) ==
    LET mine == WindowsOf(r, a)
        hid == [Unmap(r, mine \ r.miniaturized) EXCEPT !.hidden = @ \cup mine]
    IN  IF r.list = <<>> THEN r
        ELSE IF mine \cap r.focused # {}
        THEN [SetFocusTo(hid, FirstOf(hid, (r.mapped \ mine) \ r.hidden)) EXCEPT
                !.appHidden = @ \cup {a}]
        ELSE hid

\* wHideApplication
HideApplication(r, a) ==
    LET mine == WindowsOf(r, a)
        shown == {w \in r.mapped : w \notin mine}
        hid == [Unmap(r, mine \ r.miniaturized) EXCEPT
                    !.hidden = @ \cup mine,
                    !.lastFocused[a] = IF Focused(r) \in mine
                                       THEN Pointer(r, Focused(r)) ELSE Nobody]
    IN  IF r.list = <<>> THEN r
        ELSE [IF mine \cap r.focused # {}
              THEN SetFocusTo(hid, FirstOf(hid, shown \ r.hidden)) ELSE hid
              EXCEPT !.appHidden = @ \cup {a}]

\* wUnhideApplication without miniwindows; "here" brings its windows along.
\* last is the window that wapp->last_focused is taken for.
UnhideApplication(r, a, here, last) ==
    LET mine == WindowsOf(r, a)
        come == IF here THEN mine ELSE {w \in mine : r.workspace[w] = r.current}
        moved == [r EXCEPT !.workspace =
                    [w \in Windows |-> IF w \in come THEN r.current ELSE @[w]],
                           !.hidden = @ \ mine,
                           !.appHidden = @ \ {a},
                           !.lastFocused[a] = Nobody]
        back == (come \cap r.hidden) \ r.miniaturized
        brought == {w \in come \ (r.hidden \cup r.miniaturized) : r.workspace[w] # r.current}
        shown == MapClients(Map(moved, brought \ r.mapped), back)
        next == IF last \in shown.mapped THEN last
                ELSE IF mine \cap r.focused # {} THEN FirstOf(r, r.focused)
                ELSE FirstOf(r, mine)
    IN  IF r.list = <<>> THEN r
        ELSE IF next = NoWindow THEN shown ELSE SetFocusTo(shown, next)

\* What last_focused may point to: when that window is gone, its memory may
\* say anything of it (the crash is a step of its own, LastFocusedIsGone).
LastFocused(r, a) ==
    IF Valid(r, r.lastFocused[a]) THEN r.lastFocused[a].win ELSE NoWindow

\* wApplicationCreate, and what wManageWindow does with the application.
JoinApplication(r, w) ==
    LET a == LeaderOf[w]
        joined == [r EXCEPT !.main[w] = a]
    IN  IF a \notin r.alive THEN joined
        ELSE [IF a \in r.appHidden
              THEN UnhideApplication(joined, a, FALSE, LastFocused(r, a)) ELSE joined
              EXCEPT !.apps = @ \cup {a},
                     !.bouncing = @ \cup {a},
                     !.lastWorkspace[a] = r.current]

\* Mutant of LeaveApplication: an application that bounces is destroyed later by nobody.
MutantLeaveApplication(r, a) ==
    [r EXCEPT
        !.main = [w \in Windows |-> IF @[w] = a /\ w \in Managed(r) THEN NoWindow ELSE @[w]]]

\* The leader is destroyed: its application too, unless its icon bounces.
LeaveApplication(r, a) ==
    [r EXCEPT
        !.main = [w \in Windows |-> IF @[w] = a /\ w \in Managed(r) THEN NoWindow ELSE @[w]],
        !.apps = IF a \in r.bouncing THEN @ ELSE @ \ {a},
        !.appHidden = IF a \in r.bouncing THEN @ ELSE @ \ {a},
        !.lastFocused[a] = IF a \in r.bouncing THEN @ ELSE Nobody]

\* wUnmanageWindow
Unmanage(r, w) ==
    LET gone == [Unmap(r, {w}) EXCEPT
                    !.list = Without(@, w),
                    !.focused = @ \ {w},
                    !.miniaturized = @ \ {w},
                    !.hidden = @ \ {w}]
    IN  IF w \in r.focused /\ gone.list # <<>>
        THEN SetFocusTo(gone, FirstOf(gone, gone.mapped)) ELSE gone

-----------------------------------------------------------------------------
(* Taking an event.  A handler that waits in ProcessPendingEvents handles   *)
(* as many events as there were when it began to wait.                      *)

Idle == calls = <<>>
Up == crashed = "no"
Serving == Up /\ s.events # <<>> /\ (~Idle => calls[1].left > 0)
Served == IF Idle THEN calls ELSE [calls EXCEPT ![1].left = @ - 1]

\* The next event is e; r is the screen after it was taken from the queue.
Taken == [s EXCEPT !.events = Tail(@)]
Next1 == Head(s.events)
Is(kind) == Serving /\ Next1.kind = kind

Answer(r) ==
    /\ s' = r
    /\ calls' = Served
    /\ UNCHANGED <<done, crashed>>

\* The handler goes as far as ProcessPendingEvents.
Wait(op, r, w, then) ==
    /\ s' = r
    /\ calls' = <<[op |-> op, on |-> Pointer(r, w), left |-> Len(r.events), then |-> then]>>
                \o Served
    /\ UNCHANGED <<done, crashed>>

Crash(why) ==
    /\ crashed' = why
    /\ UNCHANGED <<s, calls, done>>

\* wIconifyWindow.  The focus goes on when w has it, or is first in the focus list:
\* recursiveTransientFor of a window that is no transient is the window itself.
Iconified(r, w) ==
    LET mini == [r EXCEPT !.miniaturized = @ \cup {w}, !.mapped = @ \ {w}]
        next == {v \in Windows : /\ v \notin mini.hidden \cup mini.miniaturized
                                 /\ r.workspace[v] = r.workspace[w]}
    IN  IF r.workspace[w] # r.current THEN mini
        ELSE IF w \in r.focused \/ w = Focused(r)
        THEN SetFocusTo(Unmap(mini, {w}), FirstOf(mini, next))
        ELSE Unmap(mini, {w})

HandleIconify ==
    /\ Is("Iconify")
    /\ LET w == Next1.win IN
        IF w \notin Managed(s) \/ w \in s.miniaturized \/ w \notin s.alive
        THEN Answer(Taken)
        ELSE IF s.workspace[w] # s.current THEN Answer(Iconified(Taken, w))
        ELSE Wait("iconify", Iconified(Taken, w), w, NoWindow)

\* wDeiconifyWindow
Deiconified(r, w) ==
    LET here == [ChangeWorkspace(r, w, r.current) EXCEPT !.miniaturized = @ \ {w}]
    IN  SetFocusTo(MapClients(here, {w}), w)

HandleDeiconify ==
    /\ Is("Deiconify")
    /\ LET w == Next1.win IN
        IF w \in Managed(s) \cap s.miniaturized
        THEN Wait("deiconify", Deiconified(Taken, w), w, NoWindow)
        ELSE Answer(Taken)

\* Mutant of Changed: workspaces are counted from 1.
MutantChanged(r, n) == [r EXCEPT !.current = n + 1, !.ignoreFocus = TRUE]

\* wWorkspaceForceChange, as far as ProcessPendingEvents.
Changed(r, n) ==
    LET here == {w \in Managed(r) : r.workspace[w] = n}
        come == here \ (r.hidden \cup r.mapped \cup r.miniaturized)
    IN  [Unmap(Map(r, come), (Managed(r) \ here) \cap r.mapped) EXCEPT
            !.current = n,
            !.ignoreFocus = TRUE]
Come(r, n) ==
    FirstOf(r, {w \in Managed(r) \ (r.hidden \cup r.mapped \cup r.miniaturized) :
                    r.workspace[w] = n})

\* wWorkspaceChange, after which the handler may have an application to unhide.
GoTo(r, n, then) ==
    IF r.ignoreFocus \/ n = r.current
    THEN Answer(IF then = NoWindow THEN r
                ELSE UnhideApplication(r, then, FALSE, LastFocused(r, then)))
    ELSE IF r.list = <<>> THEN Answer([r EXCEPT !.current = n])
    ELSE Wait("workspace", Changed(r, n), Come(r, n), then)

HandleWorkspace == Is("Workspace") /\ GoTo(Taken, Next1.to, NoWindow)

HandleMapRequest ==
    /\ Is("MapRequest")
    /\ LET w == Next1.win
           a == AppOf(s, w)
       IN  CASE w \notin Managed(s) /\ (w \notin s.alive \/ s.life[w] = MaxLives) ->
                    Answer(Taken)
             [] w \notin Managed(s) /\ w \in s.alive /\ s.life[w] < MaxLives ->
                    LET r == JoinApplication(Taken, w) IN
                    Answer(Map([r EXCEPT !.list = <<w>> \o @,
                                         !.life[w] = @ + 1,
                                         !.workspace[w] = r.current], {w}))
             [] w \in Managed(s) \cap s.miniaturized ->
                    Wait("deiconify", Deiconified(Taken, w), w, NoWindow)
             [] w \in (Managed(s) \cap s.hidden) \ s.miniaturized ->
                    IF a = NoWindow THEN Answer(Taken)
                    ELSE GoTo(Taken, s.lastWorkspace[a], a)
             [] OTHER -> Answer(Taken)

HandleMapNotify ==
    /\ Is("MapNotify")
    /\ LET w == Next1.win IN
        IF w \notin Managed(s) THEN Answer(Taken)
        ELSE IF w \in s.miniaturized
        THEN Wait("deiconify", Deiconified(Taken, w), w, NoWindow)
        ELSE Answer(Map(Taken, {w}))

\* handleDestroyNotify
Destroyed(r, w) ==
    LET gone == IF w \in Managed(r) THEN Unmanage(r, w) ELSE r
    IN  IF w \in gone.apps THEN LeaveApplication(gone, w) ELSE gone

HandleDestroyNotify == Is("DestroyNotify") /\ Answer(Destroyed(Taken, Next1.win))

\* handleUnmapNotify: a window that is destroyed is dealt with at once.
HandleUnmapNotify ==
    /\ Serving /\ Next1.kind \in {"UnmapNotify", "Withdraw"}
    /\ LET w == Next1.win
           destroy == Event("DestroyNotify", w)
           shown == [Taken EXCEPT !.mapped = @ \ {w}]
       IN  CASE \/ w \notin Managed(s)
                \/ /\ Next1.kind = "UnmapNotify"
                   /\ w \notin s.mapped \cup s.miniaturized \cup s.hidden
                   /\ s.workspace[w] = s.current -> Answer(Taken)
             [] OTHER ->
                    IF destroy \in Range(Taken.events)
                    THEN Answer(Destroyed([shown EXCEPT !.events = Without(@, destroy)], w))
                    ELSE Answer(Unmanage(shown, w))

HandleFocus ==
    /\ Is("Focus")
    /\ LET w == Next1.win IN
        Answer(IF w \in Managed(s) \cap s.mapped THEN SetFocusTo(Taken, w) ELSE Taken)

HandleSend ==
    /\ Is("Send")
    /\ LET w == Next1.win IN
        Answer(IF w \in Managed(s) THEN ChangeWorkspace(Taken, w, Next1.to) ELSE Taken)

HandleHide ==
    /\ Is("Hide")
    /\ LET a == Next1.win IN
        Answer(IF a \in s.apps THEN HideApplication(Taken, a) ELSE Taken)

HandleUnhide ==
    /\ Serving /\ Next1.kind \in {"Unhide", "UnhideHere"}
    /\ LET a == Next1.win IN
        Answer(IF a \in s.apps
               THEN UnhideApplication(Taken, a, Next1.kind = "UnhideHere", LastFocused(s, a))
               ELSE Taken)

\* wUnhideApplication reads last_focused, which may be gone; the same when a
\* new window or a MapRequest has the application unhidden.
LastFocusedIsGone ==
    /\ Serving
    /\ s.list # <<>>
    /\ \E a \in s.apps :
        /\ s.lastFocused[a] # Nobody
        /\ ~Valid(s, s.lastFocused[a])
        /\ Next1 \in {Event("Unhide", a), Event("UnhideHere", a)}
    /\ Crash("last_focused")

-----------------------------------------------------------------------------
(* The end of ProcessPendingEvents. *)

Resumes(op) ==
    /\ Up /\ ~Idle
    /\ calls[1].left = 0 \/ s.events = <<>>
    /\ calls[1].op = op

\* wWorkspaceForceChange goes on: it focuses a window that it has mapped, or
\* else the head of the list, and looks into the head for that.
ResumeWorkspace ==
    /\ Resumes("workspace")
    /\ s.list # <<>>
    /\ calls[1].then \in s.apps \cup {NoWindow}
    /\ LET a == calls[1].then
           foc == IF Valid(s, calls[1].on) THEN calls[1].on.win
                  ELSE IF Focused(s) \in s.mapped THEN Focused(s) ELSE NoWindow
           r == SetFocusTo([s EXCEPT !.ignoreFocus = FALSE], foc)
       IN  s' = IF a = NoWindow THEN r ELSE UnhideApplication(r, a, FALSE, LastFocused(r, a))
    /\ calls' = Tail(calls)
    /\ UNCHANGED <<done, crashed>>

FocusedWindowIsGone == Resumes("workspace") /\ s.list = <<>> /\ Crash("focused_window")

\* handleMapRequest has kept wapp across the change of workspace.
ApplicationIsGone ==
    /\ Resumes("workspace")
    /\ s.list # <<>>
    /\ calls[1].then \notin s.apps \cup {NoWindow}
    /\ Crash("wapp")

\* wIconifyWindow and wDeiconifyWindow stop if the client's window is managed
\* no longer; all that is left otherwise is to look at flags of wwin.
ResumeIconify ==
    /\ ~Idle
    /\ calls[1].op # "workspace"
    /\ Resumes(calls[1].op)
    /\ calls[1].on.win \in Managed(s) => Valid(s, calls[1].on)
    /\ calls' = Tail(calls)
    /\ UNCHANGED <<s, done, crashed>>

WindowIsGone ==
    /\ ~Idle
    /\ calls[1].op # "workspace"
    /\ Resumes(calls[1].op)
    /\ calls[1].on.win \in Managed(s)
    /\ ~Valid(s, calls[1].on)
    /\ Crash("wwin")

-----------------------------------------------------------------------------
(* Users and clients. *)

Acts == Up /\ done < MaxEvents /\ done' = done + 1 /\ UNCHANGED <<calls, crashed>>
Send(es) == s' = [s EXCEPT !.events = @ \o es]

\* Keys and clicks; a miniwindow or an icon must be there to be clicked.
User ==
    /\ Acts
    /\ \/ \E w \in Managed(s), kind \in {"Iconify", "Focus"} : Send(<<Event(kind, w)>>)
       \/ \E w \in Managed(s) \cap s.miniaturized : Send(<<Event("Deiconify", w)>>)
       \/ \E a \in s.apps, kind \in {"Hide", "Unhide", "UnhideHere"} :
            Send(<<Event(kind, a)>>)
       \/ \E n \in Workspaces : Send(<<[kind |-> "Workspace", to |-> n]>>)
       \/ \E w \in Managed(s), n \in Workspaces :
            Send(<<[kind |-> "Send", win |-> w, to |-> n]>>)

\* XMapWindow by a client: its window is not mapped yet.
ClientMaps(w) == Acts /\ w \in s.alive \ s.viewable /\ Send(<<Event("MapRequest", w)>>)

\* XWithdrawWindow, which also sends a synthetic UnmapNotify.
ClientWithdraws(w) ==
    /\ Acts
    /\ w \in s.alive \cap Managed(s)
    /\ s' = [s EXCEPT
                !.viewable = @ \ {w},
                !.events = @ \o (IF w \in s.viewable THEN <<Event("UnmapNotify", w)>> ELSE <<>>)
                             \o <<Event("Withdraw", w)>>]

ClientDestroys(w) ==
    /\ Acts
    /\ w \in s.alive
    /\ s' = [s EXCEPT
                !.alive = @ \ {w},
                !.viewable = @ \ {w},
                !.events = @ \o (IF w \in s.viewable THEN <<Event("UnmapNotify", w)>> ELSE <<>>)
                             \o <<Event("DestroyNotify", w)>>]

\* The last tick of a bouncing icon: an application whose leader is gone is
\* destroyed now.  It is a timer, which WMNextEvent looks after, also when
\* ProcessPendingEvents calls it.
BounceEnds(a) ==
    /\ Up
    /\ Idle \/ Serving
    /\ a \in s.bouncing
    /\ s' = LET still == [s EXCEPT !.bouncing = @ \ {a}] IN
            IF a \in s.alive \/ Event("DestroyNotify", a) \in Range(s.events)
            THEN still ELSE LeaveApplication(still, a)
    /\ UNCHANGED <<calls, done, crashed>>

-----------------------------------------------------------------------------

Handle ==
    \/ HandleMapRequest \/ HandleMapNotify \/ HandleUnmapNotify \/ HandleDestroyNotify
    \/ HandleIconify \/ HandleDeiconify \/ HandleWorkspace \/ HandleSend
    \/ HandleFocus \/ HandleHide \/ HandleUnhide \/ LastFocusedIsGone

Resume ==
    \/ ResumeWorkspace \/ FocusedWindowIsGone \/ ApplicationIsGone
    \/ ResumeIconify \/ WindowIsGone

Client == \E w \in Windows : ClientMaps(w) \/ ClientWithdraws(w) \/ ClientDestroys(w)

Next == Handle \/ Resume \/ User \/ Client \/ \E a \in Windows : BounceEnds(a)

Spec == Init /\ [][Next]_vars

-----------------------------------------------------------------------------
(* Properties. *)

\* All events are handled and no handler waits.
AtRest == Up /\ Idle /\ s.events = <<>>

\* The focus list is a list of windows, and only its head may have the focus,
\* which wSetFocusTo, the hiding of applications and wUnmanageWindow keep apart
\* in flags.focused and in the links from scr->focused_window.
FocusedIsHead ==
    /\ IsInjective(s.list)
    /\ s.focused \subseteq {Focused(s)}

\* No window is lost: when all events are handled, one of this workspace that is
\* neither miniaturized nor hidden can be seen, however wWorkspaceForceChange,
\* wIconifyWindow and wDeiconifyWindow ran within each other.
NoWindowIsLost ==
    AtRest =>
        \A w \in Managed(s) \cap s.alive :
            s.workspace[w] = s.current => w \in s.viewable \cup s.miniaturized \cup s.hidden

\* A hidden window comes back with its application: flags.hidden of a window is
\* cleared by wUnhideApplication only, so the application must know that it is
\* hidden, windows that come while it is (wManageWindow) included.
HiddenHasApplication ==
    \A w \in Managed(s) \cap s.hidden : s.main[w] \in s.apps => s.main[w] \in s.appHidden

\* No application outlives its leader, but for the time that its icon bounces:
\* the last reference is dropped by handleDestroyNotify or by doAppBounce.
NoOrphan ==
    AtRest => s.apps \subseteq s.alive \cup s.bouncing

\* last_focused, the "focused window before hide" (application.h:35), is a window
\* when wUnhideApplication reads it.
LastFocusedIsManaged == crashed # "last_focused"

=============================================================================
