------------------------------- MODULE Timers -------------------------------
(***************************************************************************)
(* The event loop under the window manager: WMNextEvent of WINGs/wevent.c  *)
(* and the timers of WINGs/handlers.c that it serves.                      *)
(*                                                                         *)
(* A timer is a handler at an address that malloc gave; who starts one (a  *)
(* bouncing icon, a delayed raise, a blinking cursor, an unfolding clip)   *)
(* keeps the address as its handler id, and stops it with that.  Callbacks *)
(* start and stop any timers while the queue is being walked.              *)
(*                                                                         *)
(* Left out: WMDeleteTimerWithClientData (a window that is unmanaged gives *)
(* it data that no timer has, a menu that scrolls its own); input          *)
(* handlers, for nobody adds any; idle handlers, of which the lists of     *)
(* WINGs have one each; and notifications in queues.  The clock, which is  *)
(* that of gettimeofday, is taken not to be set back.                      *)
(***************************************************************************)
EXTENDS Integers, Sequences, SequencesExt

CONSTANTS
    Handlers,       \* addresses of handlers
    Owners,         \* who starts timers
    Persistent,     \* the owners whose timers are persistent
    Delays,         \* delays of timers
    NoHandler,      \* NULL
    MaxTime         \* bound: where the clock stops

ASSUME TimersAssumption ==
    /\ Owners # {}
    /\ Persistent \subseteq Owners
    /\ Delays \subseteq Nat
    /\ NoHandler \notin Handlers
    /\ MaxTime \in Nat \ {0}

VARIABLES
    queue,          \* timerHandler: the handlers from the head on
    timers,         \* when, nextDelay and clientData of every address
    timerID,        \* the handler id that every owner keeps
    pending,        \* an event of the X server waits
    clock,
    loop            \* where WMNextEvent is

vars == <<queue, timers, timerID, pending, clock, loop>>

Times == 0 .. MaxTime

TypeOK ==
    /\ queue \in Seq(Handlers)
    /\ timers \in [Handlers -> [when : Nat, nextDelay : Nat, clientData : Owners]]
    /\ timerID \in [Owners -> Handlers \cup {NoHandler}]
    /\ pending \in BOOLEAN
    /\ clock \in 1 .. MaxTime
    /\ loop \in [pc : {"event",                 \* an event is handled
                       "check", "walk", "callback", "sweep",    \* in W_CheckTimerHandlers
                       "top", "block"},                 \* in WMNextEvent
                 now : Times,                   \* its variables
                 handler : Handlers \cup {NoHandler}]

Init ==
    /\ queue = <<>>
    /\ timers \in [Handlers -> [when : {0}, nextDelay : {0}, clientData : {CHOOSE o \in Owners : TRUE}]]
    /\ timerID = [o \in Owners |-> NoHandler]
    /\ pending = FALSE
    /\ clock = 1
    /\ loop = [pc |-> "event", now |-> 0, handler |-> NoHandler]

At(pc) == loop.pc = pc
Live == Range(queue)
Fired(h) == timers[h].when = 0      \* IS_ZERO

-----------------------------------------------------------------------------
(* The queue. *)

\* enqueueTimerHandler: before the first that h does not come after.
Enqueue(q, t, h) ==
    LET earlier == {i \in DOMAIN q : t[h].when > t[q[i]].when}
        n == CHOOSE k \in 0 .. Len(q) :
                /\ 1 .. k \subseteq earlier
                /\ k + 1 \notin earlier
    IN  InsertAt(q, n + 1, h)

\* The handler after h in the queue.
NextOf(q, h) ==
    LET later == {i \in 2 .. Len(q) : q[i - 1] = h} IN
    IF later = {} THEN NoHandler ELSE q[CHOOSE i \in later : TRUE]

-----------------------------------------------------------------------------
(* What event handlers and callbacks do. *)

InClient == At("event") \/ At("callback")

\* WMAddTimerHandler and WMAddPersistentTimerHandler.
StartTimer(o, delay, h) ==
    /\ InClient
    /\ timerID[o] = NoHandler
    /\ o \in Persistent => delay > 0
    /\ h \notin Live
    /\ timers' = [timers EXCEPT ![h] =
                    [when |-> clock + delay,
                     nextDelay |-> IF o \in Persistent THEN delay ELSE 0,
                     clientData |-> o]]
    /\ queue' = Enqueue(queue, timers', h)
    /\ timerID' = [timerID EXCEPT ![o] = h]
    /\ UNCHANGED <<pending, clock, loop>>

\* Mutant of StopTimer: a handler that has fired is freed as well.
MutantStopTimer(o) ==
    /\ InClient
    /\ timerID[o] # NoHandler
    /\ queue' = RemoveFirst(queue, timerID[o])
    /\ timers' = [timers EXCEPT ![timerID[o]].nextDelay = 0]
    /\ timerID' = [timerID EXCEPT ![o] = NoHandler]
    /\ UNCHANGED <<pending, clock, loop>>

\* Mutant of StopTimer: a persistent timer goes on.
MutantStopKeepsDelay(o) ==
    /\ InClient
    /\ timerID[o] # NoHandler
    /\ queue' = IF Fired(timerID[o]) THEN queue ELSE RemoveFirst(queue, timerID[o])
    /\ timerID' = [timerID EXCEPT ![o] = NoHandler]
    /\ UNCHANGED <<timers, pending, clock, loop>>

\* WMDeleteTimerHandler: one that has fired is left to W_CheckTimerHandlers.
StopTimer(o) ==
    /\ InClient
    /\ timerID[o] # NoHandler
    /\ queue' = IF Fired(timerID[o]) THEN queue ELSE RemoveFirst(queue, timerID[o])
    /\ timers' = [timers EXCEPT ![timerID[o]].nextDelay = 0]
    /\ timerID' = [timerID EXCEPT ![o] = NoHandler]
    /\ UNCHANGED <<pending, clock, loop>>

Goto(pc) == loop' = [loop EXCEPT !.pc = pc]

\* The handler returns, and WMNextEvent is called again.
EventReturn ==
    /\ At("event")
    /\ Goto("check")
    /\ UNCHANGED <<queue, timers, timerID, pending, clock>>

-----------------------------------------------------------------------------
(* W_CheckTimerHandlers. *)

Check ==
    /\ At("check")
    /\ loop' = IF queue = <<>> THEN [loop EXCEPT !.pc = "top"]
               ELSE [loop EXCEPT !.pc = "walk", !.now = clock, !.handler = Head(queue)]
    /\ UNCHANGED <<queue, timers, timerID, pending, clock>>

\* IS_AFTER(now, handler->when)
Due == loop.handler # NoHandler /\ loop.now > timers[loop.handler].when

\* The callback of a timer that is not persistent forgets the handler id.
Call ==
    /\ At("walk") /\ Due
    /\ ~Fired(loop.handler)
    /\ LET o == timers[loop.handler].clientData IN
        timerID' = IF o \in Persistent THEN timerID ELSE [timerID EXCEPT ![o] = NoHandler]
    /\ timers' = [timers EXCEPT ![loop.handler].when = 0]
    /\ Goto("callback")
    /\ UNCHANGED <<queue, pending, clock>>

CallbackReturn ==
    /\ At("callback")
    /\ loop' = [loop EXCEPT !.pc = "walk", !.handler = NextOf(queue, loop.handler)]
    /\ UNCHANGED <<queue, timers, timerID, pending, clock>>

\* The walk is over.
WalkEnds ==
    /\ At("walk") /\ ~Due
    /\ Goto("sweep")
    /\ UNCHANGED <<queue, timers, timerID, pending, clock>>

\* Those that have fired go, or wait for another time: a step is one turn of
\* the loop, which takes the first of them.
HeadFired == queue # <<>> /\ Fired(Head(queue))

Requeue ==
    /\ At("sweep") /\ HeadFired
    /\ timers[Head(queue)].nextDelay > 0
    /\ timers' = [timers EXCEPT ![Head(queue)].when = loop.now + timers[Head(queue)].nextDelay]
    /\ queue' = Enqueue(Tail(queue), timers', Head(queue))
    /\ UNCHANGED <<timerID, pending, clock, loop>>

Free ==
    /\ At("sweep") /\ HeadFired
    /\ timers[Head(queue)].nextDelay = 0
    /\ queue' = Tail(queue)
    /\ UNCHANGED <<timers, timerID, pending, clock, loop>>

SweepEnds ==
    /\ At("sweep") /\ ~HeadFired
    /\ Goto("top")
    /\ UNCHANGED <<queue, timers, timerID, pending, clock>>

-----------------------------------------------------------------------------
(* WMNextEvent. *)

\* The event is taken, or waitForEvent waits.
Top ==
    /\ At("top")
    /\ Goto(IF pending THEN "event" ELSE "block")
    /\ pending' = FALSE
    /\ UNCHANGED <<queue, timers, timerID, clock>>

\* delayUntilNextTimerEvent: the time that select may wait until.
Timeout == {timers[h].when : h \in {g \in Live : ~Fired(g)}}

\* Mutant of Awake: select waits for the X server only.
MutantAwake == pending

\* select returns.
Awake == pending \/ \E t \in Timeout : clock >= t

Unblock ==
    /\ At("block")
    /\ Awake
    /\ Goto("check")
    /\ UNCHANGED <<queue, timers, timerID, pending, clock>>

-----------------------------------------------------------------------------

Tick ==
    /\ clock < MaxTime
    /\ clock' = clock + 1
    /\ UNCHANGED <<queue, timers, timerID, pending, loop>>

\* The X server sends an event.
Arrive ==
    /\ ~pending
    /\ pending' = TRUE
    /\ UNCHANGED <<queue, timers, timerID, clock, loop>>

Client ==
    \/ \E o \in Owners, delay \in Delays, h \in Handlers : StartTimer(o, delay, h)
    \/ \E o \in Owners : StopTimer(o)

Loop ==
    \/ EventReturn \/ Check \/ Call \/ CallbackReturn \/ WalkEnds
    \/ Requeue \/ Free \/ SweepEnds
    \/ Top \/ Unblock

Next == Client \/ Loop \/ Tick \/ Arrive

Spec == Init /\ [][Next]_vars /\ WF_vars(Loop)

-----------------------------------------------------------------------------
(* Properties. *)

\* The queue is sorted, although callbacks add to it and take from it while it
\* is walked, so that the walk may stop at the first timer that is not due.
SoonestFirst ==
    /\ IsInjective(queue)
    /\ \A i, j \in DOMAIN queue : i < j => timers[queue[i]].when <= timers[queue[j]].when

\* No handler is freed that someone still has the address of: neither an owner,
\* who might stop it, nor W_CheckTimerHandlers, which goes on to the next one.
NoDangling ==
    /\ \A o \in Owners :
        timerID[o] # NoHandler => timerID[o] \in Live /\ timers[timerID[o]].clientData = o
    /\ At("walk") \/ At("callback") => loop.handler \in Live \cup {NoHandler}

QueueIsSound == TypeOK /\ SoonestFirst /\ NoDangling

\* A timer that was stopped does not fire, even if the callback before it
\* stopped it; and when the sweep is over nothing that was due when the walk
\* began is left, nor a persistent timer that was stopped by its own callback.
WalkIsExact ==
    [][ /\ At("walk") /\ At("callback")'
            => timerID[timers[loop.handler].clientData] = loop.handler
        /\ At("sweep") /\ At("top")' => \A h \in Live' :
                /\ timers'[h].when >= loop.now
                /\ timerID'[timers'[h].clientData] = h ]_vars

Overdue(o) ==
    /\ timerID[o] # NoHandler
    /\ ~Fired(timerID[o])
    /\ timers[timerID[o]].when < clock

\* A timer whose time has come fires, unless it is stopped, though no event comes.
OverdueFires == \A o \in Owners : Overdue(o) ~> ~Overdue(o)

=============================================================================
