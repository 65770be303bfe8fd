----------------------------- MODULE FileMover -----------------------------
(***************************************************************************)
(* One background file operation (Operations/FileMover.m) and the two      *)
(* helper processes it runs one after the other: Sizer.tool, which counts  *)
(* what there is to do, and FileMover.tool, which does it.                 *)
(*                                                                         *)
(* Workspace is single threaded: every action of the operation below is    *)
(* one event of its run loop (a click, data on the pipe, the end of a      *)
(* child, a timer) and runs to its end.  The tool runs concurrently; it    *)
(* and the operation share two pipes and signals.  The tool is seen here   *)
(* through its protocol only (ask, wait, go on, end); FileTool.tla models  *)
(* what it does to the files.                                              *)
(***************************************************************************)
EXTENDS AlertProtocol, FiniteSets

CONSTANTS
    Problems,   \* the problem types this tool may meet
    MaxAsk,     \* bound: questions the tool asks during the operation
    MaxSplits   \* bound: reads of the pipe that end inside an alert line

ASSUME FileMoverAssumption ==
    /\ Problems \subseteq ProblemTypes
    /\ MaxAsk \in Nat
    /\ MaxSplits \in Nat

VARIABLES
    state,        \* BGOperation.state
    problem,      \* BGOperation.problem
    isSuspended,  \* the operation believes it has stopped its task (SIGSTOP)
    isSizing,     \* the task in charge is the sizer
    dataWait,     \* waitForDataInBackgroundAndNotify is pending on readPipe
    timer,        \* the one second timer that calls -destroyOperation is armed
    listed,       \* in ProcessManager's `operations'
    quitting,     \* Log Out waits for the operations: "stop" when it has stopped them
    sizer,        \* Sizer.tool
    mover,        \* FileMover.tool
    frozen,       \* the live process is stopped by SIGSTOP
    question,     \* the problem the tool asked about last
    defaults,     \* problem types for which the tool has a default action
    isStopped,    \* the tool's global flag
    output,       \* alert lines in readPipe that Workspace has not consumed
    answers,      \* letters in writePipe that the tool has not read
    asked,        \* number of questions asked (bounded by MaxAsk)
    splits        \* number of reads that ended inside an alert line

opVars == <<state, problem, isSuspended, isSizing, dataWait, timer, listed, quitting>>
procVars == <<sizer, mover, frozen>>
toolVars == <<question, defaults, isStopped, asked>>
vars == <<opVars, procVars, toolVars, output, answers, splits>>

OperationStates == {"Prepare", "Running", "Paused", "Alert", "Completed",
                    "Stopping", "Stopped"}

SizerAlive == sizer = "running"
MoverAlive == mover \in {"starting", "running", "asking"}

\* -[NSTask isRunning] of the task in charge, which collects a dead child.
TaskIsRunning == (isSizing /\ SizerAlive) \/ (~isSizing /\ MoverAlive)

TypeOK ==
    /\ state \in OperationStates
    /\ problem \in ProblemTypes \cup {NoProblem}
    /\ isSuspended \in BOOLEAN
    /\ isSizing \in BOOLEAN
    /\ dataWait \in BOOLEAN
    /\ timer \in BOOLEAN
    /\ listed \in BOOLEAN
    /\ quitting \in {"no", "wait", "stop"}
    /\ sizer \in {"running", "exited", "reaped"}
    /\ mover \in {"none", "starting", "running", "asking", "exited", "reaped"}
    /\ frozen \in BOOLEAN
    /\ question \in ProblemTypes \cup {NoProblem}
    /\ defaults \subseteq ProblemTypes
    /\ isStopped \in BOOLEAN
    /\ output \in Seq(ProblemTypes)
    /\ answers \in Seq(Answers)
    /\ asked \in 0..MaxAsk
    /\ splits \in 0..MaxSplits

\* -initWithOperationType:... has started the sizer and set Running.
Init ==
    /\ state = "Running"
    /\ problem = NoProblem
    /\ isSuspended = FALSE
    /\ isSizing = TRUE
    /\ dataWait = TRUE
    /\ timer = FALSE
    /\ listed = TRUE
    /\ quitting = "no"
    /\ sizer = "running"
    /\ mover = "none"
    /\ frozen = FALSE
    /\ question = NoProblem
    /\ defaults = {}
    /\ isStopped = FALSE
    /\ output = <<>>
    /\ answers = <<>>
    /\ asked = 0
    /\ splits = 0

-----------------------------------------------------------------------------
(* The tools. *)

\* Sizer.tool ends: its work is done, SIGINT stopped it, or it died.
SizerExit ==
    /\ SizerAlive
    /\ ~frozen
    /\ sizer' = "exited"
    /\ UNCHANGED <<opVars, mover, frozen, toolVars, output, answers, splits>>

\* main() of FileMover.tool has installed its SIGINT handler and cleared isStopped.
MoverStart ==
    /\ mover = "starting"
    /\ ~frozen
    /\ mover' = "running"
    /\ isStopped' = FALSE
    /\ UNCHANGED <<opVars, sizer, frozen, question, defaults, asked, output, answers, splits>>

\* -howToHandleProblem: without a default action prints the alert line, flushes
\* and blocks on stdin.  A tool that was told to stop may still ask.
MoverAsk(p) ==
    /\ mover = "running"
    /\ ~frozen
    /\ p \notin defaults
    /\ asked < MaxAsk
    /\ mover' = "asking"
    /\ question' = p
    /\ output' = Append(output, p)
    /\ asked' = asked + 1
    /\ UNCHANGED <<opVars, sizer, frozen, defaults, isStopped, answers, splits>>

\* One fgetc: a letter the question does not accept is thrown away.
MoverReadAnswer ==
    /\ mover = "asking"
    /\ ~frozen
    /\ answers # <<>>
    /\ answers' = Tail(answers)
    /\ LET a == Head(answers) IN
       IF a.letter \in Accepts(question)
       THEN /\ mover' = "running"
            /\ isStopped' = (isStopped \/ a.letter = "t")
            /\ defaults' = IF a.all THEN defaults \cup {question} ELSE defaults
       ELSE UNCHANGED <<mover, isStopped, defaults>>
    /\ UNCHANGED <<opVars, sizer, frozen, question, asked, output, splits>>

\* The operation is done, or was stopped: the tool prints its last line and ends.
MoverFinish ==
    /\ mover = "running"
    /\ ~frozen
    /\ mover' = "exited"
    /\ UNCHANGED <<opVars, sizer, frozen, toolVars, output, answers, splits>>

\* The tool dies: an uncaught exception, SIGKILL, or the uninitialised file
\* handles that CopyRegular closes when it skips a file.
MoverCrash ==
    /\ MoverAlive
    /\ mover' = "exited"
    /\ UNCHANGED <<opVars, sizer, frozen, toolVars, output, answers, splits>>

-----------------------------------------------------------------------------
(* Parts of the operation's methods. *)

\* -startFileMover: new process, new pipes, new observers.  isSuspended keeps
\* whatever value it had.
StartFileMover ==
    /\ mover' = "starting"
    /\ frozen' = FALSE
    /\ output' = <<>>
    /\ answers' = <<>>
    /\ dataWait' = TRUE
    /\ isSizing' = FALSE

\* [task interrupt].  SIGINT sets the tool's flag, even while it waits in fgetc,
\* which is restarted.  Until main() is ready the signal either kills the
\* process or is overwritten by `isStopped = NO'.
Interrupt ==
    CASE isSizing \/ ~MoverAlive -> UNCHANGED <<mover, isStopped>>
      [] mover = "starting"      -> /\ mover' \in {"starting", "exited"}
                                    /\ UNCHANGED isStopped
      [] OTHER                   -> /\ isStopped' = TRUE
                                    /\ UNCHANGED mover

\* Mutant of PostSolution: `problem = NoProblem' is forgotten.
MutantPostSolutionKeepsProblem(a, nextState) ==
    IF MoverAlive
    THEN answers' = Append(answers, a) /\ state' = nextState /\ UNCHANGED problem
    ELSE UNCHANGED <<answers, problem, state>>

\* Mutant of PostSolution: setState: is forgotten.
MutantPostSolutionKeepsState(a, nextState) ==
    IF MoverAlive
    THEN answers' = Append(answers, a) /\ problem' = NoProblem /\ UNCHANGED state
    ELSE UNCHANGED <<answers, problem, state>>

\* -postSolution:applyToSubsequent: up to its last line.  Writing to a pipe
\* whose reader is gone raises before anything is assigned.
PostSolution(a, nextState) ==
    IF MoverAlive
    THEN /\ answers' = Append(answers, a)
         /\ problem' = NoProblem
         /\ state' = nextState
    ELSE UNCHANGED <<answers, problem, state>>

\* -pause:, the Suspend/Resume button.  Suspending a task that has already
\* exited succeeds as well.
Pause ==
    /\ isSuspended' = ~isSuspended
    /\ state' = IF isSuspended THEN "Running" ELSE "Paused"
    /\ frozen' = (~isSuspended /\ TaskIsRunning)

\* Mutant of Stop: the flag is cleared, but [task resume] is not called.
MutantStopWithoutResume ==
    /\ isSuspended' = FALSE
    /\ state' = "Stopping"
    /\ Interrupt
    /\ UNCHANGED <<frozen, problem, answers>>

\* -stop: resumes a suspended task first, which makes the state Running, even if
\* an alert was on display.
Stop ==
    /\ isSuspended' = FALSE
    /\ frozen' = FALSE
    /\ IF ~isSuspended /\ state = "Alert"
       THEN /\ PostSolution(StopAnswer, "Stopping")
            /\ UNCHANGED <<mover, isStopped>>
       ELSE /\ state' = "Stopping"
            /\ Interrupt
            /\ UNCHANGED <<problem, answers>>

-----------------------------------------------------------------------------
(* Events of Workspace's run loop. *)

\* While Log Out waits it serves pipes, timers and children, but no click: clicks are
\* dispatched by NSApp, and the wait is in -[NSRunLoop runUntilDate:].
ClicksAreServed == listed /\ quitting = "no"

\* The buttons of the process box: shown and enabled in Running and Paused only
\* (in Alert the alert box replaces them).
ButtonsEnabled == ClicksAreServed /\ state \in {"Running", "Paused"}

UserPause ==
    /\ ButtonsEnabled
    /\ Pause
    /\ UNCHANGED <<problem, isSizing, dataWait, timer, listed, quitting,
                   sizer, mover, toolVars, output, answers, splits>>

UserResume == isSuspended /\ UserPause

UserStop ==
    /\ ButtonsEnabled
    /\ Stop
    /\ UNCHANGED <<isSizing, dataWait, timer, listed, quitting, sizer,
                   question, defaults, asked, output, splits>>

\* "Stop and quit": ProcessManager sends -stop: to every listed operation, in
\* whatever state it is, then waits.
LogoutStop ==
    /\ ClicksAreServed
    /\ quitting' = "stop"
    /\ Stop
    /\ UNCHANGED <<isSizing, dataWait, timer, listed, sizer,
                   question, defaults, asked, output, splits>>

\* "Cancel" and "Review" stop nothing, but wait as well.
LogoutWait ==
    /\ ClicksAreServed
    /\ quitting' = "wait"
    /\ UNCHANGED <<state, problem, isSuspended, isSizing, dataWait, timer, listed,
                   procVars, toolVars, output, answers, splits>>

\* A button of the alert box.
UserAnswer ==
    /\ ClicksAreServed
    /\ state = "Alert"
    /\ \/ \E a \in PostedAnswers(problem) : PostSolution(a, "Running")
       \/ PostSolution(StopAnswer, "Stopping")
    /\ UNCHANGED <<isSuspended, isSizing, dataWait, timer, listed, quitting,
                   procVars, toolVars, output, splits>>

\* Mutant of ReadInput: waitForDataInBackgroundAndNotify is not called again.
MutantReadInputOnce(n, split) ==
    LET handled == IF split THEN n + 1 ELSE n IN
    /\ dataWait
    /\ handled \in 1..Len(output)
    /\ split => splits < MaxSplits
    /\ output' = SubSeq(output, n + 1, Len(output))
    /\ splits' = IF split THEN splits + 1 ELSE splits
    /\ problem' = output[handled]
    /\ state' = "Alert"
    /\ dataWait' = FALSE
    /\ UNCHANGED <<isSuspended, isSizing, timer, listed, quitting, procVars, toolVars, answers>>

\* -readInput: on NSFileHandleDataAvailableNotification.  The data holds n whole
\* alert lines and, when the read ended inside a line, a piece of the next one:
\* that piece is remembered in truncatedLine and handled at once as well.  It is
\* handled again when the rest arrives, so the line stays in `output'.
ReadInput(n, split) ==
    LET handled == IF split THEN n + 1 ELSE n IN
    /\ dataWait
    /\ handled \in 1..Len(output)
    /\ split => splits < MaxSplits
    /\ output' = SubSeq(output, n + 1, Len(output))
    /\ splits' = IF split THEN splits + 1 ELSE splits
    /\ problem' = output[handled]
    /\ state' = "Alert"
    /\ dataWait' = TaskIsRunning
    /\ UNCHANGED <<isSuspended, isSizing, timer, listed, quitting, procVars, toolVars, answers>>

DataAvailable == \E n \in 0..Len(output), split \in BOOLEAN : ReadInput(n, split)

\* Mutant of SizerTaskTerminated: the `else' before the timer is missing.
MutantSizerArmsTimer ==
    /\ sizer = "exited"
    /\ sizer' = "reaped"
    /\ StartFileMover
    /\ timer' = TRUE
    /\ UNCHANGED <<state, problem, isSuspended, listed, quitting, toolVars, splits>>

\* Mutant of SizerTaskTerminated: Running is set again for the second task.
MutantSizerSetsRunning ==
    /\ sizer = "exited"
    /\ sizer' = "reaped"
    /\ StartFileMover
    /\ state' = "Running"
    /\ UNCHANGED <<problem, isSuspended, timer, listed, quitting, toolVars, splits>>

\* -sizerTaskTerminated: goes on with the mover unless the state is Stopped.
SizerTaskTerminated ==
    /\ sizer = "exited"
    /\ sizer' = "reaped"
    /\ IF state # "Stopped"
       THEN StartFileMover /\ UNCHANGED timer
       ELSE timer' = TRUE /\ UNCHANGED <<mover, frozen, output, answers, dataWait, isSizing>>
    /\ UNCHANGED <<state, problem, isSuspended, listed, quitting, toolVars, splits>>

\* Mutant of TaskTerminated: the state is only set when the operation is Stopping.
MutantTaskTerminatedKeepsState ==
    /\ mover = "exited"
    /\ mover' = "reaped"
    /\ timer' = TRUE
    /\ state' = IF state = "Stopping" THEN "Stopped" ELSE state
    /\ UNCHANGED <<problem, isSuspended, isSizing, dataWait, listed, quitting,
                   sizer, frozen, toolVars, output, answers, splits>>

\* -taskTerminated: unless Stopping, the rest of the output is read first.
TaskTerminated ==
    /\ mover = "exited"
    /\ mover' = "reaped"
    /\ timer' = TRUE
    /\ IF state # "Stopping"
       THEN /\ problem' = IF output = <<>> THEN problem ELSE output[Len(output)]
            /\ output' = <<>>
            /\ state' = "Completed"
       ELSE /\ state' = "Stopped"
            /\ UNCHANGED <<problem, output>>
    /\ UNCHANGED <<isSuspended, isSizing, dataWait, listed, quitting,
                   sizer, frozen, toolVars, answers, splits>>

\* -destroyOperation, fired by the timer.
DestroyOperation ==
    /\ timer
    /\ timer' = FALSE
    /\ listed' = FALSE
    /\ UNCHANGED <<state, problem, isSuspended, isSizing, dataWait, quitting,
                   procVars, toolVars, output, answers, splits>>

-----------------------------------------------------------------------------
ToolStep ==
    \/ SizerExit
    \/ MoverStart
    \/ \E p \in Problems : MoverAsk(p)
    \/ MoverReadAnswer
    \/ MoverFinish
    \/ MoverCrash

Next ==
    \/ ToolStep
    \/ UserPause
    \/ UserStop
    \/ LogoutStop
    \/ LogoutWait
    \/ UserAnswer
    \/ DataAvailable
    \/ SizerTaskTerminated
    \/ TaskTerminated
    \/ DestroyOperation

Spec == Init /\ [][Next]_vars

(***************************************************************************)
(* Fairness.  A process that is not suspended for good gets the processor  *)
(* and its finite job ends (strong, because the user may suspend and       *)
(* resume it); the run loop serves every pending event; and the user looks *)
(* at the panel: an alert is answered, a suspended operation is resumed.   *)
(***************************************************************************)
Fairness ==
    /\ SF_vars(SizerExit)
    /\ SF_vars(MoverStart)
    /\ SF_vars(MoverReadAnswer)
    /\ SF_vars(MoverFinish)
    /\ WF_vars(DataAvailable)
    /\ WF_vars(SizerTaskTerminated)
    /\ WF_vars(TaskTerminated)
    /\ WF_vars(DestroyOperation)
    /\ WF_vars(UserAnswer)
    /\ WF_vars(UserResume)

FairSpec == Spec /\ Fairness

-----------------------------------------------------------------------------
(* Properties. *)

\* The exception in -postSolution: ("Posted a problem solution when the file
\* operation thought that there was none") is never raised: an alert on display
\* always has a problem that its buttons answer.
AlertHasProblem == state = "Alert" => problem # NoProblem

\* A question is never forgotten: when the tool waits, its question is still in
\* the pipe, or in `problem', or an answer that will release the tool is on its
\* way, whatever the user paused, stopped or answered meanwhile.
QuestionNotForgotten ==
    mover = "asking" =>
        \/ output # <<>>
        \/ problem = question
        \/ \E i \in DOMAIN answers : answers[i].letter \in Accepts(question)

\* As long as no alert line was split, question and answer take turns: exactly
\* one of "unread", "known to the operation", "answered" holds while the tool
\* waits, none while it works, and all three are about the same question.  In
\* particular no answer is left in the pipe for a later question.
InFlight == Len(output) + Len(answers) + (IF problem = NoProblem THEN 0 ELSE 1)

OneMessageInFlight ==
    splits = 0 /\ MoverAlive =>
        /\ InFlight = (IF mover = "asking" THEN 1 ELSE 0)
        /\ output # <<>> => output[1] = question
        /\ answers # <<>> => answers[1].letter \in Accepts(question)
        /\ problem # NoProblem => problem = question

\* The operation leaves ProcessManager's list only after its last process was
\* collected, and the mover never runs beside the sizer.
NoOrphanTool ==
    /\ (timer \/ ~listed) => mover = "reaped"
    /\ mover # "none" => sizer = "reaped"

\* A tool that is stopped by SIGSTOP is one the operation knows to be suspended:
\* a second press of the button brings it back.
FrozenIsKnown == frozen => isSuspended

\* Stopping is only left for Stopped, or for the alert of a tool that had asked
\* before it was told to stop.
StoppingOnlyEndsOrAsks ==
    [][state = "Stopping" =>
        \/ state' \in {"Stopping", "Stopped"}
        \/ state' = "Alert" /\ output # <<>>]_vars

\* The operation implements what Workspace relies on.
Abstract == INSTANCE BGOperation WITH working <- mover # "reaped"
ImplementsBGOperation == Abstract!Spec

\* The operation waits for an end that cannot come.  No click can help it: its buttons
\* are disabled, or Log Out waits.  And its tool is suspended, or waits for an answer
\* that nobody is on the way to give.
Stranded ==
    /\ state = "Stopping" \/ quitting # "no"
    /\ SizerAlive \/ MoverAlive
    /\ \/ frozen
       \/ /\ mover = "asking"
          /\ output = <<>>
          /\ \A i \in DOMAIN answers : answers[i].letter \notin Accepts(question)

\* With a user who answers alerts and resumes what was suspended, every operation
\* is taken off the list, unless it is stranded for good.
EndsUnlessStranded == <>~listed \/ <>[]Stranded

-----------------------------------------------------------------------------
(* What the repository says of the operation, and the code does not do. *)

\* ProcessManager.m:598 "Wait for operations to terminate": an operation that
\* was asked to stop when Workspace quits terminates.
LogoutEnds == quitting = "stop" ~> ~listed

=============================================================================
