-------------------------- MODULE FileMoverProofs --------------------------
(***************************************************************************)
(* Proofs about FileMover for every set of problems and every bound.       *)
(*                                                                         *)
(* The properties of FileMover.tla are not inductive by themselves.  IInv  *)
(* adds what they rest on: in which order the two processes live, what is  *)
(* left in the pipes when a process starts, and that the last line in the  *)
(* pipe is always about the question asked last.                           *)
(***************************************************************************)
EXTENDS FileMover, SequenceTheorems, TLAPS

-----------------------------------------------------------------------------
(* The alert protocol. *)

\* Every letter the alert panel can send for a problem, and its Stop button,
\* ends the tool's wait for that problem (-postSolution: against
\* -howToHandleProblem:).
THEOREM ButtonsUnderstood ==
    ASSUME NEW p \in ProblemTypes
    PROVE  /\ \A a \in PostedAnswers(p) : a \in Answers /\ a.letter \in Accepts(p)
           /\ StopAnswer \in Answers
           /\ StopAnswer.letter \in Accepts(p)
<1>1. \A i \in DOMAIN PostedLetters(p) :
          PostedLetters(p)[i] \in AnswerLetters /\ PostedLetters(p)[i] \in Accepts(p)
  <2>1. CASE p \in SkipOnlyProblems
    BY <2>1 DEF PostedLetters, Accepts, AnswerLetters
  <2>2. CASE p = "SymlinkEncountered"
    BY <2>2 DEF PostedLetters, Accepts, AnswerLetters, SkipOnlyProblems
  <2>3. CASE p = "SymlinkTargetNotExist"
    BY <2>3 DEF PostedLetters, Accepts, AnswerLetters, SkipOnlyProblems
  <2>4. CASE p = "AttributesUnchangeable"
    BY <2>4 DEF PostedLetters, Accepts, AnswerLetters, SkipOnlyProblems
  <2>5. CASE p = "FileExists"
    BY <2>5 DEF PostedLetters, Accepts, AnswerLetters, SkipOnlyProblems
  <2>q. QED
    BY <2>1, <2>2, <2>3, <2>4, <2>5 DEF ProblemTypes
<1>2. "t" \in Accepts(p)
  BY DEF Accepts, ProblemTypes, SkipOnlyProblems
<1>q. QED
  BY <1>1, <1>2 DEF PostedAnswers, Answers, StopAnswer, AnswerLetters

\* "No problem" is not a problem the tool can report.
LEMMA NoProblemIsNone == NoProblem \notin ProblemTypes
  BY DEF NoProblem, ProblemTypes, SkipOnlyProblems

-----------------------------------------------------------------------------
(* The inductive invariant. *)

\* An answer is only given to a real question, and only read by a tool that asked
\* one: without this the answers would have no type.
Asks == mover = "asking" => question # NoProblem

TInv == TypeOK /\ Asks /\ AlertHasProblem

\* The sizer, then the mover, then the timer, then the end.
Order ==
    /\ isSizing <=> mover = "none"
    /\ mover = "none" <=> sizer # "reaped"
    /\ (timer \/ ~listed) => mover = "reaped"
    /\ timer => listed
    /\ state = "Stopped" => mover = "reaped"

\* Before the mover runs nobody has asked or answered anything.
NothingBefore ==
    mover \in {"none", "starting"} => output = <<>> /\ answers = <<>> /\ problem = NoProblem

\* The last line in the pipe is about the tool's last question.
LastLine == output # <<>> => output[Len(output)] = question

Safe ==
    /\ AlertHasProblem
    /\ QuestionNotForgotten
    /\ OneMessageInFlight
    /\ FrozenIsKnown

IInv ==
    /\ TypeOK
    /\ Asks
    /\ Order
    /\ NothingBefore
    /\ LastLine
    /\ Safe

\* What -initWithOperationType:... leaves satisfies the inductive invariant.
LEMMA InitIInv == Init => IInv
<1> SUFFICES ASSUME Init PROVE IInv
  OBVIOUS
<1> USE FileMoverAssumption DEF Init
<1>1. TypeOK
  <2>1. output \in Seq(ProblemTypes) /\ answers \in Seq(Answers)
    OBVIOUS
  <2>2. asked \in 0..MaxAsk /\ splits \in 0..MaxSplits
    BY DEF FileMoverAssumption
  <2>3. defaults \subseteq ProblemTypes
    OBVIOUS
  <2>q. QED
    BY <2>1, <2>2, <2>3 DEF TypeOK, OperationStates
<1>2. Order /\ NothingBefore /\ LastLine
  BY DEF Order, NothingBefore, LastLine
<1>3. Asks
  BY DEF Asks
<1>4. Safe
  BY DEF Safe, AlertHasProblem, QuestionNotForgotten, OneMessageInFlight, FrozenIsKnown,
         MoverAlive
<1>q. QED
  BY <1>1, <1>2, <1>3, <1>4 DEF IInv

-----------------------------------------------------------------------------
(* Type correctness. *)

\* No handler and no step of a tool leaves the types.
LEMMA TypeStep == TInv /\ [Next]_vars => TypeOK'
<1> SUFFICES ASSUME TypeOK, Asks, AlertHasProblem, [Next]_vars PROVE TypeOK'
  BY DEF TInv
<1> USE DEF TypeOK
<1>s. \A S : \A s \in Seq(S) :
          /\ \A e \in S : Append(s, e) \in Seq(S)
          /\ s # <<>> => Tail(s) \in Seq(S)
          /\ \A n \in 0..Len(s) : SubSeq(s, n + 1, Len(s)) \in Seq(S)
          /\ Len(s) \in Nat
          /\ \A i \in 1..Len(s) : s[i] \in S
          /\ s # <<>> => Len(s) # 0
  OBVIOUS
<1>t. ASSUME NEW p \in ProblemTypes, NEW a \in PostedAnswers(p) \cup {StopAnswer}
      PROVE  a \in Answers
  BY ButtonsUnderstood
<1>p. ASSUME NEW a \in Answers, NEW st \in OperationStates, PostSolution(a, st)
      PROVE  /\ answers' \in Seq(Answers)
             /\ problem' \in ProblemTypes \cup {NoProblem}
             /\ state' \in OperationStates
  BY <1>p, <1>s DEF PostSolution
<1>j. "Stopping" \in OperationStates /\ "Running" \in OperationStates
  BY DEF OperationStates
<1>i. ASSUME Interrupt
      PROVE  /\ isStopped' \in BOOLEAN
             /\ mover' \in {"none", "starting", "running", "asking", "exited", "reaped"}
  BY <1>i DEF Interrupt
<1>o. ASSUME Stop
      PROVE  /\ state' \in OperationStates
             /\ problem' \in ProblemTypes \cup {NoProblem}
             /\ isSuspended' \in BOOLEAN
             /\ mover' \in {"none", "starting", "running", "asking", "exited", "reaped"}
             /\ frozen' \in BOOLEAN
             /\ isStopped' \in BOOLEAN
             /\ answers' \in Seq(Answers)
  <2>1. StopAnswer \in Answers
    BY DEF StopAnswer, Answers, AnswerLetters
  <2>2. isSuspended' \in BOOLEAN /\ frozen' \in BOOLEAN
    BY <1>o DEF Stop
  <2>3. CASE ~isSuspended /\ state = "Alert"
    <3>1. PostSolution(StopAnswer, "Stopping") /\ UNCHANGED <<mover, isStopped>>
      BY <1>o, <2>3 DEF Stop
    <3>q. QED
      BY <3>1, <1>p, <1>j, <2>1, <2>2
  <2>4. CASE ~(~isSuspended /\ state = "Alert")
    <3>1. state' = "Stopping" /\ Interrupt /\ UNCHANGED <<problem, answers>>
      BY <1>o, <2>4 DEF Stop
    <3>q. QED
      BY <3>1, <1>i, <1>j, <2>2
  <2>q. QED
    BY <2>3, <2>4
<1>1. CASE SizerExit
  BY <1>1 DEF SizerExit, opVars, toolVars
<1>2. CASE MoverStart
  BY <1>2 DEF MoverStart, opVars
<1>3. ASSUME NEW p \in Problems, MoverAsk(p)
      PROVE  TypeOK'
  <2>1. p \in ProblemTypes
    BY FileMoverAssumption DEF FileMoverAssumption
  <2>2. output' \in Seq(ProblemTypes)
    BY <1>3, <1>s, <2>1 DEF MoverAsk
  <2>3. asked' \in 0..MaxAsk
    BY <1>3, FileMoverAssumption DEF MoverAsk, FileMoverAssumption
  <2>q. QED
    BY <1>3, <2>1, <2>2, <2>3 DEF MoverAsk, opVars
<1>4. CASE MoverReadAnswer
  <2>1. answers' \in Seq(Answers)
    BY <1>4, <1>s DEF MoverReadAnswer
  <2>2. mover' \in {"none", "starting", "running", "asking", "exited", "reaped"}
    BY <1>4 DEF MoverReadAnswer
  <2>3. isStopped' \in BOOLEAN
    BY <1>4 DEF MoverReadAnswer
  <2>4. defaults' \subseteq ProblemTypes
    <3>1. question \in ProblemTypes
      BY <1>4 DEF MoverReadAnswer, Asks
    <3>q. QED
      BY <1>4, <3>1 DEF MoverReadAnswer
  <2>5. UNCHANGED <<opVars, sizer, frozen, question, asked, output, splits>>
    BY <1>4 DEF MoverReadAnswer
  <2>q. QED
    BY <2>1, <2>2, <2>3, <2>4, <2>5 DEF opVars
<1>5. CASE MoverFinish
  BY <1>5 DEF MoverFinish, opVars, toolVars
<1>6. CASE MoverCrash
  BY <1>6 DEF MoverCrash, opVars, toolVars
<1>7. CASE UserPause
  <2>1. isSuspended' \in BOOLEAN /\ frozen' \in BOOLEAN /\ state' \in OperationStates
    BY <1>7 DEF UserPause, Pause, OperationStates
  <2>2. UNCHANGED <<problem, isSizing, dataWait, timer, listed, quitting,
                    sizer, mover, toolVars, output, answers, splits>>
    BY <1>7 DEF UserPause
  <2>q. QED
    BY <2>1, <2>2 DEF toolVars
<1>8. CASE UserStop
  <2>1. /\ Stop
        /\ UNCHANGED <<isSizing, dataWait, timer, listed, quitting, sizer,
                      question, defaults, asked, output, splits>>
    BY <1>8 DEF UserStop
  <2>q. QED
    BY <2>1, <1>o
<1>9. CASE LogoutStop
  <2>1. /\ Stop
        /\ quitting' \in {"no", "wait", "stop"}
        /\ UNCHANGED <<isSizing, dataWait, timer, listed, sizer,
                      question, defaults, asked, output, splits>>
    BY <1>9 DEF LogoutStop
  <2>q. QED
    BY <2>1, <1>o
<1>10. CASE UserAnswer
  <2>1. problem \in ProblemTypes
    BY <1>10 DEF UserAnswer, AlertHasProblem
  <2>2. PICK a \in PostedAnswers(problem) \cup {StopAnswer}, st \in {"Running", "Stopping"} :
            PostSolution(a, st)
    BY <1>10 DEF UserAnswer
  <2>3. a \in Answers /\ st \in OperationStates
    BY <1>t, <1>j, <2>1
  <2>4. UNCHANGED <<isSuspended, isSizing, dataWait, timer, listed, quitting,
                    procVars, toolVars, output, splits>>
    BY <1>10 DEF UserAnswer
  <2>q. QED
    BY <1>p, <2>2, <2>3, <2>4 DEF procVars, toolVars
<1>11. ASSUME NEW n \in 0..Len(output), NEW split \in BOOLEAN, ReadInput(n, split)
       PROVE  TypeOK'
  <2> DEFINE handled == IF split THEN n + 1 ELSE n
  <2>1. output' \in Seq(ProblemTypes)
    BY <1>11, <1>s DEF ReadInput
  <2>2. problem' \in ProblemTypes
    <3>1. problem' = output[handled] /\ handled \in 1..Len(output)
      BY <1>11 DEF ReadInput
    <3>q. QED
      BY <1>s, <3>1
  <2>3. splits' \in 0..MaxSplits
    BY <1>11, FileMoverAssumption DEF ReadInput, FileMoverAssumption
  <2>4. dataWait' \in BOOLEAN
    <3>1. TaskIsRunning \in BOOLEAN
      BY Zenon DEF TaskIsRunning, SizerAlive, MoverAlive
    <3>2. dataWait' = TaskIsRunning
      BY <1>11 DEF ReadInput
    <3>q. QED
      BY <3>1, <3>2, Zenon
  <2>5. state' \in OperationStates
    BY <1>11 DEF ReadInput, OperationStates
  <2>6. UNCHANGED <<isSuspended, isSizing, timer, listed, quitting, procVars, toolVars, answers>>
    BY <1>11 DEF ReadInput
  <2>q. QED
    BY <2>1, <2>2, <2>3, <2>4, <2>5, <2>6 DEF procVars, toolVars
<1>12. CASE SizerTaskTerminated
  <2>1. UNCHANGED <<state, problem, isSuspended, listed, quitting, toolVars, splits>>
    BY <1>12 DEF SizerTaskTerminated
  <2>2. sizer' = "reaped"
    BY <1>12 DEF SizerTaskTerminated
  <2>3. CASE state # "Stopped"
    <3>1. StartFileMover /\ UNCHANGED timer
      BY <1>12, <2>3 DEF SizerTaskTerminated
    <3>2. frozen' \in BOOLEAN /\ dataWait' \in BOOLEAN /\ isSizing' \in BOOLEAN
      BY <3>1 DEF StartFileMover
    <3>3. output' \in Seq(ProblemTypes) /\ answers' \in Seq(Answers) /\ mover' = "starting"
      BY <3>1 DEF StartFileMover
    <3>q. QED
      BY <2>1, <2>2, <3>1, <3>2, <3>3 DEF toolVars
  <2>4. CASE state = "Stopped"
    <3>1. timer' \in BOOLEAN
      BY <1>12, <2>4 DEF SizerTaskTerminated
    <3>2. UNCHANGED <<mover, frozen, output, answers, dataWait, isSizing>>
      BY <1>12, <2>4 DEF SizerTaskTerminated
    <3>q. QED
      BY <2>1, <2>2, <3>1, <3>2 DEF toolVars
  <2>q. QED
    BY <2>3, <2>4
<1>13. CASE TaskTerminated
  <2>1. /\ mover' = "reaped"
        /\ timer' \in BOOLEAN
        /\ UNCHANGED <<isSuspended, isSizing, dataWait, listed, quitting,
                      sizer, frozen, toolVars, answers, splits>>
    BY <1>13 DEF TaskTerminated
  <2>2. state' \in OperationStates
    BY <1>13 DEF TaskTerminated, OperationStates
  <2>3. output' \in Seq(ProblemTypes)
    <3>1. output' = <<>> \/ output' = output
      BY <1>13 DEF TaskTerminated
    <3>q. QED
      BY <3>1, EmptySeq
  <2>4. problem' \in ProblemTypes \cup {NoProblem}
    BY <1>13, <1>s DEF TaskTerminated
  <2>q. QED
    BY <2>1, <2>2, <2>3, <2>4 DEF toolVars
<1>14. CASE DestroyOperation
  <2>1. timer' \in BOOLEAN /\ listed' \in BOOLEAN
    BY <1>14 DEF DestroyOperation
  <2>2. UNCHANGED <<state, problem, isSuspended, isSizing, dataWait, quitting,
                    procVars, toolVars, output, answers, splits>>
    BY <1>14 DEF DestroyOperation
  <2>q. QED
    BY <2>1, <2>2 DEF procVars, toolVars
<1>15. CASE LogoutWait \/ UNCHANGED vars
  BY <1>15 DEF LogoutWait, vars, opVars, procVars, toolVars
<1>q. QED
  BY <1>1, <1>2, <1>3, <1>4, <1>5, <1>6, <1>7, <1>8, <1>9, <1>10, <1>11, <1>12, <1>13, <1>14,
     <1>15 DEF Next, ToolStep, DataAvailable

\* A handler that displays an alert sets its problem first, and one that clears the
\* problem (-postSolution:) leaves the state Alert.
LEMMA AlertStep == TInv /\ [Next]_vars => Asks' /\ AlertHasProblem'
<1> SUFFICES ASSUME TypeOK, Asks, AlertHasProblem, [Next]_vars
             PROVE  Asks' /\ AlertHasProblem'
  BY DEF TInv
<1> USE DEF Asks, AlertHasProblem
<1>p. ASSUME NEW a, NEW st \in {"Running", "Stopping"}, PostSolution(a, st)
      PROVE  AlertHasProblem'
  BY <1>p DEF PostSolution
<1>o. ASSUME Stop
      PROVE  /\ AlertHasProblem'
             /\ mover' = "asking" => mover = "asking"
  BY <1>o, <1>p DEF Stop, Interrupt
<1>1. CASE SizerExit
  BY <1>1 DEF SizerExit, opVars, toolVars
<1>2. CASE MoverStart
  BY <1>2 DEF MoverStart, opVars
<1>3. ASSUME NEW p \in Problems, MoverAsk(p)
      PROVE  Asks' /\ AlertHasProblem'
  BY <1>3, NoProblemIsNone, FileMoverAssumption DEF MoverAsk, opVars, FileMoverAssumption
<1>4. CASE MoverReadAnswer
  BY <1>4 DEF MoverReadAnswer, opVars
<1>5. CASE MoverFinish \/ MoverCrash
  BY <1>5 DEF MoverFinish, MoverCrash, opVars, toolVars
<1>6. CASE UserPause
  BY <1>6 DEF UserPause, Pause, toolVars
<1>7. CASE UserStop \/ LogoutStop
  BY <1>7, <1>o DEF UserStop, LogoutStop
<1>8. CASE UserAnswer
  BY <1>8, <1>p DEF UserAnswer, procVars, toolVars
<1>9. ASSUME NEW n \in 0..Len(output), NEW split \in BOOLEAN, ReadInput(n, split)
      PROVE  Asks' /\ AlertHasProblem'
  <2>1. PICK i \in 1..Len(output) : problem' = output[i]
    BY <1>9 DEF ReadInput
  <2>2. problem' # NoProblem
    BY <2>1, NoProblemIsNone, ElementOfSeq DEF TypeOK
  <2>q. QED
    BY <1>9, <2>2 DEF ReadInput, procVars, toolVars
<1>10. CASE SizerTaskTerminated
  BY <1>10 DEF SizerTaskTerminated, StartFileMover, toolVars
<1>11. CASE TaskTerminated
  BY <1>11 DEF TaskTerminated, toolVars
<1>12. CASE DestroyOperation
  BY <1>12 DEF DestroyOperation, procVars, toolVars
<1>13. CASE LogoutWait \/ UNCHANGED vars
  BY <1>13 DEF LogoutWait, vars, opVars, procVars, toolVars
<1>q. QED
  BY <1>1, <1>2, <1>3, <1>4, <1>5, <1>6, <1>7, <1>8, <1>9, <1>10, <1>11, <1>12, <1>13
     DEF Next, ToolStep, DataAvailable

\* TypeOK is inductive together with Asks and AlertHasProblem.
LEMMA TInvariant == Spec => []TInv
<1>1. Init => TInv
  BY InitIInv DEF IInv, Safe, TInv, Asks, Init
<1>2. TInv /\ [Next]_vars => TInv'
  BY TypeStep, AlertStep DEF TInv
<1>q. QED
  BY <1>1, <1>2, PTL DEF Spec

\* Every variable of the operation and of its processes keeps to its type.
THEOREM TypeCorrect == Spec => []TypeOK
<1>1. TInv => TypeOK
  BY DEF TInv
<1>q. QED
  BY <1>1, TInvariant, PTL

\* An alert on display always has a problem its buttons answer: the exception in
\* -postSolution: is never raised.
THEOREM AlertsAreAnswerable == Spec => []AlertHasProblem
<1>1. TInv => AlertHasProblem
  BY DEF TInv
<1>q. QED
  BY <1>1, TInvariant, PTL

-----------------------------------------------------------------------------
(* The order of the processes. *)

\* -sizerTaskTerminated: is the only way to the mover, and -taskTerminated: the only
\* way to the timer while -sizerTaskTerminated: never finds the state Stopped.
LEMMA OrderStep ==
    TInv /\ Order /\ NothingBefore /\ [Next]_vars => Order' /\ NothingBefore'
<1> SUFFICES ASSUME TypeOK, AlertHasProblem, Order, NothingBefore, [Next]_vars
             PROVE  Order' /\ NothingBefore'
  BY DEF TInv
<1> USE DEF Order, NothingBefore, MoverAlive, SizerAlive
<1>o. ASSUME Stop, UNCHANGED <<isSizing, timer, listed, sizer, output>>
      PROVE  Order' /\ NothingBefore'
  <2>1. CASE ~isSuspended /\ state = "Alert"
    BY <1>o, <2>1 DEF Stop, PostSolution, AlertHasProblem
  <2>2. CASE ~(~isSuspended /\ state = "Alert")
    BY <1>o, <2>2 DEF Stop, Interrupt
  <2>q. QED
    BY <2>1, <2>2
<1>1. CASE SizerExit
  BY <1>1 DEF SizerExit, opVars, toolVars
<1>2. CASE MoverStart
  BY <1>2 DEF MoverStart, opVars
<1>3. ASSUME NEW p \in Problems, MoverAsk(p)
      PROVE  Order' /\ NothingBefore'
  BY <1>3 DEF MoverAsk, opVars
<1>4. CASE MoverReadAnswer
  BY <1>4 DEF MoverReadAnswer, opVars
<1>5. CASE MoverFinish \/ MoverCrash
  BY <1>5 DEF MoverFinish, MoverCrash, opVars, toolVars
<1>6. CASE UserPause
  BY <1>6 DEF UserPause, Pause, toolVars
<1>7. CASE UserStop \/ LogoutStop
  BY <1>7, <1>o DEF UserStop, LogoutStop
<1>8. CASE UserAnswer
  BY <1>8 DEF UserAnswer, PostSolution, procVars, toolVars, AlertHasProblem
<1>9. ASSUME NEW n \in 0..Len(output), NEW split \in BOOLEAN, ReadInput(n, split)
      PROVE  Order' /\ NothingBefore'
  <2>1. output # <<>>
    BY <1>9 DEF ReadInput, TypeOK
  <2>q. QED
    BY <1>9, <2>1 DEF ReadInput, procVars, toolVars
<1>10. CASE SizerTaskTerminated
  BY <1>10 DEF SizerTaskTerminated, StartFileMover, toolVars
<1>11. CASE TaskTerminated
  BY <1>11 DEF TaskTerminated, toolVars
<1>12. CASE DestroyOperation
  BY <1>12 DEF DestroyOperation, procVars, toolVars
<1>13. CASE LogoutWait \/ UNCHANGED vars
  BY <1>13 DEF LogoutWait, vars, opVars, procVars, toolVars
<1>q. QED
  BY <1>1, <1>2, <1>3, <1>4, <1>5, <1>6, <1>7, <1>8, <1>9, <1>10, <1>11, <1>12, <1>13
     DEF Next, ToolStep, DataAvailable

\* -pause:, -stop: and -startFileMover change SIGSTOP and isSuspended together.
LEMMA FrozenStep == TypeOK /\ FrozenIsKnown /\ [Next]_vars => FrozenIsKnown'
<1> SUFFICES ASSUME TypeOK, FrozenIsKnown, [Next]_vars PROVE FrozenIsKnown'
  OBVIOUS
<1> USE DEF FrozenIsKnown
<1>1. CASE ToolStep
  BY <1>1 DEF ToolStep, SizerExit, MoverStart, MoverAsk, MoverReadAnswer, MoverFinish,
              MoverCrash, opVars
<1>2. CASE UserPause
  BY <1>2 DEF UserPause, Pause, TypeOK
<1>3. CASE UserStop \/ LogoutStop
  BY <1>3 DEF UserStop, LogoutStop, Stop
<1>4. CASE UserAnswer
  BY <1>4 DEF UserAnswer, procVars
<1>5. CASE DataAvailable
  BY <1>5 DEF DataAvailable, ReadInput, procVars
<1>6. CASE SizerTaskTerminated
  BY <1>6 DEF SizerTaskTerminated, StartFileMover
<1>7. CASE TaskTerminated \/ DestroyOperation
  BY <1>7 DEF TaskTerminated, DestroyOperation, procVars
<1>8. CASE LogoutWait \/ UNCHANGED vars
  BY <1>8 DEF LogoutWait, vars, opVars, procVars
<1>q. QED
  BY <1>1, <1>2, <1>3, <1>4, <1>5, <1>6, <1>7, <1>8 DEF Next

-----------------------------------------------------------------------------
(* Questions and answers. *)

\* What a step does to the pipes, to the question and to the problem: every step
\* but the four of the protocol leaves them alone, or belongs to a new or a dead
\* mover.
LEMMA ProtocolSteps ==
    ASSUME TInv, Order, NothingBefore, [Next]_vars
    PROVE  \/ UNCHANGED <<mover, output, answers, question, problem, splits>>
           \/ /\ mover' \in {"starting", "running", "exited", "reaped"}
              /\ mover' \in {"starting", "running"} => mover \in {"none", "starting", "running"}
              /\ UNCHANGED <<question, splits>>
              /\ \/ UNCHANGED <<output, answers, problem>> /\ mover # "asking"
                 \/ mover' \in {"exited", "reaped"} /\ output' \in {output, <<>>}
                 \/ UNCHANGED problem /\ output' = <<>> /\ answers' = <<>> /\ mover = "none"
           \/ \E p \in Problems : MoverAsk(p)
           \/ MoverReadAnswer
           \/ /\ \E a \in PostedAnswers(problem) \cup {StopAnswer} :
                     answers' = Append(answers, a)
              /\ MoverAlive
              /\ problem # NoProblem
              /\ problem' = NoProblem
              /\ UNCHANGED <<mover, output, question, splits>>
           \/ \E n \in 0..Len(output), split \in BOOLEAN : ReadInput(n, split)
<1> SUFFICES ASSUME TypeOK, AlertHasProblem, Order, NothingBefore, [Next]_vars,
                    ~ \E p \in Problems : MoverAsk(p),
                    ~ MoverReadAnswer,
                    ~ DataAvailable
             PROVE  \/ UNCHANGED <<mover, output, answers, question, problem, splits>>
                    \/ /\ mover' \in {"starting", "running", "exited", "reaped"}
                       /\ mover' \in {"starting", "running"} => mover \in {"none", "starting", "running"}
                       /\ UNCHANGED <<question, splits>>
                       /\ \/ UNCHANGED <<output, answers, problem>> /\ mover # "asking"
                          \/ mover' \in {"exited", "reaped"} /\ output' \in {output, <<>>}
                          \/ UNCHANGED problem /\ output' = <<>> /\ answers' = <<>> /\ mover = "none"
                    \/ /\ \E a \in PostedAnswers(problem) \cup {StopAnswer} :
                              answers' = Append(answers, a)
                       /\ MoverAlive
                       /\ problem # NoProblem
                       /\ problem' = NoProblem
                       /\ UNCHANGED <<mover, output, question, splits>>
  BY DEF TInv, DataAvailable
<1>1. CASE SizerExit
  BY <1>1 DEF SizerExit, opVars, toolVars
<1>2. CASE MoverStart
  BY <1>2 DEF MoverStart, opVars
<1>3. CASE MoverFinish \/ MoverCrash
  BY <1>3 DEF MoverFinish, MoverCrash, opVars, toolVars
<1>4. CASE UserPause
  BY <1>4 DEF UserPause, toolVars
<1>5. CASE UserStop \/ LogoutStop
  <2>1. Stop /\ UNCHANGED <<question, output, splits>>
    BY <1>5 DEF UserStop, LogoutStop
  <2>2. CASE ~isSuspended /\ state = "Alert"
    BY <2>1, <2>2 DEF Stop, PostSolution, AlertHasProblem
  <2>3. CASE ~(~isSuspended /\ state = "Alert")
    BY <2>1, <2>3 DEF Stop, Interrupt
  <2>q. QED
    BY <2>2, <2>3
<1>6. CASE UserAnswer
  BY <1>6 DEF UserAnswer, PostSolution, AlertHasProblem, procVars, toolVars
<1>7. CASE SizerTaskTerminated
  BY <1>7 DEF SizerTaskTerminated, StartFileMover, Order, toolVars
<1>8. CASE TaskTerminated
  BY <1>8 DEF TaskTerminated, toolVars
<1>9. CASE DestroyOperation
  BY <1>9 DEF DestroyOperation, procVars, toolVars
<1>10. CASE LogoutWait \/ UNCHANGED vars
  BY <1>10 DEF LogoutWait, vars, opVars, procVars, toolVars
<1>q. QED
  BY <1>1, <1>2, <1>3, <1>4, <1>5, <1>6, <1>7, <1>8, <1>9, <1>10 DEF Next, ToolStep

\* A read takes whole lines from the front of the pipe; when it takes the last
\* one, that line is the operation's new problem.
LEMMA ReadTakesFront ==
    ASSUME TypeOK, NEW n \in 0..Len(output), NEW split \in BOOLEAN, ReadInput(n, split)
    PROVE  /\ output # <<>>
           /\ Len(output) \in Nat /\ Len(output) # 0
           /\ n < Len(output) => /\ output' # <<>>
                                /\ Len(output') \in Nat
                                /\ output'[Len(output')] = output[Len(output)]
           /\ n = Len(output) => output' = <<>> /\ problem' = output[Len(output)]
           /\ ~split => n # 0 /\ splits' = splits
           /\ split => splits' = splits + 1
           /\ UNCHANGED <<mover, question, answers>>
<1>1. /\ output' = SubSeq(output, n + 1, Len(output))
      /\ problem' = output[IF split THEN n + 1 ELSE n]
      /\ (IF split THEN n + 1 ELSE n) \in 1..Len(output)
      /\ splits' = IF split THEN splits + 1 ELSE splits
      /\ UNCHANGED <<mover, question, answers>>
  BY DEF ReadInput, procVars, toolVars
<1>2. output \in Seq(ProblemTypes) /\ Len(output) \in Nat
  BY LenProperties DEF TypeOK
<1>3. Len(output) # 0
  BY <1>1, <1>2
<1>4. output # <<>>
  BY <1>3
<1>5. ASSUME n < Len(output)
      PROVE  /\ output' # <<>>
             /\ Len(output') \in Nat
             /\ output'[Len(output')] = output[Len(output)]
  <2>1. \A i \in (n + 1)..Len(output) : output[i] \in ProblemTypes
    BY <1>2, ElementOfSeq
  <2>2. Len(output') = Len(output) - n
    BY <1>1, <1>2, <1>5, <2>1, SubSeqProperties
  <2>3. \A i \in 1..(Len(output) - n) : output'[i] = output[n + 1 + i - 1]
    BY <1>1, <1>2, <1>5, <2>1, SubSeqProperties
  <2>4. output' # <<>>
    BY <1>2, <1>5, <2>2
  <2>q. QED
    BY <1>2, <1>5, <2>2, <2>3, <2>4
<1>6. ASSUME n = Len(output) PROVE output' = <<>> /\ problem' = output[Len(output)]
  <2>1. output' = <<>>
    BY <1>1, <1>2, <1>6, SubSeqEmpty
  <2>q. QED
    BY <1>1, <1>2, <1>6, <2>1
<1>7. ~split => n # 0 /\ splits' = splits
  BY <1>1
<1>8. split => splits' = splits + 1
  BY <1>1
<1>q. QED
  BY <1>1, <1>2, <1>3, <1>4, <1>5, <1>6, <1>7, <1>8

\* What Append and Tail do to an answer that is on its way.
LEMMA AnswersKept ==
    ASSUME NEW s \in Seq(Answers), NEW a \in Answers
    PROVE  /\ Len(Append(s, a)) = Len(s) + 1 /\ Append(s, a)[Len(s) + 1] = a
           /\ \A i \in DOMAIN s : i \in DOMAIN Append(s, a) /\ Append(s, a)[i] = s[i]
           /\ Len(s) + 1 \in DOMAIN Append(s, a)
           /\ s # <<>> => /\ Head(s) = s[1]
                         /\ Len(Tail(s)) = Len(s) - 1
                         /\ \A i \in DOMAIN s :
                              i # 1 => i - 1 \in DOMAIN Tail(s) /\ Tail(s)[i - 1] = s[i]
  OBVIOUS

\* Each of the four protocol steps hands the question on: from the tool to the pipe, to
\* `problem', to the answer, and back to the tool.
LEMMA QuestionStep ==
    TInv /\ Order /\ NothingBefore /\ LastLine /\ QuestionNotForgotten /\ [Next]_vars
        => LastLine' /\ QuestionNotForgotten'
<1> SUFFICES ASSUME TInv, TypeOK, Order, NothingBefore, LastLine, QuestionNotForgotten,
                    [Next]_vars
             PROVE  LastLine' /\ QuestionNotForgotten'
  BY DEF TInv
<1> USE DEF LastLine, QuestionNotForgotten
<1>1. CASE UNCHANGED <<mover, output, answers, question, problem, splits>>
  BY <1>1
<1>2. CASE /\ mover' \in {"starting", "running", "exited", "reaped"}
           /\ UNCHANGED question
           /\ output' \in {output, <<>>}
  BY <1>2
<1>3. ASSUME NEW p \in Problems, MoverAsk(p)
      PROVE  LastLine' /\ QuestionNotForgotten'
  <2>1. output' = Append(output, p) /\ question' = p /\ p \in ProblemTypes
    BY <1>3, FileMoverAssumption DEF MoverAsk, FileMoverAssumption
  <2>2. output' # <<>> /\ output'[Len(output')] = p
    BY <2>1 DEF TypeOK
  <2>q. QED
    BY <2>1, <2>2
<1>4. CASE MoverReadAnswer
  <2>1. UNCHANGED <<output, question, problem>>
    BY <1>4 DEF MoverReadAnswer, opVars
  <2>2. CASE Head(answers).letter \in Accepts(question)
    BY <1>4, <2>1, <2>2 DEF MoverReadAnswer
  <2>3. CASE Head(answers).letter \notin Accepts(question)
    <3>1. answers # <<>> /\ answers' = Tail(answers) /\ mover = "asking"
      BY <1>4 DEF MoverReadAnswer
    <3>2. ASSUME NEW i \in DOMAIN answers, answers[i].letter \in Accepts(question)
          PROVE  \E j \in DOMAIN answers' : answers'[j].letter \in Accepts(question')
      <4>1. i # 1
        BY <2>3, <3>1, <3>2 DEF TypeOK
      <4>2. i - 1 \in DOMAIN answers' /\ answers'[i - 1] = answers[i]
        BY <3>1, <4>1, AnswersKept DEF TypeOK
      <4>q. QED
        BY <2>1, <3>2, <4>2
    <3>q. QED
      BY <2>1, <3>1, <3>2
  <2>q. QED
    BY <2>2, <2>3
<1>5. ASSUME NEW a \in PostedAnswers(problem) \cup {StopAnswer}, answers' = Append(answers, a),
             problem # NoProblem, UNCHANGED <<mover, output, question, splits>>
      PROVE  LastLine' /\ QuestionNotForgotten'
  <2>1. problem \in ProblemTypes
    BY <1>5 DEF TypeOK
  <2>2. a \in Answers /\ a.letter \in Accepts(problem)
    BY <1>5, <2>1, ButtonsUnderstood
  <2>3. Len(answers) + 1 \in DOMAIN answers' /\ answers'[Len(answers) + 1] = a
    BY <1>5, <2>2, AnswersKept DEF TypeOK
  <2>4. \A i \in DOMAIN answers : i \in DOMAIN answers' /\ answers'[i] = answers[i]
    BY <1>5, <2>2, AnswersKept DEF TypeOK
  <2>5. CASE problem = question
    BY <1>5, <2>2, <2>3, <2>5
  <2>6. CASE problem # question
    BY <1>5, <2>4, <2>6
  <2>q. QED
    BY <2>5, <2>6
<1>6. ASSUME NEW n \in 0..Len(output), NEW split \in BOOLEAN, ReadInput(n, split)
      PROVE  LastLine' /\ QuestionNotForgotten'
  <2>1. n < Len(output) \/ n = Len(output)
    BY <1>6, ReadTakesFront
  <2>2. CASE n < Len(output)
    BY <1>6, <2>2, ReadTakesFront
  <2>3. CASE n = Len(output)
    BY <1>6, <2>3, ReadTakesFront
  <2>q. QED
    BY <2>1, <2>2, <2>3
<1>q. QED
  BY ProtocolSteps, <1>1, <1>2, <1>3, <1>4, <1>5, <1>6

\* One message in flight is in exactly one of three places.
LEMMA OneOfThree ==
    ASSUME NEW a \in Nat, NEW b \in Nat, NEW c \in {0, 1}, a + b + c \in {0, 1}
    PROVE  /\ a # 0 => a = 1 /\ b = 0 /\ c = 0
           /\ b # 0 => a = 0 /\ b = 1 /\ c = 0
           /\ c # 0 => a = 0 /\ b = 0
  OBVIOUS

\* With whole lines only, a step moves the one message from one place to the next.
LEMMA OneMessageStep ==
    TInv /\ Order /\ NothingBefore /\ OneMessageInFlight /\ [Next]_vars
        => OneMessageInFlight'
<1> SUFFICES ASSUME TInv, TypeOK, Order, NothingBefore, OneMessageInFlight, [Next]_vars,
                    splits' = 0, MoverAlive'
             PROVE  /\ InFlight' = (IF mover' = "asking" THEN 1 ELSE 0)
                    /\ output' # <<>> => output'[1] = question'
                    /\ answers' # <<>> => answers'[1].letter \in Accepts(question')
                    /\ problem' # NoProblem => problem' = question'
  BY DEF TInv, OneMessageInFlight
<1> USE DEF InFlight, MoverAlive
<1>0. /\ Len(output) \in Nat /\ Len(answers) \in Nat
      /\ output # <<>> => Len(output) # 0
      /\ answers # <<>> => Len(answers) # 0
      /\ Len(<<>>) = 0
  BY EmptySeq, LenProperties DEF TypeOK
<1>1. CASE UNCHANGED <<mover, output, answers, question, problem, splits>>
  BY <1>1 DEF OneMessageInFlight
<1>2. CASE /\ mover' \in {"starting", "running", "exited", "reaped"}
           /\ mover' \in {"starting", "running"} => mover \in {"none", "starting", "running"}
           /\ UNCHANGED <<question, splits>>
           /\ \/ UNCHANGED <<output, answers, problem>>
              \/ mover' \in {"exited", "reaped"}
              \/ UNCHANGED problem /\ output' = <<>> /\ answers' = <<>> /\ mover = "none"
  <2>1. mover' \in {"starting", "running"} /\ mover \in {"none", "starting", "running"}
    BY <1>2
  <2>2. output = <<>> /\ answers = <<>> /\ problem = NoProblem
    BY <1>0, <1>2, <2>1 DEF OneMessageInFlight, NothingBefore
  <2>3. output' = <<>> /\ answers' = <<>> /\ problem' = NoProblem
    BY <1>2, <2>1, <2>2
  <2>q. QED
    BY <1>0, <2>1, <2>3
<1>3. ASSUME NEW p \in Problems, MoverAsk(p)
      PROVE  /\ InFlight' = (IF mover' = "asking" THEN 1 ELSE 0)
             /\ output' # <<>> => output'[1] = question'
             /\ answers' # <<>> => answers'[1].letter \in Accepts(question')
             /\ problem' # NoProblem => problem' = question'
  <2>1. /\ mover = "running" /\ mover' = "asking" /\ question' = p
        /\ output' = Append(output, p) /\ UNCHANGED <<answers, problem, splits>>
    BY <1>3 DEF MoverAsk, opVars
  <2>2. output = <<>> /\ answers = <<>> /\ problem = NoProblem
    BY <1>0, <2>1 DEF OneMessageInFlight
  <2>3. output' = <<p>>
    BY <2>1, <2>2
  <2>q. QED
    BY <1>0, <2>1, <2>2, <2>3
<1>4. CASE MoverReadAnswer
  <2>1. /\ mover = "asking" /\ answers # <<>> /\ answers' = Tail(answers)
        /\ UNCHANGED <<output, question, problem, splits>>
    BY <1>4 DEF MoverReadAnswer, opVars
  <2>2. output = <<>> /\ problem = NoProblem /\ Len(answers) = 1
    <3>1. InFlight = 1 /\ Len(answers) # 0
      BY <1>0, <2>1 DEF OneMessageInFlight
    <3>q. QED
      BY <1>0, <3>1, OneOfThree
  <2>3. Head(answers).letter \in Accepts(question)
    BY <2>1, AnswersKept DEF OneMessageInFlight, TypeOK
  <2>4. mover' = "running"
    BY <1>4, <2>3 DEF MoverReadAnswer
  <2>5. Len(answers') = 0 /\ answers' = <<>>
    BY <2>1, <2>2 DEF TypeOK
  <2>q. QED
    BY <2>1, <2>2, <2>4, <2>5, <1>0
<1>5. ASSUME NEW a \in PostedAnswers(problem) \cup {StopAnswer}, answers' = Append(answers, a),
             MoverAlive, problem # NoProblem, problem' = NoProblem,
             UNCHANGED <<mover, output, question, splits>>
      PROVE  /\ InFlight' = (IF mover' = "asking" THEN 1 ELSE 0)
             /\ output' # <<>> => output'[1] = question'
             /\ answers' # <<>> => answers'[1].letter \in Accepts(question')
             /\ problem' # NoProblem => problem' = question'
  <2>1. mover = "asking" /\ output = <<>> /\ answers = <<>> /\ problem = question
    BY <1>0, <1>5 DEF OneMessageInFlight
  <2>2. a \in Answers /\ a.letter \in Accepts(question)
    BY <1>5, <2>1, ButtonsUnderstood DEF TypeOK
  <2>3. answers' = <<a>>
    BY <1>5, <2>1
  <2>q. QED
    BY <1>0, <1>5, <2>1, <2>2, <2>3
<1>6. ASSUME NEW n \in 0..Len(output), NEW split \in BOOLEAN, ReadInput(n, split)
      PROVE  /\ InFlight' = (IF mover' = "asking" THEN 1 ELSE 0)
             /\ output' # <<>> => output'[1] = question'
             /\ answers' # <<>> => answers'[1].letter \in Accepts(question')
             /\ problem' # NoProblem => problem' = question'
  <2>1. ~split /\ splits = 0 /\ n # 0 /\ output # <<>> /\ UNCHANGED <<mover, question, answers>>
    BY <1>6, ReadTakesFront DEF TypeOK
  <2>2. mover = "asking" /\ Len(output) = 1 /\ answers = <<>> /\ problem = NoProblem
    <3>1. InFlight \in {0, 1} /\ Len(output) # 0
      BY <1>0, <2>1 DEF OneMessageInFlight
    <3>2. InFlight = 1
      BY <1>0, <3>1, OneOfThree
    <3>3. mover = "asking"
      BY <2>1, <3>2 DEF OneMessageInFlight
    <3>q. QED
      BY <1>0, <3>1, <3>2, <3>3, OneOfThree
  <2>3. n = Len(output)
    BY <2>1, <2>2
  <2>4. output' = <<>> /\ problem' = output[1]
    BY <1>6, <2>2, <2>3, ReadTakesFront
  <2>5. output[1] = question /\ output[1] \in ProblemTypes
    BY <2>1, <2>2, ElementOfSeq DEF OneMessageInFlight, TypeOK
  <2>q. QED
    BY <1>0, <2>1, <2>2, <2>4, <2>5, NoProblemIsNone
<1>q. QED
  BY ProtocolSteps, <1>1, <1>2, <1>3, <1>4, <1>5, <1>6

-----------------------------------------------------------------------------
(* The invariant and what follows from it. *)

\* IInv is inductive: the step lemmas put together.
LEMMA StepIInv == IInv /\ [Next]_vars => IInv'
<1> SUFFICES ASSUME IInv, [Next]_vars PROVE IInv'
  OBVIOUS
<1>1. TInv
  BY DEF IInv, Safe, TInv
<1>2. TypeOK' /\ Asks' /\ AlertHasProblem'
  BY <1>1, TypeStep, AlertStep
<1>3. Order' /\ NothingBefore'
  BY <1>1, OrderStep DEF IInv
<1>4. LastLine' /\ QuestionNotForgotten'
  BY <1>1, QuestionStep DEF IInv, Safe
<1>5. OneMessageInFlight'
  BY <1>1, OneMessageStep DEF IInv, Safe
<1>6. FrozenIsKnown'
  BY FrozenStep DEF IInv, Safe
<1>q. QED
  BY <1>2, <1>3, <1>4, <1>5, <1>6 DEF IInv, Safe

\* IInv holds in every reachable state of one file operation and its two tools.
THEOREM Invariant == Spec => []IInv
<1>1. Init => IInv
  BY InitIInv
<1>q. QED
  BY <1>1, StepIInv, PTL DEF Spec

\* A question of the tool is never forgotten, whatever is paused, stopped or
\* answered meanwhile and however the lines are split (-readInput, -postSolution:).
THEOREM QuestionsAreKept == Spec => []QuestionNotForgotten
<1>1. IInv => QuestionNotForgotten
  BY DEF IInv, Safe
<1>q. QED
  BY <1>1, Invariant, PTL

\* Unless a line was split, a question and its answer take turns and no answer is
\* left over for a later question.
THEOREM OneQuestionAtATime == Spec => []OneMessageInFlight
<1>1. IInv => OneMessageInFlight
  BY DEF IInv, Safe
<1>q. QED
  BY <1>1, Invariant, PTL

\* No helper process outlives its operation's entry in ProcessManager's list, and
\* the two tools never run together (-sizerTaskTerminated:, -taskTerminated:).
THEOREM NoToolOutlivesItsOperation == Spec => []NoOrphanTool
<1>1. IInv => NoOrphanTool
  BY DEF IInv, Order, NoOrphanTool
<1>q. QED
  BY <1>1, Invariant, PTL

\* A suspended tool can always be resumed by the button that suspended it.
THEOREM FrozenToolsAreKnown == Spec => []FrozenIsKnown
<1>1. IInv => FrozenIsKnown
  BY DEF IInv, Safe
<1>q. QED
  BY <1>1, Invariant, PTL

\* Stopping ends in Stopped or shows the alert of a tool that had asked before.
THEOREM StoppingIsFinal == Spec => StoppingOnlyEndsOrAsks
<1> DEFINE A == state = "Stopping" =>
                  \/ state' \in {"Stopping", "Stopped"}
                  \/ state' = "Alert" /\ output # <<>>
<1>1. IInv /\ [Next]_vars => [A]_vars
  <2> SUFFICES ASSUME IInv, Next, state = "Stopping"
               PROVE  \/ state' \in {"Stopping", "Stopped"}
                      \/ state' = "Alert" /\ output # <<>>
    OBVIOUS
  <2>1. CASE ToolStep
    BY <2>1 DEF ToolStep, SizerExit, MoverStart, MoverAsk, MoverReadAnswer, MoverFinish,
                MoverCrash, opVars
  <2>2. CASE UserPause \/ UserStop \/ UserAnswer
    BY <2>2 DEF UserPause, UserStop, UserAnswer, ButtonsEnabled
  <2>3. CASE LogoutStop \/ LogoutWait
    BY <2>3 DEF LogoutStop, LogoutWait, Stop
  <2>4. CASE DataAvailable
    BY <2>4, ReadTakesFront DEF DataAvailable, ReadInput, IInv
  <2>5. CASE SizerTaskTerminated \/ TaskTerminated \/ DestroyOperation
    BY <2>5 DEF SizerTaskTerminated, TaskTerminated, DestroyOperation
  <2>q. QED
    BY <2>1, <2>2, <2>3, <2>4, <2>5 DEF Next
<1>q. QED
  BY <1>1, Invariant, PTL DEF Spec, StoppingOnlyEndsOrAsks

\* The operation implements BGOperation: it is listed until its work has ended,
\* its work ends in Completed or Stopped, and it never goes back to Prepare.
THEOREM ImplementsBGOperationLifecycle == Spec => ImplementsBGOperation
<1>1. Init => Abstract!Init
  BY DEF Init, Abstract!Init
<1>2. IInv /\ [Next]_vars => [Abstract!Next]_(Abstract!vars)
  <2> SUFFICES ASSUME IInv, [Next]_vars
               PROVE  Abstract!Next \/ UNCHANGED <<state, listed, mover # "reaped">>
    BY DEF Abstract!vars
  <2> USE DEF Abstract!Next, Abstract!ChangeState, Abstract!EndWork, Abstract!Destroy
  <2>1. CASE ToolStep
    <3>1. /\ mover # "reaped" \/ UNCHANGED mover
          /\ mover' # "reaped" \/ UNCHANGED mover
          /\ UNCHANGED <<state, listed>>
      BY <2>1 DEF ToolStep, SizerExit, MoverStart, MoverAsk, MoverReadAnswer, MoverFinish,
                  MoverCrash, MoverAlive, opVars
    <3>q. QED
      BY <3>1
  <2>2. CASE UserPause
    BY <2>2 DEF UserPause, Pause
  <2>3. CASE UserStop \/ LogoutStop
    BY <2>3 DEF UserStop, LogoutStop, Stop, PostSolution, Interrupt, MoverAlive
  <2>4. CASE UserAnswer
    BY <2>4 DEF UserAnswer, PostSolution, procVars
  <2>5. CASE DataAvailable
    BY <2>5 DEF DataAvailable, ReadInput, procVars
  <2>6. CASE SizerTaskTerminated
    BY <2>6 DEF SizerTaskTerminated, StartFileMover, IInv, Order
  <2>7. CASE TaskTerminated
    BY <2>7 DEF TaskTerminated, IInv, Order, TypeOK
  <2>8. CASE DestroyOperation
    BY <2>8 DEF DestroyOperation, IInv, Order, procVars
  <2>9. CASE LogoutWait \/ UNCHANGED vars
    BY <2>9 DEF LogoutWait, vars, opVars, procVars
  <2>q. QED
    BY <2>1, <2>2, <2>3, <2>4, <2>5, <2>6, <2>7, <2>8, <2>9 DEF Next
<1>q. QED
  BY <1>1, <1>2, Invariant, PTL DEF Spec, ImplementsBGOperation, Abstract!Spec

=============================================================================
