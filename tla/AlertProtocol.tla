--------------------------- MODULE AlertProtocol ---------------------------
(***************************************************************************)
(* The vocabulary that Workspace (Operations/FileMover.m) and its helper   *)
(* tool (Tools/Communicator.m) share when the tool meets a problem: the    *)
(* tool writes one letter that names the problem and blocks; Workspace     *)
(* shows an alert and writes one letter back.                              *)
(*                                                                         *)
(* A letter and its capital are the same decision, once or for every later *)
(* problem of that type; an answer is therefore a pair of a lower-case     *)
(* letter and the flag `all`.                                              *)
(***************************************************************************)
EXTENDS Naturals, Sequences

\* The problems the tool can report (one alert letter each: R W D M S T A E U).
SkipOnlyProblems == {"ReadError", "WriteError", "DeleteError", "MoveError", "UnknownFile"}

ProblemTypes == SkipOnlyProblems \cup
                {"SymlinkEncountered", "SymlinkTargetNotExist",
                 "AttributesUnchangeable", "FileExists"}

NoProblem == "NoProblem"

AnswerLetters == {"s", "n", "c", "i", "o", "t"}

Answers == [letter : AnswerLetters, all : BOOLEAN]

\* What the tool does with an accepted letter; "t" stops the operation.
SolutionOf(letter) ==
    CASE letter = "s" -> "SkipFile"
      [] letter = "n" -> "NewLink"
      [] letter = "c" -> "CopyOriginal"
      [] letter = "i" -> "IgnoreProblem"
      [] letter = "o" -> "OverwriteFile"
      [] letter = "t" -> "StopOperation"

Solutions == {SolutionOf(l) : l \in AnswerLetters \ {"t"}}

-----------------------------------------------------------------------------
(* Workspace's side. *)

\* The titles put on the alert's buttons, in the order of their tags 0, 1, 2.
ButtonTitles(p) ==
    CASE p \in SkipOnlyProblems          -> <<"Skip">>
      [] p = "SymlinkEncountered"        -> <<"Copy", "Skip", "New Link">>
      [] p = "SymlinkTargetNotExist"     -> <<"Skip", "New Link">>
      [] p = "AttributesUnchangeable"    -> <<"Skip">>
      [] p = "FileExists"                -> <<"Overwrite", "Skip">>

\* The letter -postSolution: writes for the button with tag i - 1.
PostedLetters(p) ==
    CASE p \in SkipOnlyProblems          -> <<"s">>
      [] p = "SymlinkEncountered"        -> <<"c", "s", "n">>
      [] p = "SymlinkTargetNotExist"     -> <<"s", "n">>
      [] p = "AttributesUnchangeable"    -> <<"i">>
      [] p = "FileExists"                -> <<"o", "s">>

\* Mutant of StopAnswer: a letter the protocol does not have.
MutantStopAnswer == [letter |-> "q", all |-> FALSE]

\* The fourth button of the alert, "Stop", has the tag -1.
StopAnswer == [letter |-> "t", all |-> FALSE]

PostedAnswers(p) ==
    {[letter |-> PostedLetters(p)[i], all |-> repeat] :
        i \in DOMAIN PostedLetters(p), repeat \in BOOLEAN}

-----------------------------------------------------------------------------
(* The tool's side. *)

\* Mutant of Accepts: the tool forgets that an existing file may be skipped.
MutantAccepts(p) ==
    CASE p \in SkipOnlyProblems          -> {"s", "t"}
      [] p = "SymlinkEncountered"        -> {"s", "n", "c", "t"}
      [] p = "SymlinkTargetNotExist"     -> {"s", "n", "t"}
      [] p = "AttributesUnchangeable"    -> {"i", "t"}
      [] p = "FileExists"                -> {"o", "t"}

\* The letters that end the wait of -howToHandleProblem: for problem p: every
\* other character is read and thrown away.
Accepts(p) ==
    CASE p \in SkipOnlyProblems          -> {"s", "t"}
      [] p = "SymlinkEncountered"        -> {"s", "n", "c", "t"}
      [] p = "SymlinkTargetNotExist"     -> {"s", "n", "t"}
      [] p = "AttributesUnchangeable"    -> {"i", "t"}
      [] p = "FileExists"                -> {"s", "o", "t"}

=============================================================================
