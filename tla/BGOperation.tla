---------------------------- MODULE BGOperation ----------------------------
(***************************************************************************)
(* What the rest of Workspace may rely on from any background operation    *)
(* (Operations/BGOperation.m): ProcessManager lists it from its            *)
(* WMOperationDidCreate notification to its WMOperationWillDestroy         *)
(* notification, its state may change many times in between, and once its  *)
(* work has ended no more work is done on its behalf.                      *)
(***************************************************************************)
VARIABLES
    state,      \* BGOperation.state
    listed,     \* is the operation in ProcessManager's `operations'?
    working     \* may a helper process of the operation still do work?

vars == <<state, listed, working>>

OperationStates == {"Prepare", "Running", "Paused", "Alert", "Completed",
                    "Stopping", "Stopped"}

TypeOK ==
    /\ state \in OperationStates
    /\ listed \in BOOLEAN
    /\ working \in BOOLEAN

\* init posts WMOperationDidCreate and sets Prepare; the subclass then starts
\* its tool and sets Running before the run loop gets control back.
Init ==
    /\ state = "Running"
    /\ listed = TRUE
    /\ working = TRUE

\* setState: nothing returns to Prepare, and only the end of the work makes an
\* operation Completed or Stopped.  It may still be called after the end of the
\* work: an alert read late, a Stop that comes late.
ChangeState ==
    /\ state' \in {"Running", "Paused", "Alert", "Stopping"}
    /\ UNCHANGED <<listed, working>>

\* The helper process is gone.
EndWork ==
    /\ listed
    /\ working
    /\ state' \in {"Completed", "Stopped"}
    /\ working' = FALSE
    /\ UNCHANGED listed

\* WMOperationWillDestroy: ProcessManager forgets the operation.
Destroy ==
    /\ listed
    /\ ~working
    /\ listed' = FALSE
    /\ UNCHANGED <<state, working>>

Next == ChangeState \/ EndWork \/ Destroy

Spec == Init /\ [][Next]_vars

=============================================================================
