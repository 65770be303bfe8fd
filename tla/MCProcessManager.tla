-------------------------- MODULE MCProcessManager --------------------------
(***************************************************************************)
(* Model checking instance of ProcessManager: Workspace itself, a GNUstep  *)
(* application, and an X11 application with two instances, one of them     *)
(* without a PID.                                                          *)
(***************************************************************************)
EXTENDS ProcessManager

MCNameOf ==
    [p \in Pids |-> CASE p = "ws"           -> "Workspace"
                      [] p = "e1"           -> "Edit"
                      [] p \in {"x1", "x2"} -> "xterm"]

=============================================================================
