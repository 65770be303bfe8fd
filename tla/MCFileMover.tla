---------------------------- MODULE MCFileMover ----------------------------
(* Model checking instance of FileMover; the constants are in MCFileMover.cfg. *)
EXTENDS FileMover

=============================================================================
