----------------------------- MODULE MCStacking -----------------------------
(***************************************************************************)
(* Model checking instance of Stacking: three frames, which are enough for *)
(* a transient of a transient, for two transients of one owner and for two *)
(* icons beside a window; and three levels, so that the nearest one above  *)
(* may be empty.                                                           *)
(***************************************************************************)
EXTENDS Stacking

\* WMSunkenLevel, WMNormalLevel and WMFloatingLevel.
MCLevels == {-1, 0, 3}

=============================================================================
