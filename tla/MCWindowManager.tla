-------------------------- MODULE MCWindowManager --------------------------
EXTENDS WindowManager
MCLeaderOf == [w \in Windows |-> "v"]
=============================================================================
