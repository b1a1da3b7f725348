------------------------------ MODULE TimerMC ------------------------------
EXTENDS Timer

\* Drivers (tid 0) and an app (tid 2) set timers that fire once or go on.
AsksMC == {<<0, 1, TRUE>>, <<0, 2, FALSE>>, <<2, 1, TRUE>>, <<2, 1, FALSE>>}
=============================================================================
