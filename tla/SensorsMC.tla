----------------------------- MODULE SensorsMC -----------------------------
\* A small instance of Sensors.  Its list has two plain rates, the slower not
\* enough for what is asked for, and the special one that is asked for on top; a
\* special rate that it does not have and a rate above all of it are refused.
\* The faster request is not the one with the smaller latency.
EXTENDS Sensors

MCWishes == {Config(3, 2), Config(OnDemand, 1), Config(OnChange, 1), Config(OneShot, 1)}
MCSupported == {2, 3, OnDemand}
=============================================================================
