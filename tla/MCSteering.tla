----------------------------- MODULE MCSteering -----------------------------
\* Instances of Steering for TLC: the arena is scaled down.
EXTENDS Steering
=============================================================================
