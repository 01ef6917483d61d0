---------------------------- MODULE MCDiscovery -----------------------------
\* Instances of Discovery for TLC: p and q run tailsnail, s, t and u never do.
EXTENDS Discovery, TLC

CONSTANTS p, q, s, t, u
=============================================================================
