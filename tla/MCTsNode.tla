------------------------------ MODULE MCTsNode ------------------------------
\* Instances of TsNode for TLC.
EXTENDS TsNode, TLC
=============================================================================
