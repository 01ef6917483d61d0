-------------------------- MODULE MCClientSession ---------------------------
\* Instances of ClientSession; their values are in the configuration files.
EXTENDS ClientSession
=============================================================================
