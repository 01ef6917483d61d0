------------------------------ MODULE MCOutbox ------------------------------
\* Instances of Outbox; their values are in the configuration files.
EXTENDS Outbox
=============================================================================
