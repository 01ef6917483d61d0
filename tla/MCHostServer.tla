---------------------------- MODULE MCHostServer ----------------------------
\* Instances of HostServer; their values are in the configuration files.
EXTENDS HostServer
=============================================================================
