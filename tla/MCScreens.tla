------------------------------ MODULE MCScreens ------------------------------
\* Instances of Screens; their values are in the configuration files.
EXTENDS Screens
=============================================================================
