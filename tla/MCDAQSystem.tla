---------------------------- MODULE MCDAQSystem ----------------------------
EXTENDS DAQSystem
=============================================================================
