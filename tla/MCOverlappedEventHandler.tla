---------------------- MODULE MCOverlappedEventHandler ----------------------
EXTENDS OverlappedEventHandler
=============================================================================
