---------------------------- MODULE MCRawReader ----------------------------
EXTENDS RawReader
=============================================================================
