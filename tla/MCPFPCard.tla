------------------------------ MODULE MCPFPCard ------------------------------
EXTENDS PFPCard
=============================================================================
