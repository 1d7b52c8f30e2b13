------------------------------ MODULE MCProfLog ------------------------------
EXTENDS ProfLog
=============================================================================
