-------------------------------- MODULE MCPid --------------------------------
EXTENDS Pid
=============================================================================
