----------------------------- MODULE MCMcpSessions -----------------------------
EXTENDS McpSessions
CONSTANT c1
=============================================================================
