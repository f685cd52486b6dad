------------------------- MODULE MCMcpConnections -------------------------
EXTENDS McpConnections
=============================================================================
