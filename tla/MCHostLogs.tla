----------------------------- MODULE MCHostLogs -----------------------------
EXTENDS HostLogs
MCLogBounds == [chunks |-> 6, disconnects |-> 2, loads |-> 2, restarts |-> 1]
=============================================================================
