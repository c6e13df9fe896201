---------------------------- MODULE MCTcpTracker ----------------------------
EXTENDS TcpTracker
=============================================================================
