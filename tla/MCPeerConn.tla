----------------------------- MODULE MCPeerConn -----------------------------
EXTENDS PeerConn
=============================================================================
