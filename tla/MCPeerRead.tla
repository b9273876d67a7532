---------------------------- MODULE MCPeerRead ----------------------------
EXTENDS PeerRead
============================================================================
