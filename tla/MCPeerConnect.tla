---------------------------- MODULE MCPeerConnect ----------------------------
(* Few connects to one peer; the peer and the network are free.             *)
EXTENDS PeerConnect

CONSTANTS c1, c2, c3
=============================================================================
