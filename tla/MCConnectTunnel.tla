--------------------------- MODULE MCConnectTunnel ---------------------------
(***************************************************************************)
(* Two attempts and two bytes each way: a byte can be in the buffered      *)
(* reader and another one still in the socket.                             *)
(***************************************************************************)
EXTENDS ConnectTunnel
=============================================================================
