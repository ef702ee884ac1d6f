---------------------------- MODULE MCTcpServer ----------------------------
(* An instance of TcpServer for TLC. *)
EXTENDS TcpServer
CONSTANTS s1, s2, c1
=============================================================================
