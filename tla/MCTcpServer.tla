---------------------------- MODULE MCTcpServer ----------------------------
(* TcpServer for TLC.                                                      *)
EXTENDS TcpServer

CONSTANTS main, helper
=============================================================================
