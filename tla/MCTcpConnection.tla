-------------------------- MODULE MCTcpConnection --------------------------
(* TcpConnection for TLC: a message of two units, and one of one.          *)
EXTENDS TcpConnection

CONSTANTS u1, m1, m2

MessageSize == [m \in {m1, m2} |-> IF m = m1 THEN 2 ELSE 1]
=============================================================================
