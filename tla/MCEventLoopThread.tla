------------------------- MODULE MCEventLoopThread -------------------------
(* EventLoopThread for TLC: an owner and one more user of the loop.        *)
EXTENDS EventLoopThread

CONSTANTS own, user, f1, f2
=============================================================================
