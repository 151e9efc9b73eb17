---------------------------- MODULE Connections ----------------------------
(***************************************************************************)
(* What a TcpServer (net/include/TcpServer.h) promises of its connections: *)
(* each is told up once, then down once, and only then is its descriptor   *)
(* closed; while the server stops, connections may be dropped as they are. *)
(***************************************************************************)
CONSTANT Conns

VARIABLES phase, stopping

vars == <<phase, stopping>>

Init == phase = [c \in Conns |-> "none"] /\ stopping = FALSE

Turns(c, from, to) ==
    /\ phase[c] \in from
    /\ phase' = [phase EXCEPT ![c] = to]
    /\ UNCHANGED stopping

Accept(c) == Turns(c, {"none"}, "accepted")
Up(c)     == Turns(c, {"accepted"}, "up")
Down(c)   == Turns(c, {"up"}, "down")

\* In the loop of the server itself a connection is up as it is accepted.
AcceptUp(c) == Turns(c, {"none"}, "up")

Close(S) ==
    /\ \A c \in S : phase[c] = "down" \/ (stopping /\ phase[c] # "none")
    /\ phase' = [c \in Conns |-> IF c \in S THEN "closed" ELSE phase[c]]
    /\ UNCHANGED stopping

Stop == stopping' = TRUE /\ UNCHANGED phase

Next == \/ \E c \in Conns : Accept(c) \/ AcceptUp(c) \/ Up(c) \/ Down(c)
        \/ \E S \in SUBSET Conns : Close(S)
        \/ Stop

Spec == Init /\ [][Next]_vars
=============================================================================
