---------------------------- MODULE HttpExchange ----------------------------
(***************************************************************************)
(* What a connection of an HttpServer (http/include/HttpServer.h) promises *)
(* its client: one answer to each request, in the order of the requests,   *)
(* and none after the one that says the connection closes.                 *)
(***************************************************************************)
EXTENDS Naturals, Sequences

VARIABLES asked,     \* how many requests the client has made
          answers,   \* [of, last]: which request, and whether this is the end
          open

vars == <<asked, answers, open>>

Init == asked = 0 /\ answers = <<>> /\ open = TRUE

Ask == asked' = asked + 1 /\ UNCHANGED <<answers, open>>

Answer(last) ==
    /\ open = TRUE
    /\ Len(answers) < asked
    /\ answers' = Append(answers, [of |-> Len(answers) + 1, last |-> last])
    /\ open' = ~last
    /\ UNCHANGED asked

Next == Ask \/ \E last \in BOOLEAN : Answer(last)

Spec == Init /\ [][Next]_vars
=============================================================================
