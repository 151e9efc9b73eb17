----------------------------- MODULE ByteQueue -----------------------------
(***************************************************************************)
(* What a Buffer (net/include/Buffer.h) promises: a sequence of bytes.     *)
(* Data goes in behind, or as a header in front; it comes out in front,    *)
(* and what was written last may be taken back.                            *)
(***************************************************************************)
EXTENDS Naturals, Sequences

CONSTANT Data   \* the strings of bytes that callers put in

VARIABLE queue

Init == queue = <<>>

Put(d)      == queue' = queue \o d
PutFront(d) == queue' = d \o queue
Take(n)     == queue' = SubSeq(queue, n + 1, Len(queue))
TakeBack(n) == queue' = SubSeq(queue, 1, Len(queue) - n)

Next == \/ \E d \in Data : Put(d) \/ PutFront(d)
        \/ \E n \in 0..Len(queue) : Take(n) \/ TakeBack(n)

Spec == Init /\ [][Next]_queue
=============================================================================
