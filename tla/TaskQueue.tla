----------------------------- MODULE TaskQueue -----------------------------
(***************************************************************************)
(* What EventLoop::queueInLoop promises to its callers, without the        *)
(* eventfd, the swap of two vectors or the poll: a first-in first-out      *)
(* queue from which the loop's thread takes each task exactly once.        *)
(***************************************************************************)
EXTENDS Sequences

CONSTANTS Functors, NoFunctor

VARIABLES queue,    \* tasks accepted and not yet started, oldest first
          ran       \* the task started last

vars == <<queue, ran>>

Init == queue = <<>> /\ ran = NoFunctor

\* A thread hands over a task.
Put(f) == queue' = Append(queue, f) /\ UNCHANGED ran

\* The loop's thread starts the oldest task.
Run == /\ queue # <<>>
       /\ ran' = Head(queue)
       /\ queue' = Tail(queue)

Next == Run \/ \E f \in Functors : Put(f)

Spec == Init /\ [][Next]_vars
=============================================================================
