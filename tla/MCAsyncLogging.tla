--------------------------- MODULE MCAsyncLogging ---------------------------
(* AsyncLogging for TLC: buffers of three bytes, of which two can be used, *)
(* two short lines, two that fill a buffer, and one that fits in none.     *)
EXTENDS AsyncLogging

CONSTANTS l1, l2, l3, l4, l5

LineLength == (l1 :> 1) @@ (l2 :> 1) @@ (l3 :> 2) @@ (l4 :> 2) @@ (l5 :> 3)
=============================================================================
