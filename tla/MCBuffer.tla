------------------------------ MODULE MCBuffer ------------------------------
(* Buffer for TLC: bytes a and b, b also what a new element holds.  No     *)
(* string is the tail of another, so that a lost head is seen.             *)
EXTENDS Buffer

CONSTANTS a, b

Strings == {<<a>>, <<a, b>>}
=============================================================================
