----------------------------- MODULE MCSession -----------------------------
(* Session for TLC.                                                        *)
EXTENDS Session, TLC

CONSTANTS t1, t2, alice, bob

Symmetry == Permutations({t1, t2}) \cup Permutations({alice, bob})
=============================================================================
