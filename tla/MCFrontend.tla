------------------------------ MODULE MCFrontend ------------------------------
(* Two tasks that call the mux, one socket.                                 *)
EXTENDS Frontend, TLC

CONSTANTS t1, t2, c1, small, large

Symmetry == Permutations(Callers)
=============================================================================
