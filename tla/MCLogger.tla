------------------------------ MODULE MCLogger ------------------------------
(* The threads that use the logger are alike.                              *)
EXTENDS Logger, TLC

ThreadSymmetry == Permutations(Threads)
=============================================================================
