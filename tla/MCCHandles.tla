------------------------------ MODULE MCCHandles -----------------------------
(* Two host threads, which are interchangeable.                            *)
EXTENDS CHandles, TLC

Symmetric == Permutations(Threads)
=============================================================================
