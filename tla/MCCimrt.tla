------------------------------ MODULE MCCimrt -------------------------------
(* TLC instance of Cimrt: every sequence of MaxCalls calls.                  *)
EXTENDS Cimrt, TLC

Symmetry == Permutations(Devices) \cup Permutations(Buffers)
=============================================================================
