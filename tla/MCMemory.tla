------------------------------ MODULE MCMemory ------------------------------
(* A small instance of MemoryPublication for TLC.                          *)
EXTENDS MemoryPublication, TLC

CONSTANTS m1, m2

Interchangeable == Permutations({m1, m2})
=============================================================================
