------------------------------ MODULE MC_TopK -------------------------------
EXTENDS TopK

(* All orders of six ranks, with ranks that occur twice or more.          *)
ThreeRanks == 1 .. 3
=============================================================================
