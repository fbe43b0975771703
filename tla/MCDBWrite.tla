------------------------------ MODULE MCDBWrite -----------------------------
(* Instances of DBWrite for TLC: a memtable takes one entry before it is   *)
(* full, and level 0 reaches its limits after two and three files.         *)
EXTENDS DBWrite

CONSTANTS t1, t2, t3

TwoThreads == {t1, t2}
ThreeThreads == {t1, t2, t3}
Interchangeable == Permutations(ThreeThreads)
=============================================================================
