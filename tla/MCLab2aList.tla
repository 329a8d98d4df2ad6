---------------------------- MODULE MCLab2aList -----------------------------
(* An instance of Lab2aList: two threads with two elements each, whose     *)
(* keys interleave, with and without a lock.                               *)
EXTENDS Lab2aList

CONSTANT h0

MCHead == [b \in Bin |-> h0]
MCKeyings == {[e \in Elem |-> CASE e = 0 -> 40 [] e = 1 -> 60 [] e = 2 -> 50 [] e = 3 -> 33]}
MCBinOf == [k \in {33, 40, 50, 60} |-> 0]
=============================================================================
