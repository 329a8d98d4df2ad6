---------------------------- MODULE MCSortedList ----------------------------
(***************************************************************************)
(* Two threads, three elements, two lists with a lock each.  Elements are  *)
(* numbered as in list_elements.                                           *)
(***************************************************************************)
EXTENDS SortedList

CONSTANTS h0, h1

MCTwoLists == [b \in {0, 1} |-> IF b = 0 THEN h0 ELSE h1]

MCOwner == [e \in {0, 1, 2} |-> IF e = 2 THEN 1 ELSE 0]

(* Keys from 35 are in list 1.  Thread 0's two elements are around and     *)
(* before the one of thread 1, or in different lists.                      *)
MCBinOfTwo == [k \in KeyVal |-> IF k < 35 THEN 0 ELSE 1]

MCKeyings == {[e \in {0, 1, 2} |-> CASE e = 0 -> 10 [] e = 1 -> 30 [] e = 2 -> 20],
              [e \in {0, 1, 2} |-> CASE e = 0 -> 20 [] e = 1 -> 10 [] e = 2 -> 30],
              [e \in {0, 1, 2} |-> CASE e = 0 -> 10 [] e = 1 -> 40 [] e = 2 -> 20]}
=============================================================================
