---------------------------- MODULE MCLab2bList -----------------------------
(***************************************************************************)
(* An instance of Lab2bList: two threads with two elements each, four      *)
(* lists, of which get_bin uses two or one, with and without a lock.       *)
(***************************************************************************)
EXTENDS Lab2bList

CONSTANTS h0, h1, h2, h3

Bins == INSTANCE SubLists WITH
    MaxLists <- 4, num_lists <- 4, char <- 32, bin <- 0, outcome <- "looping"

MCHeads == [b \in Bin |-> CASE b = 0 -> h0 [] b = 1 -> h1 [] b = 2 -> h2 [] b = 3 -> h3]

(* A key is its first character.  Those of the threads interleave, in two  *)
(* lists or in one.                                                        *)
MCKeyings == {[e \in Elem |-> CASE e = 0 -> 40 [] e = 1 -> 125 [] e = 2 -> 126 [] e = 3 -> 33],
              [e \in Elem |-> CASE e = 0 -> 40 [] e = 1 -> 60 [] e = 2 -> 50 [] e = 3 -> 33]}

MCBinOf == [k \in UNION {{ks[e] : e \in Elem} : ks \in MCKeyings} |-> Bins!GetBin(k, NumLists)]
=============================================================================
