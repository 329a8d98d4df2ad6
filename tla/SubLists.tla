----------------------------- MODULE SubLists ------------------------------
(***************************************************************************)
(* get_bin of lab2_list.c (project 2b): the sub list of a key, from the    *)
(* key's first character.  The loop is modelled round by round; GetBin is  *)
(* the function that it computes, for the modules that need only that.     *)
(***************************************************************************)
EXTENDS Integers, FiniteSets

CONSTANT MaxLists   \* bounds --lists

ASSUME ListsAssumption == MaxLists \in Nat \ {0}

VISIBLE_ASCII_CHARS == 95
VISIBLE_ASCII_OFFSET == 32

(* The characters that randomize_list_elements draws.                      *)
KeyChar == VISIBLE_ASCII_OFFSET .. VISIBLE_ASCII_OFFSET + VISIBLE_ASCII_CHARS - 1

VARIABLES
    num_lists, char,  \* the arguments: --lists and *key
    bin,              \* the loop variable
    outcome           \* "looping", "returned" or "exit 2"

vars == <<num_lists, char, bin, outcome>>

(* The quotient rounded up.                                                *)
BinSize(n) ==
    VISIBLE_ASCII_CHARS \div n + (IF VISIBLE_ASCII_CHARS % n # 0 THEN 1 ELSE 0)

(* Mutant: the character is not shifted.                                   *)
BugFitsUnshifted(c, b, n) == c < (b + 1) * BinSize(n)

(* The test of the loop subtracts the NUMBER of visible characters, 95,    *)
(* and not the first of them, 32.                                          *)
Fits(c, b, n) == c - VISIBLE_ASCII_CHARS < (b + 1) * BinSize(n)

Init ==
    /\ num_lists \in 1 .. MaxLists
    /\ char \in KeyChar
    /\ bin = 0
    /\ outcome = "looping"

(* A round of the loop; falling out of it is an invalid key and exit(2).   *)
Round ==
    /\ outcome = "looping"
    /\ \/ Fits(char, bin, num_lists) /\ outcome' = "returned" /\ UNCHANGED bin
       \/ /\ ~Fits(char, bin, num_lists)
          /\ bin' = bin + 1
          /\ outcome' = IF bin + 1 < num_lists THEN "looping" ELSE "exit 2"
    /\ UNCHANGED <<num_lists, char>>

Next == Round \/ (outcome # "looping" /\ UNCHANGED vars)

Spec == Init /\ [][Next]_vars

(* The first list that the character fits, in closed form.                 *)
GetBin(c, n) ==
    IF c < VISIBLE_ASCII_CHARS THEN 0 ELSE (c - VISIBLE_ASCII_CHARS) \div BinSize(n)

TypeOK ==
    /\ num_lists \in 1 .. MaxLists
    /\ char \in KeyChar
    /\ bin \in 0 .. num_lists
    /\ outcome \in {"looping", "returned", "exit 2"}

(* Every key of the program has a list: the loop never falls through to    *)
(* the exit(2) behind it, and it returns the bin of the closed form.       *)
KeyHasList ==
    /\ outcome # "exit 2"
    /\ outcome = "returned" => bin = GetBin(char, num_lists)

(* The pairs of first characters that go to the same list out of n.        *)
Clashes(n) == {p \in KeyChar \X KeyChar : GetBin(p[1], n) = GetBin(p[2], n)}

(* README of project 2b: "Increasing sub lists decrease the probability of *)
(* threads blocking since the probability of inserting to the same sub     *)
(* list is decreased".  Two keys clash less often than with one list.      *)
MoreListsFewerClashes ==
    num_lists > 1 => Cardinality(Clashes(num_lists)) < Cardinality(Clashes(1))

=============================================================================
