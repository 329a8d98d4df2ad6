--------------------------- MODULE AtomicCounter ---------------------------
(***************************************************************************)
(* What lab2_add (project 2a) promises of its shared counter whenever it   *)
(* is given a --sync option: every addition takes effect at one instant,   *)
(* as if the counter were updated atomically.  Each thread makes n         *)
(* additions of +1 and then n of -1, where n is --iterations.              *)
(***************************************************************************)
EXTENDS Integers, FiniteSets

CONSTANT Thread  \* the threads that may be created

VARIABLES
    counter,         \* the shared counter
    done,            \* done[t]: the additions of t that took effect
    num_iterations   \* --iterations

vars == <<counter, done, num_iterations>>

(* The iterations that the two loops of a thread really make: a negative   *)
(* --iterations makes none.                                                *)
Loops == IF num_iterations > 0 THEN num_iterations ELSE 0

(* The value added by the k-th addition of a thread, k from 0.             *)
Value(k) == IF k < Loops THEN 1 ELSE -1

(* The additions that took effect, each as thread and position.            *)
Adds == {a \in Thread \X (0 .. Loops - 1) : a[2] < done[a[1]]}
Subs == {a \in Thread \X (Loops .. 2 * Loops - 1) : a[2] < done[a[1]]}

TypeOK ==
    /\ counter \in Int
    /\ num_iterations \in Int
    /\ done \in [Thread -> 0 .. 2 * Loops]

Init ==
    /\ num_iterations \in Int
    /\ counter = 0
    /\ done = [t \in Thread |-> 0]

Commit(t) ==
    /\ done[t] < 2 * Loops
    /\ counter' = counter + Value(done[t])
    /\ done' = [done EXCEPT ![t] = @ + 1]
    /\ UNCHANGED num_iterations

Next == \E t \in Thread : Commit(t)

Spec == Init /\ [][Next]_vars

(* The counter is the difference between the additions of +1 and those of  *)
(* -1 that took effect: none is lost and none counts twice.                *)
NetOfCommits == counter = Cardinality(Adds) - Cardinality(Subs)

(* When every thread has made either all its additions or none of them the *)
(* counter is back to 0.                                                   *)
BalancedIsZero ==
    (\A t \in Thread : done[t] \in {0, 2 * Loops}) => counter = 0

=============================================================================
