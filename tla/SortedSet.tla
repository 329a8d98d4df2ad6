----------------------------- MODULE SortedSet -----------------------------
(***************************************************************************)
(* What SortedList.h (project 2b) promises of the lists when they are      *)
(* used with a lock: each list is a set of elements, and every call takes  *)
(* effect at one instant between its invocation and its return.            *)
(*                                                                         *)
(* The callers are the threads of the program.  An element has an owner,   *)
(* the only thread that inserts and deletes it; any thread looks keys up   *)
(* and asks for lengths.                                                   *)
(***************************************************************************)
EXTENDS Integers, FiniteSets

CONSTANTS
    Thread, Elem,
    Bin,       \* the indices of the sub lists
    Null,
    Owner,     \* Owner[e]: the thread that inserts and deletes e
    BinOf,     \* BinOf[k]: the sub list of the keys k (get_bin)
    Keyings    \* the assignments of keys to elements considered

VARIABLES
    key,       \* key[e]: the key of element e
    linked,    \* the elements in the lists
    call,      \* call[t]: the call of thread t
    phase,     \* phase[t]: "idle", "called" or "done" (took effect)
    ret        \* ret[t]: what the call returns

vars == <<key, linked, call, phase, ret>>

KeyVal == UNION {{k[e] : e \in Elem} : k \in Keyings}

NoCall == [fn |-> "none", bin |-> Null, arg |-> Null]

Call(f, b, a) == [fn |-> f, bin |-> b, arg |-> a]

(* The calls that thread t may make now.                                   *)
Calls(t) ==
    {Call("insert", BinOf[key[e]], e) : e \in {e \in Elem \ linked : Owner[e] = t}}
    \cup
    {Call("delete", BinOf[key[e]], e) : e \in {e \in linked : Owner[e] = t}}
    \cup
    {Call("lookup", BinOf[key[e]], key[e]) : e \in Elem}
    \cup
    {Call("length", b, Null) : b \in Bin}

InBin(b) == {e \in linked : BinOf[key[e]] = b}

Init ==
    /\ key \in Keyings
    /\ linked = {}
    /\ call = [t \in Thread |-> NoCall]
    /\ phase = [t \in Thread |-> "idle"]
    /\ ret = [t \in Thread |-> Null]

Invoke(t) ==
    /\ phase[t] = "idle"
    /\ \E c \in Calls(t) : call' = [call EXCEPT ![t] = c]
    /\ phase' = [phase EXCEPT ![t] = "called"]
    /\ ret' = [ret EXCEPT ![t] = Null]
    /\ UNCHANGED <<key, linked>>

Answer(t, r) == ret' = [ret EXCEPT ![t] = r]

Effect(t) ==
    /\ phase[t] = "called"
    /\ phase' = [phase EXCEPT ![t] = "done"]
    /\ LET c == call[t]
           Found == {e \in InBin(c.bin) : key[e] = c.arg}
       IN  \/ c.fn = "insert" /\ linked' = linked \cup {c.arg} /\ UNCHANGED ret
           \/ c.fn = "delete" /\ linked' = linked \ {c.arg} /\ Answer(t, 0)
           \/ /\ c.fn = "lookup"
              /\ \/ \E e \in Found : Answer(t, e)
                 \/ Found = {} /\ Answer(t, Null)
              /\ UNCHANGED linked
           \/ /\ c.fn = "length"
              /\ Answer(t, Cardinality(InBin(c.bin)))
              /\ UNCHANGED linked
    /\ UNCHANGED <<key, call>>

Return(t) ==
    /\ phase[t] = "done"
    /\ phase' = [phase EXCEPT ![t] = "idle"]
    /\ call' = [call EXCEPT ![t] = NoCall]
    /\ UNCHANGED <<key, linked, ret>>

Next == \E t \in Thread : Invoke(t) \/ Effect(t) \/ Return(t)

Spec == Init /\ [][Next]_vars

=============================================================================
