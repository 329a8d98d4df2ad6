---------------------------- MODULE SortedList -----------------------------
(***************************************************************************)
(* SortedList.c of project 2b: doubly linked sorted lists under one lock   *)
(* per list, called by several threads.                                    *)
(*                                                                         *)
(* One action is one C statement or one conjunct of a loop condition, so   *)
(* that without a lock two calls interleave where the compiled code (-O0)  *)
(* re-reads the pointers.  The callers here make any call they may; module *)
(* Lab2bList makes those of lab2_list.c.                                   *)
(***************************************************************************)
EXTENDS Integers, FiniteSets

CONSTANTS
    Thread, Elem,
    Bin,         \* the indices of the sub lists
    list,        \* list[b]: the head of sub list b
    Null,
    Owner,       \* Owner[e]: the thread that inserts and deletes e
    BinOf,       \* BinOf[k]: the sub list of key k (get_bin of lab2_list.c)
    Keyings,     \* the assignments of distinct keys to elements considered
    NumElements, \* the bound set by limit_iterations
    SyncOptions  \* the values of --sync considered; "none" when absent

Head == {list[b] : b \in Bin}
Node == Elem \cup Head
KeyVal == UNION {{k[e] : e \in Elem} : k \in Keyings}

ASSUME NodeAssumption ==
    /\ IsFiniteSet(Elem)
    /\ Elem \cap Head = {}
    /\ Null \notin Node
    /\ \A b, c \in Bin : list[b] = list[c] => b = c
ASSUME OwnerAssumption == Owner \in [Elem -> Thread]
ASSUME KeyAssumption ==
    /\ Keyings \subseteq [Elem -> Int]
    /\ \A k \in Keyings : \A e, f \in Elem : k[e] = k[f] => e = f
    /\ BinOf \in [KeyVal -> Bin]
ASSUME LimitAssumption ==
    NumElements \in Nat /\ Cardinality(Elem) <= NumElements
ASSUME SyncAssumption == SyncOptions \subseteq {"none", "m", "s"}

VARIABLES
    next, prev,  \* the links of every node
    key,         \* the key of every element; a head has none
    lock,        \* lock[b]: 1 while the mutex or spinlock of list b is held
    sync_opt,
    pc,          \* pc[t]: where thread t is in its call
    call,        \* call[t]: function, list index and argument of the call
    it, limiter, \* the local variables of the call
    ret,         \* what the last call of the thread returned
    segv,        \* a null pointer was dereferenced: the process is dead
    linked       \* auxiliary: the elements whose link was written last

links == <<next, prev, linked>>
locals == <<call, it, limiter, ret>>
fixed == <<key, sync_opt>>
vars == <<links, fixed, lock, pc, locals, segv>>

Synced == sync_opt \in {"m", "s"}
InBin(b) == {e \in linked : BinOf[key[e]] = b}
Fn(t) == call[t].fn
Arg(t) == call[t].arg

(* A call has taken effect once its element is linked or cut, or its       *)
(* answer is known.                                                        *)
Done(t) == pc[t] \in {"fixback", "unlock", "clearnext", "clearprev"}

Phase(t) == IF pc[t] = "idle" THEN "idle" ELSE IF Done(t) THEN "done" ELSE "called"

Answered(t) == IF Done(t) /\ Fn(t) = "delete" THEN 0 ELSE ret[t]

Set == INSTANCE SortedSet WITH
    phase <- [t \in Thread |-> Phase(t)],
    ret   <- [t \in Thread |-> Answered(t)]

Labels == {"idle", "lock", "while", "compare", "advance",
           "place", "fixsucc", "setnext", "setprev", "link", "result",
           "checkback", "checklimit",
           "checkhead", "checkprev", "checknext", "testlast",
           "cutlast", "unlink", "fixback", "unlock", "clearnext", "clearprev"}

CallType ==
    {Set!NoCall}
    \cup {Set!Call(f, b, e) : f \in {"insert", "delete"}, b \in Bin, e \in Elem}
    \cup {Set!Call("lookup", b, k) : b \in Bin, k \in KeyVal}
    \cup {Set!Call("length", b, Null) : b \in Bin}

TypeOK ==
    /\ next \in [Node -> Elem \cup {Null}]
    /\ prev \in [Node -> Node \cup {Null}]
    /\ key \in Keyings
    /\ lock \in [Bin -> {0, 1}]
    /\ sync_opt \in SyncOptions
    /\ pc \in [Thread -> Labels]
    /\ call \in [Thread -> CallType]
    /\ it \in [Thread -> Node \cup {Null}]
    /\ limiter \in [Thread -> 0 .. NumElements]
    /\ ret \in [Thread -> Elem \cup {Null, 0, 1} \cup (-1 .. NumElements)]
    /\ linked \subseteq Elem
    /\ segv \in BOOLEAN

-----------------------------------------------------------------------------
Init ==
    /\ next = [x \in Node |-> Null]
    /\ prev = [x \in Node |-> Null]
    /\ key \in Keyings
    /\ lock = [b \in Bin |-> 0]
    /\ sync_opt \in SyncOptions
    /\ pc = [t \in Thread |-> "idle"]
    /\ call = [t \in Thread |-> Set!NoCall]
    /\ it = [t \in Thread |-> Null]
    /\ limiter = [t \in Thread |-> 0]
    /\ ret = [t \in Thread |-> Null]
    /\ segv = FALSE
    /\ linked = {}

Goto(t, label) == pc' = [pc EXCEPT ![t] = label]

(* A local step of t: it only moves the thread on.                         *)
Jump(t, label) == Goto(t, label) /\ UNCHANGED <<links, fixed, lock, locals, segv>>

(* Writes of x->next and x->prev by thread t.                              *)
SetNext(t, x, y, label) ==
    /\ next' = [next EXCEPT ![x] = y]
    /\ Goto(t, label)
    /\ UNCHANGED <<prev, fixed, lock, locals, segv>>
SetPrev(t, x, y, label) ==
    /\ prev' = [prev EXCEPT ![x] = y]
    /\ Goto(t, label)
    /\ UNCHANGED <<next, linked, fixed, lock, locals, segv>>

(* The call returns r and its locals are gone.                             *)
ReturnWith(t, r) ==
    /\ Goto(t, "idle")
    /\ ret' = [ret EXCEPT ![t] = r]
    /\ call' = [call EXCEPT ![t] = Set!NoCall]
    /\ it' = [it EXCEPT ![t] = Null]
    /\ limiter' = [limiter EXCEPT ![t] = 0]

(* Thread t calls c: the entry code sets the locals.                       *)
Invoke(t, c) ==
    /\ pc[t] = "idle"
    /\ call' = [call EXCEPT ![t] = c]
    /\ it' = [it EXCEPT ![t] = IF c.fn = "delete" THEN Null ELSE list[c.bin]]
    /\ ret' = [ret EXCEPT ![t] = Null]
    /\ Goto(t, "lock")
    /\ UNCHANGED <<links, fixed, lock, limiter, segv>>

(* What a caller may do.  Under a lock the callers keep to Set!Calls; the  *)
(* unsynchronised ones may delete any element, under any list's index,     *)
(* because an unprotected lookup returns whatever it->next has become.     *)
MayCall(t) ==
    Set!Calls(t)
    \cup IF Synced THEN {} ELSE {Set!Call("delete", b, e) : b \in Bin, e \in Elem}

Entry(f) == IF f = "delete" THEN "checkhead" ELSE "while"

SetLock(t) ==
    /\ pc[t] = "lock"
    /\ LET b == call[t].bin
       IN  \/ Synced /\ lock[b] = 0 /\ lock' = [lock EXCEPT ![b] = 1]
           \/ ~Synced /\ UNCHANGED lock
    /\ Goto(t, Entry(Fn(t)))
    /\ UNCHANGED <<links, fixed, locals, segv>>

(* Mutants: delete forgets the release; the locks of all lists are freed.  *)
BugReleaseNotDelete(t) ==
    /\ pc[t] = "unlock"
    /\ lock' = IF Synced /\ Fn(t) # "delete"
               THEN [lock EXCEPT ![call[t].bin] = 0] ELSE lock
    /\ \/ Fn(t) = "delete" /\ Goto(t, "clearnext") /\ UNCHANGED locals
       \/ Fn(t) # "delete" /\ ReturnWith(t, ret[t])
    /\ UNCHANGED <<links, fixed, segv>>
BugReleaseAll(t) ==
    /\ pc[t] = "unlock"
    /\ lock' = [b \in Bin |-> 0]
    /\ \/ Fn(t) = "delete" /\ Goto(t, "clearnext") /\ UNCHANGED locals
       \/ Fn(t) # "delete" /\ ReturnWith(t, ret[t])
    /\ UNCHANGED <<links, fixed, segv>>

(* A delete still has to clear the links of its element after the release. *)
ReleaseLock(t) ==
    /\ pc[t] = "unlock"
    /\ lock' = IF Synced THEN [lock EXCEPT ![call[t].bin] = 0] ELSE lock
    /\ \/ Fn(t) = "delete" /\ Goto(t, "clearnext") /\ UNCHANGED locals
       \/ Fn(t) # "delete" /\ ReturnWith(t, ret[t])
    /\ UNCHANGED <<links, fixed, segv>>

-----------------------------------------------------------------------------
(* The loops of insert, lookup and length.                                 *)

(* Where the loop goes when its condition or a break ends it.              *)
LoopEnd(f) == CASE f = "insert" -> "place" [] f = "lookup" -> "result" [] OTHER -> "unlock"

Result(t, r) ==
    /\ ret' = [ret EXCEPT ![t] = r]
    /\ Goto(t, "unlock")
    /\ UNCHANGED <<links, fixed, lock, call, it, limiter, segv>>

WhileNext(t) ==
    /\ pc[t] = "while"
    /\ it[t] # Null
    /\ IF next[it[t]] = Null
       THEN IF Fn(t) = "length" THEN Result(t, limiter[t]) ELSE Jump(t, LoopEnd(Fn(t)))
       ELSE Jump(t, IF Fn(t) = "length" THEN "checkback" ELSE "compare")

(* Mutant: insert walks on while the keys are greater.                     *)
BugKeepsWalking(t, e) ==
    IF Fn(t) = "insert" THEN key[e] > key[Arg(t)] ELSE key[e] # Arg(t)

KeepsWalking(t, e) ==
    IF Fn(t) = "insert" THEN key[e] < key[Arg(t)] ELSE key[e] # Arg(t)

Compare(t) ==
    /\ pc[t] = "compare"
    /\ next[it[t]] # Null
    /\ Jump(t, IF KeepsWalking(t, next[it[t]]) THEN "advance" ELSE LoopEnd(Fn(t)))

(* length: if (it->next->prev != it) the list is corrupted.                *)
CheckBack(t) ==
    /\ pc[t] = "checkback"
    /\ next[it[t]] # Null
    /\ IF prev[next[it[t]]] # it[t] THEN Result(t, -1) ELSE Jump(t, "advance")

(* The limiter breaks the loop after NumElements rounds.                   *)
Advance(t) ==
    /\ pc[t] = "advance"
    /\ \/ /\ limiter[t] >= NumElements
          /\ IF Fn(t) = "length" THEN Result(t, -1) ELSE Jump(t, LoopEnd(Fn(t)))
       \/ /\ limiter[t] < NumElements
          /\ it' = [it EXCEPT ![t] = next[it[t]]]
          /\ limiter' = [limiter EXCEPT ![t] = @ + 1]
          /\ Goto(t, "while")
          /\ UNCHANGED <<links, fixed, lock, call, ret, segv>>

-----------------------------------------------------------------------------
(* The end of lookup and insert.                                           *)

(* Mutant: the limit is taken to be one less.                              *)
BugLookupResult(t) ==
    /\ pc[t] = "result"
    /\ Result(t, IF limiter[t] >= NumElements - 1 THEN Null ELSE next[it[t]])

LookupResult(t) ==
    /\ pc[t] = "result"
    /\ Result(t, IF limiter[t] = NumElements THEN Null ELSE next[it[t]])

(* At the end of the list, or when the limiter broke the loop, the element *)
(* becomes the last one.                                                   *)
Place(t) ==
    /\ pc[t] = "place"
    /\ IF next[it[t]] = Null \/ limiter[t] = NumElements
       THEN SetNext(t, Arg(t), Null, "setprev") /\ UNCHANGED linked
       ELSE Jump(t, "fixsucc")

FixSuccessor(t) ==
    /\ pc[t] = "fixsucc"
    /\ next[it[t]] # Null
    /\ SetPrev(t, next[it[t]], Arg(t), "setnext")

SetElementNext(t) ==
    /\ pc[t] = "setnext"
    /\ SetNext(t, Arg(t), next[it[t]], "setprev")
    /\ UNCHANGED linked

(* Mutant: the wrong link of the element is set.                           *)
BugSetElementPrev(t) ==
    pc[t] = "setprev" /\ SetNext(t, Arg(t), it[t], "link") /\ UNCHANGED linked

SetElementPrev(t) ==
    /\ pc[t] = "setprev"
    /\ SetPrev(t, Arg(t), it[t], "link")

Link(t) ==
    /\ pc[t] = "link"
    /\ SetNext(t, it[t], Arg(t), "unlock")
    /\ linked' = linked \cup {Arg(t)}

-----------------------------------------------------------------------------
(* delete.  A failed check returns 1 at once, without release_lock.        *)

Corrupted(t) == ReturnWith(t, 1) /\ UNCHANGED <<links, fixed, lock, segv>>

CheckHead(t) ==
    /\ pc[t] = "checkhead"
    /\ IF prev[Arg(t)] = Null THEN Corrupted(t) ELSE Jump(t, "checkprev")

CheckPrev(t) ==
    /\ pc[t] = "checkprev"
    /\ prev[Arg(t)] # Null
    /\ IF next[prev[Arg(t)]] # Arg(t) THEN Corrupted(t) ELSE Jump(t, "checknext")

CheckNext(t) ==
    /\ pc[t] = "checknext"
    /\ IF next[Arg(t)] # Null /\ prev[next[Arg(t)]] # Arg(t)
       THEN Corrupted(t) ELSE Jump(t, "testlast")

TestLast(t) ==
    /\ pc[t] = "testlast"
    /\ Jump(t, IF next[Arg(t)] = Null THEN "cutlast" ELSE "unlink")

CutLast(t) ==
    /\ pc[t] = "cutlast"
    /\ prev[Arg(t)] # Null
    /\ SetNext(t, prev[Arg(t)], Null, "unlock")
    /\ linked' = linked \ {Arg(t)}

Unlink(t) ==
    /\ pc[t] = "unlink"
    /\ prev[Arg(t)] # Null
    /\ SetNext(t, prev[Arg(t)], next[Arg(t)], "fixback")
    /\ linked' = linked \ {Arg(t)}

(* Mutant: the back pointer of the successor is left as it was.            *)
BugFixBack(t) == pc[t] = "fixback" /\ next[Arg(t)] # Null /\ Jump(t, "unlock")

FixBack(t) ==
    /\ pc[t] = "fixback"
    /\ next[Arg(t)] # Null
    /\ SetPrev(t, next[Arg(t)], prev[Arg(t)], "unlock")

ClearNext(t) ==
    /\ pc[t] = "clearnext"
    /\ SetNext(t, Arg(t), Null, "clearprev")
    /\ UNCHANGED linked

ClearPrev(t) ==
    /\ pc[t] = "clearprev"
    /\ prev' = [prev EXCEPT ![Arg(t)] = Null]
    /\ ReturnWith(t, 0)
    /\ UNCHANGED <<next, linked, fixed, lock, segv>>

-----------------------------------------------------------------------------
(* The statement that t is at follows a null pointer: SIGSEGV, on which    *)
(* the handler of lab2_list.c exits.                                       *)
NullDereference(t) ==
    \/ pc[t] = "while" /\ it[t] = Null
    \/ pc[t] \in {"compare", "checkback", "fixsucc"} /\ next[it[t]] = Null
    \/ pc[t] \in {"checkprev", "cutlast", "unlink"} /\ prev[Arg(t)] = Null
    \/ pc[t] = "fixback" /\ next[Arg(t)] = Null

Fault(t) ==
    /\ NullDereference(t)
    /\ segv' = TRUE
    /\ UNCHANGED <<links, fixed, lock, pc, locals>>

Step(t) ==
    /\ ~segv
    /\ \/ SetLock(t) \/ ReleaseLock(t)
       \/ WhileNext(t) \/ Compare(t) \/ CheckBack(t) \/ Advance(t)
       \/ LookupResult(t)
       \/ Place(t) \/ FixSuccessor(t) \/ SetElementNext(t) \/ SetElementPrev(t) \/ Link(t)
       \/ CheckHead(t) \/ CheckPrev(t) \/ CheckNext(t) \/ TestLast(t)
       \/ CutLast(t) \/ Unlink(t) \/ FixBack(t) \/ ClearNext(t) \/ ClearPrev(t)
       \/ Fault(t)

Next ==
    \/ \E t \in Thread : ~segv /\ \E c \in MayCall(t) : Invoke(t, c)
    \/ \E t \in Thread : Step(t)

Spec == Init /\ [][Next]_vars

-----------------------------------------------------------------------------
(* Properties.                                                             *)

(* From set_lock to release_lock (a failed delete aside).                  *)
Holding(t) ==
    pc[t] \in Labels \ {"idle", "lock", "clearnext", "clearprev"}

(* With a lock no two threads are inside calls on the same list.           *)
MutualExclusion ==
    Synced => \A t, u \in Thread :
        Holding(t) /\ Holding(u) /\ call[t].bin = call[u].bin => t = u

(* A lock is held by a call that will release it: no return path of the    *)
(* library leaves it held, so no later call waits for ever.                *)
NoLeakedLock ==
    \A b \in Bin : lock[b] = 1 => \E t \in Thread : Holding(t) /\ call[t].bin = b

(* The linked elements of list b that come after node x.                   *)
Above(b, x) == {e \in InBin(b) : x \in Elem => key[x] < key[e]}

(* Every list is sorted at every instant, even in the middle of a call:    *)
(* the successor of a node is the least linked element above it.           *)
NextIsLeastAbove ==
    Synced => \A b \in Bin : \A x \in InBin(b) \cup {list[b]} :
        \/ next[x] = Null /\ Above(b, x) = {}
        \/ next[x] \in Above(b, x) /\ \A e \in Above(b, x) : key[next[x]] <= key[e]

(* The back pointers mirror the successors, except the one a thread is in  *)
(* the middle of changing: it already names the element being inserted, or *)
(* still names the one just unlinked.                                      *)
Changing(t, x, e) ==
    \/ pc[t] \in {"setnext", "setprev", "link"} /\ it[t] = x /\ prev[e] = Arg(t)
    \/ pc[t] = "fixback" /\ next[Arg(t)] = e /\ prev[e] = Arg(t)

BackPointers ==
    Synced => \A b \in Bin : \A x \in InBin(b) \cup {list[b]} :
        next[x] # Null => \/ prev[next[x]] = x
                          \/ \E t \in Thread : Changing(t, x, next[x])

(* Under a lock the calls implement the sets of SortedList.h: in           *)
(* particular lookup finds every linked key, length counts exactly the     *)
(* elements and is never -1, delete is never refused.                      *)
SetSpec == Set!Spec

=============================================================================
