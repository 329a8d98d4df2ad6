------------------------- MODULE SortedList_proofs --------------------------
(***************************************************************************)
(* Proofs about the calls of SortedList.c: their types in every mode; when *)
(* there is a lock, mutual exclusion on each list, then the order and the  *)
(* links of the lists, and that the calls implement the sets of SortedSet. *)
(***************************************************************************)
EXTENDS SortedList, FiniteSetTheorems, TLAPS

(***************************************************************************)
(* Types and exclusion                                                     *)
(***************************************************************************)

InsertLabels == {"place", "fixsucc", "setnext", "setprev", "link"}
DeleteLabels == {"checkhead", "checkprev", "checknext", "testlast",
                 "cutlast", "unlink", "fixback", "clearnext", "clearprev"}
WalkLabels == {"while", "compare", "advance", "checkback", "result"} \cup InsertLabels

(* Each label belongs to the functions that reach it, and a call that has  *)
(* passed the loop condition stands on a node.                             *)
Shape(t) ==
    /\ pc[t] = "idle" <=> Fn(t) = "none"
    /\ pc[t] \in InsertLabels => Fn(t) = "insert"
    /\ pc[t] \in DeleteLabels => Fn(t) = "delete"
    /\ pc[t] = "result" => Fn(t) = "lookup"
    /\ pc[t] = "compare" => Fn(t) \in {"insert", "lookup"}
    /\ pc[t] = "checkback" => Fn(t) = "length"
    /\ pc[t] \in {"while", "advance"} => Fn(t) \in {"insert", "lookup", "length"}
    /\ pc[t] \in WalkLabels \ {"while"} => it[t] # Null
    /\ pc[t] = "lock" /\ Fn(t) # "delete" => it[t] # Null

(* A thread inside a call holds the lock of the call's list, and no other  *)
(* thread is inside a call on that list.                                   *)
LockOK ==
    Synced => \A t \in Thread : Holding(t) =>
        /\ lock[call[t].bin] = 1
        /\ \A u \in Thread : Holding(u) /\ call[u].bin = call[t].bin => u = t

Inv == TypeOK /\ (\A t \in Thread : Shape(t)) /\ LockOK

(* What a member of CallType looks like.                                   *)
LEMMA CallTypeFacts ==
    ASSUME NEW c \in CallType
    PROVE  /\ c = [fn |-> c.fn, bin |-> c.bin, arg |-> c.arg]
           /\ c.fn \in {"none", "insert", "delete", "lookup", "length"}
           /\ c.fn # "none" => c.bin \in Bin
           /\ c.fn \in {"insert", "delete"} => c.arg \in Elem
           /\ c.fn = "lookup" => c.arg \in KeyVal
BY DEF CallType, Set!NoCall, Set!Call

LEMMA MayCallFacts ==
    ASSUME TypeOK, NEW t \in Thread, NEW c \in MayCall(t)
    PROVE  c \in CallType /\ c.fn # "none"
<1>1. \A e \in Elem : key[e] \in KeyVal /\ BinOf[key[e]] \in Bin
  BY KeyAssumption DEF TypeOK, KeyVal
<1>2. CASE c \in Set!Calls(t)
  BY <1>1, <1>2 DEF Set!Calls, Set!Call, CallType, TypeOK
<1>3. CASE c \notin Set!Calls(t)
  BY <1>3 DEF MayCall, Set!Call, CallType
<1> QED
  BY <1>2, <1>3

LEMMA ListIsHead == \A b \in Bin : list[b] \in Node /\ list[b] # Null
BY NodeAssumption DEF Node, Head

-----------------------------------------------------------------------------
(* LockOK after a step that takes no lock: the thread stays where it was   *)
(* with respect to the lock of its list, or leaves it.                     *)
LEMMA LockKept ==
    ASSUME LockOK, NEW t \in Thread, sync_opt' = sync_opt, lock' = lock,
           \A u \in Thread \ {t} : pc'[u] = pc[u] /\ call'[u] = call[u],
           Holding(t)' => Holding(t) /\ call'[t].bin = call[t].bin
    PROVE  LockOK'
<1>1. Synced' <=> Synced
  BY DEF Synced
<1>2. \A u \in Thread : Holding(u)' => Holding(u) /\ call'[u].bin = call[u].bin
  BY DEF Holding
<1> QED
  BY <1>1, <1>2 DEF LockOK

LEMMA OthersShape ==
    ASSUME NEW t \in Thread, \A u \in Thread : Shape(u), Shape(t)',
           \A u \in Thread \ {t} : pc'[u] = pc[u] /\ call'[u] = call[u] /\ it'[u] = it[u]
    PROVE  \A u \in Thread : Shape(u)'
BY DEF Shape, Fn

(* A jump to a label of the same function.                                 *)
LEMMA JumpInv ==
    ASSUME Inv, NEW t \in Thread, NEW label \in Labels, Jump(t, label),
           Shape(t)', Holding(t)' => Holding(t)
    PROVE  Inv'
<1>1. pc' = [pc EXCEPT ![t] = label]
      /\ UNCHANGED <<next, prev, linked, key, sync_opt, lock, call, it, limiter, ret, segv>>
  BY DEF Jump, Goto, links, fixed, locals
<1>2. TypeOK'
  BY <1>1 DEF Inv, TypeOK
<1>3. LockOK'
  BY <1>1, LockKept DEF Inv
<1>4. \A u \in Thread : Shape(u)'
  BY <1>1, OthersShape DEF Inv
<1> QED
  BY <1>2, <1>3, <1>4 DEF Inv

RetType == Elem \cup {Null, 0, 1} \cup (-1 .. NumElements)

LEMMA SetNextInv ==
    ASSUME Inv, NEW t \in Thread, NEW x, NEW y \in Elem \cup {Null},
           NEW label \in Labels, SetNext(t, x, y, label), linked' \subseteq Elem,
           Shape(t)', Holding(t)' => Holding(t)
    PROVE  Inv'
<1>1. pc' = [pc EXCEPT ![t] = label] /\ next' = [next EXCEPT ![x] = y]
      /\ UNCHANGED <<prev, key, sync_opt, lock, call, it, limiter, ret, segv>>
  BY DEF SetNext, Goto, fixed, locals
<1>2. TypeOK'
  BY <1>1 DEF Inv, TypeOK
<1>3. LockOK'
  BY <1>1, LockKept DEF Inv
<1>4. \A u \in Thread : Shape(u)'
  BY <1>1, OthersShape DEF Inv
<1> QED
  BY <1>2, <1>3, <1>4 DEF Inv

LEMMA SetPrevInv ==
    ASSUME Inv, NEW t \in Thread, NEW x, NEW y \in Node \cup {Null},
           NEW label \in Labels, SetPrev(t, x, y, label),
           Shape(t)', Holding(t)' => Holding(t)
    PROVE  Inv'
<1>1. pc' = [pc EXCEPT ![t] = label] /\ prev' = [prev EXCEPT ![x] = y]
      /\ UNCHANGED <<next, linked, key, sync_opt, lock, call, it, limiter, ret, segv>>
  BY DEF SetPrev, Goto, fixed, locals
<1>2. TypeOK'
  BY <1>1 DEF Inv, TypeOK
<1>3. LockOK'
  BY <1>1, LockKept DEF Inv
<1>4. \A u \in Thread : Shape(u)'
  BY <1>1, OthersShape DEF Inv
<1> QED
  BY <1>2, <1>3, <1>4 DEF Inv

LEMMA ResultInv ==
    ASSUME Inv, NEW t \in Thread, NEW r \in RetType, Result(t, r),
           pc[t] \in WalkLabels, Fn(t) # "none"
    PROVE  Inv'
<1>1. pc' = [pc EXCEPT ![t] = "unlock"] /\ ret' = [ret EXCEPT ![t] = r]
      /\ UNCHANGED <<next, prev, linked, key, sync_opt, lock, call, it, limiter, segv>>
  BY DEF Result, Goto, links, fixed
<1>2. TypeOK'
  BY <1>1 DEF Inv, TypeOK, RetType, Labels
<1>3. Shape(t)' /\ (Holding(t)' => Holding(t))
  BY <1>1 DEF Inv, TypeOK, Shape, Fn, Holding, Labels, WalkLabels,
              InsertLabels, DeleteLabels
<1>4. LockOK'
  BY <1>1, <1>3, LockKept DEF Inv
<1>5. \A u \in Thread : Shape(u)'
  BY <1>1, <1>3, OthersShape DEF Inv
<1> QED
  BY <1>2, <1>4, <1>5 DEF Inv

(* What ReturnWith alone changes keeps the types and the shapes.           *)
LEMMA ReturnShape ==
    ASSUME Inv, NEW t \in Thread, NEW r \in RetType, ReturnWith(t, r)
    PROVE  /\ pc' \in [Thread -> Labels]
           /\ call' \in [Thread -> CallType]
           /\ it' \in [Thread -> Node \cup {Null}]
           /\ limiter' \in [Thread -> 0 .. NumElements]
           /\ ret' \in [Thread -> RetType]
           /\ \A u \in Thread : Shape(u)'
           /\ ~Holding(t)'
           /\ \A u \in Thread \ {t} : pc'[u] = pc[u] /\ call'[u] = call[u]
<1>1. /\ pc' = [pc EXCEPT ![t] = "idle"]
      /\ call' = [call EXCEPT ![t] = Set!NoCall]
      /\ it' = [it EXCEPT ![t] = Null]
      /\ limiter' = [limiter EXCEPT ![t] = 0]
      /\ ret' = [ret EXCEPT ![t] = r]
  BY DEF ReturnWith, Goto
<1>2. Set!NoCall \in CallType /\ Set!NoCall.fn = "none" /\ 0 \in 0 .. NumElements
  BY LimitAssumption DEF CallType, Set!NoCall
<1>3. /\ pc' \in [Thread -> Labels]
      /\ call' \in [Thread -> CallType]
      /\ it' \in [Thread -> Node \cup {Null}]
      /\ limiter' \in [Thread -> 0 .. NumElements]
      /\ ret' \in [Thread -> RetType]
  BY <1>1, <1>2 DEF Inv, TypeOK, RetType, Labels
<1>4. Shape(t)' /\ ~Holding(t)'
  BY <1>1, <1>2 DEF Inv, TypeOK, Shape, Fn, Holding, WalkLabels, InsertLabels, DeleteLabels
<1>5. \A u \in Thread \ {t} : pc'[u] = pc[u] /\ call'[u] = call[u] /\ it'[u] = it[u]
  BY <1>1
<1>6. \A u \in Thread : Shape(u)'
  BY <1>4, <1>5, OthersShape DEF Inv
<1> QED
  BY <1>3, <1>4, <1>5, <1>6

-----------------------------------------------------------------------------
(* One lemma per group of actions.                                         *)

LEMMA InitInv == Init => Inv
<1> SUFFICES ASSUME Init PROVE Inv
  OBVIOUS
<1>1. Set!NoCall \in CallType /\ Set!NoCall.fn = "none" /\ 0 \in 0 .. NumElements
  BY LimitAssumption DEF CallType, Set!NoCall
<1>2. TypeOK
  BY <1>1 DEF Init, TypeOK, Labels
<1>3. \A t \in Thread : Shape(t)
  BY <1>1 DEF Init, Shape, Fn, WalkLabels, InsertLabels, DeleteLabels
<1>4. LockOK
  BY DEF Init, LockOK, Holding
<1> QED
  BY <1>2, <1>3, <1>4 DEF Inv

LEMMA InvokeInv ==
    ASSUME Inv, NEW t \in Thread, NEW c \in MayCall(t), Invoke(t, c)
    PROVE  Inv'
<1>1. /\ pc' = [pc EXCEPT ![t] = "lock"]
      /\ call' = [call EXCEPT ![t] = c]
      /\ it' = [it EXCEPT ![t] = IF c.fn = "delete" THEN Null ELSE list[c.bin]]
      /\ ret' = [ret EXCEPT ![t] = Null]
      /\ UNCHANGED <<next, prev, linked, key, sync_opt, lock, limiter, segv>>
  BY DEF Invoke, Goto, links, fixed
<1>2. c \in CallType /\ c.fn # "none"
  BY MayCallFacts DEF Inv
<1>3. c.bin \in Bin /\ list[c.bin] \in Node /\ list[c.bin] # Null
  BY <1>2, CallTypeFacts, ListIsHead
<1>4. TypeOK'
  BY <1>1, <1>2, <1>3 DEF Inv, TypeOK, Labels
<1>5. Shape(t)' /\ ~Holding(t)'
  BY <1>1, <1>2, <1>3
     DEF Inv, TypeOK, Shape, Fn, Holding, WalkLabels, InsertLabels, DeleteLabels
<1>6. LockOK'
  BY <1>1, <1>5, LockKept DEF Inv
<1>7. \A u \in Thread : Shape(u)'
  BY <1>1, <1>5, OthersShape DEF Inv
<1> QED
  BY <1>4, <1>6, <1>7 DEF Inv

LEMMA SetLockInv ==
    ASSUME Inv, NEW t \in Thread, SetLock(t)
    PROVE  Inv'
<1>1. /\ pc[t] = "lock"
      /\ pc' = [pc EXCEPT ![t] = Entry(Fn(t))]
      /\ \/ Synced /\ lock[call[t].bin] = 0 /\ lock' = [lock EXCEPT ![call[t].bin] = 1]
         \/ ~Synced /\ UNCHANGED lock
      /\ UNCHANGED <<next, prev, linked, key, sync_opt, call, it, limiter, ret, segv>>
  BY DEF SetLock, Goto, links, fixed, locals
<1>2. Fn(t) \in {"insert", "delete", "lookup", "length"} /\ call[t].bin \in Bin
  BY <1>1, CallTypeFacts DEF Inv, TypeOK, Shape, Fn
<1>3. Entry(Fn(t)) = IF Fn(t) = "delete" THEN "checkhead" ELSE "while"
  BY DEF Entry
<1>4. TypeOK'
  BY <1>1, <1>3 DEF Inv, TypeOK, Labels
<1>5. Shape(t)'
  BY <1>1, <1>2, <1>3
     DEF Inv, TypeOK, Shape, Fn, WalkLabels, InsertLabels, DeleteLabels
<1>6. \A u \in Thread : Shape(u)'
  BY <1>1, <1>5, OthersShape DEF Inv
<1>7. LockOK'
  <2>1. Synced' <=> Synced
    BY <1>1 DEF Synced
  <2>2. \A u \in Thread \ {t} : Holding(u)' <=> Holding(u)
    BY <1>1 DEF Holding
  <2>3. \A u \in Thread : Holding(u) => call[u].bin \in Bin
    BY CallTypeFacts DEF Inv, TypeOK, Shape, Fn, Holding, Labels
  <2>4. CASE Synced
    <3>1. \A u \in Thread : Holding(u) => call[u].bin # call[t].bin
      BY <1>1, <2>4 DEF Inv, LockOK
    <3>2. \A u \in Thread : Holding(u) => lock'[call[u].bin] = 1
      BY <1>1, <2>3, <2>4, <3>1 DEF Inv, TypeOK, LockOK
    <3>3. lock'[call[t].bin] = 1 /\ call' = call
      BY <1>1, <1>2, <2>4 DEF Inv, TypeOK
    <3> QED
      BY <2>1, <2>2, <2>4, <3>1, <3>2, <3>3 DEF Inv, LockOK
  <2>5. CASE ~Synced
    BY <2>1, <2>5 DEF LockOK
  <2> QED
    BY <2>4, <2>5
<1> QED
  BY <1>4, <1>6, <1>7 DEF Inv

LEMMA ReleaseLockInv ==
    ASSUME Inv, NEW t \in Thread, ReleaseLock(t)
    PROVE  Inv'
<1>1. /\ pc[t] = "unlock"
      /\ lock' = IF Synced THEN [lock EXCEPT ![call[t].bin] = 0] ELSE lock
      /\ UNCHANGED <<next, prev, linked, key, sync_opt, segv>>
  BY DEF ReleaseLock, links, fixed
<1>2. /\ ret[t] \in RetType
      /\ lock' \in [Bin -> {0, 1}]
  BY <1>1 DEF Inv, TypeOK, RetType
<1>3. TypeOK' /\ (\A u \in Thread : Shape(u)') /\ ~Holding(t)'
      /\ \A u \in Thread \ {t} : pc'[u] = pc[u] /\ call'[u] = call[u]
  <2>1. CASE Fn(t) = "delete"
    <3>1. pc' = [pc EXCEPT ![t] = "clearnext"] /\ UNCHANGED <<call, it, limiter, ret>>
      BY <2>1 DEF ReleaseLock, Goto, locals
    <3>2. TypeOK' /\ Shape(t)' /\ ~Holding(t)'
      BY <1>1, <1>2, <2>1, <3>1
         DEF Inv, TypeOK, Shape, Fn, Holding, Labels, WalkLabels, InsertLabels, DeleteLabels
    <3> QED
      BY <3>1, <3>2, OthersShape DEF Inv
  <2>2. CASE Fn(t) # "delete"
    <3>1. ReturnWith(t, ret[t])
      BY <2>2 DEF ReleaseLock
    <3> QED
      BY <1>1, <1>2, <3>1, ReturnShape DEF Inv, TypeOK, RetType
  <2> QED
    BY <2>1, <2>2
<1>4. LockOK'
  <2>1. Synced' <=> Synced
    BY <1>1 DEF Synced
  <2>2. \A u \in Thread \ {t} : (Holding(u)' <=> Holding(u)) /\ call'[u] = call[u]
    BY <1>3 DEF Holding
  <2>3. Holding(t)
    BY <1>1 DEF Holding, Labels
  <2>4. Synced => \A u \in Thread \ {t} : Holding(u) => call[u].bin # call[t].bin
    BY <2>3 DEF Inv, LockOK
  <2>5. \A u \in Thread : Holding(u) => call[u].bin \in Bin
    BY CallTypeFacts DEF Inv, TypeOK, Shape, Fn, Holding, Labels
  <2> QED
    BY <1>1, <1>3, <2>1, <2>2, <2>4, <2>5 DEF Inv, TypeOK, LockOK
<1> QED
  BY <1>3, <1>4 DEF Inv

(* A refused delete returns and leaves the lock as it is.                  *)
LEMMA CorruptedInv ==
    ASSUME Inv, NEW t \in Thread, Corrupted(t)
    PROVE  Inv'
<1>1. ReturnWith(t, 1) /\ UNCHANGED <<next, prev, linked, key, sync_opt, lock, segv>>
  BY DEF Corrupted, links, fixed
<1>2. 1 \in RetType
  BY DEF RetType
<1>3. TypeOK' /\ (\A u \in Thread : Shape(u)') /\ ~Holding(t)'
  BY <1>1, <1>2, ReturnShape DEF Inv, TypeOK, RetType
<1>4. LockOK'
  BY <1>1, <1>2, <1>3, ReturnShape, LockKept DEF Inv
<1> QED
  BY <1>3, <1>4 DEF Inv

(* The loops.                                                              *)
LEMMA WalkInv ==
    ASSUME Inv, NEW t \in Thread,
           WhileNext(t) \/ Compare(t) \/ CheckBack(t) \/ Advance(t)
    PROVE  Inv'
<1>1. /\ Fn(t) \in {"insert", "lookup", "length"}
      /\ it[t] # Null /\ it[t] \in Node
      /\ pc[t] \in WalkLabels
      /\ Holding(t)
  BY DEF WhileNext, Compare, CheckBack, Advance, Inv, TypeOK, Shape, Holding,
         Labels, WalkLabels
<1>2. limiter[t] \in RetType /\ -1 \in RetType
  BY LimitAssumption DEF Inv, TypeOK, RetType
<1>3. ASSUME NEW label \in Labels, Jump(t, label),
             \/ label = "advance"
             \/ label = "compare" /\ Fn(t) # "length"
             \/ label = "checkback" /\ Fn(t) = "length"
             \/ label = LoopEnd(Fn(t)) /\ Fn(t) # "length"
      PROVE  Inv'
  <2>1. pc'[t] = label /\ call' = call /\ it' = it
    BY <1>3 DEF Jump, Goto, locals, Inv, TypeOK
  <2>2. label \in {"advance", "compare", "checkback", "place", "result"}
    BY <1>1, <1>3 DEF LoopEnd
  <2>3. Shape(t)'
    BY <1>1, <1>3, <2>1, <2>2
       DEF Shape, Fn, LoopEnd, WalkLabels, InsertLabels, DeleteLabels
  <2> QED
    BY <1>1, <1>3, <2>3, JumpInv
<1>4. ASSUME NEW r \in RetType, Result(t, r) PROVE Inv'
  BY <1>1, <1>4, ResultInv
<1>5. {"advance", "compare", "checkback"} \subseteq Labels
      /\ (Fn(t) # "length" => LoopEnd(Fn(t)) \in Labels)
  BY <1>1 DEF Labels, LoopEnd
<1>6. CASE WhileNext(t)
  <2>1. CASE next[it[t]] = Null /\ Fn(t) = "length"
    BY <1>2, <1>4, <1>6, <2>1 DEF WhileNext
  <2>2. CASE next[it[t]] = Null /\ Fn(t) # "length"
    BY <1>3, <1>5, <1>6, <2>2 DEF WhileNext
  <2>3. CASE next[it[t]] # Null
    BY <1>3, <1>5, <1>6, <2>3 DEF WhileNext
  <2> QED
    BY <2>1, <2>2, <2>3
<1>7. CASE Compare(t)
  <2>1. Fn(t) # "length"
    BY <1>7 DEF Compare, Inv, Shape
  <2> QED
    BY <1>3, <1>5, <1>7, <2>1 DEF Compare
<1>8. CASE CheckBack(t)
  BY <1>2, <1>3, <1>4, <1>5, <1>8 DEF CheckBack
<1>9. CASE Advance(t)
  <2>1. CASE limiter[t] >= NumElements
    <3>1. limiter[t] \in 0 .. NumElements
      BY DEF Inv, TypeOK
    <3>2. ~(limiter[t] < NumElements)
      BY <2>1, <3>1, LimitAssumption
    <3> QED
      BY <1>2, <1>3, <1>4, <1>5, <1>9, <3>2 DEF Advance
  <2>2. CASE ~(limiter[t] >= NumElements)
    <3>1. /\ it' = [it EXCEPT ![t] = next[it[t]]]
          /\ limiter' = [limiter EXCEPT ![t] = @ + 1]
          /\ pc' = [pc EXCEPT ![t] = "while"]
          /\ UNCHANGED <<next, prev, linked, key, sync_opt, lock, call, ret, segv>>
      BY <1>9, <2>2 DEF Advance, Goto, links, fixed
    <3>2. limiter[t] + 1 \in 0 .. NumElements
      BY <2>2, LimitAssumption DEF Inv, TypeOK
    <3>3. next[it[t]] \in Node \cup {Null}
      BY <1>1 DEF Inv, TypeOK, Node
    <3>4. TypeOK'
      BY <3>1, <3>2, <3>3 DEF Inv, TypeOK, Labels
    <3>5. Shape(t)' /\ \A u \in Thread \ {t} :
                          pc'[u] = pc[u] /\ call'[u] = call[u] /\ it'[u] = it[u]
      BY <1>1, <3>1
         DEF Inv, TypeOK, Shape, Fn, WalkLabels, InsertLabels, DeleteLabels
    <3>6. LockOK'
      BY <1>1, <3>1, LockKept DEF Inv
    <3>7. \A u \in Thread : Shape(u)'
      BY <3>5, OthersShape DEF Inv
    <3> QED
      BY <3>4, <3>6, <3>7 DEF Inv
  <2> QED
    BY <2>1, <2>2
<1> QED
  BY <1>6, <1>7, <1>8, <1>9

LEMMA LookupInv ==
    ASSUME Inv, NEW t \in Thread, LookupResult(t)
    PROVE  Inv'
<1>1. pc[t] = "result" /\ Fn(t) = "lookup" /\ it[t] \in Node
  BY DEF LookupResult, Inv, TypeOK, Shape, WalkLabels
<1>2. next[it[t]] \in RetType /\ Null \in RetType
  BY <1>1 DEF Inv, TypeOK, RetType
<1> QED
  BY <1>1, <1>2, ResultInv DEF LookupResult, WalkLabels

(* The statements of insert after its loop.                                *)
LEMMA InsertInv ==
    ASSUME Inv, NEW t \in Thread,
           Place(t) \/ FixSuccessor(t) \/ SetElementNext(t) \/ SetElementPrev(t) \/ Link(t)
    PROVE  Inv'
<1>1. /\ pc[t] \in InsertLabels /\ Fn(t) = "insert" /\ Arg(t) \in Elem
      /\ it[t] \in Node /\ it[t] # Null /\ next[it[t]] \in Elem \cup {Null}
      /\ linked \subseteq Elem /\ Holding(t)
  BY CallTypeFacts
     DEF Place, FixSuccessor, SetElementNext, SetElementPrev, Link, Inv, TypeOK,
         Shape, Fn, Arg, Holding, Labels, WalkLabels, InsertLabels
<1>2. ASSUME NEW label \in {"fixsucc", "setnext", "setprev", "link", "unlock"},
             pc' = [pc EXCEPT ![t] = label], UNCHANGED <<call, it>>
      PROVE  Shape(t)' /\ label \in Labels
  BY <1>1, <1>2
     DEF Inv, TypeOK, Shape, Fn, Labels, WalkLabels, InsertLabels, DeleteLabels
<1>3. CASE Place(t)
  <2>1. CASE next[it[t]] = Null \/ limiter[t] = NumElements
    <3>1. SetNext(t, Arg(t), Null, "setprev") /\ linked' = linked
      BY <1>3, <2>1 DEF Place
    <3> QED
      BY <1>1, <1>2, <3>1, SetNextInv DEF SetNext, Goto, locals
  <2>2. CASE ~(next[it[t]] = Null \/ limiter[t] = NumElements)
    <3>1. Jump(t, "fixsucc")
      BY <1>3, <2>2 DEF Place
    <3> QED
      BY <1>1, <1>2, <3>1, JumpInv DEF Jump, Goto, locals
  <2> QED
    BY <2>1, <2>2
<1>4. CASE FixSuccessor(t)
  <2>1. SetPrev(t, next[it[t]], Arg(t), "setnext") /\ Arg(t) \in Node \cup {Null}
    BY <1>1, <1>4 DEF FixSuccessor, Node
  <2> QED
    BY <1>1, <1>2, <2>1, SetPrevInv DEF SetPrev, Goto, locals
<1>5. CASE SetElementNext(t)
  <2>1. SetNext(t, Arg(t), next[it[t]], "setprev") /\ linked' = linked
    BY <1>5 DEF SetElementNext
  <2> QED
    BY <1>1, <1>2, <2>1, SetNextInv DEF SetNext, Goto, locals
<1>6. CASE SetElementPrev(t)
  <2>1. SetPrev(t, Arg(t), it[t], "link")
    BY <1>6 DEF SetElementPrev
  <2> QED
    BY <1>1, <1>2, <2>1, SetPrevInv DEF SetPrev, Goto, locals
<1>7. CASE Link(t)
  <2>1. SetNext(t, it[t], Arg(t), "unlock") /\ linked' \subseteq Elem
    BY <1>1, <1>7 DEF Link
  <2> QED
    BY <1>1, <1>2, <2>1, SetNextInv DEF SetNext, Goto, locals
<1> QED
  BY <1>3, <1>4, <1>5, <1>6, <1>7

(* The statements of delete.                                               *)
LEMMA DeleteInv ==
    ASSUME Inv, NEW t \in Thread,
           CheckHead(t) \/ CheckPrev(t) \/ CheckNext(t) \/ TestLast(t)
           \/ CutLast(t) \/ Unlink(t) \/ FixBack(t) \/ ClearNext(t) \/ ClearPrev(t)
    PROVE  Inv'
<1>1. /\ pc[t] \in DeleteLabels /\ Fn(t) = "delete" /\ Arg(t) \in Elem
      /\ next[Arg(t)] \in Elem \cup {Null} /\ prev[Arg(t)] \in Node \cup {Null}
      /\ linked \subseteq Elem
  BY CallTypeFacts
     DEF CheckHead, CheckPrev, CheckNext, TestLast, CutLast, Unlink, FixBack,
         ClearNext, ClearPrev, Inv, TypeOK, Shape, Fn, Arg, DeleteLabels, Node
<1>2. ASSUME NEW label \in {"checkprev", "checknext", "testlast", "cutlast",
                            "unlink", "fixback", "unlock", "clearprev"},
             pc' = [pc EXCEPT ![t] = label], UNCHANGED <<call, it>>
      PROVE  /\ Shape(t)' /\ label \in Labels
             /\ label = "clearprev" => ~Holding(t)'
  BY <1>1, <1>2
     DEF Inv, TypeOK, Shape, Fn, Holding, Labels, WalkLabels, InsertLabels, DeleteLabels
<1>3. ASSUME NEW label \in {"checkprev", "checknext", "testlast", "cutlast", "unlink"},
             Holding(t), Jump(t, label)
      PROVE  Inv'
  BY <1>2, <1>3, JumpInv DEF Jump, Goto, locals
<1>4. pc[t] \notin {"clearnext", "clearprev"} => Holding(t)
  BY <1>1 DEF Holding, DeleteLabels, Labels
<1>5. CASE CheckHead(t)
  BY <1>3, <1>4, <1>5, CorruptedInv DEF CheckHead
<1>6. CASE CheckPrev(t)
  BY <1>3, <1>4, <1>6, CorruptedInv DEF CheckPrev
<1>7. CASE CheckNext(t)
  BY <1>3, <1>4, <1>7, CorruptedInv DEF CheckNext
<1>8. CASE TestLast(t)
  BY <1>3, <1>4, <1>8 DEF TestLast
<1>9. CASE CutLast(t)
  <2>1. SetNext(t, prev[Arg(t)], Null, "unlock") /\ linked' \subseteq Elem /\ Holding(t)
    BY <1>1, <1>4, <1>9 DEF CutLast
  <2> QED
    BY <1>2, <2>1, SetNextInv DEF SetNext, Goto, locals
<1>10. CASE Unlink(t)
  <2>1. /\ SetNext(t, prev[Arg(t)], next[Arg(t)], "fixback")
        /\ linked' \subseteq Elem /\ Holding(t)
    BY <1>1, <1>4, <1>10 DEF Unlink
  <2> QED
    BY <1>1, <1>2, <2>1, SetNextInv DEF SetNext, Goto, locals
<1>11. CASE FixBack(t)
  <2>1. SetPrev(t, next[Arg(t)], prev[Arg(t)], "unlock") /\ Holding(t)
    BY <1>4, <1>11 DEF FixBack
  <2> QED
    BY <1>1, <1>2, <2>1, SetPrevInv DEF SetPrev, Goto, locals
<1>12. CASE ClearNext(t)
  <2>1. SetNext(t, Arg(t), Null, "clearprev") /\ linked' \subseteq Elem
    BY <1>1, <1>12 DEF ClearNext
  <2> QED
    BY <1>2, <2>1, SetNextInv DEF SetNext, Goto, locals
<1>13. CASE ClearPrev(t)
  <2>1. /\ ReturnWith(t, 0) /\ prev' = [prev EXCEPT ![Arg(t)] = Null]
        /\ UNCHANGED <<next, linked, key, sync_opt, lock, segv>>
    BY <1>13 DEF ClearPrev, fixed
  <2>2. 0 \in RetType
    BY DEF RetType
  <2>3. TypeOK' /\ (\A u \in Thread : Shape(u)') /\ ~Holding(t)'
    BY <2>1, <2>2, ReturnShape DEF Inv, TypeOK, RetType
  <2>4. LockOK'
    BY <2>1, <2>2, <2>3, ReturnShape, LockKept DEF Inv
  <2> QED
    BY <2>3, <2>4 DEF Inv
<1> QED
  BY <1>5, <1>6, <1>7, <1>8, <1>9, <1>10, <1>11, <1>12, <1>13

LEMMA FaultInv ==
    ASSUME Inv, NEW t \in Thread, Fault(t)
    PROVE  Inv'
BY DEF Fault, links, fixed, locals, Inv, TypeOK, Shape, Fn, LockOK, Holding, Synced

LEMMA StutterInv == Inv /\ UNCHANGED vars => Inv'
BY DEF vars, links, fixed, locals, Inv, TypeOK, Shape, Fn, LockOK, Holding, Synced

LEMMA NextInv == Inv /\ [Next]_vars => Inv'
<1> SUFFICES ASSUME Inv, [Next]_vars PROVE Inv'
  OBVIOUS
<1>1. ASSUME NEW t \in Thread, Step(t) PROVE Inv'
  BY <1>1, SetLockInv, ReleaseLockInv, WalkInv, LookupInv, InsertInv, DeleteInv, FaultInv
     DEF Step
<1> QED
  BY <1>1, InvokeInv, StutterInv DEF Next

LEMMA SpecInv == Spec => []Inv
BY InitInv, NextInv, PTL DEF Spec

(* With or without a lock, and even on corrupted lists, next is an element *)
(* or null, prev a node or null, the limiter stays within its bound, and   *)
(* every variable keeps its type.                                          *)
THEOREM TypeCorrect == Spec => []TypeOK
<1>1. Inv => TypeOK
  BY DEF Inv
<1> QED
  BY SpecInv, <1>1, PTL

(* Whatever the numbers of threads, elements and lists, no two threads are *)
(* inside calls on the same list when there is a lock.                     *)
THEOREM LocksExclude == Spec => []MutualExclusion
<1>1. Inv => MutualExclusion
  BY DEF Inv, LockOK, MutualExclusion
<1> QED
  BY SpecInv, <1>1, PTL

(***************************************************************************)
(* The lists under a lock: they stay sorted and doubly linked, no call     *)
(* meets a null pointer or finds the list corrupted, and no lock is left   *)
(* held.                                                                   *)
(*                                                                         *)
(* None of this is inductive by itself.  That the lists are sorted follows *)
(* from what each thread knows of the nodes it is about to change; that    *)
(* this knowledge lasts until the change follows from the lock, and from   *)
(* every element having one owner.  OrderInv joins the three.              *)
(***************************************************************************)

OnList(b) == InBin(b) \cup {list[b]}

(* Element e belongs after node x of its list.                             *)
After(x, e) == x \in Elem => key[x] < key[e]

SortedAt(b, x) ==
    \/ /\ next[x] = Null
       /\ \A e \in InBin(b) : ~After(x, e)
    \/ /\ next[x] \in InBin(b)
       /\ After(x, next[x])
       /\ \A e \in InBin(b) : After(x, e) => key[next[x]] <= key[e]

(* Thread t, inside a call on list b, is changing the back pointer of e.   *)
Moving(t, b, e) ==
    /\ call[t].bin = b
    /\ \/ pc[t] \in {"setnext", "setprev", "link"} /\ next[it[t]] = e
       \/ pc[t] = "fixback" /\ next[Arg(t)] = e

BackAt(b, e) ==
    \/ prev[e] \in OnList(b) /\ next[prev[e]] = e
    \/ \E t \in Thread : Moving(t, b, e)

Sorted(b) == \A x \in OnList(b) : SortedAt(b, x)
Backs(b) == \A e \in InBin(b) : BackAt(b, e)

(* An element is inserted and deleted by its owner only, in its own list.  *)
Linked(t) ==
    /\ Fn(t) \in {"insert", "delete"} =>
         Owner[Arg(t)] = t /\ BinOf[key[Arg(t)]] = call[t].bin
    /\ Fn(t) = "insert" /\ pc[t] # "unlock" => Arg(t) \notin linked
    /\ Fn(t) = "delete" =>
         (Arg(t) \in linked <=>
            pc[t] \in {"lock", "checkhead", "checkprev", "checknext",
                       "testlast", "cutlast", "unlink"})

(* The elements that the loop of t has walked past.                        *)
Passed(b, x) == {e \in InBin(b) : x \in Elem /\ key[e] <= key[x]}

LoopLabels == {"while", "compare", "advance", "checkback", "result", "place"}

(* A loop stands on a node of its list before the place it looks for, and  *)
(* has counted the elements up to it.                                      *)
Walk(t) ==
    LET b == call[t].bin
        x == it[t]
    IN  /\ pc[t] \in {"idle", "lock"} => limiter[t] = 0
        /\ pc[t] = "lock" /\ Fn(t) # "delete" => x = list[b]
        /\ pc[t] \in WalkLabels => x \in OnList(b)
        /\ pc[t] \in LoopLabels => limiter[t] = Cardinality(Passed(b, x))
        /\ pc[t] \in WalkLabels /\ Fn(t) = "insert" => After(x, Arg(t))
        /\ pc[t] \in WalkLabels /\ Fn(t) = "lookup" =>
             \A e \in Passed(b, x) : key[e] # Arg(t)
        /\ pc[t] \in {"compare", "checkback", "advance", "fixsucc", "setnext"} =>
             next[x] # Null
        /\ pc[t] = "advance" /\ Fn(t) # "length" => KeepsWalking(t, next[x])
        /\ pc[t] = "result" => next[x] = Null \/ key[next[x]] = Arg(t)

(* What insert has found, and which links it has set.                      *)
Insert(t) ==
    LET x == it[t]
    IN  /\ pc[t] \in InsertLabels /\ next[x] # Null => key[Arg(t)] < key[next[x]]
        /\ pc[t] \in {"setnext", "setprev", "link"} /\ next[x] # Null =>
             prev[next[x]] = Arg(t)
        /\ pc[t] \in {"setprev", "link"} => next[Arg(t)] = next[x]
        /\ pc[t] = "link" => prev[Arg(t)] = x

(* What delete has found, and what it still has to repair.                 *)
Delete(t) ==
    /\ pc[t] = "cutlast" => next[Arg(t)] = Null
    /\ pc[t] = "unlink" => next[Arg(t)] # Null
    /\ pc[t] = "fixback" =>
         /\ next[Arg(t)] \in InBin(call[t].bin)
         /\ prev[next[Arg(t)]] = Arg(t)
         /\ prev[Arg(t)] \in OnList(call[t].bin)
         /\ next[prev[Arg(t)]] = next[Arg(t)]

CallOK(t) == Linked(t) /\ Walk(t) /\ Insert(t) /\ Delete(t)

(* Only a call under a lock holds it.                                      *)
LockHeld ==
    \A b \in Bin : lock[b] = 1 =>
        Synced /\ \E t \in Thread : Holding(t) /\ call[t].bin = b

OrderInv ==
    /\ LockHeld
    /\ Synced => /\ ~segv
                 /\ \A b \in Bin : Sorted(b) /\ Backs(b)
                 /\ \A t \in Thread : CallOK(t)

-----------------------------------------------------------------------------
(* The nodes and keys.                                                     *)

LEMMA NodeFacts ==
    ASSUME TypeOK
    PROVE  /\ key \in [Elem -> Int]
           /\ \A e, f \in Elem : key[e] = key[f] => e = f
           /\ \A e \in Elem : key[e] \in KeyVal /\ BinOf[key[e]] \in Bin
           /\ \A b \in Bin : /\ InBin(b) \subseteq Elem
                            /\ OnList(b) \subseteq Node
                            /\ list[b] \in Node /\ list[b] \notin Elem
           /\ \A b, c \in Bin : b # c => OnList(b) \cap OnList(c) = {}
           /\ Null \notin Node /\ Null \notin Elem
<1>1. key \in Keyings
  BY DEF TypeOK
<1>2. /\ key \in [Elem -> Int]
      /\ \A e, f \in Elem : key[e] = key[f] => e = f
      /\ \A e \in Elem : key[e] \in KeyVal /\ BinOf[key[e]] \in Bin
  BY <1>1, KeyAssumption DEF KeyVal
<1>3. \A b \in Bin : list[b] \in Head /\ list[b] \in Node /\ list[b] \notin Elem
  BY NodeAssumption DEF Head, Node
<1>4. \A b \in Bin : InBin(b) \subseteq Elem
  BY DEF TypeOK, InBin
<1>5. \A b, c \in Bin : b # c => OnList(b) \cap OnList(c) = {}
  <2> SUFFICES ASSUME NEW b \in Bin, NEW c \in Bin, b # c,
                      NEW x \in OnList(b), x \in OnList(c)
               PROVE  FALSE
    OBVIOUS
  <2>1. list[b] # list[c]
    BY NodeAssumption
  <2>2. CASE x \in InBin(b)
    BY <1>3, <1>4, <2>2 DEF OnList, InBin
  <2>3. CASE x = list[b]
    BY <1>3, <1>4, <2>1, <2>3 DEF OnList
  <2> QED
    BY <2>2, <2>3 DEF OnList
<1> QED
  BY <1>2, <1>3, <1>4, <1>5, NodeAssumption DEF OnList, Node

(* Two nodes of a sorted list have different successors.                   *)
LEMMA NextInjective ==
    ASSUME TypeOK, NEW b \in Bin, Sorted(b), NEW x \in OnList(b), NEW y \in OnList(b),
           next[x] = next[y], next[x] # Null
    PROVE  x = y
<1> SUFFICES ASSUME x # y PROVE FALSE
  OBVIOUS
<1> DEFINE z == next[x]
<1>1. z \in InBin(b) /\ After(x, z) /\ After(y, z)
  BY DEF Sorted, SortedAt
<1>2. /\ \A e \in InBin(b) : After(x, e) => key[z] <= key[e]
      /\ \A e \in InBin(b) : After(y, e) => key[z] <= key[e]
  BY DEF Sorted, SortedAt
<1>3. /\ key \in [Elem -> Int] /\ InBin(b) \subseteq Elem /\ list[b] \notin Elem
      /\ \A e, f \in Elem : key[e] = key[f] => e = f
  BY NodeFacts
<1>4. CASE x \in InBin(b) /\ y \in InBin(b)
  BY <1>1, <1>2, <1>3, <1>4 DEF After
<1>5. CASE x = list[b] /\ y \in InBin(b)
  BY <1>1, <1>2, <1>3, <1>5 DEF After
<1>6. CASE x \in InBin(b) /\ y = list[b]
  BY <1>1, <1>2, <1>3, <1>6 DEF After
<1> QED
  BY <1>4, <1>5, <1>6 DEF OnList

-----------------------------------------------------------------------------
(* What a step of one thread leaves alone.                                 *)

LEMMA BinKept ==
    ASSUME NEW b \in Bin, key' = key, InBin(b)' = InBin(b),
           \A x \in OnList(b) : next'[x] = next[x],
           \A e \in InBin(b) : prev'[e] = prev[e],
           \A t \in Thread, e \in InBin(b) : Moving(t, b, e) => Moving(t, b, e)'
    PROVE  (Sorted(b) => Sorted(b)') /\ (Backs(b) => Backs(b)')
<1>1. OnList(b)' = OnList(b)
  BY DEF OnList
<1>2. \A x, e : After(x, e)' <=> After(x, e)
  BY DEF After
<1>3. Sorted(b) => Sorted(b)'
  BY <1>1, <1>2 DEF Sorted, SortedAt
<1>4. ASSUME NEW e \in InBin(b), BackAt(b, e) PROVE BackAt(b, e)'
  BY <1>1, <1>4 DEF BackAt
<1> QED
  BY <1>3, <1>4 DEF Backs

(* What a thread knows, while others work on other lists and elements.     *)
LEMMA CallKept ==
    ASSUME Inv, NEW u \in Thread, CallOK(u),
           key' = key, pc'[u] = pc[u], call'[u] = call[u], it'[u] = it[u],
           limiter'[u] = limiter[u],
           Fn(u) \in {"insert", "delete"} => (Arg(u) \in linked' <=> Arg(u) \in linked),
           Holding(u) =>
             /\ Sorted(call[u].bin)
             /\ InBin(call[u].bin)' = InBin(call[u].bin)
             /\ \A x \in OnList(call[u].bin) : next'[x] = next[x] /\ prev'[x] = prev[x]
             /\ Fn(u) \in {"insert", "delete"} =>
                  next'[Arg(u)] = next[Arg(u)] /\ prev'[Arg(u)] = prev[Arg(u)]
    PROVE  CallOK(u)'
<1> DEFINE b == call[u].bin
<1>1. Fn(u)' = Fn(u) /\ Arg(u)' = Arg(u) /\ (call[u].bin)' = b
  BY DEF Fn, Arg
<1>2. Linked(u)'
  BY <1>1 DEF CallOK, Linked
<1>3. Shape(u)
  BY DEF Inv
<1>4. CASE ~Holding(u)
  BY <1>1, <1>2, <1>3, <1>4
     DEF Holding, CallOK, Walk, Insert, Delete, Shape, Labels, WalkLabels,
         InsertLabels, LoopLabels, Inv, TypeOK
<1>5. CASE Holding(u)
  <2>1. OnList(b)' = OnList(b) /\ InBin(b)' = InBin(b)
    BY <1>5 DEF OnList
  <2>2. \A x : Passed(b, x)' = Passed(b, x)
    BY <2>1 DEF Passed
  <2>3. \A x, e : After(x, e)' <=> After(x, e)
    BY DEF After
  <2>4. pc[u] \in WalkLabels =>
          /\ it[u] \in OnList(b) /\ next'[it[u]] = next[it[u]]
          /\ Passed(b, it[u])' = Passed(b, it[u])
    BY <1>5, <2>1, <2>2 DEF CallOK, Walk
  <2>5. Walk(u)'
    BY <1>1, <2>1, <2>3, <2>4
       DEF CallOK, Walk, KeepsWalking, WalkLabels, InsertLabels, LoopLabels
  <2>6. Insert(u)'
    <3>1. pc[u] \in InsertLabels /\ next[it[u]] # Null =>
            next[it[u]] \in InBin(b) /\ prev'[next[it[u]]] = prev[next[it[u]]]
      BY <1>5, <2>4 DEF Sorted, SortedAt, OnList, WalkLabels
    <3>2. pc[u] \in InsertLabels =>
            next'[Arg(u)] = next[Arg(u)] /\ prev'[Arg(u)] = prev[Arg(u)]
      BY <1>3, <1>5 DEF Shape
    <3> QED
      BY <1>1, <2>4, <3>1, <3>2 DEF CallOK, Insert, WalkLabels, InsertLabels
  <2>7. Delete(u)'
    <3>1. pc[u] \in {"cutlast", "unlink", "fixback"} =>
            next'[Arg(u)] = next[Arg(u)] /\ prev'[Arg(u)] = prev[Arg(u)]
      BY <1>3, <1>5 DEF Shape, DeleteLabels
    <3>2. pc[u] = "fixback" =>
            /\ prev'[next[Arg(u)]] = prev[next[Arg(u)]]
            /\ next'[prev[Arg(u)]] = next[prev[Arg(u)]]
      BY <1>5 DEF CallOK, Delete, OnList
    <3> QED
      BY <1>1, <2>1, <3>1, <3>2 DEF CallOK, Delete
  <2> QED
    BY <1>2, <2>5, <2>6, <2>7 DEF CallOK
<1> QED
  BY <1>4, <1>5

OthersStay(t) ==
    \A u \in Thread \ {t} :
        pc'[u] = pc[u] /\ call'[u] = call[u] /\ it'[u] = it[u] /\ limiter'[u] = limiter[u]

MoveLabels == {"setnext", "setprev", "link", "fixback"}

LEMMA LocksKept ==
    ASSUME LockHeld, NEW t \in Thread, sync_opt' = sync_opt, lock' = lock, OthersStay(t),
           Synced /\ Holding(t) => Holding(t)' /\ call'[t].bin = call[t].bin
    PROVE  LockHeld'
<1>1. Synced' <=> Synced
  BY DEF Synced
<1>2. Synced => \A u \in Thread : Holding(u) => Holding(u)' /\ call'[u].bin = call[u].bin
  BY DEF OthersStay, Holding
<1> QED
  BY <1>1, <1>2 DEF LockHeld

(* A call on list c knows elements of list c only.                         *)
LEMMA CallFacts ==
    ASSUME Inv, OrderInv, Synced, NEW u \in Thread, pc[u] # "idle"
    PROVE  /\ call[u].bin \in Bin
           /\ CallOK(u)
           /\ Sorted(call[u].bin) /\ Backs(call[u].bin)
           /\ Fn(u) \in {"insert", "delete"} =>
                /\ Arg(u) \in Elem /\ Arg(u) \in Node
                /\ Owner[Arg(u)] = u
                /\ BinOf[key[Arg(u)]] = call[u].bin
           /\ Fn(u) \in {"insert", "delete", "lookup", "length"}
<1>1. Fn(u) \in {"insert", "delete", "lookup", "length"} /\ call[u].bin \in Bin
      /\ (Fn(u) \in {"insert", "delete"} => Arg(u) \in Elem)
  BY CallTypeFacts DEF Inv, TypeOK, Shape, Fn, Arg
<1> QED
  BY <1>1 DEF OrderInv, CallOK, Linked, Node

(* A step that writes no link and no element.                              *)
LEMMA DataKept ==
    ASSUME Inv, OrderInv, Synced, NEW t \in Thread,
           UNCHANGED <<next, prev, linked, key>>, OthersStay(t), pc[t] \notin MoveLabels
    PROVE  /\ \A b \in Bin : Sorted(b)' /\ Backs(b)'
           /\ \A u \in Thread \ {t} : CallOK(u)'
<1>1. ASSUME NEW b \in Bin PROVE Sorted(b)' /\ Backs(b)'
  <2>1. InBin(b)' = InBin(b)
    BY DEF InBin
  <2>2. \A u \in Thread, e \in InBin(b) : Moving(u, b, e) => Moving(u, b, e)'
    BY DEF Moving, OthersStay, MoveLabels, Arg
  <2> QED
    BY <2>1, <2>2, BinKept DEF OrderInv
<1>2. ASSUME NEW u \in Thread \ {t} PROVE CallOK(u)'
  <2>1. CallOK(u) /\ (Holding(u) => Sorted(call[u].bin))
    BY CallFacts DEF OrderInv, Holding
  <2>2. InBin(call[u].bin)' = InBin(call[u].bin)
    BY DEF InBin, OthersStay
  <2> QED
    BY <2>1, <2>2, CallKept DEF OthersStay
<1> QED
  BY <1>1, <1>2

LEMMA LocalKept ==
    ASSUME Inv, OrderInv, Synced, NEW t \in Thread,
           UNCHANGED <<next, prev, linked, key, sync_opt, lock, segv>>, OthersStay(t),
           pc[t] \notin MoveLabels,
           Holding(t) => Holding(t)' /\ call'[t].bin = call[t].bin,
           CallOK(t)'
    PROVE  OrderInv'
<1>1. Synced' /\ LockHeld' /\ ~segv'
  BY LocksKept DEF OrderInv, Synced
<1> QED
  BY <1>1, DataKept DEF OrderInv

(* A step that writes the links of t's element, or, when t holds the lock, *)
(* those of the nodes of its list.                                         *)
LEMMA WriteKept ==
    ASSUME Inv, OrderInv, Synced, NEW t \in Thread,
           Fn(t) \in {"insert", "delete"}, pc[t] # "idle",
           UNCHANGED <<key, sync_opt, lock, segv>>, OthersStay(t),
           \A x \in Node : x # Arg(t) /\ (x \in OnList(call[t].bin) => ~Holding(t)) =>
                             next'[x] = next[x] /\ prev'[x] = prev[x],
           \A e \in Elem : (e \in linked' <=> e \in linked) \/ (e = Arg(t) /\ Holding(t)),
           linked' \subseteq Elem,
           Holding(t) => Holding(t)' /\ call'[t].bin = call[t].bin,
           Holding(t) => Sorted(call[t].bin)' /\ Backs(call[t].bin)',
           ~Holding(t) => Arg(t) \notin linked /\ pc[t] \notin MoveLabels,
           CallOK(t)'
    PROVE  OrderInv'
<1> DEFINE c == call[t].bin
<1>1. Synced' /\ LockHeld' /\ ~segv'
  BY LocksKept DEF OrderInv, Synced
<1>2. /\ Arg(t) \in Elem /\ Owner[Arg(t)] = t /\ BinOf[key[Arg(t)]] = c /\ c \in Bin
  BY CallFacts
<1>3. ASSUME NEW b \in Bin, Holding(t) => b # c
      PROVE  /\ InBin(b)' = InBin(b) /\ Arg(t) \notin OnList(b)
             /\ \A x \in OnList(b) : next'[x] = next[x] /\ prev'[x] = prev[x]
  <2>1. InBin(b)' = InBin(b)
    BY <1>2, <1>3 DEF InBin, Inv, TypeOK
  <2>2. Arg(t) \notin OnList(b)
    BY <1>2, <1>3, NodeFacts DEF OnList, InBin, Inv
  <2>3. \A x \in OnList(b) : x \in Node /\ (Holding(t) => x \notin OnList(c))
    BY <1>2, <1>3, NodeFacts DEF Inv
  <2> QED
    BY <2>1, <2>2, <2>3
<1>4. ASSUME NEW u \in Thread \ {t} PROVE CallOK(u)'
  <2>1. CallOK(u)
    BY DEF OrderInv
  <2>2. Fn(u) \in {"insert", "delete"} =>
          /\ Arg(u) \in Elem /\ Arg(u) # Arg(t)
          /\ BinOf[key[Arg(u)]] = call[u].bin
          /\ (Arg(u) \in linked' <=> Arg(u) \in linked)
    <3>1. Fn(u) \in {"insert", "delete"} => pc[u] # "idle"
      BY DEF Inv, Shape
    <3> QED
      BY <1>2, <3>1, CallFacts
  <2>holding. ASSUME Holding(u)
        PROVE  /\ call[u].bin \in Bin /\ Sorted(call[u].bin)
               /\ Holding(t) => call[u].bin # c
    <3>1. pc[u] # "idle"
      BY <2>holding DEF Holding
    <3>2. Holding(t) => call[u].bin # c
      BY <2>holding DEF Inv, LockOK
    <3> QED
      BY <3>1, <3>2, CallFacts
  <2>4. ASSUME Holding(u), Fn(u) \in {"insert", "delete"}
        PROVE  next'[Arg(u)] = next[Arg(u)] /\ prev'[Arg(u)] = prev[Arg(u)]
    <3>1. Holding(t) => Arg(u) \notin OnList(c)
      BY <1>2, <2>2, <2>holding, <2>4, NodeFacts DEF Inv, OnList, InBin
    <3> QED
      BY <2>2, <2>4, <3>1 DEF Node
  <2>5. Holding(u) => InBin(call[u].bin)' = InBin(call[u].bin)
    <3>1. call'[u] = call[u]
      BY DEF OthersStay
    <3> QED
      BY <1>3, <2>holding, <3>1 DEF InBin
  <2> QED
    BY <1>3, <2>1, <2>2, <2>holding, <2>4, <2>5, CallKept DEF OthersStay
<1>5. ASSUME NEW b \in Bin, Holding(t) => b # c PROVE Sorted(b)' /\ Backs(b)'
  <2>1. ASSUME NEW u \in Thread, NEW e \in InBin(b), Moving(u, b, e) PROVE Moving(u, b, e)'
    <3>1. u # t
      BY <1>5, <2>1 DEF Moving, Holding, MoveLabels, Labels
    <3>2. Holding(u) /\ pc[u] # "idle" /\ call[u].bin = b
      BY <2>1 DEF Moving, Holding, Labels
    <3>3. pc[u] \in WalkLabels => it[u] \in OnList(b)
      BY <3>2, CallFacts DEF CallOK, Walk
    <3>4. pc[u] = "fixback" => Arg(u) \in Node /\ Arg(u) # Arg(t)
                               /\ (Holding(t) => Arg(u) \notin OnList(c))
      <4>1. pc[u] = "fixback" => Fn(u) = "delete"
        BY DEF Inv, Shape, DeleteLabels
      <4> QED
        BY <1>2, <1>5, <3>1, <3>2, <4>1, CallFacts, NodeFacts DEF Inv, OnList, InBin
    <3> QED
      BY <1>3, <1>5, <2>1, <3>1, <3>3, <3>4
         DEF Moving, OthersStay, WalkLabels, InsertLabels, Arg
  <2>2. \A u \in Thread, e \in InBin(b) : Moving(u, b, e) => Moving(u, b, e)'
    BY <2>1
  <2>3. /\ InBin(b)' = InBin(b) /\ key' = key
        /\ \A x \in OnList(b) : next'[x] = next[x]
        /\ \A e \in InBin(b) : prev'[e] = prev[e]
    BY <1>3, <1>5 DEF OnList
  <2>4. Sorted(b) /\ Backs(b)
    BY DEF OrderInv
  <2> QED
    BY <2>2, <2>3, <2>4, BinKept
<1>6. ASSUME NEW b \in Bin PROVE Sorted(b)' /\ Backs(b)'
  BY <1>5
<1> QED
  BY <1>1, <1>4, <1>6 DEF OrderInv

-----------------------------------------------------------------------------
(* The count of the loops.                                                 *)

LEMMA PassedFinite ==
    ASSUME TypeOK, NEW b \in Bin, NEW x
    PROVE  /\ IsFiniteSet(InBin(b)) /\ IsFiniteSet(Passed(b, x))
           /\ Cardinality(Passed(b, x)) \in Nat
           /\ Cardinality(Passed(b, x)) <= Cardinality(InBin(b))
           /\ Cardinality(InBin(b)) \in Nat /\ Cardinality(InBin(b)) <= NumElements
<1>1. InBin(b) \in SUBSET Elem /\ Passed(b, x) \in SUBSET InBin(b)
  BY NodeFacts DEF Passed
<1>2. IsFiniteSet(InBin(b)) /\ Cardinality(InBin(b)) <= Cardinality(Elem)
  BY <1>1, NodeAssumption, FS_Subset
<1>3. IsFiniteSet(Passed(b, x)) /\ Cardinality(Passed(b, x)) <= Cardinality(InBin(b))
  BY <1>1, <1>2, FS_Subset
<1>4. /\ Cardinality(Elem) \in Nat /\ Cardinality(InBin(b)) \in Nat
      /\ Cardinality(Passed(b, x)) \in Nat
  BY <1>2, <1>3, NodeAssumption, FS_CardinalityType
<1> QED
  BY <1>2, <1>3, <1>4, LimitAssumption

LEMMA PassedHead ==
    ASSUME TypeOK, NEW b \in Bin
    PROVE  Passed(b, list[b]) = {} /\ Cardinality(Passed(b, list[b])) = 0
<1>1. Passed(b, list[b]) = {}
  BY NodeFacts DEF Passed
<1> QED
  BY <1>1, FS_EmptySet

(* Walking on to the successor passes exactly one more element.            *)
LEMMA PassedNext ==
    ASSUME TypeOK, NEW b \in Bin, Sorted(b), NEW x \in OnList(b), next[x] # Null
    PROVE  /\ next[x] \in InBin(b)
           /\ Passed(b, next[x]) = Passed(b, x) \cup {next[x]}
           /\ Cardinality(Passed(b, next[x])) = Cardinality(Passed(b, x)) + 1
           /\ Cardinality(Passed(b, x)) < NumElements
<1> DEFINE y == next[x]
<1>1. /\ y \in InBin(b) /\ After(x, y)
      /\ \A e \in InBin(b) : After(x, e) => key[y] <= key[e]
  BY DEF Sorted, SortedAt
<1>2. /\ key \in [Elem -> Int] /\ InBin(b) \subseteq Elem
      /\ \A e, f \in Elem : key[e] = key[f] => e = f
      /\ x \in Elem \/ x = list[b]
      /\ list[b] \notin Elem
  BY NodeFacts DEF OnList
<1>3. \A e \in InBin(b) : key[e] <= key[y] => e = y \/ (x \in Elem /\ key[e] <= key[x])
  BY <1>1, <1>2 DEF After
<1>4. \A e \in InBin(b) : x \in Elem /\ key[e] <= key[x] => key[e] < key[y]
  BY <1>1, <1>2 DEF After
<1>5. Passed(b, y) = Passed(b, x) \cup {y} /\ y \notin Passed(b, x)
  BY <1>1, <1>2, <1>3, <1>4 DEF Passed
<1>6. Cardinality(Passed(b, y)) = Cardinality(Passed(b, x)) + 1
  BY <1>5, PassedFinite, FS_AddElement
<1> QED
  BY <1>1, <1>5, <1>6, PassedFinite, LimitAssumption

(* A loop at the end of its list has passed every element of it.           *)
LEMMA PassedAll ==
    ASSUME TypeOK, NEW b \in Bin, Sorted(b), NEW x \in OnList(b), next[x] = Null
    PROVE  Passed(b, x) = InBin(b)
<1>1. \A e \in InBin(b) : ~After(x, e)
  BY NodeFacts DEF Sorted, SortedAt
<1> QED
  BY <1>1, NodeFacts DEF Passed, After, OnList

-----------------------------------------------------------------------------
(* One lemma per group of actions.                                         *)

LEMMA OrderInit == Init => OrderInv
<1> SUFFICES ASSUME Init PROVE OrderInv
  OBVIOUS
<1>1. Inv
  BY InitInv
<1>2. LockHeld
  BY DEF Init, LockHeld
<1>3. ASSUME NEW b \in Bin PROVE Sorted(b) /\ Backs(b)
  <2>1. InBin(b) = {} /\ OnList(b) \subseteq Node /\ \A x \in Node : next[x] = Null
    BY <1>1, NodeFacts DEF Init, Inv, InBin
  <2> QED
    BY <2>1 DEF Sorted, SortedAt, Backs
<1>4. ASSUME NEW t \in Thread PROVE CallOK(t)
  BY DEF Init, CallOK, Linked, Walk, Insert, Delete, Fn, Set!NoCall, WalkLabels,
         InsertLabels, LoopLabels
<1> QED
  BY <1>2, <1>3, <1>4 DEF Init, OrderInv

(* Without a lock nothing is promised of the lists, and no lock is taken.  *)
LEMMA OrderUnsynced ==
    ASSUME OrderInv, ~Synced, Next
    PROVE  OrderInv'
<1>1. sync_opt' = sync_opt /\ lock' = lock
  <2>1. ASSUME NEW t \in Thread, NEW c \in MayCall(t), Invoke(t, c)
        PROVE  sync_opt' = sync_opt /\ lock' = lock
    BY <2>1 DEF Invoke, fixed
  <2>2. ASSUME NEW t \in Thread, Step(t)
        PROVE  sync_opt' = sync_opt /\ lock' = lock
    BY <2>2
       DEF Step, SetLock, ReleaseLock, WhileNext, Compare, CheckBack, Advance,
           LookupResult, Place, FixSuccessor, SetElementNext, SetElementPrev, Link,
           CheckHead, CheckPrev, CheckNext, TestLast, CutLast, Unlink, FixBack,
           ClearNext, ClearPrev, Fault, Jump, SetNext, SetPrev, Result, Corrupted, fixed
  <2> QED
    BY <2>1, <2>2 DEF Next
<1> QED
  BY <1>1 DEF OrderInv, LockHeld, Synced

LEMMA OrderInvoke ==
    ASSUME Inv, OrderInv, Synced, NEW t \in Thread, NEW c \in MayCall(t), ~segv,
           Invoke(t, c)
    PROVE  OrderInv'
<1>1. /\ pc[t] = "idle"
      /\ pc' = [pc EXCEPT ![t] = "lock"]
      /\ call' = [call EXCEPT ![t] = c]
      /\ it' = [it EXCEPT ![t] = IF c.fn = "delete" THEN Null ELSE list[c.bin]]
      /\ UNCHANGED <<next, prev, linked, key, sync_opt, lock, limiter, segv>>
  BY DEF Invoke, Goto, links, fixed
<1>2. c \in Set!Calls(t)
  BY DEF MayCall
<1>3. /\ c.fn \in {"insert", "delete"} => Owner[c.arg] = t /\ BinOf[key[c.arg]] = c.bin
      /\ c.fn = "insert" => c.arg \notin linked
      /\ c.fn = "delete" => c.arg \in linked
  BY <1>2 DEF Set!Calls, Set!Call
<1>4. pc'[t] = "lock" /\ call'[t] = c /\ limiter'[t] = limiter[t]
      /\ (c.fn # "delete" => it'[t] = list[c.bin])
  BY <1>1 DEF Inv, TypeOK
<1>5. limiter[t] = 0
  BY <1>1 DEF OrderInv, CallOK, Walk
<1>6. CallOK(t)'
  BY <1>1, <1>3, <1>4, <1>5
     DEF CallOK, Linked, Walk, Insert, Delete, Fn, Arg, WalkLabels, InsertLabels, LoopLabels
<1>7. ~Holding(t) /\ pc[t] \notin MoveLabels
  BY <1>1 DEF Holding, MoveLabels
<1> QED
  BY <1>1, <1>6, <1>7, LocalKept DEF OthersStay

(* Taking the lock: the thread's list may have changed since it called,    *)
(* its element has not.                                                    *)
LEMMA OrderSetLock ==
    ASSUME Inv, OrderInv, Synced, NEW t \in Thread, SetLock(t)
    PROVE  OrderInv'
<1>1. /\ pc[t] = "lock"
      /\ pc' = [pc EXCEPT ![t] = Entry(Fn(t))]
      /\ lock' = [lock EXCEPT ![call[t].bin] = 1]
      /\ UNCHANGED <<next, prev, linked, key, sync_opt, call, it, limiter, ret, segv>>
  BY DEF SetLock, Goto, links, fixed, locals
<1>2. /\ Fn(t) \in {"insert", "delete", "lookup", "length"}
      /\ call[t].bin \in Bin /\ CallOK(t)
  BY <1>1, CallFacts
<1>3. Entry(Fn(t)) = IF Fn(t) = "delete" THEN "checkhead" ELSE "while"
  BY DEF Entry
<1>4. pc'[t] = Entry(Fn(t))
  BY <1>1 DEF Inv, TypeOK
<1>5. Synced' /\ ~segv'
  BY <1>1 DEF OrderInv, Synced
<1>6. LockHeld'
  <2>1. Holding(t)'
    BY <1>3, <1>4 DEF Holding, Labels
  <2>2. \A u \in Thread \ {t} : Holding(u) => Holding(u)'
    BY <1>1 DEF Holding
  <2> QED
    BY <1>1, <1>5, <2>1, <2>2 DEF OrderInv, LockHeld, Inv, TypeOK, Holding
<1>7. /\ \A b \in Bin : Sorted(b)' /\ Backs(b)'
      /\ \A u \in Thread \ {t} : CallOK(u)'
  BY <1>1, DataKept DEF OthersStay, MoveLabels
<1>8. CallOK(t)'
  <2>1. Linked(t)'
    BY <1>1, <1>2, <1>3, <1>4 DEF CallOK, Linked, Fn, Arg
  <2>2. Walk(t)'
    <3>0. PICK b \in Bin : b = call[t].bin
      BY <1>2
    <3>1. Fn(t) # "delete" => it[t] = list[b] /\ limiter[t] = 0
      BY <1>1, <1>2, <3>0 DEF CallOK, Walk
    <3>2. /\ Passed(b, list[b])' = {}
          /\ Passed(b, list[b]) = {} /\ Cardinality({}) = 0
      BY <1>1, PassedHead, FS_EmptySet DEF Inv, Passed, InBin
    <3>3. list[b] \in OnList(b)'  /\ list[b] \notin Elem
      BY NodeFacts DEF OnList, Inv
    <3>4. pc'[t] # "while" => Fn(t)' = "delete" /\ pc'[t] = "checkhead"
      BY <1>1, <1>2, <1>3, <1>4 DEF Fn
    <3>5. (call[t].bin)' = b /\ it'[t] = it[t] /\ limiter'[t] = limiter[t] /\ Fn(t)' = Fn(t)
      BY <1>1, <3>0 DEF Fn
    <3>6. CASE Fn(t) = "delete"
      BY <1>3, <1>4, <3>6 DEF Walk, WalkLabels, InsertLabels, LoopLabels
    <3>7. CASE Fn(t) # "delete"
      <4>1. it'[t] = list[b] /\ limiter'[t] = 0 /\ pc'[t] = "while"
        BY <1>3, <1>4, <3>1, <3>5, <3>7
      <4>2. Passed(b, list[b])' = {} /\ After(list[b], Arg(t))'
        BY <3>2, <3>3 DEF After
      <4> QED
        BY <3>2, <3>3, <3>5, <4>1, <4>2 DEF Walk, WalkLabels, InsertLabels, LoopLabels
    <3> QED
      BY <3>6, <3>7
  <2>3. Insert(t)' /\ Delete(t)'
    BY <1>3, <1>4 DEF Insert, Delete, InsertLabels
  <2> QED
    BY <2>1, <2>2, <2>3 DEF CallOK
<1> QED
  BY <1>5, <1>6, <1>7, <1>8 DEF OrderInv

LEMMA OrderReleaseLock ==
    ASSUME Inv, OrderInv, Synced, NEW t \in Thread, ReleaseLock(t)
    PROVE  OrderInv'
<1>1. /\ pc[t] = "unlock"
      /\ lock' = [lock EXCEPT ![call[t].bin] = 0]
      /\ UNCHANGED <<next, prev, linked, key, sync_opt, segv>>
  BY DEF ReleaseLock, links, fixed
<1>2. /\ Fn(t) \in {"insert", "delete", "lookup", "length"}
      /\ call[t].bin \in Bin /\ CallOK(t)
  BY <1>1, CallFacts
<1>3. CallOK(t)' /\ ~Holding(t)' /\ OthersStay(t)
  <2>1. CASE Fn(t) = "delete"
    <3>1. pc' = [pc EXCEPT ![t] = "clearnext"] /\ UNCHANGED <<call, it, limiter>>
      BY <2>1 DEF ReleaseLock, Goto, locals
    <3>2. pc'[t] = "clearnext"
      BY <3>1 DEF Inv, TypeOK
    <3>3. CallOK(t)' /\ ~Holding(t)'
      BY <1>1, <1>2, <2>1, <3>1, <3>2
         DEF CallOK, Linked, Walk, Insert, Delete, Fn, Arg, Holding, WalkLabels,
             InsertLabels, LoopLabels
    <3> QED
      BY <3>1, <3>3 DEF OthersStay
  <2>2. CASE Fn(t) # "delete"
    <3>1. /\ pc' = [pc EXCEPT ![t] = "idle"]
          /\ call' = [call EXCEPT ![t] = Set!NoCall]
          /\ it' = [it EXCEPT ![t] = Null]
          /\ limiter' = [limiter EXCEPT ![t] = 0]
      BY <2>2 DEF ReleaseLock, ReturnWith, Goto
    <3>2. pc'[t] = "idle" /\ call'[t] = Set!NoCall /\ limiter'[t] = 0
      BY <3>1 DEF Inv, TypeOK
    <3>3. CallOK(t)' /\ ~Holding(t)'
      BY <3>2
         DEF CallOK, Linked, Walk, Insert, Delete, Fn, Arg, Holding, WalkLabels,
             InsertLabels, LoopLabels, Set!NoCall
    <3> QED
      BY <3>1, <3>3 DEF OthersStay
  <2> QED
    BY <2>1, <2>2
<1>4. Synced' /\ ~segv'
  BY <1>1 DEF OrderInv, Synced
<1>5. LockHeld'
  <2>1. ASSUME NEW b \in Bin, lock'[b] = 1
        PROVE  \E u \in Thread : Holding(u)' /\ call'[u].bin = b
    <3>1. b # call[t].bin /\ lock[b] = 1
      BY <1>1, <1>2, <2>1 DEF Inv, TypeOK
    <3>2. PICK u \in Thread : Holding(u) /\ call[u].bin = b
      BY <3>1 DEF OrderInv, LockHeld
    <3>3. u # t /\ Holding(u)' /\ call'[u].bin = b
      BY <1>3, <3>1, <3>2 DEF OthersStay, Holding
    <3> QED
      BY <3>3
  <2> QED
    BY <1>4, <2>1 DEF LockHeld
<1> QED
  BY <1>1, <1>3, <1>4, <1>5, DataKept DEF OrderInv, MoveLabels

-----------------------------------------------------------------------------
(* The list as a thread inside a call finds it.                            *)

(* Only the thread inside a call moves the back pointers of its list.      *)
LEMMA BackExact ==
    ASSUME Inv, OrderInv, Synced, NEW t \in Thread, Holding(t), pc[t] \notin MoveLabels
    PROVE  /\ \A e \in InBin(call[t].bin) :
                prev[e] \in OnList(call[t].bin) /\ next[prev[e]] = e
           /\ \A x \in OnList(call[t].bin) : next[x] # Null => prev[next[x]] = x
<1> DEFINE b == call[t].bin
<1>1. b \in Bin /\ Sorted(b) /\ Backs(b)
  BY CallFacts DEF Holding
<1>2. \A u \in Thread : \A e : ~Moving(u, b, e)
  <2> SUFFICES ASSUME NEW u \in Thread, NEW e, Moving(u, b, e) PROVE FALSE
    OBVIOUS
  <2>1. Holding(u) /\ call[u].bin = b /\ pc[u] \in MoveLabels
    BY DEF Moving, Holding, Labels, MoveLabels
  <2> QED
    BY <2>1 DEF Inv, LockOK
<1>3. \A e \in InBin(b) : prev[e] \in OnList(b) /\ next[prev[e]] = e
  BY <1>1, <1>2 DEF Backs, BackAt
<1>4. ASSUME NEW x \in OnList(b), next[x] # Null PROVE prev[next[x]] = x
  <2>1. next[x] \in InBin(b)
    BY <1>1, <1>4 DEF Sorted, SortedAt
  <2>2. prev[next[x]] \in OnList(b) /\ next[prev[next[x]]] = next[x]
    BY <1>3, <2>1
  <2> QED
    BY <1>1, <1>4, <2>2, NextInjective DEF Inv
<1> QED
  BY <1>3, <1>4

(* A loop is inside its list, has counted what it passed, and stops at the *)
(* limit only where the list ends.                                         *)
LEMMA WalkFacts ==
    ASSUME Inv, OrderInv, Synced, NEW t \in Thread, pc[t] \in LoopLabels
    PROVE  LET b == call[t].bin
               x == it[t]
           IN  /\ b \in Bin /\ Sorted(b) /\ Holding(t) /\ CallOK(t)
               /\ x \in OnList(b) /\ x # Null /\ limiter[t] = Cardinality(Passed(b, x))
               /\ next[x] # Null =>
                    /\ limiter[t] < NumElements
                    /\ next[x] \in InBin(b) /\ After(x, next[x])
                    /\ prev[next[x]] = x
                    /\ Passed(b, next[x]) = Passed(b, x) \cup {next[x]}
                    /\ Cardinality(Passed(b, next[x])) = limiter[t] + 1
               /\ next[x] = Null => Passed(b, x) = InBin(b)
               /\ Fn(t) \in {"insert", "lookup", "length"}
<1> DEFINE b == call[t].bin
           x == it[t]
<1>1. b \in Bin /\ Sorted(b) /\ Holding(t) /\ CallOK(t) /\ pc[t] \notin MoveLabels
      /\ Fn(t) \in {"insert", "lookup", "length"}
  BY CallFacts DEF LoopLabels, Holding, Labels, MoveLabels, Inv, Shape, InsertLabels
<1>2. x \in OnList(b) /\ limiter[t] = Cardinality(Passed(b, x))
  BY <1>1 DEF CallOK, Walk, LoopLabels, WalkLabels, InsertLabels
<1>3. x # Null
  BY <1>1, <1>2, NodeFacts DEF Inv
<1>4. next[x] # Null => prev[next[x]] = x /\ After(x, next[x])
  BY <1>1, <1>2, BackExact DEF Sorted, SortedAt
<1> QED
  BY <1>1, <1>2, <1>3, <1>4, PassedNext, PassedAll DEF Inv

(* A step of a loop that stays on its node.                                *)
LEMMA LoopJump ==
    ASSUME Inv, OrderInv, Synced, NEW t \in Thread, pc[t] \in LoopLabels \ {"place"},
           NEW label \in {"compare", "checkback", "advance", "place", "result"},
           Jump(t, label),
           label \in {"compare", "checkback", "advance"} => next[it[t]] # Null,
           label = "advance" /\ Fn(t) # "length" => KeepsWalking(t, next[it[t]]),
           label = "place" => Fn(t) = "insert",
           label = "result" => Fn(t) = "lookup",
           label \in {"place", "result"} =>
             next[it[t]] = Null \/ ~KeepsWalking(t, next[it[t]])
    PROVE  OrderInv'
<1> DEFINE b == call[t].bin
           x == it[t]
<1>1. /\ pc' = [pc EXCEPT ![t] = label] /\ pc'[t] = label
      /\ UNCHANGED <<next, prev, linked, key, sync_opt, lock, call, it, limiter, ret, segv>>
  BY DEF Jump, Goto, links, fixed, locals, Inv, TypeOK
<1>2. pc[t] \notin MoveLabels /\ pc[t] # "idle" /\ Holding(t)'
  BY <1>1 DEF LoopLabels, MoveLabels, Holding, Labels
<1>3. /\ Fn(t)' = Fn(t) /\ Arg(t)' = Arg(t)
      /\ OnList(b)' = OnList(b) /\ Passed(b, x)' = Passed(b, x)
      /\ (After(x, Arg(t))' <=> After(x, Arg(t)))
      /\ (KeepsWalking(t, next[x])' <=> KeepsWalking(t, next[x]))
  BY <1>1 DEF Fn, Arg, OnList, InBin, Passed, After, KeepsWalking
<1>4. /\ x \in OnList(b) /\ limiter[t] = Cardinality(Passed(b, x)) /\ CallOK(t) /\ b \in Bin
      /\ next[x] # Null => next[x] \in InBin(b)
  BY WalkFacts
<1>5. Linked(t)'
  BY <1>1, <1>3, <1>4 DEF CallOK, Linked, LoopLabels, Inv, Shape, WalkLabels
<1>6. Walk(t)'
  BY <1>1, <1>3, <1>4
     DEF CallOK, Walk, KeepsWalking, LoopLabels, WalkLabels, InsertLabels
<1>7. Insert(t)'
  <2>1. CASE label = "place" /\ next[x] # Null
    <3>1. Arg(t) \in Elem /\ Arg(t) \notin linked /\ next[x] \in linked /\ next[x] \in Elem
      BY <1>2, <1>4, <2>1, CallFacts, NodeFacts
         DEF CallOK, Linked, InBin, LoopLabels, Inv
    <3>2. ~(key[next[x]] < key[Arg(t)]) /\ key[next[x]] # key[Arg(t)]
      BY <2>1, <3>1, NodeFacts DEF KeepsWalking, Inv
    <3>3. key[Arg(t)] < key[next[x]]
      BY <3>1, <3>2, NodeFacts DEF Inv
    <3> QED
      BY <1>1, <1>3, <2>1, <3>3 DEF Insert, InsertLabels
  <2>2. CASE ~(label = "place" /\ next[x] # Null)
    BY <1>1, <2>2 DEF Insert, InsertLabels
  <2> QED
    BY <2>1, <2>2
<1>8. Delete(t)'
  BY <1>1 DEF Delete
<1> QED
  BY <1>1, <1>2, <1>5, <1>6, <1>7, <1>8, LocalKept DEF OthersStay, CallOK

LEMMA OrderResult ==
    ASSUME Inv, OrderInv, Synced, NEW t \in Thread, pc[t] \in LoopLabels \ {"place"},
           NEW r, Result(t, r), Fn(t) # "insert"
    PROVE  OrderInv'
<1>1. /\ pc' = [pc EXCEPT ![t] = "unlock"] /\ pc'[t] = "unlock"
      /\ UNCHANGED <<next, prev, linked, key, sync_opt, lock, call, it, limiter, segv>>
  BY DEF Result, Goto, links, fixed, Inv, TypeOK
<1>2. pc[t] \notin MoveLabels /\ Holding(t)' /\ CallOK(t)
      /\ Fn(t) \in {"lookup", "length"} /\ Fn(t)' = Fn(t)
  BY <1>1, WalkFacts DEF LoopLabels, MoveLabels, Holding, Labels, Fn
<1>3. CallOK(t)'
  BY <1>1, <1>2
     DEF CallOK, Linked, Walk, Insert, Delete, WalkLabels, InsertLabels, LoopLabels
<1> QED
  BY <1>1, <1>2, <1>3, LocalKept DEF OthersStay

LEMMA OrderAdvance ==
    ASSUME Inv, OrderInv, Synced, NEW t \in Thread, Advance(t)
    PROVE  OrderInv'
<1>0. PICK b, x, y : b = call[t].bin /\ x = it[t] /\ y = next[x]
  OBVIOUS
<1>1. pc[t] = "advance" /\ pc[t] \in LoopLabels
  BY DEF Advance, LoopLabels
<1>2. /\ b \in Bin /\ CallOK(t) /\ Holding(t) /\ y # Null
      /\ limiter[t] < NumElements
      /\ y \in InBin(b) /\ y \in Elem
      /\ Passed(b, y) = Passed(b, x) \cup {y}
      /\ Cardinality(Passed(b, y)) = limiter[t] + 1
      /\ Fn(t) \in {"insert", "lookup", "length"}
  BY <1>0, <1>1, WalkFacts, NodeFacts DEF CallOK, Walk, Inv
<1>3. /\ it' = [it EXCEPT ![t] = y] /\ limiter' = [limiter EXCEPT ![t] = @ + 1]
      /\ pc' = [pc EXCEPT ![t] = "while"]
      /\ UNCHANGED <<next, prev, linked, key, sync_opt, lock, call, ret, segv>>
  <2>1. ~(limiter[t] >= NumElements)
    BY <1>2, LimitAssumption DEF Inv, TypeOK
  <2> QED
    BY <1>0, <2>1 DEF Advance, Goto, links, fixed
<1>4. it'[t] = y /\ limiter'[t] = limiter[t] + 1 /\ pc'[t] = "while"
  BY <1>3 DEF Inv, TypeOK
<1>5. /\ Fn(t)' = Fn(t) /\ Arg(t)' = Arg(t) /\ (call[t].bin)' = b
      /\ InBin(b)' = InBin(b) /\ OnList(b)' = OnList(b) /\ Passed(b, y)' = Passed(b, y)
  BY <1>0, <1>3 DEF Fn, Arg, OnList, InBin, Passed
<1>6. Linked(t)'
  BY <1>1, <1>2, <1>3, <1>4, <1>5 DEF CallOK, Linked
<1>7. Walk(t)'
  <2>1. Fn(t) = "insert" => After(y, Arg(t))'
    BY <1>0, <1>1, <1>2, <1>3, <1>5 DEF CallOK, Walk, KeepsWalking, After
  <2>2. Fn(t) = "lookup" => \A e \in Passed(b, y) : key'[e] # Arg(t)
    BY <1>0, <1>1, <1>2, <1>3 DEF CallOK, Walk, KeepsWalking, WalkLabels
  <2>3. y \in OnList(b)'
    BY <1>2, <1>5 DEF OnList
  <2>4. it'[t] = y /\ limiter'[t] = Cardinality(Passed(b, y)')
    BY <1>2, <1>4, <1>5
  <2> QED
    BY <1>4, <1>5, <2>1, <2>2, <2>3, <2>4 DEF Walk, InsertLabels
<1>8. Insert(t)' /\ Delete(t)'
  BY <1>4 DEF Insert, Delete, InsertLabels
<1>9. pc[t] \notin MoveLabels /\ Holding(t)'
  BY <1>1, <1>4 DEF MoveLabels, Holding, Labels
<1> QED
  BY <1>3, <1>6, <1>7, <1>8, <1>9, LocalKept DEF OthersStay, CallOK

(* length never finds the list corrupted, and lookup stops at the limit    *)
(* only where the list ends.                                               *)
LEMMA OrderWalk ==
    ASSUME Inv, OrderInv, Synced, NEW t \in Thread,
           WhileNext(t) \/ Compare(t) \/ CheckBack(t) \/ Advance(t) \/ LookupResult(t)
    PROVE  OrderInv'
<1>1. CASE WhileNext(t)
  <2>1. pc[t] = "while" /\ pc[t] \in LoopLabels \ {"place"}
    BY <1>1 DEF WhileNext, LoopLabels
  <2>2. Fn(t) \in {"insert", "lookup", "length"}
    BY <2>1, WalkFacts
  <2>3. CASE next[it[t]] = Null /\ Fn(t) = "length"
    BY <1>1, <2>1, <2>3, OrderResult DEF WhileNext
  <2>4. CASE next[it[t]] = Null /\ Fn(t) # "length"
    BY <1>1, <2>1, <2>2, <2>4, LoopJump DEF WhileNext, LoopEnd
  <2>5. CASE next[it[t]] # Null
    BY <1>1, <2>1, <2>2, <2>5, LoopJump DEF WhileNext
  <2> QED
    BY <2>3, <2>4, <2>5
<1>2. CASE Compare(t)
  <2>1. pc[t] = "compare" /\ pc[t] \in LoopLabels \ {"place"} /\ next[it[t]] # Null
        /\ Fn(t) \in {"insert", "lookup"}
    BY <1>2 DEF Compare, LoopLabels, Inv, Shape
  <2> QED
    BY <1>2, <2>1, LoopJump DEF Compare, LoopEnd
<1>3. CASE CheckBack(t)
  <2>1. pc[t] = "checkback" /\ pc[t] \in LoopLabels \ {"place"} /\ next[it[t]] # Null
        /\ Fn(t) = "length"
    BY <1>3 DEF CheckBack, LoopLabels, Inv, Shape
  <2>2. prev[next[it[t]]] = it[t]
    BY <2>1, WalkFacts
  <2> QED
    BY <1>3, <2>1, <2>2, LoopJump DEF CheckBack
<1>4. CASE LookupResult(t)
  <2>1. pc[t] = "result" /\ pc[t] \in LoopLabels \ {"place"} /\ Fn(t) = "lookup"
    BY <1>4 DEF LookupResult, LoopLabels, Inv, Shape
  <2> QED
    BY <1>4, <2>1, OrderResult DEF LookupResult
<1> QED
  BY <1>1, <1>2, <1>3, <1>4, OrderAdvance

-----------------------------------------------------------------------------
(* insert after its loop.                                                  *)

LEMMA InsertFacts ==
    ASSUME Inv, OrderInv, Synced, NEW t \in Thread, pc[t] \in InsertLabels
    PROVE  LET b == call[t].bin
               x == it[t]
               a == Arg(t)
           IN  /\ b \in Bin /\ Sorted(b) /\ Backs(b) /\ Holding(t) /\ CallOK(t)
               /\ Fn(t) = "insert"
               /\ x \in OnList(b) /\ x \in Node
               /\ a \in Elem /\ a \in Node /\ a \notin linked /\ a \notin OnList(b) /\ a # x
               /\ BinOf[key[a]] = b /\ After(x, a)
               /\ next[x] # Null => /\ next[x] \in InBin(b) /\ next[x] \in Node
                                    /\ After(x, next[x]) /\ key[a] < key[next[x]]
<1> DEFINE b == call[t].bin
           x == it[t]
           a == Arg(t)
<1>1. /\ Fn(t) = "insert" /\ pc[t] \in WalkLabels /\ pc[t] \notin {"idle", "unlock"}
      /\ Holding(t)
  BY DEF Inv, Shape, WalkLabels, InsertLabels, Holding, Labels
<1>2. /\ b \in Bin /\ CallOK(t) /\ Sorted(b) /\ Backs(b)
      /\ a \in Elem /\ a \in Node /\ BinOf[key[a]] = b /\ a \notin linked
  BY <1>1, CallFacts DEF CallOK, Linked
<1>3. x \in OnList(b) /\ After(x, a)
  BY <1>1, <1>2 DEF CallOK, Walk
<1>4. a \notin OnList(b) /\ x \in Node
  BY <1>2, <1>3, NodeFacts DEF OnList, InBin, Inv
<1>5. next[x] # Null => next[x] \in InBin(b) /\ After(x, next[x]) /\ key[a] < key[next[x]]
  BY <1>2, <1>3 DEF Sorted, SortedAt, CallOK, Insert
<1> QED
  BY <1>1, <1>2, <1>3, <1>4, <1>5, NodeFacts DEF OnList, Inv

(* Every statement up to the last keeps the successor of the place found.  *)
LEMMA InsertWalk ==
    ASSUME Inv, OrderInv, Synced, NEW t \in Thread, pc[t] \in InsertLabels,
           UNCHANGED <<key, linked, call, it>>, next'[it[t]] = next[it[t]],
           pc'[t] \in {"fixsucc", "setnext", "setprev", "link"},
           pc'[t] \in {"fixsucc", "setnext"} => next[it[t]] # Null
    PROVE  Linked(t)' /\ Walk(t)' /\ Delete(t)'
<1>1. /\ Fn(t)' = "insert" /\ Arg(t)' = Arg(t) /\ call[t].bin' = call[t].bin
      /\ OnList(call[t].bin)' = OnList(call[t].bin)
      /\ After(it[t], Arg(t))' /\ it[t] \in OnList(call[t].bin)
      /\ CallOK(t) /\ Fn(t) = "insert"
  BY InsertFacts DEF Fn, Arg, OnList, InBin, After
<1>2. Linked(t)'
  BY <1>1, InsertFacts DEF CallOK, Linked
<1>3. Walk(t)' /\ Delete(t)'
  BY <1>1 DEF Walk, Delete, LoopLabels, InsertLabels
<1> QED
  BY <1>2, <1>3

(* Writing the links of the element that is not in the list yet.           *)
LEMMA ElementWrite ==
    ASSUME Inv, OrderInv, Synced, NEW t \in Thread, pc[t] \in InsertLabels \ {"fixsucc"},
           UNCHANGED <<key, linked, sync_opt, lock, segv, call, it, limiter>>,
           OthersStay(t), pc'[t] \in {"setprev", "link"},
           \A x \in Node \ {Arg(t)} : next'[x] = next[x] /\ prev'[x] = prev[x],
           Insert(t)'
    PROVE  OrderInv'
<1> DEFINE b == call[t].bin
<1>1. /\ b \in Bin /\ Sorted(b) /\ Backs(b) /\ Holding(t) /\ Fn(t) = "insert"
      /\ Arg(t) \notin OnList(b) /\ it[t] \in OnList(b) /\ it[t] # Arg(t) /\ it[t] \in Node
  BY InsertFacts
<1>2. next'[it[t]] = next[it[t]]
  BY <1>1
<1>3. InBin(b)' = InBin(b)
  BY DEF InBin
<1>4. \A x \in OnList(b) : next'[x] = next[x] /\ prev'[x] = prev[x]
  BY <1>1, NodeFacts DEF Inv
<1>5. ASSUME NEW u \in Thread, NEW e \in InBin(b), Moving(u, b, e) PROVE Moving(u, b, e)'
  <2>1. Holding(u) /\ call[u].bin = b
    BY <1>5 DEF Moving, Holding, Labels
  <2>2. u = t
    BY <1>1, <2>1 DEF Inv, LockOK
  <2> QED
    BY <1>1, <1>2, <1>5, <2>2 DEF Moving, Inv, Shape, DeleteLabels
<1>6. Sorted(b)' /\ Backs(b)'
  BY <1>1, <1>3, <1>4, <1>5, BinKept DEF OnList
<1>7. Linked(t)' /\ Walk(t)' /\ Delete(t)'
  BY <1>2, InsertWalk
<1>8. Holding(t)' /\ pc[t] # "idle"
  BY DEF Holding, Labels, InsertLabels
<1>9. linked' \subseteq Elem
  BY DEF Inv, TypeOK
<1> QED
  BY <1>1, <1>6, <1>7, <1>8, <1>9, WriteKept DEF CallOK

LEMMA OrderPlace ==
    ASSUME Inv, OrderInv, Synced, NEW t \in Thread, Place(t)
    PROVE  OrderInv'
<1>1. pc[t] = "place" /\ pc[t] \in InsertLabels \ {"fixsucc"} /\ pc[t] \in LoopLabels
  BY DEF Place, InsertLabels, LoopLabels
<1>2. next[it[t]] = Null \/ limiter[t] = NumElements <=> next[it[t]] = Null
  BY <1>1, WalkFacts, LimitAssumption DEF Inv, TypeOK
<1>3. CASE next[it[t]] = Null
  <2>1. /\ next' = [next EXCEPT ![Arg(t)] = Null] /\ pc' = [pc EXCEPT ![t] = "setprev"]
        /\ UNCHANGED <<prev, linked, key, sync_opt, lock, call, it, limiter, ret, segv>>
    BY <1>2, <1>3 DEF Place, SetNext, Goto, fixed, locals
  <2>2. /\ pc'[t] = "setprev" /\ next'[Arg(t)] = Null /\ next'[it[t]] = Null
        /\ \A x \in Node \ {Arg(t)} : next'[x] = next[x]
    BY <1>1, <1>3, <2>1, InsertFacts DEF Inv, TypeOK
  <2>3. Insert(t)'
    BY <2>1, <2>2 DEF Insert, Arg
  <2> QED
    BY <1>1, <2>1, <2>2, <2>3, ElementWrite DEF OthersStay
<1>4. CASE next[it[t]] # Null
  <2>1. /\ pc' = [pc EXCEPT ![t] = "fixsucc"]
        /\ UNCHANGED <<next, prev, linked, key, sync_opt, lock, call, it, limiter, ret, segv>>
    BY <1>2, <1>4 DEF Place, Jump, Goto, links, fixed, locals
  <2>2. pc'[t] = "fixsucc" /\ next'[it[t]] = next[it[t]] /\ pc[t] \notin MoveLabels
        /\ Holding(t)'
    BY <1>1, <2>1 DEF Inv, TypeOK, MoveLabels, Holding, Labels
  <2>linked. Linked(t)' /\ Walk(t)' /\ Delete(t)'
    BY <1>1, <1>4, <2>1, <2>2, InsertWalk
  <2>4. Insert(t)'
    BY <1>1, <1>4, <2>1, <2>2, InsertFacts DEF Insert, Arg
  <2> QED
    BY <2>1, <2>2, <2>linked, <2>4, LocalKept DEF OthersStay, CallOK
<1> QED
  BY <1>3, <1>4

LEMMA OrderSetElementNext ==
    ASSUME Inv, OrderInv, Synced, NEW t \in Thread, SetElementNext(t)
    PROVE  OrderInv'
<1>1. pc[t] = "setnext" /\ pc[t] \in InsertLabels \ {"fixsucc"}
  BY DEF SetElementNext, InsertLabels
<1>2. /\ next' = [next EXCEPT ![Arg(t)] = next[it[t]]] /\ pc' = [pc EXCEPT ![t] = "setprev"]
      /\ UNCHANGED <<prev, linked, key, sync_opt, lock, call, it, limiter, ret, segv>>
  BY DEF SetElementNext, SetNext, Goto, fixed, locals
<1>3. /\ pc'[t] = "setprev" /\ next'[Arg(t)] = next[it[t]] /\ next'[it[t]] = next[it[t]]
      /\ \A x \in Node \ {Arg(t)} : next'[x] = next[x]
  BY <1>1, <1>2, InsertFacts DEF Inv, TypeOK
<1>4. Insert(t)'
  BY <1>1, <1>2, <1>3, InsertFacts DEF CallOK, Insert, Arg
<1> QED
  BY <1>1, <1>2, <1>3, <1>4, ElementWrite DEF OthersStay

LEMMA OrderSetElementPrev ==
    ASSUME Inv, OrderInv, Synced, NEW t \in Thread, SetElementPrev(t)
    PROVE  OrderInv'
<1>1. pc[t] = "setprev" /\ pc[t] \in InsertLabels \ {"fixsucc"}
  BY DEF SetElementPrev, InsertLabels
<1>2. /\ prev' = [prev EXCEPT ![Arg(t)] = it[t]] /\ pc' = [pc EXCEPT ![t] = "link"]
      /\ UNCHANGED <<next, linked, key, sync_opt, lock, call, it, limiter, ret, segv>>
  BY DEF SetElementPrev, SetPrev, Goto, fixed, locals
<1>3. /\ pc'[t] = "link" /\ prev'[Arg(t)] = it[t]
      /\ \A x \in Node \ {Arg(t)} : prev'[x] = prev[x]
  BY <1>1, <1>2, InsertFacts DEF Inv, TypeOK
<1>4. Insert(t)'
  <2>1. next[it[t]] # Null => prev'[next[it[t]]] = prev[next[it[t]]]
    BY <1>1, <1>3, InsertFacts DEF OnList
  <2> QED
    BY <1>1, <1>2, <1>3, <2>1, InsertFacts DEF CallOK, Insert, Arg
<1> QED
  BY <1>1, <1>2, <1>3, <1>4, ElementWrite DEF OthersStay

(* The one write of insert into the list before the element is in it.      *)
LEMMA OrderFixSuccessor ==
    ASSUME Inv, OrderInv, Synced, NEW t \in Thread, FixSuccessor(t)
    PROVE  OrderInv'
<1>0. PICK b, x, y, a : b = call[t].bin /\ x = it[t] /\ y = next[x] /\ a = Arg(t)
  OBVIOUS
<1>1. pc[t] = "fixsucc" /\ pc[t] \in InsertLabels /\ y # Null
  BY <1>0 DEF FixSuccessor, InsertLabels
<1>2. /\ prev' = [prev EXCEPT ![y] = a] /\ pc' = [pc EXCEPT ![t] = "setnext"]
      /\ UNCHANGED <<next, linked, key, sync_opt, lock, call, it, limiter, ret, segv>>
  BY <1>0 DEF FixSuccessor, SetPrev, Goto, fixed, locals
<1>3. /\ b \in Bin /\ Sorted(b) /\ Backs(b) /\ Holding(t) /\ Fn(t) = "insert"
      /\ y \in InBin(b) /\ y \in Node /\ y \in OnList(b) /\ key[a] < key[y]
  BY <1>0, <1>1, InsertFacts DEF OnList
<1>4. /\ pc'[t] = "setnext" /\ prev'[y] = a
      /\ \A z \in Node \ {y} : prev'[z] = prev[z]
  BY <1>2, <1>3 DEF Inv, TypeOK
<1>5. InBin(b)' = InBin(b) /\ OnList(b)' = OnList(b)
  BY <1>2 DEF InBin, OnList
<1>6. Sorted(b)'
  BY <1>2, <1>3, <1>5 DEF Sorted, SortedAt, After
<1>7. Backs(b)'
  <2>1. Moving(t, b, y)'
    BY <1>0, <1>2, <1>4 DEF Moving
  <2>2. ASSUME NEW e \in InBin(b), e # y PROVE BackAt(b, e)'
    <3>1. pc[t] \notin MoveLabels
      BY <1>1 DEF MoveLabels
    <3>2. prev[e] \in OnList(b) /\ next[prev[e]] = e
      BY <1>0, <1>3, <2>2, <3>1, BackExact
    <3>3. prev'[e] = prev[e]
      BY <1>3, <1>4, <2>2, NodeFacts DEF Inv, Node
    <3> QED
      BY <1>2, <1>5, <3>2, <3>3 DEF BackAt
  <2> QED
    BY <1>5, <2>1, <2>2 DEF Backs, BackAt
<1>8. Linked(t)' /\ Walk(t)' /\ Delete(t)'
  BY <1>0, <1>1, <1>2, <1>4, InsertWalk
<1>9. Insert(t)'
  BY <1>0, <1>2, <1>3, <1>4 DEF Insert, Arg
<1>10. Holding(t)' /\ pc[t] # "idle" /\ linked' \subseteq Elem
  BY <1>1, <1>2, <1>4 DEF Holding, Labels, Inv, TypeOK
<1> QED
  BY <1>0, <1>2, <1>3, <1>4, <1>6, <1>7, <1>8, <1>9, <1>10, WriteKept DEF OthersStay, CallOK

(* Linking an element between the place found and its successor keeps the  *)
(* list sorted.                                                            *)
LEMMA LinkSorted ==
    ASSUME TypeOK, NEW b \in Bin, Sorted(b), NEW x \in OnList(b), NEW a \in Elem,
           a \notin OnList(b), BinOf[key[a]] = b, After(x, a), next[a] = next[x],
           next[x] # Null => key[a] < key[next[x]],
           key' = key, linked' = linked \cup {a}, next' = [next EXCEPT ![x] = a]
    PROVE  Sorted(b)'
<1>1. /\ InBin(b)' = InBin(b) \cup {a} /\ OnList(b)' = OnList(b) \cup {a}
      /\ \A z, e : After(z, e)' <=> After(z, e)
  BY DEF InBin, OnList, After
<1>2. /\ key \in [Elem -> Int] /\ InBin(b) \subseteq Elem /\ list[b] \notin Elem
      /\ OnList(b) \subseteq Node /\ Null \notin Node /\ a \in Node /\ a # x
      /\ \A e, f \in Elem : key[e] = key[f] => e = f
  BY NodeFacts DEF Node
<1>3. next'[x] = a /\ \A z \in OnList(b) \cup {a} : z # x => next'[z] = next[z]
  BY <1>2 DEF TypeOK
<1>4. \A e \in InBin(b) : After(x, e) => next[x] # Null /\ key[next[x]] <= key[e]
  BY NodeFacts DEF Sorted, SortedAt
<1>5. next[x] # Null => next[x] \in InBin(b) /\ After(x, next[x])
  BY DEF Sorted, SortedAt
<1>6. SortedAt(b, x)'
  <2>1. \A e \in InBin(b) : After(x, e) => key[a] <= key[e]
    BY <1>2, <1>4, <1>5
  <2> QED
    BY <1>1, <1>2, <1>3, <2>1 DEF SortedAt
<1>7. SortedAt(b, a)'
  <2>1. \A e \in InBin(b) : After(a, e) => After(x, e)
    BY <1>2 DEF After, OnList
  <2>2. ~After(a, a)
    BY <1>2 DEF After
  <2>3. next[x] # Null => After(a, next[x])
    BY DEF After
  <2>4. next'[a] = next[x]
    BY <1>2, <1>3
  <2> QED
    BY <1>1, <1>4, <1>5, <2>1, <2>2, <2>3, <2>4 DEF SortedAt
<1>8. ASSUME NEW z \in OnList(b), z # x PROVE SortedAt(b, z)'
  <2>1. SortedAt(b, z) /\ next'[z] = next[z]
    BY <1>3, <1>8 DEF Sorted
  <2>2. CASE ~After(z, a)
    BY <1>1, <2>1, <2>2 DEF SortedAt
  <2>3. CASE After(z, a)
    <3>1. x \in Elem /\ x \in InBin(b) /\ After(z, x)
      <4>1. CASE z \in Elem /\ After(x, z)
        BY <1>2, <1>4, <1>5, <2>3, <4>1 DEF After, OnList
      <4>2. CASE ~(z \in Elem /\ After(x, z))
        BY <1>2, <1>8, <4>2 DEF After, OnList
      <4> QED
        BY <4>1, <4>2
    <3>2. next[z] \in InBin(b) /\ After(z, next[z]) /\ key[next[z]] <= key[x]
          /\ \A e \in InBin(b) : After(z, e) => key[next[z]] <= key[e]
      BY <2>1, <3>1 DEF SortedAt
    <3>3. key[next[z]] <= key[a]
      BY <1>2, <3>1, <3>2 DEF After
    <3> QED
      BY <1>1, <2>1, <3>2, <3>3 DEF SortedAt
  <2> QED
    BY <2>2, <2>3
<1> QED
  BY <1>1, <1>6, <1>7, <1>8 DEF Sorted

LEMMA OrderLink ==
    ASSUME Inv, OrderInv, Synced, NEW t \in Thread, Link(t)
    PROVE  OrderInv'
<1>0. PICK b, x, a : b = call[t].bin /\ x = it[t] /\ a = Arg(t)
  OBVIOUS
<1>1. pc[t] = "link" /\ pc[t] \in InsertLabels
  BY DEF Link, InsertLabels
<1>2. /\ next' = [next EXCEPT ![x] = a] /\ pc' = [pc EXCEPT ![t] = "unlock"]
      /\ linked' = linked \cup {a}
      /\ UNCHANGED <<prev, key, sync_opt, lock, call, it, limiter, ret, segv>>
  BY <1>0 DEF Link, SetNext, Goto, fixed, locals
<1>3. /\ b \in Bin /\ Sorted(b) /\ Backs(b) /\ Holding(t) /\ CallOK(t) /\ Fn(t) = "insert"
      /\ x \in OnList(b) /\ x \in Node /\ After(x, a)
      /\ a \in Elem /\ a \in Node /\ a \notin linked /\ a \notin OnList(b) /\ a # x
      /\ BinOf[key[a]] = b
      /\ next[x] # Null => next[x] \in InBin(b) /\ key[a] < key[next[x]]
  BY <1>0, <1>1, InsertFacts
<1>4. /\ prev[a] = x /\ next[a] = next[x]
      /\ next[x] # Null => prev[next[x]] = a
  BY <1>0, <1>1, <1>3 DEF CallOK, Insert
<1>5. /\ pc'[t] = "unlock" /\ next'[x] = a
      /\ \A z \in Node \ {x} : next'[z] = next[z]
  BY <1>2, <1>3 DEF Inv, TypeOK
<1>6. Sorted(b)'
  BY <1>2, <1>3, <1>4, LinkSorted DEF Inv
<1>7. Backs(b)'
  <2>1. InBin(b)' = InBin(b) \cup {a} /\ OnList(b)' = OnList(b) \cup {a}
    BY <1>2, <1>3 DEF InBin, OnList
  <2>2. BackAt(b, a)'
    BY <1>2, <1>3, <1>4, <1>5, <2>1 DEF BackAt
  <2>successor. ASSUME NEW e \in InBin(b), e = next[x] PROVE BackAt(b, e)'
    <3>1. e # Null
      BY <2>successor, NodeFacts, <1>3 DEF Inv
    <3> QED
      BY <1>2, <1>3, <1>4, <1>5, <2>1, <2>successor, <3>1 DEF BackAt
  <2>4. ASSUME NEW e \in InBin(b), e # next[x] PROVE BackAt(b, e)'
    <3>1. ~\E u \in Thread : Moving(u, b, e)
      <4> SUFFICES ASSUME NEW u \in Thread, Moving(u, b, e) PROVE FALSE
        OBVIOUS
      <4>1. Holding(u) /\ call[u].bin = b
        BY DEF Moving, Holding, Labels
      <4>2. u = t
        BY <1>0, <1>3, <4>1 DEF Inv, LockOK
      <4> QED
        BY <1>0, <1>1, <2>4, <4>2 DEF Moving
    <3>2. prev[e] \in OnList(b) /\ next[prev[e]] = e /\ prev[e] # x /\ prev[e] \in Node
      BY <1>3, <2>4, <3>1, NodeFacts DEF Backs, BackAt, Inv
    <3> QED
      BY <1>2, <1>5, <2>1, <3>2 DEF BackAt
  <2> QED
    BY <2>1, <2>2, <2>successor, <2>4 DEF Backs
<1>8. CallOK(t)'
  BY <1>0, <1>2, <1>3, <1>5
     DEF CallOK, Linked, Walk, Insert, Delete, Fn, Arg, WalkLabels, InsertLabels, LoopLabels
<1>9. Holding(t)' /\ pc[t] # "idle" /\ linked' \subseteq Elem
  BY <1>1, <1>2, <1>3, <1>5 DEF Holding, Labels, Inv, TypeOK
<1>10. /\ \A z \in Node : z # a /\ z \notin OnList(b) =>
                            next'[z] = next[z] /\ prev'[z] = prev[z]
       /\ \A e \in Elem : (e \in linked' <=> e \in linked) \/ e = a
  BY <1>2, <1>3, <1>5
<1> QED
  BY <1>0, <1>2, <1>3, <1>6, <1>7, <1>8, <1>9, <1>10, WriteKept DEF OthersStay

-----------------------------------------------------------------------------
(* delete.                                                                 *)

CheckLabels == {"checkhead", "checkprev", "checknext", "testlast", "cutlast", "unlink"}

(* The checks of delete hold of every linked element.                      *)
LEMMA DeleteFacts ==
    ASSUME Inv, OrderInv, Synced, NEW t \in Thread, pc[t] \in CheckLabels
    PROVE  LET b == call[t].bin
               a == Arg(t)
           IN  /\ b \in Bin /\ Sorted(b) /\ Backs(b) /\ Holding(t) /\ CallOK(t)
               /\ Fn(t) = "delete" /\ pc[t] \notin MoveLabels /\ pc[t] # "idle"
               /\ a \in Elem /\ a \in Node /\ a \in InBin(b)
               /\ prev[a] \in OnList(b) /\ prev[a] \in Node /\ prev[a] # Null
               /\ next[prev[a]] = a
               /\ next[a] # Null => next[a] \in InBin(b) /\ prev[next[a]] = a
               /\ prev[a] # a /\ next[a] # a
<1> DEFINE b == call[t].bin
           a == Arg(t)
<1>1. Fn(t) = "delete" /\ Holding(t) /\ pc[t] \notin MoveLabels /\ pc[t] # "idle"
  BY DEF CheckLabels, Inv, Shape, DeleteLabels, Holding, Labels, MoveLabels
<1>2. b \in Bin /\ CallOK(t) /\ Sorted(b) /\ Backs(b) /\ a \in Elem /\ a \in Node
      /\ BinOf[key[a]] = b
  BY <1>1, CallFacts
<1>3. a \in InBin(b)
  BY <1>1, <1>2 DEF CallOK, Linked, InBin, CheckLabels
<1>4. prev[a] \in OnList(b) /\ next[prev[a]] = a /\ (next[a] # Null => prev[next[a]] = a)
  BY <1>1, <1>3, BackExact DEF OnList
<1>5. next[a] # Null => next[a] \in InBin(b) /\ key[a] < key[next[a]]
  BY <1>2, <1>3 DEF Sorted, SortedAt, OnList, After
<1>6. a # Null /\ ~(key[a] < key[a])
  BY <1>2, NodeFacts DEF Inv
<1> QED
  BY <1>1, <1>2, <1>3, <1>4, <1>5, <1>6, NodeFacts DEF Inv

LEMMA DeleteJump ==
    ASSUME Inv, OrderInv, Synced, NEW t \in Thread, pc[t] \in CheckLabels,
           NEW label \in CheckLabels, Jump(t, label),
           label = "cutlast" => next[Arg(t)] = Null,
           label = "unlink" => next[Arg(t)] # Null
    PROVE  OrderInv'
<1>1. /\ pc' = [pc EXCEPT ![t] = label] /\ pc'[t] = label
      /\ UNCHANGED <<next, prev, linked, key, sync_opt, lock, call, it, limiter, ret, segv>>
  BY DEF Jump, Goto, links, fixed, locals, Inv, TypeOK
<1>2. CallOK(t) /\ Fn(t) = "delete" /\ pc[t] \notin MoveLabels /\ Arg(t) \in linked
  BY DeleteFacts DEF InBin
<1>3. CallOK(t)'
  BY <1>1, <1>2
     DEF CallOK, Linked, Walk, Insert, Delete, Fn, Arg, CheckLabels, WalkLabels,
         InsertLabels, LoopLabels
<1>4. Holding(t)'
  BY <1>1 DEF Holding, Labels, CheckLabels
<1> QED
  BY <1>1, <1>2, <1>3, <1>4, LocalKept DEF OthersStay

LEMMA OrderCheck ==
    ASSUME Inv, OrderInv, Synced, NEW t \in Thread,
           CheckHead(t) \/ CheckPrev(t) \/ CheckNext(t) \/ TestLast(t)
    PROVE  OrderInv'
<1>1. pc[t] \in CheckLabels
  BY DEF CheckHead, CheckPrev, CheckNext, TestLast, CheckLabels
<1>2. /\ prev[Arg(t)] # Null /\ next[prev[Arg(t)]] = Arg(t)
      /\ next[Arg(t)] # Null => prev[next[Arg(t)]] = Arg(t)
  BY <1>1, DeleteFacts
<1>3. \E label \in CheckLabels :
        /\ Jump(t, label)
        /\ label = "cutlast" => next[Arg(t)] = Null
        /\ label = "unlink" => next[Arg(t)] # Null
  BY <1>2 DEF CheckHead, CheckPrev, CheckNext, TestLast, CheckLabels
<1> QED
  BY <1>1, <1>3, DeleteJump

(* Taking an element out of a sorted list leaves it sorted.                *)
LEMMA UnlinkSorted ==
    ASSUME TypeOK, NEW b \in Bin, Sorted(b), NEW p \in OnList(b), NEW a \in InBin(b),
           next[p] = a, p # a,
           key' = key, linked' = linked \ {a}, next' = [next EXCEPT ![p] = next[a]]
    PROVE  Sorted(b)'
<1>1. /\ InBin(b)' = InBin(b) \ {a} /\ OnList(b)' = OnList(b) \ {a}
      /\ \A z, e : After(z, e)' <=> After(z, e)
  BY NodeFacts DEF InBin, OnList, After
<1>2. /\ key \in [Elem -> Int] /\ InBin(b) \subseteq Elem /\ list[b] \notin Elem
      /\ OnList(b) \subseteq Node /\ Null \notin Node /\ a \in OnList(b) /\ a # Null
      /\ \A e, f \in Elem : key[e] = key[f] => e = f
  BY NodeFacts DEF OnList
<1>3. next'[p] = next[a] /\ \A z \in OnList(b) : z # p => next'[z] = next[z]
  BY <1>2 DEF TypeOK
<1>4. /\ After(p, a)
      /\ \A e \in InBin(b) : After(p, e) => key[a] <= key[e]
  BY <1>2 DEF Sorted, SortedAt
<1>5. \A e \in InBin(b) \ {a} : After(p, e) => After(a, e)
  BY <1>2, <1>4 DEF After
<1>6. \A e \in InBin(b) : After(a, e) => After(p, e)
  BY <1>2, <1>4 DEF After, OnList
<1>7. SortedAt(b, p)'
  <2>1. SortedAt(b, a) /\ ~After(a, a)
    BY <1>2 DEF Sorted, After
  <2>2. next[a] # a
    BY <1>2, <2>1 DEF SortedAt
  <2> QED
    BY <1>1, <1>3, <1>5, <1>6, <2>1, <2>2 DEF SortedAt
<1>8. ASSUME NEW z \in OnList(b), z # p, z # a PROVE SortedAt(b, z)'
  <2>1. SortedAt(b, z) /\ next'[z] = next[z]
    BY <1>3, <1>8 DEF Sorted
  <2>2. next[z] # a
    BY <1>2, <1>8, NextInjective
  <2> QED
    BY <1>1, <2>1, <2>2 DEF SortedAt
<1> QED
  BY <1>1, <1>7, <1>8 DEF Sorted

(* The write that takes the element out, of the last element or of another *)
(* one, whose successor then has a stale back pointer.                     *)
LEMMA OrderCut ==
    ASSUME Inv, OrderInv, Synced, NEW t \in Thread, CutLast(t) \/ Unlink(t)
    PROVE  OrderInv'
<1>0. PICK b, a, p, n : b = call[t].bin /\ a = Arg(t) /\ p = prev[a] /\ n = next[a]
  OBVIOUS
<1>1. /\ pc[t] \in {"cutlast", "unlink"} /\ pc[t] \in CheckLabels
      /\ pc[t] = "cutlast" <=> n = Null
  <2>1. pc[t] \in {"cutlast", "unlink"} /\ pc[t] \in CheckLabels
    BY DEF CutLast, Unlink, CheckLabels
  <2> QED
    BY <1>0, <2>1, DeleteFacts DEF CallOK, Delete
<1>2. /\ next' = [next EXCEPT ![p] = n]
      /\ pc' = [pc EXCEPT ![t] = IF n = Null THEN "unlock" ELSE "fixback"]
      /\ linked' = linked \ {a}
      /\ UNCHANGED <<prev, key, sync_opt, lock, call, it, limiter, ret, segv>>
  BY <1>0, <1>1 DEF CutLast, Unlink, SetNext, Goto, fixed, locals
<1>3. /\ b \in Bin /\ Sorted(b) /\ Backs(b) /\ Holding(t) /\ CallOK(t) /\ Fn(t) = "delete"
      /\ pc[t] \notin MoveLabels /\ pc[t] # "idle"
      /\ a \in Elem /\ a \in Node /\ a \in InBin(b)
      /\ p \in OnList(b) /\ p \in Node /\ p # a /\ next[p] = a /\ n # a
      /\ n # Null => n \in InBin(b) /\ prev[n] = a
  BY <1>0, <1>1, DeleteFacts
<1>4. /\ pc'[t] = IF n = Null THEN "unlock" ELSE "fixback"
      /\ next'[p] = n /\ next'[a] = n
      /\ \A z \in Node \ {p} : next'[z] = next[z]
  BY <1>0, <1>2, <1>3 DEF Inv, TypeOK
<1>5. InBin(b)' = InBin(b) \ {a} /\ OnList(b)' = OnList(b) \ {a}
  BY <1>2, <1>3, NodeFacts DEF InBin, OnList, Inv
<1>6. Sorted(b)'
  BY <1>0, <1>2, <1>3, UnlinkSorted DEF Inv
<1>7. Backs(b)'
  <2>1. ASSUME NEW e \in InBin(b), e # a, e # n PROVE BackAt(b, e)'
    <3>1. prev[e] \in OnList(b) /\ next[prev[e]] = e
      BY <1>0, <1>3, BackExact
    <3>2. prev[e] # p /\ prev[e] # a /\ prev[e] \in Node
      BY <1>0, <1>3, <2>1, <3>1, NodeFacts DEF Inv
    <3> QED
      BY <1>2, <1>4, <1>5, <3>1, <3>2 DEF BackAt
  <2>2. ASSUME n # Null PROVE BackAt(b, n)'
    <3>1. Moving(t, b, n)'
      BY <1>0, <1>2, <1>4, <2>2 DEF Moving, Arg
    <3> QED
      BY <3>1 DEF BackAt
  <2>3. n \in InBin(b) => n # Null
    BY <1>3, NodeFacts DEF Inv
  <2> QED
    BY <1>5, <2>1, <2>2, <2>3 DEF Backs
<1>8. CallOK(t)'
  <2>1. Fn(t)' = "delete" /\ Arg(t)' = a /\ (call[t].bin)' = b
    BY <1>0, <1>2, <1>3 DEF Fn, Arg
  <2>2. Linked(t)'
    BY <1>0, <1>2, <1>3, <1>4, <2>1 DEF CallOK, Linked
  <2>3. Walk(t)' /\ Insert(t)'
    BY <1>4 DEF Walk, Insert, WalkLabels, InsertLabels, LoopLabels
  <2>4. n # Null => n \in InBin(b)' /\ p \in OnList(b)' /\ prev'[n] = a /\ prev'[a] = p
    BY <1>0, <1>2, <1>3, <1>5
  <2>5. Delete(t)'
    BY <1>4, <2>1, <2>4 DEF Delete
  <2> QED
    BY <2>2, <2>3, <2>5 DEF CallOK
<1>9. Holding(t)' /\ linked' \subseteq Elem
  BY <1>2, <1>4 DEF Holding, Labels, Inv, TypeOK
<1>10. /\ \A z \in Node : z # a /\ z \notin OnList(b) =>
                            next'[z] = next[z] /\ prev'[z] = prev[z]
       /\ \A e \in Elem : (e \in linked' <=> e \in linked) \/ e = a
  BY <1>2, <1>3, <1>4
<1> QED
  BY <1>0, <1>2, <1>3, <1>6, <1>7, <1>8, <1>9, <1>10, WriteKept DEF OthersStay

LEMMA OrderFixBack ==
    ASSUME Inv, OrderInv, Synced, NEW t \in Thread, FixBack(t)
    PROVE  OrderInv'
<1>0. PICK b, a, p, n : b = call[t].bin /\ a = Arg(t) /\ p = prev[a] /\ n = next[a]
  OBVIOUS
<1>1. pc[t] = "fixback" /\ Fn(t) = "delete" /\ Holding(t) /\ pc[t] # "idle"
  BY DEF FixBack, Inv, Shape, DeleteLabels, Holding, Labels
<1>2. /\ prev' = [prev EXCEPT ![n] = p] /\ pc' = [pc EXCEPT ![t] = "unlock"]
      /\ UNCHANGED <<next, linked, key, sync_opt, lock, call, it, limiter, ret, segv>>
  BY <1>0 DEF FixBack, SetPrev, Goto, fixed, locals
<1>3. /\ b \in Bin /\ Sorted(b) /\ Backs(b) /\ CallOK(t)
      /\ n \in InBin(b) /\ n \in Node /\ n \in OnList(b)
      /\ p \in OnList(b) /\ next[p] = n
      /\ InBin(b) \subseteq Elem
  BY <1>0, <1>1, CallFacts, NodeFacts DEF CallOK, Delete, OnList, Inv, Node
<1>4. /\ pc'[t] = "unlock" /\ prev'[n] = p
      /\ \A z \in Node \ {n} : prev'[z] = prev[z]
  BY <1>2, <1>3 DEF Inv, TypeOK
<1>5. InBin(b)' = InBin(b) /\ OnList(b)' = OnList(b)
  BY <1>2 DEF InBin, OnList
<1>6. Sorted(b)'
  BY <1>2, <1>3, <1>5 DEF Sorted, SortedAt, After
<1>7. Backs(b)'
  <2>1. BackAt(b, n)'
    BY <1>2, <1>3, <1>4, <1>5 DEF BackAt
  <2>2. ASSUME NEW e \in InBin(b), e # n PROVE BackAt(b, e)'
    <3>1. ~\E u \in Thread : Moving(u, b, e)
      <4> SUFFICES ASSUME NEW u \in Thread, Moving(u, b, e) PROVE FALSE
        OBVIOUS
      <4>1. Holding(u) /\ call[u].bin = b
        BY DEF Moving, Holding, Labels
      <4>2. u = t
        BY <1>0, <1>1, <4>1 DEF Inv, LockOK
      <4> QED
        BY <1>0, <1>1, <2>2, <4>2 DEF Moving
    <3>2. prev[e] \in OnList(b) /\ next[prev[e]] = e
      BY <1>3, <3>1 DEF Backs, BackAt
    <3>3. prev'[e] = prev[e]
      BY <1>3, <1>4, <2>2 DEF Node
    <3> QED
      BY <1>2, <1>5, <3>2, <3>3 DEF BackAt
  <2> QED
    BY <1>5, <2>1, <2>2 DEF Backs
<1>8. CallOK(t)'
  BY <1>1, <1>2, <1>3, <1>4
     DEF CallOK, Linked, Walk, Insert, Delete, Fn, Arg, WalkLabels, InsertLabels, LoopLabels
<1>9. Holding(t)' /\ linked' \subseteq Elem
  BY <1>2, <1>4 DEF Holding, Labels, Inv, TypeOK
<1> QED
  BY <1>0, <1>1, <1>2, <1>3, <1>4, <1>6, <1>7, <1>8, <1>9, WriteKept DEF OthersStay

(* After the release only the element, which is in no list, is written.    *)
LEMMA OrderClear ==
    ASSUME Inv, OrderInv, Synced, NEW t \in Thread, ClearNext(t) \/ ClearPrev(t)
    PROVE  OrderInv'
<1>1. /\ pc[t] \in {"clearnext", "clearprev"} /\ Fn(t) = "delete" /\ pc[t] # "idle"
      /\ ~Holding(t) /\ pc[t] \notin MoveLabels
  BY DEF ClearNext, ClearPrev, Inv, Shape, DeleteLabels, Holding, MoveLabels
<1>2. CallOK(t) /\ Arg(t) \notin linked /\ Arg(t) \in Node
  BY <1>1, CallFacts DEF CallOK, Linked
<1>3. /\ UNCHANGED <<linked, key, sync_opt, lock, segv>>
      /\ \A x \in Node : x # Arg(t) => next'[x] = next[x] /\ prev'[x] = prev[x]
  BY DEF ClearNext, ClearPrev, SetNext, fixed, Inv, TypeOK
<1>4. CallOK(t)' /\ OthersStay(t) /\ ~Holding(t)'
  <2>1. CASE ClearNext(t)
    <3>1. pc' = [pc EXCEPT ![t] = "clearprev"] /\ UNCHANGED <<call, it, limiter>>
      BY <2>1 DEF ClearNext, SetNext, Goto, locals
    <3>2. pc'[t] = "clearprev"
      BY <3>1 DEF Inv, TypeOK
    <3>3. CallOK(t)' /\ ~Holding(t)'
      BY <1>1, <1>2, <1>3, <3>1, <3>2
         DEF CallOK, Linked, Walk, Insert, Delete, Fn, Arg, Holding, WalkLabels,
             InsertLabels, LoopLabels
    <3> QED
      BY <3>1, <3>3 DEF OthersStay
  <2>2. CASE ClearPrev(t)
    <3>1. /\ pc' = [pc EXCEPT ![t] = "idle"]
          /\ call' = [call EXCEPT ![t] = Set!NoCall]
          /\ it' = [it EXCEPT ![t] = Null]
          /\ limiter' = [limiter EXCEPT ![t] = 0]
      BY <2>2 DEF ClearPrev, ReturnWith, Goto
    <3>2. pc'[t] = "idle" /\ call'[t] = Set!NoCall /\ limiter'[t] = 0
      BY <3>1 DEF Inv, TypeOK
    <3>3. CallOK(t)' /\ ~Holding(t)'
      BY <3>2
         DEF CallOK, Linked, Walk, Insert, Delete, Fn, Arg, Holding, WalkLabels,
             InsertLabels, LoopLabels, Set!NoCall
    <3> QED
      BY <3>1, <3>3 DEF OthersStay
  <2> QED
    BY <2>1, <2>2
<1>5. linked' \subseteq Elem
  BY <1>3 DEF Inv, TypeOK
<1> QED
  BY <1>1, <1>2, <1>3, <1>4, <1>5, WriteKept

-----------------------------------------------------------------------------
(* Under a lock no call meets a null pointer.                              *)
LEMMA NeverNull ==
    ASSUME Inv, OrderInv, Synced, NEW t \in Thread
    PROVE  ~NullDereference(t)
<1>1. ~(pc[t] = "while" /\ it[t] = Null)
  BY WalkFacts DEF LoopLabels
<1>2. ~(pc[t] \in {"compare", "checkback", "fixsucc"} /\ next[it[t]] = Null)
  BY DEF OrderInv, CallOK, Walk
<1>3. ~(pc[t] \in {"checkprev", "cutlast", "unlink"} /\ prev[Arg(t)] = Null)
  BY DeleteFacts DEF CheckLabels
<1>4. ASSUME pc[t] = "fixback" PROVE next[Arg(t)] # Null
  BY <1>4, CallFacts, NodeFacts DEF CallOK, Delete, Inv
<1> QED
  BY <1>1, <1>2, <1>3, <1>4 DEF NullDereference

LEMMA OrderStutter ==
    ASSUME Inv, OrderInv, UNCHANGED vars
    PROVE  OrderInv'
<1>1. UNCHANGED <<next, prev, linked, key, sync_opt, lock, pc, call, it, limiter, ret, segv>>
  BY DEF vars, links, fixed, locals
<1>2. LockHeld' /\ (Synced' <=> Synced) /\ (segv' <=> segv)
  BY <1>1 DEF OrderInv, LockHeld, Synced, Holding
<1>3. ASSUME Synced, NEW b \in Bin PROVE Sorted(b)' /\ Backs(b)'
  BY <1>1, <1>3, BinKept DEF OrderInv, Moving, InBin, Arg
<1>4. ASSUME Synced, NEW u \in Thread PROVE CallOK(u)'
  BY <1>1, <1>4, CallFacts, CallKept DEF OrderInv, InBin, Holding
<1> QED
  BY <1>2, <1>3, <1>4 DEF OrderInv

LEMMA OrderNext == Inv /\ OrderInv /\ [Next]_vars => OrderInv'
<1> SUFFICES ASSUME Inv, OrderInv, [Next]_vars PROVE OrderInv'
  OBVIOUS
<1>1. CASE UNCHANGED vars
  BY <1>1, OrderStutter
<1>2. CASE Next /\ ~Synced
  BY <1>2, OrderUnsynced
<1>3. ASSUME Synced, NEW t \in Thread, Step(t) PROVE OrderInv'
  <2>1. ~Fault(t)
    BY <1>3, NeverNull DEF Fault
  <2> QED
    BY <1>3, <2>1, OrderSetLock, OrderReleaseLock, OrderWalk, OrderPlace,
       OrderFixSuccessor, OrderSetElementNext, OrderSetElementPrev, OrderLink,
       OrderCheck, OrderCut, OrderFixBack, OrderClear
       DEF Step
<1> QED
  BY <1>1, <1>2, <1>3, OrderInvoke DEF Next

LEMMA SpecOrder == Spec => [](Inv /\ OrderInv)
<1>1. Init => Inv /\ OrderInv
  BY InitInv, OrderInit
<1>2. Inv /\ OrderInv /\ [Next]_vars => (Inv /\ OrderInv)'
  BY NextInv, OrderNext
<1> QED
  BY <1>1, <1>2, PTL DEF Spec

-----------------------------------------------------------------------------
(* A lock is always held by a call that will release it: the early returns *)
(* of delete, which do not, are never taken under a lock.                  *)
THEOREM LocksReleased == Spec => []NoLeakedLock
<1>1. OrderInv => NoLeakedLock
  BY DEF OrderInv, LockHeld, NoLeakedLock
<1> QED
  BY SpecOrder, <1>1, PTL

(* Under a lock every list is sorted at every instant, for any numbers of  *)
(* threads, elements and lists.                                            *)
THEOREM ListsSorted == Spec => []NextIsLeastAbove
<1>1. OrderInv => NextIsLeastAbove
  BY DEF OrderInv, NextIsLeastAbove, Sorted, SortedAt, OnList, Above, After
<1> QED
  BY SpecOrder, <1>1, PTL

(* Under a lock the back pointers mirror the successors, except the one    *)
(* that a call is in the middle of changing.                               *)
THEOREM ListsDoublyLinked == Spec => []BackPointers
<1>1. Inv /\ OrderInv => BackPointers
  <2> SUFFICES ASSUME Inv, OrderInv, Synced, NEW b \in Bin,
                      NEW x \in OnList(b), next[x] # Null
               PROVE  \/ prev[next[x]] = x
                      \/ \E t \in Thread : Changing(t, x, next[x])
    BY DEF BackPointers, OnList
  <2>1. Sorted(b) /\ Backs(b) /\ next[x] \in InBin(b)
    BY DEF OrderInv, Sorted, SortedAt
  <2>2. CASE prev[next[x]] \in OnList(b) /\ next[prev[next[x]]] = next[x]
    BY <2>1, <2>2, NextInjective DEF Inv
  <2>3. ASSUME NEW t \in Thread, Moving(t, b, next[x]) PROVE Changing(t, x, next[x])
    <3>1. CallOK(t) /\ call[t].bin = b
      BY <2>3 DEF OrderInv, Moving
    <3>2. CASE pc[t] \in {"setnext", "setprev", "link"}
      <4>1. next[it[t]] = next[x] /\ it[t] \in OnList(b)
        BY <2>3, <3>1, <3>2 DEF Moving, CallOK, Walk, WalkLabels, InsertLabels
      <4>2. it[t] = x
        BY <2>1, <4>1, NextInjective DEF Inv
      <4> QED
        BY <3>1, <3>2, <4>2 DEF Changing, CallOK, Insert
    <3>3. CASE pc[t] = "fixback"
      BY <2>3, <3>1, <3>3 DEF Moving, Changing, CallOK, Delete
    <3> QED
      BY <2>3, <3>2, <3>3 DEF Moving
  <2> QED
    BY <2>1, <2>2, <2>3 DEF Backs, BackAt
<1> QED
  BY SpecOrder, <1>1, PTL

(* Under a lock no call of the library follows a null pointer.             *)
THEOREM NoNullDereference == Spec => [](Synced => ~segv)
<1>1. OrderInv => (Synced => ~segv)
  BY DEF OrderInv
<1> QED
  BY SpecOrder, <1>1, PTL

(***************************************************************************)
(* Under a lock the calls implement the sets of SortedSet: each call takes *)
(* effect in one step between its invocation and its return.               *)
(***************************************************************************)

(* SortedSet counts as SortedList does.                                    *)
LEMMA SetCardinality == \A S : Set!Cardinality(S) = Cardinality(S)
BY DEF Set!Cardinality, Cardinality

LEMMA SetInit == Init => Set!Init
BY DEF Init, Set!Init, Set!NoCall, Phase, Answered, Done

(* A step inside a call, before its effect or after it.                    *)
LEMMA SetStutter ==
    ASSUME UNCHANGED <<key, linked, call, ret>>,
           NEW t \in Thread, \A u \in Thread \ {t} : pc'[u] = pc[u],
           pc[t] # "idle", pc'[t] # "idle", Done(t)' <=> Done(t)
    PROVE  UNCHANGED Set!vars
<1>1. \A u \in Thread : Phase(u)' = Phase(u) /\ Answered(u)' = Answered(u)
  BY DEF Phase, Answered, Done, Fn
<1> QED
  BY <1>1 DEF Set!vars

LEMMA SetInvoke ==
    ASSUME Inv, Synced, NEW t \in Thread, NEW c \in MayCall(t), Invoke(t, c)
    PROVE  Set!Invoke(t)
<1>1. /\ pc[t] = "idle"
      /\ pc' = [pc EXCEPT ![t] = "lock"]
      /\ call' = [call EXCEPT ![t] = c]
      /\ ret' = [ret EXCEPT ![t] = Null]
      /\ UNCHANGED <<key, linked>>
  BY DEF Invoke, Goto, links, fixed
<1>2. c \in Set!Calls(t)
  BY DEF MayCall
<1>3. pc'[t] = "lock" /\ ret'[t] = Null /\ Phase(t) = "idle"
      /\ Phase(t)' = "called" /\ Answered(t)' = Null
  BY <1>1 DEF Inv, TypeOK, Phase, Answered, Done
<1>4. \A u \in Thread \ {t} : Phase(u)' = Phase(u) /\ Answered(u)' = Answered(u)
  BY <1>1 DEF Phase, Answered, Done, Fn
<1>5. [u \in Thread |-> Phase(u)]' = [[u \in Thread |-> Phase(u)] EXCEPT ![t] = "called"]
  BY <1>3, <1>4
<1>6. [u \in Thread |-> Answered(u)]' = [[u \in Thread |-> Answered(u)] EXCEPT ![t] = Null]
  BY <1>3, <1>4
<1> QED
  BY <1>1, <1>2, <1>3, <1>5, <1>6 DEF Set!Invoke

(* The step in which a call takes effect.                                  *)
LEMMA PhaseDone ==
    ASSUME NEW t \in Thread, \A u \in Thread \ {t} : pc'[u] = pc[u] /\ ret'[u] = ret[u],
           call' = call, pc[t] # "idle", ~Done(t), Done(t)', pc'[t] # "idle"
    PROVE  /\ Phase(t) = "called"
           /\ [u \in Thread |-> Phase(u)]' = [[u \in Thread |-> Phase(u)] EXCEPT ![t] = "done"]
           /\ [u \in Thread |-> Answered(u)]' =
                [[u \in Thread |-> Answered(u)] EXCEPT ![t] = Answered(t)']
<1>1. Phase(t) = "called" /\ Phase(t)' = "done"
  BY DEF Phase
<1>2. \A u \in Thread \ {t} : Phase(u)' = Phase(u) /\ Answered(u)' = Answered(u)
  BY DEF Phase, Answered, Done, Fn
<1>3. [u \in Thread |-> Phase(u)]' = [[u \in Thread |-> Phase(u)] EXCEPT ![t] = "done"]
  BY <1>1, <1>2
<1>4. [u \in Thread |-> Answered(u)]' =
        [[u \in Thread |-> Answered(u)] EXCEPT ![t] = Answered(t)']
  BY <1>2
<1> QED
  BY <1>1, <1>3, <1>4

(* The answers of lookup and length.                                       *)
LEMMA SetResult ==
    ASSUME Inv, NEW t \in Thread, pc[t] \in LoopLabels, NEW r, Result(t, r),
           \/ /\ Fn(t) = "length" /\ r = Cardinality(InBin(call[t].bin))
           \/ /\ Fn(t) = "lookup"
              /\ LET Found == {e \in InBin(call[t].bin) : key[e] = Arg(t)}
                 IN  r \in Found \/ (Found = {} /\ r = Null)
    PROVE  Set!Effect(t)
<1>1. /\ pc' = [pc EXCEPT ![t] = "unlock"] /\ ret' = [ret EXCEPT ![t] = r]
      /\ UNCHANGED <<key, linked, call>>
  BY DEF Result, Goto, links, fixed
<1>2. /\ pc'[t] = "unlock" /\ ret'[t] = r /\ pc[t] # "idle"
      /\ ~Done(t) /\ Done(t)' /\ Answered(t)' = r
  BY <1>1 DEF Inv, TypeOK, LoopLabels, Done, Answered, Fn
<1>3. \A u \in Thread \ {t} : pc'[u] = pc[u] /\ ret'[u] = ret[u]
  BY <1>1
<1>4. /\ Phase(t) = "called"
      /\ [u \in Thread |-> Phase(u)]' = [[u \in Thread |-> Phase(u)] EXCEPT ![t] = "done"]
      /\ [u \in Thread |-> Answered(u)]' = [[u \in Thread |-> Answered(u)] EXCEPT ![t] = r]
  BY <1>1, <1>2, <1>3, PhaseDone
<1>5. CASE Fn(t) = "length"
  <2>1. Set!InBin(call[t].bin) = InBin(call[t].bin)
    BY DEF Set!InBin, InBin
  <2>2. /\ call[t].fn = "length"
        /\ [u \in Thread |-> Answered(u)]' =
             [[u \in Thread |-> Answered(u)] EXCEPT ![t] = Set!Cardinality(Set!InBin(call[t].bin))]
    BY <1>4, <1>5, <2>1, SetCardinality DEF Fn
  <2>3. [u \in Thread |-> Phase(u)][t] = "called"
    BY <1>4
  <2> QED
    BY <1>1, <1>4, <2>2, <2>3 DEF Set!Effect, Set!Answer
<1>6. CASE Fn(t) = "lookup"
  BY <1>1, <1>4, <1>6 DEF Set!Effect, Set!Answer, Set!InBin, InBin, Fn, Arg
<1> QED
  BY <1>5, <1>6

(* The loops only read: their steps are stutters, except for the last one  *)
(* of length and of lookup.                                                *)
LEMMA SetWalk ==
    ASSUME Inv, OrderInv, Synced, NEW t \in Thread,
           WhileNext(t) \/ Compare(t) \/ CheckBack(t) \/ Advance(t) \/ LookupResult(t)
    PROVE  Set!Effect(t) \/ UNCHANGED Set!vars
<1>1. pc[t] \in LoopLabels \ {"place"} /\ pc[t] # "idle" /\ ~Done(t)
  BY DEF WhileNext, Compare, CheckBack, Advance, LookupResult, LoopLabels, Done
<1>2. Fn(t) \in {"insert", "lookup", "length"}
  BY <1>1, WalkFacts
<1>3. ASSUME NEW label \in {"compare", "checkback", "advance", "place", "result"},
             Jump(t, label)
      PROVE  UNCHANGED Set!vars
  <2>1. pc' = [pc EXCEPT ![t] = label] /\ pc'[t] = label
        /\ UNCHANGED <<key, linked, call, ret>>
    BY <1>3 DEF Jump, Goto, links, fixed, locals, Inv, TypeOK
  <2> QED
    BY <1>1, <2>1, SetStutter DEF Done
<1>4. CASE WhileNext(t)
  <2>1. CASE next[it[t]] = Null /\ Fn(t) = "length"
    <3>1. Result(t, limiter[t])
      BY <1>4, <2>1 DEF WhileNext
    <3>2. limiter[t] = Cardinality(InBin(call[t].bin))
      BY <1>1, <2>1, WalkFacts
    <3> QED
      BY <1>1, <2>1, <3>1, <3>2, SetResult
  <2>2. CASE ~(next[it[t]] = Null /\ Fn(t) = "length")
    BY <1>2, <1>3, <1>4, <2>2 DEF WhileNext, LoopEnd
  <2> QED
    BY <2>1, <2>2
<1>5. CASE Compare(t)
  BY <1>2, <1>3, <1>5 DEF Compare, LoopEnd, Inv, Shape
<1>6. CASE CheckBack(t)
  <2>1. prev[next[it[t]]] = it[t]
    BY <1>1, <1>6, WalkFacts DEF CheckBack
  <2> QED
    BY <1>3, <1>6, <2>1 DEF CheckBack
<1>7. CASE Advance(t)
  <2>1. limiter[t] < NumElements /\ ~(limiter[t] >= NumElements)
    <3>1. next[it[t]] # Null
      BY <1>7 DEF Advance, OrderInv, CallOK, Walk
    <3> QED
      BY <1>1, <3>1, WalkFacts, LimitAssumption DEF Inv, TypeOK
  <2>2. pc' = [pc EXCEPT ![t] = "while"] /\ UNCHANGED <<key, linked, call, ret>>
    BY <1>7, <2>1 DEF Advance, Goto, links, fixed
  <2>3. pc'[t] = "while"
    BY <2>2 DEF Inv, TypeOK
  <2> QED
    BY <1>1, <2>2, <2>3, SetStutter DEF Done
<1>8. CASE LookupResult(t)
  <2> DEFINE b == call[t].bin
             x == it[t]
             Found == {e \in InBin(b) : key[e] = Arg(t)}
  <2>1. /\ pc[t] = "result" /\ Fn(t) = "lookup" /\ CallOK(t)
        /\ limiter[t] = NumElements => next[x] = Null
    BY <1>1, <1>8, WalkFacts, LimitAssumption DEF LookupResult, Inv, Shape, TypeOK
  <2>2. Result(t, next[x])
    BY <1>8, <2>1 DEF LookupResult
  <2>3. CASE next[x] # Null
    <3>1. next[x] \in Found
      BY <1>1, <2>1, <2>3, WalkFacts DEF CallOK, Walk
    <3> QED
      BY <1>1, <2>1, <2>2, <3>1, SetResult
  <2>4. CASE next[x] = Null
    <3>1. Found = {}
      BY <1>1, <2>1, <2>4, WalkFacts DEF CallOK, Walk, WalkLabels
    <3> QED
      BY <1>1, <2>1, <2>2, <2>4, <3>1, SetResult
  <2> QED
    BY <2>3, <2>4
<1> QED
  BY <1>4, <1>5, <1>6, <1>7, <1>8

(* Linking and cutting an element.                                         *)
LEMMA SetLink ==
    ASSUME Inv, OrderInv, Synced, NEW t \in Thread, Link(t)
    PROVE  Set!Effect(t)
<1>1. /\ pc[t] = "link" /\ Fn(t) = "insert"
      /\ pc' = [pc EXCEPT ![t] = "unlock"] /\ linked' = linked \cup {Arg(t)}
      /\ UNCHANGED <<key, call, ret>>
  BY DEF Link, SetNext, Goto, fixed, locals, Inv, Shape, InsertLabels
<1>2. /\ pc'[t] = "unlock" /\ pc[t] # "idle" /\ ~Done(t) /\ Done(t)'
      /\ Answered(t)' = Answered(t)
      /\ \A u \in Thread \ {t} : pc'[u] = pc[u] /\ ret'[u] = ret[u]
  BY <1>1 DEF Inv, TypeOK, Done, Answered, Fn
<1>3. /\ Phase(t) = "called"
      /\ [u \in Thread |-> Phase(u)]' = [[u \in Thread |-> Phase(u)] EXCEPT ![t] = "done"]
      /\ [u \in Thread |-> Answered(u)]' =
            [[u \in Thread |-> Answered(u)] EXCEPT ![t] = Answered(t)']
  BY <1>1, <1>2, PhaseDone
<1>4. [u \in Thread |-> Answered(u)]' = [u \in Thread |-> Answered(u)]
  BY <1>2, <1>3
<1> QED
  BY <1>1, <1>3, <1>4 DEF Set!Effect, Fn, Arg

LEMMA SetCut ==
    ASSUME Inv, OrderInv, Synced, NEW t \in Thread, CutLast(t) \/ Unlink(t)
    PROVE  Set!Effect(t)
<1>1. pc[t] \in {"cutlast", "unlink"} /\ Fn(t) = "delete" /\ pc[t] # "idle" /\ ~Done(t)
  BY DEF CutLast, Unlink, Inv, Shape, DeleteLabels, Done
<1>2. /\ \E label \in {"unlock", "fixback"} : pc' = [pc EXCEPT ![t] = label]
      /\ linked' = linked \ {Arg(t)}
      /\ UNCHANGED <<key, call, ret>>
  BY DEF CutLast, Unlink, SetNext, Goto, fixed, locals
<1>3. /\ Done(t)' /\ pc'[t] # "idle" /\ Answered(t)' = 0
      /\ \A u \in Thread \ {t} : pc'[u] = pc[u]
  BY <1>1, <1>2 DEF Inv, TypeOK, Done, Answered, Fn
<1>4. /\ Phase(t) = "called"
      /\ [u \in Thread |-> Phase(u)]' = [[u \in Thread |-> Phase(u)] EXCEPT ![t] = "done"]
      /\ [u \in Thread |-> Answered(u)]' = [[u \in Thread |-> Answered(u)] EXCEPT ![t] = 0]
  BY <1>1, <1>2, <1>3, PhaseDone
<1> QED
  BY <1>1, <1>2, <1>4 DEF Set!Effect, Set!Answer, Fn, Arg

(* The return of a call: after the release, or once delete has cleared the *)
(* links of its element.                                                   *)
LEMMA SetReturn ==
    ASSUME Inv, NEW t \in Thread, pc[t] # "idle", Done(t), NEW r, ReturnWith(t, r),
           UNCHANGED <<key, linked>>, r = Answered(t)
    PROVE  Set!Return(t)
<1>1. /\ pc' = [pc EXCEPT ![t] = "idle"] /\ ret' = [ret EXCEPT ![t] = r]
      /\ call' = [call EXCEPT ![t] = Set!NoCall]
  BY DEF ReturnWith, Goto
<1>2. /\ pc'[t] = "idle" /\ ret'[t] = r
      /\ Phase(t) = "done" /\ Phase(t)' = "idle" /\ Answered(t)' = Answered(t)
  BY <1>1 DEF Inv, TypeOK, Phase, Done, Answered
<1>3. \A u \in Thread \ {t} : Phase(u)' = Phase(u) /\ Answered(u)' = Answered(u)
  BY <1>1 DEF Phase, Answered, Done, Fn
<1>4. [u \in Thread |-> Phase(u)]' = [[u \in Thread |-> Phase(u)] EXCEPT ![t] = "idle"]
  BY <1>2, <1>3
<1>5. [u \in Thread |-> Answered(u)]' = [u \in Thread |-> Answered(u)]
  BY <1>2, <1>3
<1> QED
  BY <1>1, <1>2, <1>4, <1>5 DEF Set!Return

LEMMA SetStep ==
    ASSUME Inv, OrderInv, Synced, NEW t \in Thread, Step(t)
    PROVE  Set!Effect(t) \/ Set!Return(t) \/ UNCHANGED Set!vars
<1>1. ASSUME NEW label \in Labels, pc' = [pc EXCEPT ![t] = label],
             UNCHANGED <<key, linked, call, ret>>, pc[t] # "idle", label # "idle",
             Done(t) <=> label \in {"fixback", "unlock", "clearnext", "clearprev"}
      PROVE  UNCHANGED Set!vars
  <2>1. pc'[t] = label
    BY <1>1 DEF Inv, TypeOK
  <2> QED
    BY <1>1, <2>1, SetStutter DEF Done
<1>2. CASE SetLock(t)
  <2>1. pc[t] = "lock" /\ pc' = [pc EXCEPT ![t] = Entry(Fn(t))]
        /\ UNCHANGED <<key, linked, call, ret>> /\ Entry(Fn(t)) \in {"checkhead", "while"}
    BY <1>2 DEF SetLock, Goto, links, fixed, locals, Entry
  <2> QED
    BY <1>1, <2>1 DEF Done, Labels
<1>3. CASE ReleaseLock(t)
  <2>1. pc[t] = "unlock" /\ pc[t] # "idle" /\ Done(t) /\ UNCHANGED <<key, linked>>
    BY <1>3 DEF ReleaseLock, links, fixed, Done
  <2>2. CASE Fn(t) = "delete"
    BY <1>1, <1>3, <2>1, <2>2 DEF ReleaseLock, Goto, locals, Labels
  <2>3. CASE Fn(t) # "delete"
    BY <1>3, <2>1, <2>3, SetReturn DEF ReleaseLock, Answered
  <2> QED
    BY <2>2, <2>3
<1>4. CASE WhileNext(t) \/ Compare(t) \/ CheckBack(t) \/ Advance(t) \/ LookupResult(t)
  BY <1>4, SetWalk
<1>5. CASE Place(t) \/ FixSuccessor(t) \/ SetElementNext(t) \/ SetElementPrev(t)
  <2>1. /\ pc[t] \in InsertLabels /\ ~Done(t) /\ pc[t] # "idle"
        /\ UNCHANGED <<key, linked, call, ret>>
        /\ \E label \in {"fixsucc", "setnext", "setprev", "link"} :
              pc' = [pc EXCEPT ![t] = label]
    BY <1>5 DEF Place, FixSuccessor, SetElementNext, SetElementPrev, Jump, SetNext, SetPrev,
                Goto, links, fixed, locals, InsertLabels, Done
  <2> QED
    BY <1>1, <2>1 DEF Labels
<1>6. CASE Link(t)
  BY <1>6, SetLink
<1>7. CASE CheckHead(t) \/ CheckPrev(t) \/ CheckNext(t) \/ TestLast(t)
  <2>1. pc[t] \in CheckLabels /\ pc[t] # "idle" /\ ~Done(t)
    BY <1>7 DEF CheckHead, CheckPrev, CheckNext, TestLast, CheckLabels, Done
  <2>2. /\ prev[Arg(t)] # Null /\ next[prev[Arg(t)]] = Arg(t)
        /\ next[Arg(t)] # Null => prev[next[Arg(t)]] = Arg(t)
    BY <2>1, DeleteFacts
  <2>3. \E label \in CheckLabels : Jump(t, label)
    BY <1>7, <2>2 DEF CheckHead, CheckPrev, CheckNext, TestLast, CheckLabels
  <2> QED
    BY <1>1, <2>1, <2>3 DEF Jump, Goto, links, fixed, locals, CheckLabels, Labels
<1>8. CASE CutLast(t) \/ Unlink(t)
  BY <1>8, SetCut
<1>9. CASE FixBack(t) \/ ClearNext(t)
  <2>1. /\ Done(t) /\ pc[t] # "idle" /\ UNCHANGED <<key, linked, call, ret>>
        /\ \E label \in {"unlock", "clearprev"} : pc' = [pc EXCEPT ![t] = label]
    BY <1>9 DEF FixBack, ClearNext, SetNext, SetPrev, Goto, fixed, locals, Done
  <2> QED
    BY <1>1, <2>1 DEF Labels
<1>10. CASE ClearPrev(t)
  <2>1. pc[t] = "clearprev" /\ Fn(t) = "delete" /\ ReturnWith(t, 0) /\ UNCHANGED <<key, linked>>
    BY <1>10 DEF ClearPrev, fixed, Inv, Shape, DeleteLabels
  <2> QED
    BY <2>1, SetReturn DEF Answered, Done
<1>11. ~Fault(t)
  BY NeverNull DEF Fault
<1> QED
  BY <1>2, <1>3, <1>4, <1>5, <1>6, <1>7, <1>8, <1>9, <1>10, <1>11 DEF Step

LEMMA SetNextStep ==
    ASSUME Inv, OrderInv, Synced, [Next]_vars
    PROVE  [Set!Next]_(Set!vars)
<1>1. ASSUME NEW t \in Thread, NEW c \in MayCall(t), Invoke(t, c) PROVE Set!Next
  BY <1>1, SetInvoke DEF Set!Next
<1>2. CASE UNCHANGED vars
  <2>1. UNCHANGED <<key, linked, call, ret, pc>>
    BY <1>2 DEF vars, links, fixed, locals
  <2>2. \A u \in Thread : Phase(u)' = Phase(u) /\ Answered(u)' = Answered(u)
    BY <2>1 DEF Phase, Answered, Done, Fn
  <2> QED
    BY <2>1, <2>2 DEF Set!vars
<1> QED
  BY <1>1, <1>2, SetStep DEF Next, Set!Next

LEMMA SyncKept == Synced /\ [Next]_vars => Synced'
<1> SUFFICES ASSUME [Next]_vars PROVE sync_opt' = sync_opt
  BY DEF Synced
<1>1. ASSUME NEW t \in Thread, NEW c \in MayCall(t), Invoke(t, c)
      PROVE  sync_opt' = sync_opt
  BY <1>1 DEF Invoke, fixed
<1>2. ASSUME NEW t \in Thread, Step(t) PROVE sync_opt' = sync_opt
  BY <1>2
     DEF Step, SetLock, ReleaseLock, WhileNext, Compare, CheckBack, Advance,
         LookupResult, Place, FixSuccessor, SetElementNext, SetElementPrev, Link,
         CheckHead, CheckPrev, CheckNext, TestLast, CutLast, Unlink, FixBack,
         ClearNext, ClearPrev, Fault, Jump, SetNext, SetPrev, Result, Corrupted, fixed
<1>3. CASE UNCHANGED vars
  BY <1>3 DEF vars, fixed
<1> QED
  BY <1>1, <1>2, <1>3 DEF Next

(* Under a lock the calls of the library implement SortedSet, whatever the *)
(* numbers of threads, elements and lists: an insert or a delete takes     *)
(* effect with one write, a lookup finds an element of its key if there is *)
(* one at its last read, length counts exactly the elements, and delete is *)
(* never refused.                                                          *)
THEOREM CallsImplementSet == Spec /\ Synced => SetSpec
<1>1. Inv /\ OrderInv /\ Synced /\ [Next]_vars => [Set!Next]_(Set!vars)
  BY SetNextStep
<1> QED
  BY SetInit, <1>1, SyncKept, SpecOrder, PTL DEF Spec, SetSpec, Set!Spec

-----------------------------------------------------------------------------
(* What the callers may rely on, with a lock or without.                   *)

Answer(t) ==
    /\ pc[t] = "unlock" /\ Fn(t) = "lookup" => ret[t] \in Elem \cup {Null}
    /\ pc[t] = "unlock" /\ Fn(t) = "length" => ret[t] \in -1 .. NumElements

(* A step inside a call of t leaves the other threads alone, links at most *)
(* the element that t inserts, and returns at most an answer.              *)
Frame(t) ==
    /\ pc[t] # "idle"
    /\ key' = key /\ sync_opt' = sync_opt
    /\ \A u \in Thread \ {t} : pc'[u] = pc[u] /\ call'[u] = call[u] /\ ret'[u] = ret[u]
    /\ \A e \in linked' : e \in linked \/ (Fn(t) = "insert" /\ e = Arg(t))
    /\ \/ pc'[t] # "idle" /\ call'[t] = call[t]
       \/ /\ pc'[t] = "idle" /\ call'[t] = Set!NoCall
          /\ Fn(t) # "delete" => pc[t] = "unlock" /\ ret'[t] = ret[t]
    /\ Answer(t)'

LEMMA FrameOf ==
    ASSUME Inv, NEW t \in Thread, Answer(t), Step(t)
    PROVE  Frame(t)
<1> DEFINE Grows == \A e \in linked' : e \in linked \/ (Fn(t) = "insert" /\ e = Arg(t))
<1>1. ASSUME NEW label \in Labels \ {"idle"}, pc' = [pc EXCEPT ![t] = label],
             UNCHANGED <<key, sync_opt, call, ret>>, Grows, pc[t] # "idle",
             label = "unlock" => Fn(t) \in {"insert", "delete"}
      PROVE  Frame(t)
  BY <1>1 DEF Inv, TypeOK, Frame, Answer, Fn
<1>2. ASSUME NEW label \in Labels \ {"idle"}, Jump(t, label), pc[t] # "idle",
             label = "unlock" => Fn(t) \in {"insert", "delete"}
      PROVE  Frame(t)
  BY <1>1, <1>2 DEF Jump, Goto, links, fixed, locals
<1>3. ASSUME NEW r, Result(t, r), pc[t] # "idle", Fn(t) # "none",
             Fn(t) = "lookup" => r \in Elem \cup {Null},
             Fn(t) = "length" => r \in -1 .. NumElements
      PROVE  Frame(t)
  BY <1>3 DEF Result, Goto, links, fixed, Inv, TypeOK, Frame, Answer, Fn
<1>4. ASSUME NEW r, ReturnWith(t, r), UNCHANGED <<key, sync_opt, linked>>, pc[t] # "idle",
             Fn(t) # "delete" => pc[t] = "unlock" /\ r = ret[t]
      PROVE  Frame(t)
  BY <1>4 DEF ReturnWith, Goto, Inv, TypeOK, Frame, Answer, Fn
<1>5. CASE SetLock(t)
  <2>1. Entry(Fn(t)) \in Labels \ {"idle", "unlock"} /\ pc' = [pc EXCEPT ![t] = Entry(Fn(t))]
        /\ UNCHANGED <<key, sync_opt, call, ret, linked>> /\ pc[t] # "idle"
    BY <1>5 DEF SetLock, Goto, links, fixed, locals, Entry, Labels
  <2> QED
    BY <1>1, <2>1
<1>6. CASE ReleaseLock(t)
  <2>1. CASE Fn(t) = "delete"
    BY <1>1, <1>6, <2>1 DEF ReleaseLock, Goto, links, fixed, locals, Labels
  <2>2. CASE Fn(t) # "delete"
    BY <1>4, <1>6, <2>2 DEF ReleaseLock, links, fixed
  <2> QED
    BY <2>1, <2>2
<1>7. Fn(t) = "length" => limiter[t] \in -1 .. NumElements /\ -1 \in -1 .. NumElements
  BY LimitAssumption DEF Inv, TypeOK
<1>8. pc[t] \in {"while", "compare", "advance"} =>
        /\ Fn(t) \in {"insert", "lookup", "length"}
        /\ Fn(t) # "length" => LoopEnd(Fn(t)) \in {"place", "result"}
  <2>1. Fn(t) = "insert" => LoopEnd(Fn(t)) = "place"
    BY DEF LoopEnd
  <2>2. Fn(t) = "lookup" => LoopEnd(Fn(t)) = "result"
    BY DEF LoopEnd
  <2> QED
    BY <2>1, <2>2 DEF Inv, Shape
<1>9. CASE WhileNext(t)
  BY <1>2, <1>3, <1>7, <1>8, <1>9 DEF WhileNext, Labels
<1>10. CASE Compare(t)
  BY <1>2, <1>8, <1>10 DEF Compare, Labels, Inv, Shape
<1>11. CASE CheckBack(t)
  BY <1>2, <1>3, <1>7, <1>11, LimitAssumption DEF CheckBack, Labels, Inv, Shape
<1>12. CASE Advance(t)
  <2>1. pc[t] # "idle" /\ Fn(t) # "none" /\ limiter[t] \in Int /\ NumElements \in Int
    BY <1>8, <1>12, LimitAssumption DEF Advance, Inv, TypeOK
  <2>2. CASE limiter[t] >= NumElements
    <3>1. IF Fn(t) = "length" THEN Result(t, -1) ELSE Jump(t, LoopEnd(Fn(t)))
      BY <1>12, <2>1, <2>2 DEF Advance
    <3>2. CASE Fn(t) = "length"
      BY <1>3, <1>7, <2>1, <3>1, <3>2
    <3>3. CASE Fn(t) # "length"
      BY <1>2, <1>8, <1>12, <2>1, <3>1, <3>3 DEF Advance, Labels
    <3> QED
      BY <3>2, <3>3
  <2>3. CASE ~(limiter[t] >= NumElements)
    BY <1>1, <1>12, <2>3 DEF Advance, Goto, links, fixed, Labels
  <2> QED
    BY <2>2, <2>3
<1>13. CASE LookupResult(t)
  <2>1. pc[t] = "result" /\ Fn(t) = "lookup" /\ it[t] \in Node
    BY <1>13 DEF LookupResult, Inv, TypeOK, Shape, WalkLabels
  <2>2. next[it[t]] \in Elem \cup {Null}
    BY <2>1 DEF Inv, TypeOK
  <2> QED
    BY <1>3, <1>13, <2>1, <2>2 DEF LookupResult
<1>14. CASE Place(t) \/ FixSuccessor(t) \/ SetElementNext(t) \/ SetElementPrev(t)
  BY <1>1, <1>14
     DEF Place, FixSuccessor, SetElementNext, SetElementPrev, Jump, SetNext, SetPrev, Goto,
         links, fixed, locals, Labels
<1>15. CASE Link(t)
  BY <1>1, <1>15 DEF Link, SetNext, Goto, fixed, locals, Labels, Inv, Shape, InsertLabels
<1>16. CASE CheckHead(t) \/ CheckPrev(t) \/ CheckNext(t) \/ TestLast(t)
  <2>1. pc[t] # "idle" /\ Fn(t) = "delete"
    BY <1>16 DEF CheckHead, CheckPrev, CheckNext, TestLast, Inv, Shape, DeleteLabels
  <2>2. \/ Corrupted(t)
        \/ \E label \in {"checkprev", "checknext", "testlast", "cutlast", "unlink"} :
              Jump(t, label)
    BY <1>16 DEF CheckHead, CheckPrev, CheckNext, TestLast
  <2>3. ASSUME Corrupted(t) PROVE Frame(t)
    BY <1>4, <2>1, <2>3 DEF Corrupted, links, fixed
  <2> QED
    BY <1>2, <2>1, <2>2, <2>3 DEF Labels
<1>17. CASE CutLast(t) \/ Unlink(t) \/ FixBack(t) \/ ClearNext(t)
  <2>1. pc[t] # "idle" /\ Fn(t) = "delete" /\ linked' \subseteq linked
        /\ UNCHANGED <<key, sync_opt, call, ret>>
        /\ \E label \in {"unlock", "fixback", "clearprev"} : pc' = [pc EXCEPT ![t] = label]
    BY <1>17 DEF CutLast, Unlink, FixBack, ClearNext, SetNext, SetPrev, Goto, fixed, locals,
                 Inv, Shape, DeleteLabels
  <2> QED
    BY <1>1, <2>1 DEF Labels
<1>18. CASE ClearPrev(t)
  BY <1>4, <1>18 DEF ClearPrev, fixed, Inv, Shape, DeleteLabels
<1>19. CASE Fault(t)
  <2>1. pc[t] # "idle" /\ UNCHANGED <<key, sync_opt, linked, pc, call, ret>>
    BY <1>19 DEF Fault, NullDereference, links, fixed, locals
  <2>2. Answer(t)
    OBVIOUS
  <2> QED
    BY <2>1, <2>2 DEF Frame, Answer, Fn
<1> QED
  BY <1>5, <1>6, <1>9, <1>10, <1>11, <1>12, <1>13, <1>14, <1>15, <1>16, <1>17, <1>18, <1>19
     DEF Step
=============================================================================
