-------------------------- MODULE Lab2bList_proofs --------------------------
(***************************************************************************)
(* Proofs about lab2_list of project 2b: type correctness, that it uses    *)
(* the library as callers may, and that with a lock no element is lost, no *)
(* list is ever found corrupted and the lists end empty; and about         *)
(* get_bin, by which it chooses the list of a key.                         *)
(*                                                                         *)
(* The library enters by what is proved of it in SortedList_proofs, not by *)
(* its code: its invariants, and that a step inside a call is one of       *)
(* SortedSet or none.                                                      *)
(***************************************************************************)
EXTENDS Lab2bList, FiniteSetTheorems, TLAPS

SLP == INSTANCE SortedList_proofs

Own(t) == {e \in Elem : Owner[e] = t}

(* The invariants of the library.                                          *)
LibInv == SLP!Inv /\ SLP!OrderInv /\ \A t \in Thread : SLP!Answer(t)

(* Which call a thread is in tells where it is in list_operations.         *)
Position(t) ==
    /\ SLP!Fn(t) # "none" => hpc[t] \in {"insert", "found", "deleted", "counted"}
    /\ SLP!Fn(t) = "insert" => hpc[t] = "insert" /\ Start(t) < n[t] /\ SLP!Arg(t) = n[t] - 1
    /\ SLP!Fn(t) = "lookup" =>
         hpc[t] = "found" /\ call[t].bin = BinOf[key[n[t]]] /\ SLP!Arg(t) = key[n[t]]
    /\ SLP!Fn(t) = "delete" => hpc[t] = "deleted"
    /\ SLP!Fn(t) = "length" => hpc[t] = "counted"

(* The elements that a thread still has to insert, or to delete.           *)
Loop(t) ==
    /\ hpc[t] \in {"insert", "delete"} => n[t] \in Start(t) .. End(t)
    /\ hpc[t] \in {"found", "deleted"} => n[t] \in Start(t) .. End(t) - 1
    /\ hpc[t] \in {"barrier2", "exited"} => n[t] = End(t)
    /\ hpc[t] = "counted" => bin[t] \in Bin
    /\ hpc[t] = "none" => \A e \in Own(t) : e \notin linked
    /\ hpc[t] = "insert" => \A e \in Own(t) : n[t] <= e => e \notin linked

(* What a call has returned, lock or not.                                  *)
Returned(t) ==
    /\ hpc[t] = "found" /\ pc[t] = "idle" => ret[t] \in Elem \cup {Null}
    /\ hpc[t] = "counted" /\ pc[t] = "idle" => ret[t] \in Int

(* With a lock: the elements of its own that a thread has linked.          *)
Present(t, e) ==
    \/ hpc[t] = "insert" /\ e < n[t] /\ (e = n[t] - 1 => SLP!Phase(t) # "called")
    \/ hpc[t] \in {"barrier1", "check", "counted"}
    \/ hpc[t] \in {"delete", "found"} /\ n[t] <= e
    \/ hpc[t] = "deleted" /\ (n[t] < e \/ (n[t] = e /\ SLP!Phase(t) = "called"))

(* With a lock: what a call has returned, or is about to.                  *)
Answered(t) ==
    /\ hpc[t] = "found" /\ SLP!Phase(t) # "called" => SLP!Answered(t) = n[t]
    /\ hpc[t] = "deleted" =>
         /\ SLP!Fn(t) = "delete" => SLP!Arg(t) = n[t]
         /\ SLP!Phase(t) # "called" => SLP!Answered(t) = 0
    /\ hpc[t] = "counted" /\ SLP!Phase(t) # "called" => SLP!Answered(t) \in Nat

ThreadOK(t) ==
    /\ Position(t) /\ Loop(t) /\ Returned(t)
    /\ SLP!Synced => Answered(t) /\ \A e \in Own(t) : e \in linked <=> Present(t, e)

(* How far main is tells which threads exist and which have ended.         *)
MainOK ==
    /\ hpc[Main] \in {"create", "join", "check", "counted", "append"}
    /\ \A t \in Workers : hpc[t] \notin {"create", "join", "append"}
    /\ \A t \in Workers : hpc[t] = "none" <=> created <= t
    /\ \A t \in Workers : t < joined => hpc[t] = "exited"
    /\ hpc[Main] # "create" => created = NumThreads
    /\ hpc[Main] \in {"check", "counted", "append"} => joined = NumThreads
    /\ status = "exit 0" => hpc[Main] = "append"
    /\ SLP!Synced => status # "corrupted"

(* The counters of the barriers count, and the first barrier has held back *)
(* everyone until all were done.                                           *)
PastInserting == {t \in Workers : hpc[t] \notin {"none", "insert"}}
PastDeleting == {t \in Workers : hpc[t] \in {"barrier2", "exited"}}

BarrierOK ==
    /\ threads_finished_inserting = Cardinality(PastInserting)
    /\ threads_finished_deleting = Cardinality(PastDeleting)
    /\ (\E t \in Workers : PastInsertBarrier(t)) => threads_finished_inserting = NumThreads
    /\ \A t \in Workers : hpc[t] \in {"check", "counted"} => n[t] = Start(t)

CommonInv == LibInv /\ TypeOK /\ (\A t \in Thread : ThreadOK(t)) /\ MainOK
HarnessInv == CommonInv /\ BarrierOK

-----------------------------------------------------------------------------
(* The arguments and the elements.                                         *)

LEMMA Sizes ==
    /\ NumElements \in Nat
    /\ \A t \in Workers : /\ t \in Thread /\ t # Main /\ t \in Nat /\ t < NumThreads
                          /\ Start(t) \in Nat /\ End(t) \in Nat
                          /\ Start(t) <= End(t) /\ End(t) <= NumElements
                          /\ End(t) = Start(t) + NumIterations
<1>1. NumElements \in Nat
  BY ArgsAssumption DEF NumElements
<1>2. ASSUME NEW t \in Workers
      PROVE  /\ t \in Thread /\ t # Main /\ t \in Nat /\ t < NumThreads
             /\ Start(t) \in Nat /\ End(t) \in Nat
             /\ Start(t) <= End(t) /\ End(t) <= NumElements
             /\ End(t) = Start(t) + NumIterations
  <2>1. t \in Nat /\ t + 1 \in Nat /\ t + 1 <= NumThreads /\ NumThreads \in Nat
        /\ NumIterations \in Nat
    BY ArgsAssumption DEF Workers
  <2>2. t * NumIterations \in Nat /\ (t + 1) * NumIterations \in Nat
        /\ (t + 1) * NumIterations = t * NumIterations + NumIterations
    BY <2>1
  <2>3. (t + 1) * NumIterations <= NumThreads * NumIterations
    BY <2>1
  <2> QED
    BY <2>1, <2>2, <2>3 DEF Start, End, NumElements, Thread, Workers, Main
<1> QED
  BY <1>1, <1>2

(* e belongs to the thread whose range it is in.                           *)
LEMMA Division ==
    ASSUME NEW k \in Nat, NEW t \in Nat, NEW e \in Nat
    PROVE  k # 0 => (e \div k = t <=> t * k <= e /\ e < (t + 1) * k)
OBVIOUS

LEMMA OwnFacts ==
    /\ Owner \in [Elem -> Workers]
    /\ \A t \in Workers : Own(t) = Start(t) .. End(t) - 1
    /\ \A t \in Thread : Own(t) \subseteq Elem
<1>1. ASSUME NEW e \in Elem PROVE Owner[e] \in Workers
  <2>1. e \in Nat /\ NumElements \in Nat /\ e < NumThreads * NumIterations
        /\ NumIterations \in Nat /\ NumThreads \in Nat
    BY Sizes, ArgsAssumption DEF Elem, NumElements
  <2>2. NumIterations # 0
    BY <2>1
  <2>3. PICK q \in Nat : q = e \div NumIterations
    BY <2>1, <2>2
  <2>4. q * NumIterations <= e
    BY <2>1, <2>2, <2>3, Division
  <2>5. q < NumThreads
    <3> SUFFICES ASSUME NumThreads <= q PROVE FALSE
      BY <2>1
    <3>1. NumThreads * NumIterations <= q * NumIterations
      BY <2>1
    <3> QED
      BY <2>1, <2>4, <3>1
  <2> QED
    BY <2>1, <2>3, <2>5 DEF Owner, Workers
<1>2. ASSUME NEW t \in Workers, NEW e
      PROVE  e \in Own(t) <=> e \in Start(t) .. End(t) - 1
  <2>1. t \in Nat /\ NumIterations \in Nat /\ NumElements \in Nat
        /\ Start(t) \in Nat /\ End(t) \in Nat /\ End(t) <= NumElements
        /\ End(t) = Start(t) + NumIterations
    BY Sizes, ArgsAssumption
  <2>2. e \in Own(t) \/ e \in Start(t) .. End(t) - 1 => e \in Elem
    BY <2>1 DEF Own, Elem
  <2>3. CASE e \in Elem
    <3>1. e \in Nat /\ NumIterations # 0
      BY <2>1, <2>3, ArgsAssumption DEF Elem, NumElements
    <3>2. Owner[e] = t <=> t * NumIterations <= e /\ e < (t + 1) * NumIterations
      BY <2>1, <2>3, <3>1, Division DEF Owner
    <3> QED
      BY <2>1, <2>3, <3>1, <3>2 DEF Own, Start, End
  <2> QED
    BY <2>2, <2>3
<1>3. Owner \in [Elem -> Workers]
  BY <1>1 DEF Owner
<1>4. \A t \in Workers : Own(t) = Start(t) .. End(t) - 1
  BY <1>2
<1> QED
  BY <1>3, <1>4 DEF Own

-----------------------------------------------------------------------------
(* The library: its assumptions hold of the constants given to it.         *)

LEMMA SameFinite == \A S : /\ SLP!IsFiniteSet(S) <=> IsFiniteSet(S)
                           /\ SLP!Cardinality(S) = Cardinality(S)
BY DEF SLP!IsFiniteSet, IsFiniteSet, SLP!Cardinality, Cardinality

LEMMA LibArgs ==
    /\ SLP!NodeAssumption /\ SLP!OwnerAssumption /\ SLP!KeyAssumption
    /\ SLP!LimitAssumption /\ SLP!SyncAssumption
<1>1. NumElements \in Nat
  BY Sizes
<1>2. IsFiniteSet(Elem) /\ Cardinality(Elem) <= NumElements
  <2>1. 0 \in Int /\ NumElements - 1 \in Int
    BY <1>1
  <2>2. /\ IsFiniteSet(0 .. NumElements - 1)
        /\ Cardinality(0 .. NumElements - 1) =
             IF 0 > NumElements - 1 THEN 0 ELSE NumElements - 1 - 0 + 1
    BY <2>1, FS_Interval
  <2> QED
    BY <1>1, <2>2 DEF Elem
<1>3. SLP!NodeAssumption
  BY <1>2, SameFinite, HeadAssumption DEF SLP!NodeAssumption, SLP!Node, SLP!Head
<1>4. SLP!OwnerAssumption
  BY OwnFacts DEF SLP!OwnerAssumption, Thread
<1>5. SLP!KeyAssumption
  BY KeysAssumption DEF SLP!KeyAssumption, SLP!KeyVal
<1>6. SLP!LimitAssumption
  BY <1>1, <1>2, SameFinite DEF SLP!LimitAssumption
<1>7. SLP!SyncAssumption
  BY OptionAssumption DEF SLP!SyncAssumption
<1> QED
  BY <1>3, <1>4, <1>5, <1>6, <1>7

(* SL, the library the harness calls, and SLP are one specification.       *)
LEMMA SameCall == \A f, b, a : SL!Set!Call(f, b, a) = SLP!Set!Call(f, b, a)
BY DEF SL!Set!Call, SLP!Set!Call

LEMMA SameInit == (SL!Init <=> SLP!Init) /\ SL!vars = SLP!vars /\ (Synced <=> SLP!Synced)
BY DEF SL!Init, SLP!Init, SL!Set!NoCall, SLP!Set!NoCall, SL!Node, SLP!Node, SL!Head, SLP!Head,
       SL!vars, SLP!vars, SL!links, SLP!links, SL!fixed, SLP!fixed, SL!locals, SLP!locals,
       Synced, SL!Synced, SLP!Synced

LEMMA SameInvoke == \A t, c : SL!Invoke(t, c) <=> SLP!Invoke(t, c)
BY DEF SL!Invoke, SLP!Invoke, SL!Goto, SLP!Goto, SL!links, SLP!links, SL!fixed, SLP!fixed

LEMMA SameMayCall == \A t : SL!MayCall(t) = SLP!MayCall(t)
BY DEF SL!MayCall, SLP!MayCall, SL!Set!Calls, SLP!Set!Calls, SL!Set!Call, SLP!Set!Call,
       SL!Synced, SLP!Synced

LEMMA SameStep == \A t : SL!Step(t) <=> SLP!Step(t)
<1> SUFFICES ASSUME NEW t PROVE SL!Step(t) <=> SLP!Step(t)
  OBVIOUS
<1> USE DEF SL!Goto, SLP!Goto, SL!links, SLP!links, SL!fixed, SLP!fixed, SL!locals, SLP!locals,
            SL!Fn, SLP!Fn, SL!Arg, SLP!Arg, SL!Synced, SLP!Synced, SL!Jump, SLP!Jump,
            SL!SetNext, SLP!SetNext, SL!SetPrev, SLP!SetPrev, SL!ReturnWith, SLP!ReturnWith,
            SL!Set!NoCall, SLP!Set!NoCall
<1>1. (SL!SetLock(t) <=> SLP!SetLock(t)) /\ (SL!ReleaseLock(t) <=> SLP!ReleaseLock(t))
  BY DEF SL!SetLock, SLP!SetLock, SL!ReleaseLock, SLP!ReleaseLock, SL!Entry, SLP!Entry
<1>2. /\ SL!WhileNext(t) <=> SLP!WhileNext(t)
      /\ SL!Compare(t) <=> SLP!Compare(t)
      /\ SL!CheckBack(t) <=> SLP!CheckBack(t)
      /\ SL!Advance(t) <=> SLP!Advance(t)
      /\ SL!LookupResult(t) <=> SLP!LookupResult(t)
  BY DEF SL!WhileNext, SLP!WhileNext, SL!Compare, SLP!Compare, SL!CheckBack, SLP!CheckBack,
         SL!Advance, SLP!Advance, SL!LookupResult, SLP!LookupResult,
         SL!Result, SLP!Result, SL!LoopEnd, SLP!LoopEnd, SL!KeepsWalking, SLP!KeepsWalking
<1>3. /\ SL!Place(t) <=> SLP!Place(t)
      /\ SL!FixSuccessor(t) <=> SLP!FixSuccessor(t)
      /\ SL!SetElementNext(t) <=> SLP!SetElementNext(t)
      /\ SL!SetElementPrev(t) <=> SLP!SetElementPrev(t)
      /\ SL!Link(t) <=> SLP!Link(t)
  BY DEF SL!Place, SLP!Place, SL!FixSuccessor, SLP!FixSuccessor, SL!SetElementNext,
         SLP!SetElementNext, SL!SetElementPrev, SLP!SetElementPrev, SL!Link, SLP!Link
<1>4. /\ SL!CheckHead(t) <=> SLP!CheckHead(t)
      /\ SL!CheckPrev(t) <=> SLP!CheckPrev(t)
      /\ SL!CheckNext(t) <=> SLP!CheckNext(t)
      /\ SL!TestLast(t) <=> SLP!TestLast(t)
  BY DEF SL!CheckHead, SLP!CheckHead, SL!CheckPrev, SLP!CheckPrev, SL!CheckNext,
         SLP!CheckNext, SL!TestLast, SLP!TestLast, SL!Corrupted, SLP!Corrupted
<1>5. /\ SL!CutLast(t) <=> SLP!CutLast(t)
      /\ SL!Unlink(t) <=> SLP!Unlink(t)
      /\ SL!FixBack(t) <=> SLP!FixBack(t)
      /\ SL!ClearNext(t) <=> SLP!ClearNext(t)
      /\ SL!ClearPrev(t) <=> SLP!ClearPrev(t)
  BY DEF SL!CutLast, SLP!CutLast, SL!Unlink, SLP!Unlink, SL!FixBack, SLP!FixBack,
         SL!ClearNext, SLP!ClearNext, SL!ClearPrev, SLP!ClearPrev
<1>6. SL!Fault(t) <=> SLP!Fault(t)
  BY DEF SL!Fault, SLP!Fault, SL!NullDereference, SLP!NullDereference
<1> QED
  BY <1>1, <1>2, <1>3, <1>4, <1>5, <1>6 DEF SL!Step, SLP!Step

LEMMA SameNext == SL!Next <=> SLP!Next
BY SameInvoke, SameMayCall, SameStep DEF SL!Next, SLP!Next

(* What the harness does to the library: a step of it, a call that callers *)
(* may make, or nothing.                                                   *)
LibraryStep == [SLP!Next]_(SLP!vars)

(* What the library keeps, and what its steps do.                          *)
LEMMA LibInit == SLP!Init => LibInv
<1> SUFFICES ASSUME SLP!Init PROVE LibInv
  OBVIOUS
<1>1. SLP!Inv /\ SLP!OrderInv
  BY LibArgs, SLP!InitInv, SLP!OrderInit
<1>2. \A t \in Thread : SLP!Answer(t)
  BY DEF SLP!Init, SLP!Answer
<1> QED
  BY <1>1, <1>2 DEF LibInv

LEMMA LibStutter == LibInv /\ UNCHANGED libVars => LibInv'
<1> SUFFICES ASSUME LibInv, UNCHANGED libVars PROVE LibInv'
  OBVIOUS
<1>1. UNCHANGED SLP!vars
  BY DEF libVars, SLP!vars, SLP!links, SLP!fixed, SLP!locals
<1>2. SLP!Inv' /\ SLP!OrderInv'
  BY <1>1, LibArgs, SLP!NextInv, SLP!OrderNext DEF LibInv
<1>3. \A t \in Thread : SLP!Answer(t)'
  BY DEF libVars, LibInv, SLP!Answer, SLP!Fn
<1> QED
  BY <1>2, <1>3 DEF LibInv

LEMMA LibInvoke ==
    ASSUME LibInv, ~segv, NEW t \in Thread, NEW c \in SLP!MayCall(t), SLP!Invoke(t, c)
    PROVE  /\ LibInv'
           /\ pc[t] = "idle"
           /\ pc' = [pc EXCEPT ![t] = "lock"]
           /\ call' = [call EXCEPT ![t] = c]
           /\ ret' = [ret EXCEPT ![t] = Null]
           /\ UNCHANGED <<key, sync_opt, linked>>
<1>1. SLP!Next
  BY DEF SLP!Next
<1>2. SLP!Inv' /\ SLP!OrderInv'
  BY <1>1, LibArgs, SLP!NextInv, SLP!OrderNext DEF LibInv
<1>3. /\ pc[t] = "idle"
      /\ pc' = [pc EXCEPT ![t] = "lock"]
      /\ call' = [call EXCEPT ![t] = c]
      /\ ret' = [ret EXCEPT ![t] = Null]
      /\ UNCHANGED <<key, sync_opt, linked>>
  BY DEF SLP!Invoke, SLP!Goto, SLP!links, SLP!fixed
<1>4. \A u \in Thread : SLP!Answer(u)'
  BY <1>3 DEF LibInv, SLP!Inv, SLP!TypeOK, SLP!Answer, SLP!Fn
<1> QED
  BY <1>2, <1>3, <1>4 DEF LibInv

LEMMA LibStep ==
    ASSUME LibInv, NEW t \in Thread, SLP!Step(t)
    PROVE  /\ LibInv'
           /\ SLP!Frame(t)
           /\ SLP!Synced =>
                SLP!Set!Effect(t) \/ SLP!Set!Return(t) \/ UNCHANGED SLP!Set!vars
<1>1. SLP!Next
  BY DEF SLP!Next
<1>2. SLP!Inv' /\ SLP!OrderInv'
  BY <1>1, LibArgs, SLP!NextInv, SLP!OrderNext DEF LibInv
<1>3. SLP!Frame(t)
  BY LibArgs, SLP!FrameOf DEF LibInv
<1>4. \A u \in Thread : SLP!Answer(u)'
  BY <1>3 DEF LibInv, SLP!Answer, SLP!Fn, SLP!Frame
<1>5. SLP!Synced => SLP!Set!Effect(t) \/ SLP!Set!Return(t) \/ UNCHANGED SLP!Set!vars
  BY LibArgs, SLP!SetStep DEF LibInv
<1> QED
  BY <1>2, <1>3, <1>4, <1>5 DEF LibInv

-----------------------------------------------------------------------------
(* What a step of one thread leaves alone.                                 *)

LEMMA ThreadKept ==
    ASSUME NEW u \in Thread, ThreadOK(u),
           hpc'[u] = hpc[u], n'[u] = n[u], bin'[u] = bin[u],
           pc'[u] = pc[u], call'[u] = call[u], ret'[u] = ret[u],
           key' = key, sync_opt' = sync_opt,
           \A e \in Own(u) : /\ e \in linked' => e \in linked
                             /\ SLP!Synced /\ e \in linked => e \in linked'
    PROVE  ThreadOK(u)'
<1>1. /\ SLP!Fn(u)' = SLP!Fn(u) /\ SLP!Arg(u)' = SLP!Arg(u)
      /\ SLP!Phase(u)' = SLP!Phase(u) /\ SLP!Answered(u)' = SLP!Answered(u)
      /\ SLP!Synced' <=> SLP!Synced
  BY DEF SLP!Fn, SLP!Arg, SLP!Phase, SLP!Answered, SLP!Done, SLP!Synced
<1>2. Position(u)' /\ Loop(u)' /\ Returned(u)'
  BY <1>1 DEF ThreadOK, Position, Loop, Returned
<1>3. Answered(u)' <=> Answered(u)
  BY <1>1 DEF Answered
<1>4. \A e : Present(u, e)' <=> Present(u, e)
  BY <1>1 DEF Present
<1> QED
  BY <1>1, <1>2, <1>3, <1>4 DEF ThreadOK

(* A step of the harness itself, which calls nothing.                      *)
LEMMA LocalKept ==
    ASSUME CommonInv, NEW t \in Thread, UNCHANGED libVars, ThreadOK(t)',
           \A u \in Thread \ {t} : hpc'[u] = hpc[u] /\ n'[u] = n[u] /\ bin'[u] = bin[u]
    PROVE  LibInv' /\ \A u \in Thread : ThreadOK(u)'
BY LibStutter, ThreadKept DEF CommonInv, libVars

(* The call of thread t.                                                   *)
LEMMA CallKept ==
    ASSUME CommonInv, Running, NEW t \in Thread, NEW c \in SLP!MayCall(t), SLP!Invoke(t, c),
           \A u \in Thread \ {t} : hpc'[u] = hpc[u] /\ n'[u] = n[u] /\ bin'[u] = bin[u],
           ThreadOK(t)'
    PROVE  LibraryStep /\ LibInv' /\ \A u \in Thread : ThreadOK(u)'
<1>1. /\ LibInv'
      /\ pc' = [pc EXCEPT ![t] = "lock"]
      /\ call' = [call EXCEPT ![t] = c]
      /\ ret' = [ret EXCEPT ![t] = Null]
      /\ UNCHANGED <<key, sync_opt, linked>>
  BY LibInvoke DEF CommonInv, Running
<1>2. LibraryStep
  BY DEF LibraryStep, SLP!Next, Running
<1> QED
  BY <1>1, <1>2, ThreadKept DEF CommonInv

LEMMA Called ==
    ASSUME CommonInv, Running, NEW t \in Thread, NEW c \in SLP!MayCall(t), SLP!Invoke(t, c)
    PROVE  /\ SLP!Fn(t) = "none" /\ SLP!Fn(t)' = c.fn /\ SLP!Arg(t)' = c.arg /\ call'[t] = c
           /\ SLP!Phase(t) = "idle" /\ SLP!Phase(t)' = "called"
           /\ pc[t] = "idle" /\ pc'[t] = "lock"
           /\ SLP!Answered(t) = ret[t]
           /\ UNCHANGED <<key, sync_opt, linked>> /\ (SLP!Synced' <=> SLP!Synced)
<1>1. /\ pc[t] = "idle"
      /\ pc' = [pc EXCEPT ![t] = "lock"]
      /\ call' = [call EXCEPT ![t] = c]
      /\ UNCHANGED <<key, sync_opt, linked>>
  BY LibInvoke DEF CommonInv, Running
<1>2. pc'[t] = "lock" /\ call'[t] = c
  BY <1>1 DEF CommonInv, LibInv, SLP!Inv, SLP!TypeOK
<1>3. SLP!Fn(t) = "none"
  BY <1>1 DEF CommonInv, LibInv, SLP!Inv, SLP!Shape
<1> QED
  BY <1>1, <1>2, <1>3
     DEF SLP!Fn, SLP!Arg, SLP!Phase, SLP!Answered, SLP!Done, SLP!Synced

(* Outside of calls.                                                       *)
LEMMA Idle ==
    ASSUME CommonInv, NEW t \in Thread, pc[t] = "idle"
    PROVE  /\ SLP!Fn(t) = "none" /\ SLP!Phase(t) = "idle" /\ SLP!Answered(t) = ret[t]
           /\ UNCHANGED libVars =>
                /\ SLP!Fn(t)' = "none" /\ SLP!Phase(t)' = "idle"
                /\ SLP!Answered(t)' = ret[t]
                /\ SLP!Synced' <=> SLP!Synced
<1>1. SLP!Fn(t) = "none" /\ pc[t] = "idle"
  BY DEF CommonInv, LibInv, SLP!Inv, SLP!Shape
<1> QED
  BY <1>1 DEF libVars, SLP!Fn, SLP!Phase, SLP!Answered, SLP!Done, SLP!Synced

(* Only main is at the labels of main, only threads at those of theirs.    *)
LEMMA WorkerAt ==
    ASSUME MainOK, NEW t \in Thread, hpc[t] \notin {"create", "join", "check", "counted", "append"}
    PROVE  t \in Workers
BY DEF MainOK, Thread

(* A step of a thread that neither starts nor ends it.                     *)
LEMMA MainKept ==
    ASSUME MainOK, TypeOK, NEW t \in Thread, NEW label,
           UNCHANGED <<sync_opt, mains>>, hpc' = [hpc EXCEPT ![t] = label],
           \/ /\ t \in Workers
              /\ hpc[t] \notin {"none", "exited"}
              /\ label \notin {"none", "create", "join", "append"}
           \/ hpc[t] \in {"check", "counted"} /\ label \in {"check", "counted"}
    PROVE  MainOK'
<1>1. \A u \in Thread \ {t} : hpc'[u] = hpc[u]
  OBVIOUS
<1>2. hpc'[t] = label
  BY DEF TypeOK
<1>3. Main \in Thread /\ Workers \subseteq Thread /\ Main \notin Workers
  BY ArgsAssumption DEF Main, Workers, Thread
<1>4. UNCHANGED <<created, joined, status>> /\ (SLP!Synced' <=> SLP!Synced)
  BY DEF mains, SLP!Synced
<1>5. hpc'[Main] \in {"create", "join", "check", "counted", "append"}
      /\ (hpc'[Main] = hpc[Main]
          \/ (hpc[Main] \in {"check", "counted"} /\ hpc'[Main] \in {"check", "counted"}))
  <2>1. CASE t = Main
    BY <1>2, <1>3, <2>1
  <2>2. CASE t # Main
    BY <1>1, <1>3, <2>2 DEF MainOK
  <2> QED
    BY <2>1, <2>2
<1>6. \A u \in Workers :
        /\ hpc'[u] \notin {"create", "join", "append"}
        /\ hpc'[u] = "none" <=> hpc[u] = "none"
        /\ hpc[u] = "exited" => hpc'[u] = "exited"
  BY <1>1, <1>2, <1>3 DEF MainOK
<1> QED
  BY <1>4, <1>5, <1>6 DEF MainOK

LEMMA MainSame ==
    ASSUME MainOK, UNCHANGED <<sync_opt, mains, hpc>>
    PROVE  MainOK'
<1>1. /\ created' = created /\ joined' = joined /\ status' = status /\ hpc' = hpc
      /\ SLP!Synced' <=> SLP!Synced
  BY DEF mains, SLP!Synced
<1>2. hpc'[Main] = hpc[Main]
  BY <1>1
<1>3. \A t \in Workers : hpc'[t] = hpc[t]
  BY <1>1
<1>4. hpc'[Main] \in {"create", "join", "check", "counted", "append"}
  BY <1>2 DEF MainOK
<1>5. \A t \in Workers : hpc'[t] \notin {"create", "join", "append"}
  BY <1>3 DEF MainOK
<1>6. \A t \in Workers : hpc'[t] = "none" <=> created' <= t
  BY <1>1, <1>3 DEF MainOK
<1>7. \A t \in Workers : t < joined' => hpc'[t] = "exited"
  BY <1>1, <1>3 DEF MainOK
<1>8. hpc'[Main] # "create" => created' = NumThreads
  BY <1>1, <1>2 DEF MainOK
<1> QED
  BY <1>1, <1>2, <1>4, <1>5, <1>6, <1>7, <1>8 DEF MainOK

(* The end of the process.                                                 *)
LEMMA ExitKept ==
    ASSUME CommonInv, NEW how \in {"exit 0", "exit 2", "corrupted", "SIGSEGV", "SIGFPE"},
           Exit(how), how = "exit 0" => hpc[Main] = "append", SLP!Synced => how # "corrupted"
    PROVE  LibraryStep /\ CommonInv'
<1>1. status' = how /\ UNCHANGED <<libVars, hpc, n, bin, barriers, counts, created, joined>>
  BY DEF Exit
<1>2. LibInv' /\ \A u \in Thread : ThreadOK(u)'
  BY <1>1, LibStutter, ThreadKept DEF CommonInv, libVars
<1>3. TypeOK'
  BY <1>1 DEF CommonInv, TypeOK, barriers, counts
<1>4. MainOK'
  BY <1>1 DEF CommonInv, MainOK, libVars, SLP!Synced
<1>5. LibraryStep
  BY <1>1 DEF LibraryStep, libVars, SLP!vars, SLP!links, SLP!fixed, SLP!locals
<1> QED
  BY <1>2, <1>3, <1>4, <1>5 DEF CommonInv

-----------------------------------------------------------------------------
(* The steps of list_operations that projects 2a and 2b share.             *)

LEMMA InsertNextInv ==
    ASSUME CommonInv, Running, NEW t \in Thread, InsertNext(t)
    PROVE  LibraryStep /\ CommonInv' /\ t \in Workers
<1> DEFINE e0 == n[t]
           c == SLP!Set!Call("insert", BinOf[key[e0]], e0)
<1>1. /\ hpc[t] = "insert" /\ e0 < End(t) /\ SLP!Invoke(t, c)
      /\ n' = [n EXCEPT ![t] = @ + 1]
      /\ UNCHANGED <<hpc, bin, barriers, counts, mains>>
  BY SameCall, SameInvoke DEF InsertNext, At
<1>2. t \in Workers
  BY <1>1, WorkerAt DEF CommonInv
<1>3. /\ Start(t) \in Nat /\ End(t) \in Nat /\ End(t) <= NumElements /\ NumElements \in Nat
      /\ Own(t) = Start(t) .. End(t) - 1 /\ Own(t) \subseteq Elem
  BY <1>2, Sizes, OwnFacts
<1>4. e0 \in Start(t) .. End(t) - 1 /\ e0 \in Own(t) /\ e0 \notin linked
  BY <1>1, <1>3 DEF CommonInv, ThreadOK, Loop
<1>5. c \in SLP!MayCall(t)
  BY <1>4 DEF SLP!MayCall, SLP!Set!Calls, Own
<1>6. c.fn = "insert" /\ c.arg = e0
  BY DEF SLP!Set!Call
<1>7. /\ SLP!Fn(t)' = "insert" /\ SLP!Arg(t)' = e0
      /\ SLP!Phase(t) = "idle" /\ SLP!Phase(t)' = "called"
      /\ UNCHANGED <<key, sync_opt, linked>> /\ (SLP!Synced' <=> SLP!Synced)
  BY <1>1, <1>5, <1>6, Called
<1>8. n'[t] = e0 + 1 /\ hpc'[t] = "insert" /\ hpc' = hpc
  BY <1>1 DEF CommonInv, TypeOK
<1>9. ThreadOK(t)'
  <2>1. Position(t)'
    BY <1>3, <1>4, <1>7, <1>8 DEF Position
  <2>2. Loop(t)'
    BY <1>3, <1>4, <1>7, <1>8 DEF Loop, CommonInv, ThreadOK
  <2>3. Returned(t)' /\ Answered(t)'
    BY <1>8 DEF Returned, Answered
  <2>4. \A e \in Own(t) : Present(t, e)' <=> Present(t, e)
    BY <1>1, <1>3, <1>4, <1>7, <1>8 DEF Present
  <2> QED
    BY <1>7, <2>1, <2>2, <2>3, <2>4 DEF ThreadOK, CommonInv
<1>10. LibraryStep /\ LibInv' /\ \A u \in Thread : ThreadOK(u)'
  BY <1>1, <1>5, <1>9, CallKept
<1>11. TypeOK'
  <2>1. e0 + 1 \in 0 .. NumElements
    BY <1>3, <1>4
  <2>2. n' \in [Thread -> 0 .. NumElements]
    BY <1>1, <2>1 DEF CommonInv, TypeOK
  <2> QED
    BY <1>1, <2>2 DEF CommonInv, TypeOK, barriers, counts, mains
<1>12. MainOK'
  BY <1>1, <1>7, MainSame DEF CommonInv
<1> QED
  BY <1>2, <1>10, <1>11, <1>12 DEF CommonInv

LEMMA LookupNextInv ==
    ASSUME CommonInv, Running, NEW t \in Thread, LookupNext(t)
    PROVE  LibraryStep /\ CommonInv' /\ t \in Workers
<1> DEFINE e0 == n[t]
           c == SLP!Set!Call("lookup", BinOf[key[e0]], key[e0])
<1>1. /\ hpc[t] = "delete" /\ e0 < End(t) /\ SLP!Invoke(t, c)
      /\ hpc' = [hpc EXCEPT ![t] = "found"]
      /\ UNCHANGED <<n, bin, barriers, counts, mains>>
  BY SameCall, SameInvoke DEF LookupNext, At, Goto
<1>2. t \in Workers
  BY <1>1, WorkerAt DEF CommonInv
<1>3. /\ Start(t) \in Nat /\ End(t) \in Nat
      /\ Own(t) = Start(t) .. End(t) - 1 /\ Own(t) \subseteq Elem
  BY <1>2, Sizes, OwnFacts
<1>4. e0 \in Start(t) .. End(t) - 1 /\ e0 \in Elem
  BY <1>1, <1>3 DEF CommonInv, ThreadOK, Loop
<1>5. c \in SLP!MayCall(t)
  BY <1>4 DEF SLP!MayCall, SLP!Set!Calls
<1>6. c.fn = "lookup" /\ c.arg = key[e0] /\ c.bin = BinOf[key[e0]]
  BY DEF SLP!Set!Call
<1>7. /\ SLP!Fn(t)' = "lookup" /\ SLP!Arg(t)' = key[e0] /\ call'[t] = c
      /\ SLP!Phase(t) = "idle" /\ SLP!Phase(t)' = "called" /\ pc'[t] = "lock"
      /\ UNCHANGED <<key, sync_opt, linked>> /\ (SLP!Synced' <=> SLP!Synced)
  BY <1>1, <1>5, <1>6, Called
<1>8. n'[t] = e0 /\ hpc'[t] = "found"
  BY <1>1 DEF CommonInv, TypeOK
<1>9. ThreadOK(t)'
  <2>1. Position(t)'
    BY <1>6, <1>7, <1>8 DEF Position
  <2>2. Loop(t)' /\ Returned(t)' /\ Answered(t)'
    BY <1>3, <1>4, <1>7, <1>8 DEF Loop, Returned, Answered
  <2>3. \A e \in Own(t) : Present(t, e)' <=> Present(t, e)
    BY <1>1, <1>8 DEF Present
  <2> QED
    BY <1>7, <2>1, <2>2, <2>3 DEF ThreadOK, CommonInv
<1>10. LibraryStep /\ LibInv' /\ \A u \in Thread : ThreadOK(u)'
  BY <1>1, <1>5, <1>9, CallKept
<1>11. TypeOK'
  BY <1>1 DEF CommonInv, TypeOK, barriers, counts, mains
<1>12. MainOK'
  BY <1>1, <1>2, <1>7, MainKept DEF CommonInv
<1> QED
  BY <1>2, <1>10, <1>11, <1>12 DEF CommonInv

(* With a lock the lookup has found the thread's own element, still linked.*)
LEMMA DeleteMatchingInv ==
    ASSUME CommonInv, Running, NEW t \in Thread, DeleteMatching(t)
    PROVE  LibraryStep /\ CommonInv' /\ t \in Workers
<1> DEFINE e0 == n[t]
           c == SLP!Set!Call("delete", BinOf[key[e0]], ret[t])
<1>1. hpc[t] = "found" /\ pc[t] = "idle"
  BY DEF DeleteMatching, At
<1>2. t \in Workers
  BY <1>1, WorkerAt DEF CommonInv
<1>3. /\ Start(t) \in Nat /\ End(t) \in Nat
      /\ Own(t) = Start(t) .. End(t) - 1 /\ Own(t) \subseteq Elem
  BY <1>2, Sizes, OwnFacts
<1>4. e0 \in Start(t) .. End(t) - 1 /\ e0 \in Own(t) /\ e0 \in Elem
  BY <1>1, <1>3 DEF CommonInv, ThreadOK, Loop
<1>5. /\ SLP!Phase(t) = "idle" /\ SLP!Answered(t) = ret[t]
      /\ ret[t] \in Elem \cup {Null}
  BY <1>1, Idle DEF CommonInv, ThreadOK, Returned
<1>6. SLP!Synced => ret[t] = e0 /\ e0 \in linked
  BY <1>1, <1>3, <1>4, <1>5 DEF CommonInv, ThreadOK, Answered, Present
<1>7. CASE ret[t] = Null /\ Exit("corrupted")
  <2>1. ~SLP!Synced
    BY <1>4, <1>6, <1>7, HeadAssumption
  <2> QED
    BY <1>2, <1>7, <2>1, ExitKept
<1>8. CASE ~(ret[t] = Null /\ Exit("corrupted"))
  <2>1. /\ ret[t] # Null /\ SLP!Invoke(t, c)
        /\ hpc' = [hpc EXCEPT ![t] = "deleted"]
        /\ UNCHANGED <<n, bin, barriers, counts, mains>>
    BY <1>8, SameCall, SameInvoke DEF DeleteMatching, Goto
  <2>2. ret[t] \in Elem /\ BinOf[key[e0]] \in Bin
    BY <1>4, <1>5, <2>1, LibArgs, SLP!NodeFacts DEF CommonInv, LibInv, SLP!Inv
  <2>3. c \in SLP!MayCall(t)
    <3>1. CASE SLP!Synced
      BY <1>4, <1>6, <3>1 DEF SLP!MayCall, SLP!Set!Calls, Own
    <3>2. CASE ~SLP!Synced
      BY <2>2, <3>2 DEF SLP!MayCall
    <3> QED
      BY <3>1, <3>2
  <2>4. c.fn = "delete" /\ c.arg = ret[t]
    BY DEF SLP!Set!Call
  <2>5. /\ SLP!Fn(t)' = "delete" /\ SLP!Arg(t)' = ret[t]
        /\ SLP!Phase(t)' = "called" /\ pc'[t] = "lock"
        /\ UNCHANGED <<key, sync_opt, linked>> /\ (SLP!Synced' <=> SLP!Synced)
    BY <2>1, <2>3, <2>4, Called
  <2>6. n'[t] = e0 /\ hpc'[t] = "deleted"
    BY <2>1 DEF CommonInv, TypeOK
  <2>7. ThreadOK(t)'
    <3>1. Position(t)' /\ Loop(t)' /\ Returned(t)'
      BY <1>3, <1>4, <2>5, <2>6 DEF Position, Loop, Returned
    <3>2. SLP!Synced => Answered(t)'
      BY <1>6, <2>5, <2>6 DEF Answered
    <3>3. \A e \in Own(t) : Present(t, e)' <=> Present(t, e)
      BY <1>1, <1>3, <1>4, <2>5, <2>6 DEF Present
    <3> QED
      BY <2>5, <3>1, <3>2, <3>3 DEF ThreadOK, CommonInv
  <2>8. LibraryStep /\ LibInv' /\ \A u \in Thread : ThreadOK(u)'
    BY <2>1, <2>3, <2>7, CallKept
  <2>9. TypeOK'
    BY <2>1 DEF CommonInv, TypeOK, barriers, counts, mains
  <2>10. MainOK'
    BY <1>1, <1>2, <2>1, <2>5, MainKept DEF CommonInv
  <2> QED
    BY <1>2, <2>8, <2>9, <2>10 DEF CommonInv
<1> QED
  BY <1>7, <1>8

LEMMA CheckDeletedInv ==
    ASSUME CommonInv, Running, NEW t \in Thread, CheckDeleted(t)
    PROVE  CommonInv' /\ t \in Workers
<1>1. hpc[t] = "deleted" /\ pc[t] = "idle"
  BY DEF CheckDeleted, At
<1>2. t \in Workers
  BY <1>1, WorkerAt DEF CommonInv
<1>3. /\ Start(t) \in Nat /\ End(t) \in Nat /\ End(t) <= NumElements /\ NumElements \in Nat
      /\ Own(t) = Start(t) .. End(t) - 1 /\ n[t] \in Start(t) .. End(t) - 1
  BY <1>1, <1>2, Sizes, OwnFacts DEF CommonInv, ThreadOK, Loop
<1>4. SLP!Phase(t) = "idle" /\ SLP!Fn(t) = "none" /\ (SLP!Synced => ret[t] = 0)
  BY <1>1, Idle DEF CommonInv, ThreadOK, Answered
<1>5. CASE ret[t] = 1 /\ Exit("corrupted")
  <2>1. ~SLP!Synced
    BY <1>4, <1>5
  <2> QED
    BY <1>2, <1>5, <2>1, ExitKept
<1>6. CASE ~(ret[t] = 1 /\ Exit("corrupted"))
  <2>1. /\ n' = [n EXCEPT ![t] = @ + 1] /\ hpc' = [hpc EXCEPT ![t] = "delete"]
        /\ UNCHANGED <<libVars, bin, barriers, counts, mains>>
    BY <1>6 DEF CheckDeleted, Goto
  <2>2. n'[t] = n[t] + 1 /\ hpc'[t] = "delete"
    BY <2>1 DEF CommonInv, TypeOK
  <2>3. SLP!Fn(t)' = "none" /\ SLP!Phase(t)' = "idle" /\ (SLP!Synced' <=> SLP!Synced)
        /\ UNCHANGED <<linked, sync_opt>>
    BY <1>1, <2>1, Idle DEF libVars
  <2>4. ThreadOK(t)'
    <3>1. Position(t)' /\ Loop(t)' /\ Returned(t)' /\ Answered(t)'
      BY <1>3, <2>2, <2>3 DEF Position, Loop, Returned, Answered
    <3>2. \A e \in Own(t) : Present(t, e)' <=> Present(t, e)
      BY <1>1, <1>3, <1>4, <2>2, <2>3 DEF Present
    <3> QED
      BY <2>3, <3>1, <3>2 DEF ThreadOK, CommonInv
  <2>5. LibInv' /\ \A u \in Thread : ThreadOK(u)'
    BY <2>1, <2>4, LocalKept
  <2>6. TypeOK'
    <3>1. n[t] + 1 \in 0 .. NumElements
      BY <1>3
    <3>2. n' \in [Thread -> 0 .. NumElements]
      BY <2>1, <3>1 DEF CommonInv, TypeOK
    <3> QED
      BY <2>1, <3>2 DEF CommonInv, TypeOK, barriers, counts, mains
  <2>7. MainOK'
    BY <1>1, <1>2, <2>1, <2>3, MainKept DEF CommonInv
  <2> QED
    BY <1>2, <2>5, <2>6, <2>7 DEF CommonInv
<1> QED
  BY <1>5, <1>6

-----------------------------------------------------------------------------
(* A step inside a call, as the sets of SortedSet see it.                  *)

LEMMA EffectFacts ==
    ASSUME NEW t \in Thread, SLP!Set!Effect(t)
    PROVE  /\ SLP!Phase(t) = "called" /\ SLP!Phase(t)' = "done"
           /\ \/ SLP!Fn(t) = "insert" /\ linked' = linked \cup {SLP!Arg(t)}
              \/ SLP!Fn(t) = "delete" /\ linked' = linked \ {SLP!Arg(t)} /\ SLP!Answered(t)' = 0
              \/ /\ SLP!Fn(t) = "lookup" /\ linked' = linked
                 /\ LET Found == {e \in linked : BinOf[key[e]] = call[t].bin /\ key[e] = SLP!Arg(t)}
                    IN  Found = {} \/ SLP!Answered(t)' \in Found
              \/ /\ SLP!Fn(t) = "length" /\ linked' = linked
                 /\ SLP!Answered(t)' = Cardinality({e \in linked : BinOf[key[e]] = call[t].bin})
<1>1. /\ [u \in Thread |-> SLP!Phase(u)][t] = "called"
      /\ [u \in Thread |-> SLP!Phase(u)]' = [[u \in Thread |-> SLP!Phase(u)] EXCEPT ![t] = "done"]
  BY DEF SLP!Set!Effect
<1>2. [u \in Thread |-> SLP!Phase(u)]'[t] = "done"
  BY <1>1
<1>3. SLP!Phase(t) = "called" /\ SLP!Phase(t)' = "done"
  BY <1>1, <1>2
<1>4. ASSUME NEW r, SLP!Set!Answer(t, r) PROVE SLP!Answered(t)' = r
  <2>1. [u \in Thread |-> SLP!Answered(u)]' = [[u \in Thread |-> SLP!Answered(u)] EXCEPT ![t] = r]
    BY <1>4 DEF SLP!Set!Answer
  <2>2. [u \in Thread |-> SLP!Answered(u)]'[t] = r
    BY <2>1
  <2> QED
    BY <2>2
<1>5. \A b : SLP!Set!InBin(b) = {e \in linked : BinOf[key[e]] = b}
  BY DEF SLP!Set!InBin
<1>6. \A S : SLP!Set!Cardinality(S) = Cardinality(S)
  BY DEF SLP!Set!Cardinality, Cardinality
<1> DEFINE c == call[t]
           Found == {e \in SLP!Set!InBin(c.bin) : key[e] = c.arg}
<1>7. \/ c.fn = "insert" /\ linked' = linked \cup {c.arg}
      \/ c.fn = "delete" /\ linked' = linked \ {c.arg} /\ SLP!Set!Answer(t, 0)
      \/ /\ c.fn = "lookup" /\ linked' = linked
         /\ Found = {} \/ \E e \in Found : SLP!Set!Answer(t, e)
      \/ /\ c.fn = "length" /\ linked' = linked
         /\ SLP!Set!Answer(t, SLP!Set!Cardinality(SLP!Set!InBin(c.bin)))
  BY DEF SLP!Set!Effect
<1>8. \/ c.fn = "insert" /\ linked' = linked \cup {c.arg}
      \/ c.fn = "delete" /\ linked' = linked \ {c.arg} /\ SLP!Answered(t)' = 0
      \/ c.fn = "lookup" /\ linked' = linked /\ (Found = {} \/ SLP!Answered(t)' \in Found)
      \/ /\ c.fn = "length" /\ linked' = linked
         /\ SLP!Answered(t)' = Cardinality({e \in linked : BinOf[key[e]] = c.bin})
  BY <1>4, <1>5, <1>6, <1>7
<1> QED
  BY <1>3, <1>5, <1>8 DEF SLP!Fn, SLP!Arg

LEMMA ReturnFacts ==
    ASSUME NEW t \in Thread, SLP!Set!Return(t)
    PROVE  /\ SLP!Phase(t) = "done" /\ SLP!Phase(t)' = "idle"
           /\ SLP!Answered(t)' = SLP!Answered(t) /\ linked' = linked
<1>1. /\ [u \in Thread |-> SLP!Phase(u)][t] = "done"
      /\ [u \in Thread |-> SLP!Phase(u)]' = [[u \in Thread |-> SLP!Phase(u)] EXCEPT ![t] = "idle"]
      /\ [u \in Thread |-> SLP!Answered(u)]' = [u \in Thread |-> SLP!Answered(u)]
      /\ linked' = linked
  BY DEF SLP!Set!Return
<1>2. /\ [u \in Thread |-> SLP!Phase(u)]'[t] = "idle"
      /\ [u \in Thread |-> SLP!Answered(u)]'[t] = [u \in Thread |-> SLP!Answered(u)][t]
  BY <1>1
<1> QED
  BY <1>1, <1>2

LEMMA StutterFacts ==
    ASSUME NEW t \in Thread, UNCHANGED SLP!Set!vars
    PROVE  /\ SLP!Phase(t)' = SLP!Phase(t)
           /\ SLP!Answered(t)' = SLP!Answered(t) /\ linked' = linked
<1>1. /\ [u \in Thread |-> SLP!Phase(u)]' = [u \in Thread |-> SLP!Phase(u)]
      /\ [u \in Thread |-> SLP!Answered(u)]' = [u \in Thread |-> SLP!Answered(u)]
      /\ linked' = linked
  BY DEF SLP!Set!vars
<1>2. /\ [u \in Thread |-> SLP!Phase(u)]'[t] = [u \in Thread |-> SLP!Phase(u)][t]
      /\ [u \in Thread |-> SLP!Answered(u)]'[t] = [u \in Thread |-> SLP!Answered(u)][t]
  BY <1>1
<1> QED
  BY <1>1, <1>2

(* A step inside a call: with a lock, a lookup finds the element, and no   *)
(* step links or cuts an element of another thread.                        *)
LEMMA LibraryInv ==
    ASSUME CommonInv, Running, NEW t \in Thread, Library(t)
    PROVE  CommonInv'
<1>1. SLP!Step(t) /\ UNCHANGED <<hpc, n, bin, barriers, counts, mains>>
  BY SameStep DEF Library
<1>2. /\ LibInv' /\ SLP!Frame(t)
      /\ SLP!Synced => SLP!Set!Effect(t) \/ SLP!Set!Return(t) \/ UNCHANGED SLP!Set!vars
  BY <1>1, LibStep DEF CommonInv
<1>3. /\ pc[t] # "idle" /\ SLP!Fn(t) \in {"insert", "delete", "lookup", "length"}
      /\ key' = key /\ sync_opt' = sync_opt /\ (SLP!Synced' <=> SLP!Synced)
      /\ hpc' = hpc /\ n' = n /\ bin' = bin
  <2>1. call[t] \in SLP!CallType
    BY DEF CommonInv, LibInv, SLP!Inv, SLP!TypeOK
  <2>2. SLP!Fn(t) \in {"none", "insert", "delete", "lookup", "length"}
    BY <2>1, LibArgs, SLP!CallTypeFacts DEF SLP!Fn
  <2> QED
    BY <1>1, <1>2, <2>2 DEF SLP!Frame, SLP!Synced, CommonInv, LibInv, SLP!Inv, SLP!Shape
<1>4. /\ SLP!Fn(t) = "insert" <=> hpc[t] = "insert"
      /\ SLP!Fn(t) = "lookup" <=> hpc[t] = "found"
      /\ SLP!Fn(t) = "delete" <=> hpc[t] = "deleted"
      /\ SLP!Fn(t) = "length" <=> hpc[t] = "counted"
  BY <1>3 DEF CommonInv, ThreadOK, Position
<1>5. hpc[t] \in {"insert", "found", "deleted"} =>
        /\ t \in Workers
        /\ Start(t) \in Nat /\ End(t) \in Nat
        /\ Own(t) = Start(t) .. End(t) - 1
  BY WorkerAt, Sizes, OwnFacts DEF CommonInv
<1>6. /\ hpc[t] = "insert" =>
           /\ n[t] \in Start(t) .. End(t) /\ SLP!Arg(t) = n[t] - 1 /\ n[t] - 1 \in Own(t)
      /\ hpc[t] \in {"found", "deleted"} => n[t] \in Own(t)
      /\ hpc[t] = "deleted" /\ SLP!Synced => SLP!Arg(t) = n[t]
  BY <1>4, <1>5 DEF CommonInv, ThreadOK, Position, Loop, Answered
<1>7. ASSUME NEW u \in Thread \ {t} PROVE ThreadOK(u)'
  <2>1. \A e \in Own(u) : e \notin Own(t)
    BY DEF Own
  <2>2. \A e \in Own(u) : e \in linked' => e \in linked
    BY <1>2, <1>4, <1>6, <2>1 DEF SLP!Frame
  <2>3. SLP!Synced => \A e \in Own(u) : e \in linked => e \in linked'
    BY <1>2, <1>4, <1>6, <2>1, EffectFacts, ReturnFacts, StutterFacts
  <2>4. pc'[u] = pc[u] /\ call'[u] = call[u] /\ ret'[u] = ret[u]
    BY <1>2 DEF SLP!Frame
  <2> QED
    BY <1>3, <2>2, <2>3, <2>4, ThreadKept DEF CommonInv
<1>8. Position(t)' /\ Loop(t)' /\ Returned(t)'
  <2>1. ThreadOK(t) /\ SLP!Answer(t)
    BY DEF CommonInv, LibInv
  <2>2. Loop(t)'
    <3>1. hpc[t] # "none"
      BY <1>3, <1>4
    <3>2. hpc[t] = "insert" => \A e \in Own(t) : n[t] <= e => e \notin linked'
      BY <1>2, <1>5, <1>6, <2>1 DEF SLP!Frame, ThreadOK, Loop
    <3> QED
      BY <1>3, <2>1, <3>1, <3>2 DEF ThreadOK, Loop
  <2>3. CASE pc'[t] # "idle"
    BY <1>2, <1>3, <2>1, <2>2, <2>3
       DEF SLP!Frame, ThreadOK, Position, Returned, SLP!Fn, SLP!Arg
  <2>4. CASE pc'[t] = "idle"
    <3>1. SLP!Fn(t)' = "none"
      BY <1>2, <2>4 DEF SLP!Frame, SLP!Fn, SLP!Set!NoCall
    <3>2. SLP!Fn(t) # "delete" => pc[t] = "unlock" /\ ret'[t] = ret[t]
      BY <1>2, <2>4 DEF SLP!Frame
    <3>3. -1 .. NumElements \subseteq Int
      BY Sizes
    <3>4. hpc[t] = "found" => ret'[t] \in Elem \cup {Null}
      BY <1>4, <2>1, <3>2 DEF SLP!Answer
    <3>5. hpc[t] = "counted" => ret'[t] \in Int
      BY <1>4, <2>1, <3>2, <3>3 DEF SLP!Answer
    <3> QED
      BY <1>3, <2>2, <3>1, <3>4, <3>5 DEF Position, Returned
  <2> QED
    BY <2>2, <2>3, <2>4
<1>9. ASSUME SLP!Synced
      PROVE  Answered(t)' /\ \A e \in Own(t) : e \in linked' <=> Present(t, e)'
  <2>1. /\ Answered(t) /\ \A e \in Own(t) : e \in linked <=> Present(t, e)
    BY <1>9 DEF CommonInv, ThreadOK
  <2>2. hpc[t] = "deleted" /\ SLP!Fn(t)' = "delete" => SLP!Arg(t)' = n[t]
    BY <1>2, <1>4, <1>6, <1>9 DEF SLP!Frame, SLP!Fn, SLP!Arg, SLP!Set!NoCall
  <2>3. CASE SLP!Set!Effect(t)
    <3>1. SLP!Phase(t) = "called" /\ SLP!Phase(t)' = "done"
      BY <2>3, EffectFacts
    <3>2. CASE hpc[t] = "insert"
      <4>1. linked' = linked \cup {n[t] - 1}
        BY <1>4, <1>6, <2>3, <3>2, EffectFacts
      <4>2. \A e \in Own(t) : e \in linked' <=> Present(t, e)'
        BY <1>3, <1>5, <1>6, <2>1, <3>1, <3>2, <4>1 DEF Present
      <4> QED
        BY <1>3, <3>2, <4>2 DEF Answered
    <3>3. CASE hpc[t] = "found"
      <4> DEFINE Found == {e \in linked : BinOf[key[e]] = call[t].bin /\ key[e] = SLP!Arg(t)}
      <4>1. linked' = linked /\ (Found = {} \/ SLP!Answered(t)' \in Found)
        BY <1>4, <2>3, <3>3, EffectFacts
      <4>2. n[t] \in linked
        BY <1>5, <1>6, <2>1, <3>3 DEF Present
      <4>3. n[t] \in Found
        BY <1>4, <3>3, <4>2 DEF CommonInv, ThreadOK, Position
      <4>4. \A e \in Found : e = n[t]
        BY <1>4, <3>3, <4>2, LibArgs, SLP!NodeFacts
           DEF CommonInv, LibInv, SLP!Inv, SLP!TypeOK, ThreadOK, Position
      <4>5. SLP!Answered(t)' = n[t]
        BY <4>1, <4>3, <4>4
      <4>6. \A e \in Own(t) : Present(t, e)' <=> Present(t, e)
        BY <1>3, <3>3 DEF Present
      <4> QED
        BY <1>3, <2>1, <3>3, <4>1, <4>5, <4>6 DEF Answered
    <3>4. CASE hpc[t] = "deleted"
      <4>1. linked' = linked \ {n[t]} /\ SLP!Answered(t)' = 0
        BY <1>4, <1>6, <1>9, <2>3, <3>4, EffectFacts
      <4>2. \A e \in Own(t) : e \in linked' <=> Present(t, e)'
        BY <1>3, <1>5, <1>6, <2>1, <3>1, <3>4, <4>1 DEF Present
      <4> QED
        BY <1>3, <2>2, <3>4, <4>1, <4>2 DEF Answered
    <3>5. CASE hpc[t] = "counted"
      <4>1. /\ linked' = linked
            /\ SLP!Answered(t)' = Cardinality({e \in linked : BinOf[key[e]] = call[t].bin})
        BY <1>4, <2>3, <3>5, EffectFacts
      <4>2. SLP!Answered(t)' \in Nat
        <5>1. {e \in linked : BinOf[key[e]] = call[t].bin} \in SUBSET Elem
          BY DEF CommonInv, LibInv, SLP!Inv, SLP!TypeOK
        <5>2. IsFiniteSet(Elem)
          BY Sizes, FS_Interval DEF Elem
        <5> QED
          BY <4>1, <5>1, <5>2, FS_Subset, FS_CardinalityType
      <4>3. \A e \in Own(t) : Present(t, e)' <=> Present(t, e)
        BY <1>3, <3>5 DEF Present
      <4> QED
        BY <1>3, <2>1, <3>5, <4>1, <4>2, <4>3 DEF Answered
    <3> QED
      BY <1>3, <1>4, <3>2, <3>3, <3>4, <3>5
  <2>4. CASE SLP!Set!Return(t) \/ UNCHANGED SLP!Set!vars
    <3>1. /\ SLP!Phase(t)' = "called" <=> SLP!Phase(t) = "called"
          /\ SLP!Answered(t)' = SLP!Answered(t) /\ linked' = linked
      BY <2>4, ReturnFacts, StutterFacts
    <3>2. \A e \in Own(t) : Present(t, e)' <=> Present(t, e)
      BY <1>3, <3>1 DEF Present
    <3> QED
      BY <1>3, <2>1, <2>2, <3>1, <3>2 DEF Answered
  <2> QED
    BY <1>2, <1>9, <2>3, <2>4
<1>10. ThreadOK(t)'
  BY <1>3, <1>8, <1>9 DEF ThreadOK
<1>11. TypeOK' /\ MainOK'
  BY <1>1, <1>3, MainSame DEF CommonInv, TypeOK, barriers, counts, mains
<1> QED
  BY <1>2, <1>7, <1>10, <1>11 DEF CommonInv

-----------------------------------------------------------------------------
(* Creating the threads, and the report: the same in both projects.        *)

LEMMA MainFacts ==
    /\ Main \in Thread /\ Main \notin Workers /\ Own(Main) = {}
    /\ NumThreads \in Nat /\ Workers \subseteq Thread
BY OwnFacts, ArgsAssumption DEF Main, Workers, Thread, Own

LEMMA CreateThreadInv ==
    ASSUME CommonInv, Running, CreateThread
    PROVE  CommonInv'
<1>1. hpc[Main] = "create" /\ UNCHANGED <<libVars, bin, barriers, counts, joined, status>>
  BY DEF CreateThread
<1>2. SLP!Synced' <=> SLP!Synced
  BY <1>1 DEF libVars, SLP!Synced
<1>3. CASE created < NumThreads
  <2>1. created \in 0 .. NumThreads /\ joined \in 0 .. created
    BY DEF CommonInv, TypeOK
  <2>2. created \in Workers /\ created \in Nat /\ joined \in Nat /\ joined <= created
    BY <1>3, <2>1, MainFacts DEF Workers
  <2>3. PICK t \in Workers : t = created
    BY <2>2
  <2>4. /\ hpc' = [hpc EXCEPT ![t] = "insert"] /\ n' = [n EXCEPT ![t] = Start(t)]
        /\ created' = t + 1
    BY <1>3, <2>2, <2>3, MainFacts DEF CreateThread
  <2>5. /\ t \in Thread /\ t # Main /\ t \in Nat /\ t < NumThreads
        /\ Start(t) \in Nat /\ End(t) \in Nat /\ Start(t) <= End(t)
        /\ End(t) <= NumElements /\ NumElements \in Nat
        /\ Own(t) = Start(t) .. End(t) - 1
    BY Sizes, OwnFacts
  <2>6. hpc[t] = "none"
    <3>1. \A u \in Workers : hpc[u] = "none" <=> created <= u
      BY DEF CommonInv, MainOK
    <3> QED
      BY <2>2, <2>3, <3>1
  <2>7. ThreadOK(t) /\ SLP!Fn(t) = "none" /\ pc[t] = "idle"
    BY <2>5, <2>6 DEF CommonInv, ThreadOK, Position, LibInv, SLP!Inv, SLP!Shape
  <2>8. hpc'[t] = "insert" /\ n'[t] = Start(t)
    BY <2>4, <2>5 DEF CommonInv, TypeOK
  <2>9. SLP!Fn(t)' = "none" /\ linked' = linked
    BY <1>1, <2>5, <2>7, Idle DEF libVars
  <2>10. ThreadOK(t)'
    <3>1. \A e \in Own(t) : e \notin linked
      BY <2>6, <2>7 DEF ThreadOK, Loop
    <3>2. Position(t)' /\ Loop(t)' /\ Returned(t)' /\ Answered(t)'
      BY <2>5, <2>8, <2>9, <3>1 DEF Position, Loop, Returned, Answered
    <3>3. \A e \in Own(t) : ~Present(t, e)'
      BY <2>5, <2>8 DEF Present
    <3> QED
      BY <2>9, <3>1, <3>2, <3>3 DEF ThreadOK
  <2>11. LibInv' /\ \A u \in Thread : ThreadOK(u)'
    BY <1>1, <2>4, <2>5, <2>10, LocalKept
  <2>12. TypeOK'
    <3>1. t + 1 \in 0 .. NumThreads /\ joined \in 0 .. t + 1
      BY <1>3, <2>2, <2>3, MainFacts
    <3>2. n' \in [Thread -> 0 .. NumElements]
      <4>1. Start(t) \in 0 .. NumElements
        BY <2>5
      <4> QED
        BY <2>4, <4>1 DEF CommonInv, TypeOK
    <3>3. joined' = joined
      BY <1>1
    <3> QED
      BY <1>1, <2>4, <3>1, <3>2, <3>3 DEF CommonInv, TypeOK, barriers, counts
  <2>13. MainOK'
    <3>1. hpc'[Main] = hpc[Main]
      BY <2>4, <2>5
    <3>2. \A u \in Workers : u \in Nat /\ (u # t => hpc'[u] = hpc[u])
      BY <2>4, Sizes
    <3>3. joined' = joined /\ status' = status
      BY <1>1
    <3>4. \A u \in Workers : hpc'[u] \notin {"create", "join", "append"}
      BY <2>8, <3>2 DEF CommonInv, MainOK
    <3>5. \A u \in Workers : hpc'[u] = "none" <=> created' <= u
      <4>1. \A u \in Workers : hpc[u] = "none" <=> created <= u
        BY DEF CommonInv, MainOK
      <4> QED
        BY <2>3, <2>4, <2>5, <2>8, <3>2, <4>1
    <3>6. \A u \in Workers : u < joined' => hpc'[u] = "exited"
      <4>1. \A u \in Workers : u < joined => hpc[u] = "exited"
        BY DEF CommonInv, MainOK
      <4> QED
        BY <2>2, <2>3, <2>5, <3>2, <3>3, <4>1
    <3> QED
      BY <1>1, <1>2, <3>1, <3>3, <3>4, <3>5, <3>6 DEF CommonInv, MainOK
  <2> QED
    BY <2>11, <2>12, <2>13 DEF CommonInv
<1>4. CASE ~(created < NumThreads)
  <2>1. /\ created = NumThreads /\ hpc' = [hpc EXCEPT ![Main] = "join"]
        /\ n' = n /\ created' = created
    BY <1>4 DEF CreateThread, Goto
  <2>2. SLP!Fn(Main) = "none" /\ pc[Main] = "idle"
    BY <1>1, MainFacts DEF CommonInv, ThreadOK, Position, LibInv, SLP!Inv, SLP!Shape
  <2>3. hpc'[Main] = "join" /\ SLP!Fn(Main)' = "none"
    BY <1>1, <2>1, <2>2, MainFacts, Idle DEF CommonInv, TypeOK
  <2>4. ThreadOK(Main)'
    BY <2>3, MainFacts DEF ThreadOK, Position, Loop, Returned, Answered
  <2>5. LibInv' /\ \A u \in Thread : ThreadOK(u)'
    BY <1>1, <2>1, <2>4, MainFacts, LocalKept
  <2>6. TypeOK'
    BY <1>1, <2>1 DEF CommonInv, TypeOK, barriers, counts
  <2>7. MainOK'
    <3>1. \A t \in Workers : hpc'[t] = hpc[t]
      BY <2>1, MainFacts
    <3> QED
      BY <1>1, <1>2, <2>1, <2>3, <3>1 DEF CommonInv, MainOK
  <2> QED
    BY <2>5, <2>6, <2>7 DEF CommonInv
<1> QED
  BY <1>3, <1>4

LEMMA EndInv ==
    ASSUME CommonInv, Running, CreateFails \/ AppendCsv
    PROVE  CommonInv'
<1>1. CASE CreateFails
  BY <1>1, ExitKept DEF CreateFails
<1>2. CASE AppendCsv
  <2>1. hpc[Main] = "append"
    BY <1>2 DEF AppendCsv
  <2>2. Exit("exit 2") \/ Exit("SIGFPE") \/ Exit("exit 0")
    BY <1>2 DEF AppendCsv
  <2> QED
    BY <2>1, <2>2, ExitKept
<1> QED
  BY <1>1, <1>2

-----------------------------------------------------------------------------
(* The barriers.                                                           *)

LEMMA Counting ==
    /\ IsFiniteSet(Workers) /\ Cardinality(Workers) = NumThreads
    /\ \A S \in SUBSET Workers :
         /\ IsFiniteSet(S) /\ Cardinality(S) \in 0 .. NumThreads
         /\ Cardinality(S) = NumThreads => S = Workers
         /\ \A t \in Workers \ S : Cardinality(S \cup {t}) = Cardinality(S) + 1
    /\ \A S, T \in SUBSET Workers : S \subseteq T => Cardinality(S) <= Cardinality(T)
<1>1. 0 \in Int /\ NumThreads - 1 \in Int /\ NumThreads \in Nat \ {0}
  BY ArgsAssumption
<1>2. IsFiniteSet(Workers) /\ Cardinality(Workers) = NumThreads
  <2>1. /\ IsFiniteSet(0 .. NumThreads - 1)
        /\ Cardinality(0 .. NumThreads - 1) =
             IF 0 > NumThreads - 1 THEN 0 ELSE NumThreads - 1 - 0 + 1
    BY <1>1, FS_Interval
  <2> QED
    BY <1>1, <2>1 DEF Workers
<1>3. ASSUME NEW S \in SUBSET Workers
      PROVE  /\ IsFiniteSet(S) /\ Cardinality(S) \in 0 .. NumThreads
             /\ Cardinality(S) = NumThreads => S = Workers
             /\ \A t \in Workers \ S : Cardinality(S \cup {t}) = Cardinality(S) + 1
  <2>1. /\ IsFiniteSet(S) /\ Cardinality(S) <= NumThreads
        /\ Cardinality(S) = NumThreads => S = Workers
    BY <1>2, FS_Subset
  <2>2. Cardinality(S) \in Nat
    BY <2>1, FS_CardinalityType
  <2>3. \A t \in Workers \ S : Cardinality(S \cup {t}) = Cardinality(S) + 1
    BY <2>1, FS_AddElement
  <2> QED
    BY <1>1, <2>1, <2>2, <2>3
<1>4. ASSUME NEW S \in SUBSET Workers, NEW T \in SUBSET Workers, S \subseteq T
      PROVE  Cardinality(S) <= Cardinality(T)
  BY <1>3, <1>4, FS_Subset
<1> QED
  BY <1>2, <1>3, <1>4

LEMMA BarrierKept ==
    ASSUME BarrierOK, UNCHANGED barriers,
           \A t \in Workers :
             /\ hpc'[t] \in {"none", "insert"} <=> hpc[t] \in {"none", "insert"}
             /\ hpc'[t] \in {"barrier2", "exited"} <=> hpc[t] \in {"barrier2", "exited"}
             /\ PastInsertBarrier(t)' => PastInsertBarrier(t)
             /\ hpc'[t] \in {"check", "counted"} =>
                  hpc[t] \in {"check", "counted"} /\ n'[t] = n[t]
    PROVE  BarrierOK'
<1>1. PastInserting' = PastInserting /\ PastDeleting' = PastDeleting
  BY DEF PastInserting, PastDeleting
<1>2. threads_finished_inserting' = threads_finished_inserting
      /\ threads_finished_deleting' = threads_finished_deleting
  BY DEF barriers
<1> QED
  BY <1>1, <1>2 DEF BarrierOK

(* A step between two labels on the same side of both barriers.            *)
LEMMA BarrierJump ==
    ASSUME BarrierOK, TypeOK, UNCHANGED barriers, NEW t \in Thread, NEW label,
           hpc' = [hpc EXCEPT ![t] = label],
           \A u \in Thread \ {t} : n'[u] = n[u],
           t \in Workers =>
             /\ label \in {"none", "insert"} <=> hpc[t] \in {"none", "insert"}
             /\ label \in {"barrier2", "exited"} <=> hpc[t] \in {"barrier2", "exited"}
             /\ PastInsertBarrier(t) \/ label \in {"none", "insert", "barrier1"}
             /\ label \in {"check", "counted"} =>
                  hpc[t] \in {"check", "counted"} /\ n'[t] = n[t]
    PROVE  BarrierOK'
<1>1. hpc'[t] = label /\ \A u \in Workers \ {t} : hpc'[u] = hpc[u] /\ n'[u] = n[u]
  BY MainFacts DEF TypeOK
<1>2. \A u \in Workers \ {t} : PastInsertBarrier(u)' => PastInsertBarrier(u)
  BY <1>1 DEF PastInsertBarrier
<1>3. t \in Workers => (PastInsertBarrier(t)' => PastInsertBarrier(t))
  BY <1>1 DEF PastInsertBarrier
<1> QED
  BY <1>1, <1>2, <1>3, BarrierKept

LEMMA FinishInsertingInv ==
    ASSUME HarnessInv, Running, NEW t \in Thread, FinishInserting(t)
    PROVE  HarnessInv'
<1>1. /\ hpc[t] = "insert" /\ pc[t] = "idle" /\ n[t] = End(t)
      /\ threads_finished_inserting' = threads_finished_inserting + 1
      /\ hpc' = [hpc EXCEPT ![t] = "barrier1"]
      /\ UNCHANGED <<libVars, n, bin, threads_finished_deleting, counts, mains>>
  BY DEF FinishInserting, At, Goto
<1>2. t \in Workers
  BY <1>1, WorkerAt DEF HarnessInv, CommonInv
<1>3. /\ Start(t) \in Nat /\ End(t) \in Nat /\ Own(t) = Start(t) .. End(t) - 1
      /\ hpc'[t] = "barrier1" /\ n'[t] = n[t]
  BY <1>1, <1>2, Sizes, OwnFacts DEF HarnessInv, CommonInv, TypeOK
<1>4. /\ SLP!Phase(t) = "idle" /\ SLP!Fn(t)' = "none" /\ (SLP!Synced' <=> SLP!Synced)
      /\ UNCHANGED <<linked, sync_opt>>
  BY <1>1, Idle DEF HarnessInv, libVars
<1>5. ThreadOK(t)'
  <2>1. Position(t)' /\ Loop(t)' /\ Returned(t)' /\ Answered(t)'
    BY <1>3, <1>4 DEF Position, Loop, Returned, Answered
  <2>2. \A e \in Own(t) : Present(t, e)' <=> Present(t, e)
    BY <1>1, <1>3, <1>4 DEF Present
  <2> QED
    BY <1>4, <2>1, <2>2 DEF ThreadOK, HarnessInv, CommonInv
<1>6. LibInv' /\ \A u \in Thread : ThreadOK(u)'
  BY <1>1, <1>5, LocalKept DEF HarnessInv
<1>7. MainOK'
  BY <1>1, <1>2, <1>4, MainKept DEF HarnessInv, CommonInv
<1>8. /\ PastInserting \in SUBSET Workers /\ PastDeleting \in SUBSET Workers
      /\ t \notin PastInserting /\ PastInserting' = PastInserting \cup {t} /\ PastInserting' \in SUBSET Workers
      /\ PastDeleting' = PastDeleting /\ PastDeleting \subseteq PastInserting
  <2>1. \A u \in Workers \ {t} : hpc'[u] = hpc[u]
    BY <1>1, MainFacts
  <2> QED
    BY <1>1, <1>2, <1>3, <2>1 DEF PastInserting, PastDeleting
<1>9. /\ Cardinality(PastInserting') = Cardinality(PastInserting) + 1
      /\ Cardinality(PastInserting) # NumThreads
      /\ Cardinality(PastInserting') \in 0 .. NumThreads
      /\ Cardinality(PastInserting) \in 0 .. NumThreads
      /\ Cardinality(PastDeleting) \in 0 .. NumThreads
      /\ Cardinality(PastDeleting) <= Cardinality(PastInserting)
  BY <1>2, <1>8, Counting
<1>10. BarrierOK'
  <2>1. \A u \in Workers : ~PastInsertBarrier(u)
    BY <1>9 DEF HarnessInv, BarrierOK
  <2>2. \A u \in Workers : /\ hpc'[u] \in {hpc[u], "barrier1"}
    BY <1>1, <1>3, MainFacts
  <2>3. \A u \in Workers : ~PastInsertBarrier(u)' /\ hpc'[u] \notin {"check", "counted"}
    BY <2>1, <2>2 DEF PastInsertBarrier
  <2>4. /\ threads_finished_inserting' = Cardinality(PastInserting')
        /\ threads_finished_deleting' = Cardinality(PastDeleting')
    BY <1>1, <1>8, <1>9 DEF HarnessInv, BarrierOK
  <2> QED
    BY <2>3, <2>4 DEF BarrierOK
<1>11. TypeOK'
  <2>1. threads_finished_inserting' \in 0 .. NumThreads
        /\ threads_finished_deleting' \in 0 .. threads_finished_inserting'
    BY <1>1, <1>9, MainFacts DEF HarnessInv, BarrierOK
  <2> QED
    BY <1>1, <2>1 DEF HarnessInv, CommonInv, TypeOK, counts, mains
<1> QED
  BY <1>6, <1>7, <1>10, <1>11 DEF HarnessInv, CommonInv

LEMMA PassInsertBarrierInv ==
    ASSUME HarnessInv, Running, NEW t \in Thread, PassInsertBarrier(t)
    PROVE  HarnessInv'
<1>1. /\ hpc[t] = "barrier1" /\ pc[t] = "idle"
      /\ threads_finished_inserting = NumThreads
      /\ hpc' = [hpc EXCEPT ![t] = "check"] /\ n' = [n EXCEPT ![t] = Start(t)]
      /\ UNCHANGED <<libVars, bin, barriers, counts, mains>>
  BY DEF PassInsertBarrier, At, Goto
<1>2. t \in Workers
  BY <1>1, WorkerAt DEF HarnessInv, CommonInv
<1>3. /\ Start(t) \in Nat /\ End(t) \in Nat /\ Start(t) <= End(t) /\ End(t) <= NumElements
      /\ NumElements \in Nat
      /\ hpc'[t] = "check" /\ n'[t] = Start(t)
  BY <1>1, <1>2, Sizes DEF HarnessInv, CommonInv, TypeOK
<1>4. /\ SLP!Fn(t)' = "none" /\ (SLP!Synced' <=> SLP!Synced)
      /\ UNCHANGED <<linked, sync_opt>>
  BY <1>1, Idle DEF HarnessInv, libVars
<1>5. ThreadOK(t)'
  <2>1. Position(t)' /\ Loop(t)' /\ Returned(t)' /\ Answered(t)'
    BY <1>3, <1>4 DEF Position, Loop, Returned, Answered
  <2>2. \A e \in Own(t) : Present(t, e)' <=> Present(t, e)
    BY <1>1, <1>3 DEF Present
  <2> QED
    BY <1>4, <2>1, <2>2 DEF ThreadOK, HarnessInv, CommonInv
<1>6. LibInv' /\ \A u \in Thread : ThreadOK(u)'
  BY <1>1, <1>5, LocalKept DEF HarnessInv
<1>7. MainOK'
  BY <1>1, <1>2, <1>4, MainKept DEF HarnessInv, CommonInv
<1>8. TypeOK'
  <2>1. Start(t) \in 0 .. NumElements
    BY <1>3
  <2>2. n' \in [Thread -> 0 .. NumElements]
    BY <1>1, <2>1 DEF HarnessInv, CommonInv, TypeOK
  <2> QED
    BY <1>1, <2>2 DEF HarnessInv, CommonInv, TypeOK, barriers, counts, mains
<1>9. BarrierOK'
  <2>1. \A u \in Workers \ {t} : hpc'[u] = hpc[u] /\ n'[u] = n[u]
    BY <1>1, MainFacts
  <2>2. PastInserting' = PastInserting /\ PastDeleting' = PastDeleting
    BY <1>1, <1>3, <2>1 DEF PastInserting, PastDeleting
  <2>3. UNCHANGED <<threads_finished_inserting, threads_finished_deleting>>
    BY <1>1 DEF barriers
  <2>4. \A u \in Workers : hpc'[u] \in {"check", "counted"} => n'[u] = Start(u)
    BY <1>3, <2>1 DEF HarnessInv, BarrierOK
  <2> QED
    BY <1>1, <2>2, <2>3, <2>4 DEF HarnessInv, BarrierOK
<1> QED
  BY <1>6, <1>7, <1>8, <1>9 DEF HarnessInv, CommonInv

LEMMA FinishDeletingInv ==
    ASSUME HarnessInv, Running, NEW t \in Thread, FinishDeleting(t)
    PROVE  HarnessInv'
<1>1. /\ hpc[t] = "delete" /\ pc[t] = "idle" /\ n[t] = End(t)
      /\ threads_finished_deleting' = threads_finished_deleting + 1
      /\ hpc' = [hpc EXCEPT ![t] = "barrier2"]
      /\ UNCHANGED <<libVars, n, bin, threads_finished_inserting, counts, mains>>
  BY DEF FinishDeleting, At, Goto
<1>2. t \in Workers
  BY <1>1, WorkerAt DEF HarnessInv, CommonInv
<1>3. /\ Start(t) \in Nat /\ End(t) \in Nat /\ Own(t) = Start(t) .. End(t) - 1
      /\ hpc'[t] = "barrier2" /\ n'[t] = n[t]
  BY <1>1, <1>2, Sizes, OwnFacts DEF HarnessInv, CommonInv, TypeOK
<1>4. /\ SLP!Fn(t)' = "none" /\ (SLP!Synced' <=> SLP!Synced)
      /\ UNCHANGED <<linked, sync_opt>>
  BY <1>1, Idle DEF HarnessInv, libVars
<1>5. ThreadOK(t)'
  <2>1. Position(t)' /\ Loop(t)' /\ Returned(t)' /\ Answered(t)'
    BY <1>1, <1>3, <1>4 DEF Position, Loop, Returned, Answered
  <2>2. \A e \in Own(t) : Present(t, e)' <=> Present(t, e)
    BY <1>1, <1>3 DEF Present
  <2> QED
    BY <1>4, <2>1, <2>2 DEF ThreadOK, HarnessInv, CommonInv
<1>6. LibInv' /\ \A u \in Thread : ThreadOK(u)'
  BY <1>1, <1>5, LocalKept DEF HarnessInv
<1>7. MainOK'
  BY <1>1, <1>2, <1>4, MainKept DEF HarnessInv, CommonInv
<1>8. /\ PastInserting \in SUBSET Workers /\ PastDeleting \in SUBSET Workers
      /\ t \notin PastDeleting /\ PastDeleting' = PastDeleting \cup {t} /\ PastDeleting' \in SUBSET Workers
      /\ PastInserting' = PastInserting /\ PastDeleting' \subseteq PastInserting
  <2>1. \A u \in Workers \ {t} : hpc'[u] = hpc[u]
    BY <1>1, MainFacts
  <2> QED
    BY <1>1, <1>2, <1>3, <2>1 DEF PastInserting, PastDeleting
<1>9. /\ Cardinality(PastDeleting') = Cardinality(PastDeleting) + 1
      /\ Cardinality(PastInserting) \in 0 .. NumThreads
      /\ Cardinality(PastDeleting') \in 0 .. NumThreads
      /\ Cardinality(PastDeleting') <= Cardinality(PastInserting)
  BY <1>2, <1>8, Counting
<1>10. BarrierOK'
  <2>1. \A u \in Workers : PastInsertBarrier(u)' => PastInsertBarrier(u)
    BY <1>1, <1>3, MainFacts DEF PastInsertBarrier
  <2>2. \A u \in Workers : hpc'[u] \in {hpc[u], "barrier2"} /\ n'[u] = n[u]
    BY <1>1, <1>3, MainFacts
  <2>3. /\ threads_finished_inserting' = Cardinality(PastInserting')
        /\ threads_finished_deleting' = Cardinality(PastDeleting')
    BY <1>1, <1>8, <1>9 DEF HarnessInv, BarrierOK
  <2> QED
    BY <1>1, <2>1, <2>2, <2>3 DEF HarnessInv, BarrierOK
<1>11. TypeOK'
  <2>1. threads_finished_deleting' \in 0 .. threads_finished_inserting'
    BY <1>1, <1>9, MainFacts DEF HarnessInv, BarrierOK
  <2> QED
    BY <1>1, <2>1 DEF HarnessInv, CommonInv, TypeOK, counts, mains
<1> QED
  BY <1>6, <1>7, <1>10, <1>11 DEF HarnessInv, CommonInv

LEMMA PassDeleteBarrierInv ==
    ASSUME HarnessInv, Running, NEW t \in Thread, PassDeleteBarrier(t)
    PROVE  HarnessInv'
<1>1. /\ hpc[t] = "barrier2" /\ pc[t] = "idle"
      /\ hpc' = [hpc EXCEPT ![t] = "exited"]
      /\ UNCHANGED <<libVars, n, bin, barriers, counts, mains>>
  BY DEF PassDeleteBarrier, At, Goto
<1>2. t \in Workers /\ hpc'[t] = "exited" /\ n' = n
  BY <1>1, WorkerAt DEF HarnessInv, CommonInv, TypeOK
<1>3. /\ SLP!Fn(t)' = "none" /\ (SLP!Synced' <=> SLP!Synced)
      /\ UNCHANGED <<linked, sync_opt>>
  BY <1>1, Idle DEF HarnessInv, libVars
<1>4. ThreadOK(t)'
  <2>1. Position(t)' /\ Loop(t)' /\ Returned(t)' /\ Answered(t)'
    BY <1>1, <1>2, <1>3 DEF Position, Loop, Returned, Answered, HarnessInv, CommonInv, ThreadOK
  <2>2. \A e \in Own(t) : Present(t, e)' <=> Present(t, e)
    BY <1>1, <1>2 DEF Present
  <2> QED
    BY <1>3, <2>1, <2>2 DEF ThreadOK, HarnessInv, CommonInv
<1>5. LibInv' /\ \A u \in Thread : ThreadOK(u)'
  BY <1>1, <1>4, LocalKept DEF HarnessInv
<1>6. MainOK'
  BY <1>1, <1>2, <1>3, MainKept DEF HarnessInv, CommonInv
<1>7. TypeOK'
  BY <1>1 DEF HarnessInv, CommonInv, TypeOK, barriers, counts, mains
<1>8. BarrierOK'
  BY <1>1, <1>2, BarrierJump DEF HarnessInv, CommonInv, PastInsertBarrier
<1> QED
  BY <1>5, <1>6, <1>7, <1>8 DEF HarnessInv, CommonInv

-----------------------------------------------------------------------------
(* check_correct_list_length, and main.                                    *)

LEMMA CountListInv ==
    ASSUME HarnessInv, Running, NEW t \in Thread, CountList(t)
    PROVE  LibraryStep /\ HarnessInv'
<1>1. /\ hpc[t] = "check" /\ pc[t] = "idle" /\ bin[t] < NumLists
      /\ UNCHANGED <<n, barriers, list_count_total, mains>>
  BY DEF CountList, At
<1>2. bin[t] \in 0 .. NumLists /\ NumLists \in Nat
  BY ArgsAssumption DEF HarnessInv, CommonInv, TypeOK
<1>3. bin[t] \in Bin /\ bin[t] + 1 \in 0 .. NumLists
  BY <1>1, <1>2 DEF Bin
<1>4. CASE list_count[bin[t]] = 0
  <2> DEFINE c == SLP!Set!Call("length", bin[t], Null)
  <2>1. /\ list_count' = [list_count EXCEPT ![bin[t]] = 1]
        /\ SLP!Invoke(t, c)
        /\ hpc' = [hpc EXCEPT ![t] = "counted"] /\ bin' = bin
    BY <1>4, SameCall, SameInvoke DEF CountList, Goto
  <2>2. c \in SLP!MayCall(t)
    BY <1>3 DEF SLP!MayCall, SLP!Set!Calls
  <2>3. c.fn = "length"
    BY DEF SLP!Set!Call
  <2>4. /\ SLP!Fn(t)' = "length" /\ SLP!Phase(t)' = "called" /\ pc'[t] = "lock"
        /\ UNCHANGED <<linked, sync_opt>> /\ (SLP!Synced' <=> SLP!Synced)
    BY <2>1, <2>2, <2>3, Called DEF HarnessInv
  <2>5. hpc'[t] = "counted" /\ bin'[t] = bin[t]
    BY <2>1 DEF HarnessInv, CommonInv, TypeOK
  <2>6. ThreadOK(t)'
    <3>1. Position(t)' /\ Loop(t)' /\ Returned(t)' /\ Answered(t)'
      BY <1>3, <2>4, <2>5 DEF Position, Loop, Returned, Answered
    <3>2. \A e \in Own(t) : Present(t, e)' <=> Present(t, e)
      BY <1>1, <2>5 DEF Present
    <3> QED
      BY <2>4, <3>1, <3>2 DEF ThreadOK, HarnessInv, CommonInv
  <2>7. LibraryStep /\ LibInv' /\ \A u \in Thread : ThreadOK(u)'
    BY <1>1, <2>1, <2>2, <2>6, CallKept DEF HarnessInv
  <2>8. TypeOK'
    BY <1>1, <2>1 DEF HarnessInv, CommonInv, TypeOK, barriers, mains
  <2>9. MainOK'
    BY <1>1, <2>1, <2>4, MainKept DEF HarnessInv, CommonInv
  <2>10. BarrierOK'
    BY <1>1, <2>1, BarrierJump DEF HarnessInv, CommonInv, PastInsertBarrier
  <2> QED
    BY <2>7, <2>8, <2>9, <2>10 DEF HarnessInv, CommonInv
<1>5. CASE list_count[bin[t]] # 0
  <2>1. bin' = [bin EXCEPT ![t] = @ + 1] /\ UNCHANGED <<libVars, hpc, list_count>>
    BY <1>5 DEF CountList
  <2>2. /\ SLP!Fn(t) = "none" /\ SLP!Fn(t)' = "none" /\ (SLP!Synced' <=> SLP!Synced)
        /\ UNCHANGED <<linked, sync_opt>>
    BY <1>1, <2>1, Idle DEF HarnessInv, libVars
  <2>3. ThreadOK(t)'
    <3>1. Position(t)' /\ Loop(t)' /\ Returned(t)' /\ Answered(t)'
      BY <1>1, <2>1, <2>2 DEF Position, Loop, Returned, Answered
    <3>2. \A e \in Own(t) : Present(t, e)' <=> Present(t, e)
      BY <1>1, <2>1 DEF Present
    <3> QED
      BY <2>2, <3>1, <3>2 DEF ThreadOK, HarnessInv, CommonInv
  <2>4. LibInv' /\ \A u \in Thread : ThreadOK(u)'
    BY <1>1, <2>1, <2>3, LocalKept DEF HarnessInv
  <2>5. TypeOK'
    <3>1. bin' \in [Thread -> 0 .. NumLists]
      BY <1>3, <2>1 DEF HarnessInv, CommonInv, TypeOK
    <3> QED
      BY <1>1, <2>1, <3>1 DEF HarnessInv, CommonInv, TypeOK, barriers, mains
  <2>6. MainOK'
    BY <1>1, <2>1, <2>2, MainSame DEF HarnessInv, CommonInv
  <2>7. BarrierOK'
    BY <1>1, <2>1, BarrierKept DEF HarnessInv, PastInsertBarrier
  <2>8. LibraryStep
    BY <2>1 DEF LibraryStep, libVars, SLP!vars, SLP!links, SLP!fixed, SLP!locals
  <2> QED
    BY <2>4, <2>5, <2>6, <2>7, <2>8 DEF HarnessInv, CommonInv
<1> QED
  BY <1>4, <1>5

(* With a lock the length of a list is never -1.                           *)
LEMMA AddCountInv ==
    ASSUME HarnessInv, Running, NEW t \in Thread, AddCount(t)
    PROVE  HarnessInv'
<1>1. hpc[t] = "counted" /\ pc[t] = "idle"
  BY DEF AddCount, At
<1>2. ThreadOK(t) /\ CommonInv
  BY DEF HarnessInv, CommonInv
<1>3. SLP!Phase(t) = "idle" /\ SLP!Fn(t) = "none" /\ SLP!Answered(t) = ret[t]
  BY <1>1, <1>2, Idle
<1>4. ret[t] \in Int /\ bin[t] \in Bin /\ (SLP!Synced => ret[t] \in Nat)
  BY <1>1, <1>2, <1>3 DEF ThreadOK, Loop, Returned, Answered
<1>5. CASE ret[t] = -1 /\ t = Main /\ Exit("corrupted")
  <2>1. ~SLP!Synced
    BY <1>4, <1>5
  <2>2. BarrierOK'
    BY <1>5, BarrierKept DEF Exit, HarnessInv, PastInsertBarrier
  <2> QED
    BY <1>2, <1>5, <2>1, <2>2, ExitKept DEF HarnessInv
<1>6. CASE ~(ret[t] = -1 /\ t = Main /\ Exit("corrupted"))
  <2>1. /\ list_count_total' = list_count_total + ret[t]
        /\ bin' = [bin EXCEPT ![t] = @ + 1]
        /\ hpc' = [hpc EXCEPT ![t] = "check"]
        /\ UNCHANGED <<libVars, n, barriers, list_count, mains>>
    BY <1>6 DEF AddCount, Goto
  <2>2. /\ SLP!Fn(t)' = "none" /\ (SLP!Synced' <=> SLP!Synced)
        /\ UNCHANGED <<linked, sync_opt>>
    BY <1>1, <1>2, <2>1, Idle DEF libVars
  <2>3. hpc'[t] = "check"
    BY <1>2, <2>1 DEF CommonInv, TypeOK
  <2>4. ThreadOK(t)'
    <3>1. Position(t)' /\ Loop(t)' /\ Returned(t)' /\ Answered(t)'
      BY <2>2, <2>3 DEF Position, Loop, Returned, Answered
    <3>2. \A e \in Own(t) : Present(t, e)' <=> Present(t, e)
      BY <1>1, <2>3 DEF Present
    <3> QED
      BY <1>2, <2>2, <3>1, <3>2 DEF ThreadOK
  <2>5. LibInv' /\ \A u \in Thread : ThreadOK(u)'
    BY <1>2, <2>1, <2>4, LocalKept
  <2>6. TypeOK'
    <3>1. bin[t] + 1 \in 0 .. NumLists
      BY <1>4, ArgsAssumption DEF Bin
    <3>2. bin' \in [Thread -> 0 .. NumLists]
      BY <1>2, <2>1, <3>1 DEF CommonInv, TypeOK
    <3>3. list_count_total' \in Int
      <4>1. list_count_total \in Int
        BY <1>2 DEF CommonInv, TypeOK
      <4> QED
        BY <1>4, <2>1, <4>1
    <3> QED
      BY <1>2, <2>1, <3>2, <3>3 DEF CommonInv, TypeOK, barriers, mains
  <2>7. MainOK'
    BY <1>1, <1>2, <2>1, <2>2, MainKept DEF CommonInv
  <2>8. BarrierOK'
    BY <1>1, <1>2, <2>1, BarrierJump DEF HarnessInv, CommonInv, PastInsertBarrier
  <2> QED
    BY <2>5, <2>6, <2>7, <2>8 DEF HarnessInv, CommonInv
<1> QED
  BY <1>5, <1>6

LEMMA AllCountedInv ==
    ASSUME HarnessInv, Running, NEW t \in Thread, AllCounted(t)
    PROVE  HarnessInv'
<1>1. /\ hpc[t] = "check" /\ pc[t] = "idle" /\ t # Main
      /\ hpc' = [hpc EXCEPT ![t] = "delete"]
      /\ UNCHANGED <<libVars, n, bin, barriers, counts, mains>>
  BY DEF AllCounted, At, Goto
<1>2. t \in Workers /\ n[t] = Start(t) /\ hpc'[t] = "delete" /\ n' = n
  BY <1>1 DEF HarnessInv, CommonInv, TypeOK, BarrierOK, Thread
<1>3. /\ Start(t) \in Nat /\ End(t) \in Nat /\ Start(t) <= End(t)
      /\ Own(t) = Start(t) .. End(t) - 1
  BY <1>2, Sizes, OwnFacts
<1>4. /\ SLP!Fn(t)' = "none" /\ (SLP!Synced' <=> SLP!Synced)
      /\ UNCHANGED <<linked, sync_opt>>
  BY <1>1, Idle DEF HarnessInv, libVars
<1>5. ThreadOK(t)'
  <2>1. Position(t)' /\ Loop(t)' /\ Returned(t)' /\ Answered(t)'
    BY <1>2, <1>3, <1>4 DEF Position, Loop, Returned, Answered
  <2>2. \A e \in Own(t) : Present(t, e)' <=> Present(t, e)
    BY <1>1, <1>2, <1>3 DEF Present
  <2> QED
    BY <1>4, <2>1, <2>2 DEF ThreadOK, HarnessInv, CommonInv
<1>6. LibInv' /\ \A u \in Thread : ThreadOK(u)'
  BY <1>1, <1>5, LocalKept DEF HarnessInv
<1>7. MainOK'
  BY <1>1, <1>2, <1>4, MainKept DEF HarnessInv, CommonInv
<1>8. TypeOK'
  BY <1>1 DEF HarnessInv, CommonInv, TypeOK, barriers, counts, mains
<1>9. BarrierOK'
  BY <1>1, BarrierJump DEF HarnessInv, CommonInv, PastInsertBarrier
<1> QED
  BY <1>6, <1>7, <1>8, <1>9 DEF HarnessInv, CommonInv

(* main at a label where it makes no call.                                 *)
LEMMA MainGoto ==
    ASSUME CommonInv, NEW label \in {"check", "append"}, hpc[Main] \in {"join", "check"},
           pc[Main] = "idle", hpc' = [hpc EXCEPT ![Main] = label], joined = NumThreads,
           UNCHANGED <<libVars, n, bin, barriers, list_count_total, mains>>,
           list_count' \in [Bin -> {0, 1}]
    PROVE  CommonInv'
<1>1. hpc'[Main] = label /\ \A t \in Workers : hpc'[t] = hpc[t]
  BY MainFacts DEF CommonInv, TypeOK
<1>2. SLP!Fn(Main)' = "none" /\ (SLP!Synced' <=> SLP!Synced)
  BY MainFacts, Idle
<1>3. ThreadOK(Main)'
  BY <1>1, <1>2, MainFacts DEF ThreadOK, Position, Loop, Returned, Answered
<1>4. LibInv' /\ \A u \in Thread : ThreadOK(u)'
  BY <1>3, MainFacts, LocalKept
<1>5. TypeOK'
  BY DEF CommonInv, TypeOK, barriers, mains
<1>6. MainOK'
  <2>1. UNCHANGED <<created, joined, status>>
    BY DEF mains
  <2> QED
    BY <1>1, <1>2, <2>1 DEF CommonInv, MainOK
<1> QED
  BY <1>4, <1>5, <1>6 DEF CommonInv

LEMMA MainIdle ==
    ASSUME CommonInv, hpc[Main] \in {"create", "join", "append"}
    PROVE  pc[Main] = "idle"
BY MainFacts DEF CommonInv, ThreadOK, Position, LibInv, SLP!Inv, SLP!Shape

LEMMA JoinThreadInv ==
    ASSUME HarnessInv, Running, JoinThread
    PROVE  HarnessInv'
<1>1. /\ hpc[Main] = "join" /\ CommonInv
      /\ UNCHANGED <<libVars, n, bin, barriers, list_count_total, created, status>>
  BY DEF JoinThread, HarnessInv
<1>2. joined \in 0 .. NumThreads /\ created = NumThreads /\ NumThreads \in Nat
  BY <1>1, MainFacts DEF CommonInv, TypeOK, MainOK
<1>3. CASE joined < NumThreads
  <2>1. /\ hpc[joined] = "exited" /\ joined' = joined + 1
        /\ UNCHANGED <<hpc, list_count>>
    BY <1>2, <1>3 DEF JoinThread
  <2>2. LibInv' /\ \A u \in Thread : ThreadOK(u)'
    BY <1>1, <2>1, LibStutter, ThreadKept DEF CommonInv, libVars
  <2>types. TypeOK'
    <3>1. joined + 1 \in 0 .. created
      BY <1>2, <1>3
    <3> QED
      BY <1>1, <2>1, <3>1 DEF CommonInv, TypeOK, barriers
  <2>4. MainOK'
    <3>1. \A t \in Workers : t < joined + 1 => hpc[t] = "exited"
      <4>1. \A t \in Workers : t < joined => hpc[t] = "exited"
        BY <1>1 DEF CommonInv, MainOK
      <4> QED
        BY <1>2, <2>1, <4>1, Sizes
    <3>2. SLP!Synced' <=> SLP!Synced
      BY <1>1 DEF libVars, SLP!Synced
    <3> QED
      BY <1>1, <2>1, <3>1, <3>2 DEF CommonInv, MainOK
  <2>5. BarrierOK'
    BY <1>1, <2>1, BarrierKept DEF HarnessInv, PastInsertBarrier
  <2> QED
    BY <2>2, <2>types, <2>4, <2>5 DEF HarnessInv, CommonInv
<1>4. CASE ~(joined < NumThreads)
  <2>1. /\ joined = NumThreads /\ ClearListCount
        /\ hpc' = [hpc EXCEPT ![Main] = "check"] /\ joined' = joined
    BY <1>2, <1>4 DEF JoinThread, Goto
  <2>2. list_count' \in [Bin -> {0, 1}]
    BY <1>1, <2>1 DEF ClearListCount, CommonInv, TypeOK
  <2>3. pc[Main] = "idle"
    BY <1>1, MainIdle
  <2>4. CommonInv'
    BY <1>1, <2>1, <2>2, <2>3, MainGoto DEF mains
  <2>5. BarrierOK'
    BY <1>1, <2>1, MainFacts, BarrierJump DEF HarnessInv, CommonInv
  <2> QED
    BY <2>4, <2>5 DEF HarnessInv
<1> QED
  BY <1>3, <1>4

LEMMA MainCountedInv ==
    ASSUME HarnessInv, Running, MainCounted
    PROVE  HarnessInv'
<1>1. hpc[Main] = "check" /\ pc[Main] = "idle" /\ CommonInv /\ joined = NumThreads
  BY DEF MainCounted, At, HarnessInv, CommonInv, MainOK
<1>2. CASE Exit("SIGSEGV")
  <2>1. BarrierOK'
    BY <1>2, BarrierKept DEF Exit, HarnessInv, PastInsertBarrier
  <2> QED
    BY <1>1, <1>2, <2>1, ExitKept DEF HarnessInv
<1>3. CASE ~Exit("SIGSEGV")
  <2>1. /\ hpc' = [hpc EXCEPT ![Main] = "append"]
        /\ UNCHANGED <<libVars, n, bin, barriers, counts, mains>>
    BY <1>3 DEF MainCounted, Goto
  <2>2. list_count' \in [Bin -> {0, 1}]
    BY <1>1, <2>1 DEF CommonInv, TypeOK, counts
  <2>3. CommonInv'
    BY <1>1, <2>1, <2>2, MainGoto DEF counts
  <2>4. BarrierOK'
    BY <2>1, MainFacts, BarrierJump DEF HarnessInv, CommonInv
  <2> QED
    BY <2>3, <2>4 DEF HarnessInv
<1> QED
  BY <1>2, <1>3

-----------------------------------------------------------------------------
(* The barriers under the steps shared with project 2a.                    *)

LEMMA ExitBarrier ==
    ASSUME BarrierOK, NEW how, Exit(how)
    PROVE  BarrierOK'
BY BarrierKept DEF Exit, PastInsertBarrier

LEMMA SharedBarrier ==
    ASSUME HarnessInv, NEW t \in Thread,
           \/ InsertNext(t) \/ LookupNext(t) \/ DeleteMatching(t) \/ CheckDeleted(t)
           \/ Library(t) \/ CreateThread \/ CreateFails \/ AppendCsv
    PROVE  BarrierOK'
<1>1. BarrierOK /\ TypeOK /\ MainOK /\ CommonInv
  BY DEF HarnessInv, CommonInv
<1>2. CASE InsertNext(t)
  <2>1. /\ hpc[t] = "insert" /\ UNCHANGED <<hpc, barriers>>
        /\ \A u \in Thread \ {t} : n'[u] = n[u]
    BY <1>2 DEF InsertNext, At
  <2> QED
    BY <1>1, <2>1, MainFacts, BarrierKept DEF PastInsertBarrier
<1>3. CASE LookupNext(t)
  BY <1>1, <1>3, BarrierJump DEF LookupNext, At, Goto, PastInsertBarrier
<1>4. CASE DeleteMatching(t)
  <2>1. CASE Exit("corrupted")
    BY <1>1, <2>1, ExitBarrier
  <2>2. CASE ~Exit("corrupted")
    BY <1>1, <1>4, <2>2, BarrierJump DEF DeleteMatching, At, Goto, PastInsertBarrier
  <2> QED
    BY <2>1, <2>2
<1>5. CASE CheckDeleted(t)
  <2>1. CASE Exit("corrupted")
    BY <1>1, <2>1, ExitBarrier
  <2>2. CASE ~Exit("corrupted")
    <3>1. /\ hpc[t] = "deleted" /\ hpc' = [hpc EXCEPT ![t] = "delete"]
          /\ UNCHANGED barriers /\ n' = [n EXCEPT ![t] = @ + 1]
      BY <1>5, <2>2 DEF CheckDeleted, At, Goto
    <3>2. \A u \in Thread \ {t} : n'[u] = n[u]
      BY <3>1
    <3> QED
      BY <1>1, <3>1, <3>2, BarrierJump DEF PastInsertBarrier
  <2> QED
    BY <2>1, <2>2
<1>6. CASE Library(t)
  BY <1>1, <1>6, BarrierKept DEF Library, PastInsertBarrier
<1>7. CASE CreateThread
  <2>1. CASE created < NumThreads
    <3>1. created \in 0 .. NumThreads
      BY <1>1 DEF TypeOK
    <3>2. created \in Workers /\ created \in Thread
      BY <2>1, <3>1, MainFacts DEF Workers
    <3>3. hpc[created] = "none"
      <4>1. \A u \in Workers : hpc[u] = "none" <=> created <= u
        BY <1>1 DEF MainOK
      <4> QED
        BY <3>1, <3>2, <4>1, MainFacts
    <3>4. created # NumThreads
      BY <2>1, <3>1, MainFacts
    <3>5. /\ hpc' = [hpc EXCEPT ![created] = "insert"] /\ UNCHANGED barriers
          /\ n' = [n EXCEPT ![created] = Start(created)]
      BY <1>7, <3>4 DEF CreateThread
    <3>6. \A u \in Thread \ {created} : n'[u] = n[u]
      BY <3>5
    <3> QED
      BY <1>1, <3>2, <3>3, <3>5, <3>6, BarrierJump
  <2>2. CASE ~(created < NumThreads)
    <3>1. hpc' = [hpc EXCEPT ![Main] = "join"] /\ UNCHANGED <<barriers, n>>
      BY <1>7, <2>2 DEF CreateThread, Goto
    <3> QED
      BY <1>1, <3>1, MainFacts, BarrierJump
  <2> QED
    BY <2>1, <2>2
<1>8. CASE CreateFails \/ AppendCsv
  BY <1>1, <1>8, ExitBarrier DEF CreateFails, AppendCsv
<1> QED
  BY <1>2, <1>3, <1>4, <1>5, <1>6, <1>7, <1>8

-----------------------------------------------------------------------------
(* The whole harness.                                                      *)

LEMMA HarnessInit == Init => HarnessInv
<1> SUFFICES ASSUME Init PROVE HarnessInv
  OBVIOUS
<1>1. LibInv
  BY SameInit, LibInit DEF Init
<1>2. /\ linked = {} /\ pc = [t \in Thread |-> "idle"]
      /\ \A t \in Thread : SLP!Fn(t) = "none"
  BY SameInit DEF Init, SLP!Init, SLP!Fn, SLP!Set!NoCall
<1>3. \A t \in Workers : hpc[t] = "none"
  BY MainFacts DEF Init
<1>4. hpc[Main] = "create"
  BY MainFacts DEF Init
<1>5. \A t \in Thread : ThreadOK(t)
  BY <1>2, <1>3, <1>4
     DEF Thread, ThreadOK, Position, Loop, Returned, Answered, Present
<1>6. TypeOK
  BY Sizes, ArgsAssumption DEF Init, TypeOK
<1>7. MainOK
  BY <1>3, <1>4, Sizes DEF Init, MainOK
<1>8. BarrierOK
  <2>1. PastInserting = {} /\ PastDeleting = {}
    BY <1>3 DEF PastInserting, PastDeleting
  <2>2. \A t \in Workers : ~PastInsertBarrier(t)
    BY <1>3 DEF PastInsertBarrier
  <2> QED
    BY <1>3, <2>1, <2>2, FS_EmptySet DEF Init, BarrierOK
<1> QED
  BY <1>1, <1>5, <1>6, <1>7, <1>8 DEF HarnessInv, CommonInv

LEMMA HarnessStutter == HarnessInv /\ UNCHANGED vars => HarnessInv'
<1> SUFFICES ASSUME HarnessInv, UNCHANGED vars PROVE HarnessInv'
  OBVIOUS
<1>1. UNCHANGED <<libVars, hpc, n, bin, barriers, counts, mains>>
  BY DEF vars
<1>2. LibInv' /\ \A u \in Thread : ThreadOK(u)'
  BY <1>1, LibStutter, ThreadKept DEF HarnessInv, CommonInv, libVars
<1>3. TypeOK'
  BY <1>1 DEF HarnessInv, CommonInv, TypeOK, barriers, counts, mains
<1>4. MainOK'
  BY <1>1, MainSame DEF HarnessInv, CommonInv, libVars
<1>5. BarrierOK'
  BY <1>1, BarrierKept DEF HarnessInv, PastInsertBarrier
<1> QED
  BY <1>2, <1>3, <1>4, <1>5 DEF HarnessInv, CommonInv

LEMMA HarnessNext == HarnessInv /\ [Next]_vars => HarnessInv'
<1> SUFFICES ASSUME HarnessInv, [Next]_vars PROVE HarnessInv'
  OBVIOUS
<1>1. CommonInv
  BY DEF HarnessInv
<1>2. ASSUME NEW t \in Thread, Running,
             InsertNext(t) \/ LookupNext(t) \/ DeleteMatching(t) \/ CheckDeleted(t) \/ Library(t)
      PROVE  HarnessInv'
  BY <1>1, <1>2, InsertNextInv, LookupNextInv, DeleteMatchingInv, CheckDeletedInv,
     LibraryInv, SharedBarrier DEF HarnessInv
<1>3. ASSUME NEW t \in Thread, ThreadStep(t) PROVE HarnessInv'
  BY <1>2, <1>3, FinishInsertingInv, PassInsertBarrierInv, FinishDeletingInv,
     PassDeleteBarrierInv, CountListInv, AddCountInv, AllCountedInv DEF ThreadStep
<1>4. CASE MainStep
  <2>1. CASE CreateThread \/ CreateFails \/ AppendCsv
    BY <1>1, <1>4, <2>1, MainFacts, CreateThreadInv, EndInv, SharedBarrier
       DEF HarnessInv, MainStep
  <2>2. CASE JoinThread \/ MainCounted
    BY <1>4, <2>2, JoinThreadInv, MainCountedInv DEF MainStep
  <2> QED
    BY <1>4, <2>1, <2>2 DEF MainStep
<1>5. CASE UNCHANGED vars
  BY <1>5, HarnessStutter
<1> QED
  BY <1>3, <1>4, <1>5 DEF Next

LEMMA HarnessSpec == Spec => []HarnessInv
BY HarnessInit, HarnessNext, PTL DEF Spec

-----------------------------------------------------------------------------
(* In every mode every variable of lab2_list keeps to its type: in         *)
(* particular the counters of the barriers never exceed the number of      *)
(* threads, and no thread indexes past its lists or its elements.          *)
THEOREM HarnessTypeCorrect == Spec => []TypeOK
<1>1. HarnessInv => TypeOK
  BY DEF HarnessInv, CommonInv
<1> QED
  BY <1>1, HarnessSpec, PTL

(* No element is lost between its insertion and its deletion: once the     *)
(* first barrier has opened, every element is in a list until its own      *)
(* thread deletes it.                                                      *)
THEOREM NoElementLost == Spec => []UndeletedLinked
<1>1. HarnessInv => UndeletedLinked
  <2> SUFFICES ASSUME HarnessInv, Synced, \E t \in Workers : PastInsertBarrier(t),
                      NEW u \in Workers, NEW e \in Start(u) .. End(u) - 1
               PROVE  \/ e \in linked
                      \/ Deleting(u) /\ e < n[u]
                      \/ hpc[u] = "deleted" /\ e = n[u]
    BY DEF UndeletedLinked
  <2>1. e \in Own(u) /\ e \in Int /\ n[u] \in Int /\ u \in Thread /\ SLP!Synced
    <3>1. u \in Thread /\ e \in Own(u) /\ Start(u) \in Int /\ End(u) \in Int /\ NumElements \in Nat
      BY Sizes, OwnFacts
    <3>2. n[u] \in 0 .. NumElements
      BY <3>1 DEF HarnessInv, CommonInv, TypeOK
    <3> QED
      BY <3>1, <3>2, SameInit
  <2>2. PastInserting = Workers
    <3>1. Cardinality(PastInserting) = NumThreads /\ PastInserting \in SUBSET Workers
      BY DEF HarnessInv, BarrierOK, PastInserting
    <3> QED
      BY <3>1, Counting
  <2>3. hpc[u] \in {"barrier1", "check", "counted", "delete", "found", "deleted",
                    "barrier2", "exited"}
    BY <2>1, <2>2 DEF PastInserting, HarnessInv, CommonInv, TypeOK, MainOK
  <2>4. e \in linked <=> Present(u, e)
    BY <2>1 DEF HarnessInv, CommonInv, ThreadOK
  <2>5. hpc[u] \in {"barrier2", "exited"} => n[u] = End(u)
    BY <2>1 DEF HarnessInv, CommonInv, ThreadOK, Loop
  <2>6. End(u) \in Int
    BY Sizes
  <2> QED
    BY <2>1, <2>3, <2>4, <2>5, <2>6 DEF Present, Deleting
<1> QED
  BY <1>1, HarnessSpec, PTL

LEMMA Uncorrupted == CommonInv => NeverCorruptedWhenSynced
BY SameInit DEF CommonInv, MainOK, LibInv, SLP!OrderInv, NeverCorruptedWhenSynced

(* Under a lock no lookup misses its element, no deletion is refused, no   *)
(* count finds a broken link, and no null pointer is followed.             *)
THEOREM NeverCorrupted == Spec => []NeverCorruptedWhenSynced
BY Uncorrupted, HarnessSpec, PTL DEF HarnessInv

(* The end of a run, of either project.                                    *)
LEMMA EmptyAtExit == CommonInv => ListsEmptyAtExit
<1> SUFFICES ASSUME CommonInv, SLP!Synced, status = "exit 0"
             PROVE  /\ linked = {}
                    /\ \A b \in Bin : next[list[b]] = Null /\ lock[b] = 0
  BY SameInit DEF ListsEmptyAtExit
<1>1. hpc[Main] = "append" /\ \A t \in Workers : hpc[t] = "exited"
  <2>1. hpc[Main] = "append" /\ joined = NumThreads
    BY DEF CommonInv, MainOK
  <2>2. \A t \in Workers : t < joined => hpc[t] = "exited"
    BY DEF CommonInv, MainOK
  <2>3. \A t \in Workers : t < NumThreads
    BY Sizes
  <2> QED
    BY <2>1, <2>2, <2>3
<1>2. \A e \in Elem : e \notin linked
  <2> SUFFICES ASSUME NEW e \in Elem PROVE e \notin linked
    OBVIOUS
  <2>1. PICK t \in Workers : t = Owner[e]
    BY OwnFacts
  <2>2. e \in Own(t) /\ hpc[t] = "exited" /\ t \in Thread
    BY <1>1, <2>1, MainFacts DEF Own
  <2>3. ~Present(t, e)
    BY <2>2 DEF Present
  <2> QED
    BY <2>2, <2>3 DEF CommonInv, ThreadOK
<1>3. linked = {}
  BY <1>2 DEF CommonInv, LibInv, SLP!Inv, SLP!TypeOK
<1>4. \A t \in Thread : pc[t] = "idle"
  BY <1>1 DEF Thread, CommonInv, ThreadOK, Position, LibInv, SLP!Inv, SLP!Shape
<1>5. \A b \in Bin : lock[b] = 0
  <2>1. \A b \in Bin : lock[b] # 1
    BY <1>4 DEF CommonInv, LibInv, SLP!OrderInv, SLP!LockHeld, SLP!Holding
  <2>2. \A b \in Bin : lock[b] \in {0, 1}
    BY DEF CommonInv, LibInv, SLP!Inv, SLP!TypeOK
  <2> QED
    BY <2>1, <2>2
<1>6. \A b \in Bin : next[list[b]] = Null
  BY <1>3 DEF CommonInv, LibInv, SLP!OrderInv, SLP!Sorted, SLP!SortedAt,
              SLP!OnList, SLP!InBin
<1> QED
  BY <1>3, <1>5, <1>6

(* A run under a lock that exits with 0 has deleted every element, left    *)
(* every list empty and every lock released.                               *)
THEOREM ListsEmptyAtEnd == Spec => []ListsEmptyAtExit
BY EmptyAtExit, HarnessSpec, PTL DEF HarnessInv

LEMMA HarnessCalls == HarnessInv /\ [Next]_vars => LibraryStep
<1> SUFFICES ASSUME HarnessInv, [Next]_vars PROVE LibraryStep
  OBVIOUS
<1>1. CommonInv
  BY DEF HarnessInv
<1>2. UNCHANGED libVars => LibraryStep
  BY DEF LibraryStep, libVars, SLP!vars, SLP!links, SLP!fixed, SLP!locals
<1>3. ASSUME NEW t \in Thread, ThreadStep(t) PROVE LibraryStep
  <2>1. CASE InsertNext(t) \/ LookupNext(t) \/ DeleteMatching(t) \/ CountList(t)
    BY <1>1, <1>3, <2>1, InsertNextInv, LookupNextInv, DeleteMatchingInv, CountListInv
       DEF ThreadStep
  <2>2. CASE Library(t)
    BY <2>2, SameStep DEF Library, LibraryStep, SLP!Next
  <2>3. CASE FinishInserting(t) \/ PassInsertBarrier(t) \/ FinishDeleting(t)
             \/ PassDeleteBarrier(t) \/ AllCounted(t)
    BY <1>2, <2>3 DEF FinishInserting, PassInsertBarrier, FinishDeleting, PassDeleteBarrier,
                      AllCounted
  <2>4. CASE CheckDeleted(t) \/ AddCount(t)
    BY <1>2, <2>4 DEF CheckDeleted, AddCount, Exit
  <2> QED
    BY <1>3, <2>1, <2>2, <2>3, <2>4 DEF ThreadStep
<1>4. CASE MainStep
  BY <1>2, <1>4 DEF MainStep, CreateThread, CreateFails, JoinThread, MainCounted, AppendCsv, Exit
<1>5. CASE UNCHANGED vars
  BY <1>2, <1>5 DEF vars
<1> QED
  BY <1>3, <1>4, <1>5 DEF Next

LEMMA SameLibraryStep == LibraryStep => [SL!Next]_(SL!vars)
<1> SUFFICES ASSUME LibraryStep PROVE SL!Next \/ UNCHANGED SL!vars
  OBVIOUS
<1>1. SLP!Next \/ UNCHANGED SLP!vars
  BY DEF LibraryStep
<1>2. CASE SLP!Next
  BY <1>2, SameNext
<1>3. CASE UNCHANGED SLP!vars
  BY <1>3 DEF SL!vars, SLP!vars, SL!links, SLP!links, SL!fixed, SLP!fixed,
              SL!locals, SLP!locals
<1> QED
  BY <1>1, <1>2, <1>3

(* Every call that lab2_list makes is one that the library's specification *)
(* admits: under a lock each thread inserts only elements of its own that  *)
(* are in no list, and deletes only elements of its own that are in one.   *)
(* So what is proved of the library holds of it inside lab2_list.          *)
THEOREM HarnessKeepsContract == Spec => LibrarySpec
<1>1. Init => SL!Init
  BY DEF Init
<1>2. HarnessInv /\ [Next]_vars => [SL!Next]_(SL!vars)
  BY HarnessCalls, SameLibraryStep
<1> QED
  BY <1>1, <1>2, HarnessSpec, PTL DEF Spec, LibrarySpec, SL!Spec

-----------------------------------------------------------------------------
(* get_bin: for every number of lists each key has a list, and the loop    *)
(* finds the one that the closed form names, of which BinOf is made.       *)

VARIABLES num_lists, char, loop_bin, outcome

GB == INSTANCE SubLists WITH MaxLists <- NumLists, bin <- loop_bin

(* What the loop has found out when it looks at a bin: the key fits none   *)
(* of those before it.                                                     *)
LoopOK ==
    /\ outcome # "exit 2"
    /\ loop_bin < num_lists
    /\ loop_bin = 0 \/ ~GB!Fits(char, loop_bin - 1, num_lists)
    /\ outcome = "returned" => GB!Fits(char, loop_bin, num_lists)

(* The inductive invariant.                                                *)
SubListInv == GB!TypeOK /\ LoopOK

-----------------------------------------------------------------------------
(* Facts of arithmetic.                                                    *)

(* Euclid's division, and that a quotient is the only one of its kind.     *)
LEMMA Euclid ==
    ASSUME NEW a \in Nat, NEW k \in Nat \ {0}
    PROVE  /\ a \div k \in Nat
           /\ a % k \in 0 .. k - 1
           /\ a = k * (a \div k) + (a % k)
OBVIOUS

LEMMA ProductNat == ASSUME NEW a \in Nat, NEW b \in Nat PROVE a * b \in Nat
OBVIOUS

LEMMA ProductGrows ==
    ASSUME NEW a \in Nat, NEW b \in Nat, NEW c \in Nat, a <= b
    PROVE  a * c <= b * c
<1>1. b * c = a * c + (b - a) * c
  OBVIOUS
<1>2. b - a \in Nat /\ a * c \in Nat
  BY ProductNat
<1>3. (b - a) * c \in Nat
  BY <1>2, ProductNat
<1> QED
  BY <1>1, <1>2, <1>3

LEMMA QuotientUnique ==
    ASSUME NEW a \in Nat, NEW k \in Nat \ {0}, NEW q \in Nat,
           q * k <= a, a < (q + 1) * k
    PROVE  q = a \div k
BY Division

-----------------------------------------------------------------------------

(* The quotient is rounded up, so the lists hold at least 95 characters.   *)
LEMMA BinsCoverAll ==
    ASSUME NEW k \in Nat \ {0}
    PROVE  GB!BinSize(k) \in Nat \ {0} /\ k * GB!BinSize(k) >= GB!VISIBLE_ASCII_CHARS
<1> DEFINE q == 95 \div k
           r == 95 % k
<1>1. q \in Nat /\ r \in 0 .. k - 1 /\ 95 = k * q + r
  BY Euclid
<1>2. GB!BinSize(k) = q + (IF r # 0 THEN 1 ELSE 0)
  BY DEF GB!BinSize, GB!VISIBLE_ASCII_CHARS
<1>3. k * (q + 1) = k * q + k /\ k * (q + 0) = k * q /\ k * 0 = 0 /\ k * q \in Nat
  BY <1>1, ProductNat
<1> HIDE DEF q, r
<1>4. CASE r = 0
  <2>1. GB!BinSize(k) = q /\ q # 0
    BY <1>1, <1>2, <1>3, <1>4
  <2> QED
    BY <2>1, <1>1, <1>3, <1>4 DEF GB!VISIBLE_ASCII_CHARS
<1>5. CASE r # 0
  <2>1. GB!BinSize(k) = q + 1
    BY <1>1, <1>2, <1>5
  <2> QED
    BY <2>1, <1>1, <1>3 DEF GB!VISIBLE_ASCII_CHARS
<1> QED
  BY <1>4, <1>5

(* Less the number of visible characters, the last of them is well within  *)
(* the last list.                                                          *)
LEMMA LastListFits ==
    ASSUME NEW k \in Nat \ {0}, NEW c \in GB!KeyChar
    PROVE  GB!Fits(c, k - 1, k)
<1>1. k * GB!BinSize(k) >= 95 /\ GB!BinSize(k) \in Nat /\ (k - 1) + 1 = k
  BY BinsCoverAll DEF GB!VISIBLE_ASCII_CHARS
<1>2. c \in 32 .. 126
  BY DEF GB!KeyChar, GB!VISIBLE_ASCII_CHARS, GB!VISIBLE_ASCII_OFFSET
<1>3. ((k - 1) + 1) * GB!BinSize(k) >= 95
  BY <1>1
<1>4. k * GB!BinSize(k) \in Nat /\ ((k - 1) + 1) * GB!BinSize(k) = k * GB!BinSize(k)
  BY <1>1, ProductNat
<1> QED
  BY <1>1, <1>2, <1>4 DEF GB!Fits, GB!VISIBLE_ASCII_CHARS

(* The first list that a key fits is the one of the closed form.           *)
LEMMA FirstFitIsGetBin ==
    ASSUME NEW k \in Nat \ {0}, NEW c \in GB!KeyChar, NEW b \in Nat,
           GB!Fits(c, b, k), b = 0 \/ ~GB!Fits(c, b - 1, k)
    PROVE  b = GB!GetBin(c, k)
<1> DEFINE B == GB!BinSize(k)
<1>1. B \in Nat \ {0} /\ c \in 32 .. 126
  BY BinsCoverAll DEF GB!KeyChar, GB!VISIBLE_ASCII_CHARS, GB!VISIBLE_ASCII_OFFSET
<1>2. /\ c - 95 < (b + 1) * B
      /\ b = 0 \/ ~(c - 95 < ((b - 1) + 1) * B)
  BY DEF GB!Fits, GB!VISIBLE_ASCII_CHARS
<1>3. GB!GetBin(c, k) = IF c < 95 THEN 0 ELSE (c - 95) \div B
  BY DEF GB!GetBin, GB!VISIBLE_ASCII_CHARS
<1> HIDE DEF B
<1>4. (b - 1) + 1 = b /\ b * B \in Nat /\ 0 * B = 0
  BY <1>1, ProductNat
<1>5. b * B <= c - 95 \/ b = 0
  BY <1>1, <1>2, <1>4
<1>6. CASE c < 95
  BY <1>1, <1>3, <1>4, <1>5, <1>6
<1>7. CASE ~(c < 95)
  <2>1. c - 95 \in Nat
    BY <1>1, <1>7
  <2>2. b * B <= c - 95
    BY <2>1, <1>4, <1>5
  <2>3. b = (c - 95) \div B
    BY <1>1, <1>2, <2>1, <2>2, QuotientUnique
  <2> QED
    BY <2>3, <1>3, <1>7
<1> QED
  BY <1>6, <1>7

-----------------------------------------------------------------------------

LEMMA SubListTypes ==
    ASSUME GB!TypeOK
    PROVE  num_lists \in Nat \ {0} /\ char \in GB!KeyChar /\ loop_bin \in Nat
<1>1. NumLists \in Nat /\ num_lists \in 1 .. NumLists /\ loop_bin \in 0 .. num_lists
  BY ArgsAssumption DEF GB!TypeOK
<1>2. num_lists \in Nat \ {0} /\ loop_bin \in Nat
  BY ONLY <1>1
<1> QED
  BY <1>2 DEF GB!TypeOK

LEMMA SubListInit == GB!Init => SubListInv
BY ArgsAssumption DEF GB!Init, SubListInv, GB!TypeOK, LoopOK

LEMMA SubListNext == SubListInv /\ [GB!Next]_(GB!vars) => SubListInv'
<1> SUFFICES ASSUME SubListInv, [GB!Next]_(GB!vars) PROVE SubListInv'
  OBVIOUS
<1>1. CASE UNCHANGED GB!vars
  BY <1>1 DEF SubListInv, GB!TypeOK, LoopOK, GB!vars
<1>2. CASE GB!Round
  <2>1. /\ num_lists \in Nat \ {0} /\ num_lists' = num_lists
        /\ char \in GB!KeyChar /\ char' = char /\ loop_bin \in Nat
    BY <1>2, SubListTypes DEF SubListInv, GB!Round
  <2>2. CASE GB!Fits(char, loop_bin, num_lists)
    BY <1>2, <2>1, <2>2 DEF SubListInv, GB!TypeOK, LoopOK, GB!Round
  <2>3. CASE ~GB!Fits(char, loop_bin, num_lists)
    <3>1. loop_bin # num_lists - 1
      BY <2>1, <2>3, LastListFits
    <3>2. loop_bin + 1 < num_lists /\ (loop_bin + 1) - 1 = loop_bin
      <4>1. loop_bin < num_lists
        BY DEF SubListInv, LoopOK
      <4> QED
        BY <2>1, <3>1, <4>1
    <3>3. loop_bin' = loop_bin + 1 /\ outcome' = "looping"
      BY <1>2, <2>3, <3>2 DEF GB!Round
    <3> QED
      <4>1. loop_bin' \in 0 .. num_lists' /\ loop_bin' < num_lists' /\ loop_bin' - 1 = loop_bin
        BY <2>1, <3>2, <3>3
      <4> QED
        BY <2>1, <2>3, <3>3, <4>1 DEF SubListInv, GB!TypeOK, LoopOK
  <2> QED
    BY <2>2, <2>3
<1> QED
  BY <1>1, <1>2 DEF GB!Next

(* For every number of lists the exit(2) behind the loop of get_bin is     *)
(* never reached, and the loop returns the bin of the closed form, which   *)
(* lab2_list's model uses in its place.                                    *)
THEOREM EveryKeyHasList == GB!Spec => [](GB!TypeOK /\ GB!KeyHasList)
<1>1. SubListInv => GB!TypeOK /\ GB!KeyHasList
  <2> SUFFICES ASSUME SubListInv PROVE GB!TypeOK /\ GB!KeyHasList
    OBVIOUS
  <2>1. num_lists \in Nat \ {0} /\ char \in GB!KeyChar /\ loop_bin \in Nat
    BY SubListTypes DEF SubListInv
  <2> QED
    BY <2>1, FirstFitIsGetBin DEF SubListInv, LoopOK, GB!KeyHasList
<1> QED
  BY SubListInit, SubListNext, <1>1, PTL DEF GB!Spec

(* A key's list is one of the lists: the index that get_bin returns never  *)
(* leaves the array of heads.                                              *)
THEOREM GetBinInRange ==
    ASSUME NEW k \in Nat \ {0}, NEW c \in GB!KeyChar
    PROVE  GB!GetBin(c, k) \in 0 .. k - 1
<1> DEFINE B == GB!BinSize(k)
<1>1. B \in Nat \ {0} /\ c \in 32 .. 126 /\ k * B >= 95
  BY BinsCoverAll DEF GB!KeyChar, GB!VISIBLE_ASCII_CHARS, GB!VISIBLE_ASCII_OFFSET
<1>2. GB!GetBin(c, k) = IF c < 95 THEN 0 ELSE (c - 95) \div B
  BY DEF GB!GetBin, GB!VISIBLE_ASCII_CHARS
<1> HIDE DEF B
<1>3. CASE c < 95
  BY <1>2, <1>3
<1>4. CASE ~(c < 95)
  <2> DEFINE a == c - 95
             q == a \div B
  <2>1. a \in Nat /\ a <= 31
    BY <1>1, <1>4
  <2> HIDE DEF a
  <2>2. q \in Nat /\ a % B \in 0 .. B - 1 /\ a = B * q + (a % B)
    BY <1>1, <2>1, Euclid
  <2> HIDE DEF q
  <2>3. ~(k <= q)
    <3> SUFFICES ASSUME k <= q PROVE FALSE
      OBVIOUS
    <3>1. k * B <= q * B /\ k * B \in Nat /\ q * B \in Nat /\ q * B = B * q
      BY <1>1, <2>2, ProductGrows, ProductNat
    <3> QED
      BY <1>1, <2>1, <2>2, <3>1
  <2>4. GB!GetBin(c, k) = q
    BY <1>2, <1>4 DEF a, q
  <2> QED
    BY <2>2, <2>3, <2>4
<1> QED
  BY <1>3, <1>4

=============================================================================
