-------------------------- MODULE Lab2aList_proofs --------------------------
(***************************************************************************)
(* Proofs about lab2_list of project 2a: under a lock a count that other   *)
(* threads' calls overlap is never less than the thread's own elements,    *)
(* and the list ends empty.                                                *)
(*                                                                         *)
(* What is proved of the steps it shares with project 2b is used as it is; *)
(* the barriers that 2b added are not needed for it.                       *)
(***************************************************************************)
EXTENDS Lab2aList, Lab2bList_proofs

(* What a thread is told, or is about to be, when it counts.               *)
CountOK(t) ==
    SLP!Synced /\ hpc[t] = "counted" /\ SLP!Phase(t) # "called" =>
        SLP!Answered(t) \in NumIterations .. NumElements

HarnessAInv ==
    /\ CommonInv
    /\ bin = [t \in Thread |-> 0]
    /\ \A t \in Workers : CountOK(t)

LEMMA OneList == Bin = {0} /\ 0 < NumLists
<1>1. NumLists = 1 /\ 0 .. 1 - 1 = {0}
  BY OneListAssumption
<1> QED
  BY <1>1 DEF Bin

(* A thread owns as many elements as it makes iterations.                  *)
LEMMA OwnCount ==
    ASSUME NEW t \in Workers
    PROVE  IsFiniteSet(Own(t)) /\ Cardinality(Own(t)) = NumIterations
<1>1. /\ Own(t) = Start(t) .. End(t) - 1 /\ Start(t) \in Int /\ End(t) - 1 \in Int
      /\ End(t) = Start(t) + NumIterations /\ NumIterations \in Nat
  BY Sizes, OwnFacts, ArgsAssumption
<1>2. /\ IsFiniteSet(Start(t) .. End(t) - 1)
      /\ Cardinality(Start(t) .. End(t) - 1) =
           IF Start(t) > End(t) - 1 THEN 0 ELSE End(t) - 1 - Start(t) + 1
  BY <1>1, FS_Interval
<1> QED
  BY <1>1, <1>2

LEMMA Between ==
    \A i, j, c, d \in Nat : i <= c /\ c <= d /\ d <= j => c \in i .. j
OBVIOUS

-----------------------------------------------------------------------------
(* A step keeps the counts if every thread that has counted after it had   *)
(* done so before.                                                         *)
LEMMA CountsKept ==
    ASSUME CommonInv, \A u \in Workers : CountOK(u), UNCHANGED sync_opt,
           \A u \in Workers : hpc'[u] = "counted" /\ SLP!Phase(u)' # "called" =>
               /\ hpc[u] = "counted"
               /\ pc'[u] = pc[u] /\ call'[u] = call[u] /\ ret'[u] = ret[u]
    PROVE  \A u \in Workers : CountOK(u)'
<1> SUFFICES ASSUME NEW u \in Workers, SLP!Synced',
                    hpc'[u] = "counted", SLP!Phase(u)' # "called"
             PROVE  SLP!Answered(u)' \in NumIterations .. NumElements
  BY DEF CountOK
<1>1. /\ hpc[u] = "counted"
      /\ pc'[u] = pc[u] /\ call'[u] = call[u] /\ ret'[u] = ret[u]
  OBVIOUS
<1>2. SLP!Phase(u) = SLP!Phase(u)' /\ SLP!Answered(u) = SLP!Answered(u)' /\ SLP!Synced
  BY <1>1 DEF SLP!Phase, SLP!Answered, SLP!Done, SLP!Fn, SLP!Synced
<1> QED
  BY <1>1, <1>2 DEF CountOK

(* A call of thread t leaves the other threads as they are.                *)
LEMMA CallAlone ==
    ASSUME CommonInv, \A u \in Workers : CountOK(u), NEW t \in Thread, NEW c, NEW label,
           SLP!Invoke(t, c), hpc' = [hpc EXCEPT ![t] = label]
    PROVE  \A u \in Workers : CountOK(u)'
<1>1. /\ pc' = [pc EXCEPT ![t] = "lock"]
      /\ call' = [call EXCEPT ![t] = c]
      /\ ret' = [ret EXCEPT ![t] = Null]
      /\ UNCHANGED sync_opt
  BY DEF SLP!Invoke, SLP!Goto, SLP!fixed
<1>2. pc'[t] = "lock"
  BY <1>1 DEF CommonInv, LibInv, SLP!Inv, SLP!TypeOK
<1>3. SLP!Phase(t)' = "called"
  BY <1>2 DEF SLP!Phase, SLP!Done
<1>4. \A u \in Workers : u # t =>
        hpc'[u] = hpc[u] /\ pc'[u] = pc[u] /\ call'[u] = call[u] /\ ret'[u] = ret[u]
  BY <1>1, MainFacts DEF CommonInv, TypeOK, LibInv, SLP!Inv, SLP!TypeOK
<1> QED
  BY <1>1, <1>3, <1>4, CountsKept

(* A step of the harness itself.                                           *)
LEMMA LocalAlone ==
    ASSUME CommonInv, \A u \in Workers : CountOK(u), UNCHANGED libVars,
           \A u \in Workers : hpc'[u] = "counted" => hpc[u] = "counted"
    PROVE  \A u \in Workers : CountOK(u)'
BY CountsKept DEF libVars

-----------------------------------------------------------------------------
(* The steps that project 2b has as well.                                  *)

(* A list that is counted holds at least the elements of the thread.       *)
LEMMA LibraryCounts ==
    ASSUME HarnessAInv, Running, NEW t \in Thread, Library(t)
    PROVE  HarnessAInv'
<1>1. CommonInv /\ CommonInv'
  BY LibraryInv DEF HarnessAInv
<1>2. SLP!Step(t) /\ UNCHANGED <<hpc, bin>>
  BY SameStep DEF Library
<1>3. /\ SLP!Frame(t)
      /\ SLP!Synced => SLP!Set!Effect(t) \/ SLP!Set!Return(t) \/ UNCHANGED SLP!Set!vars
  BY <1>1, <1>2, LibStep DEF CommonInv
<1>4. SLP!Synced' <=> SLP!Synced
  BY <1>3 DEF SLP!Frame, SLP!Synced
<1>5. ASSUME NEW u \in Workers \ {t} PROVE CountOK(u)'
  <2>1. pc'[u] = pc[u] /\ call'[u] = call[u] /\ ret'[u] = ret[u]
    BY <1>3, MainFacts DEF SLP!Frame
  <2>2. /\ SLP!Phase(u)' = SLP!Phase(u) /\ SLP!Answered(u)' = SLP!Answered(u)
        /\ CountOK(u)
    BY <2>1 DEF SLP!Phase, SLP!Answered, SLP!Done, SLP!Fn, HarnessAInv
  <2> QED
    BY <1>2, <1>4, <2>2 DEF CountOK
<1>6. ASSUME t \in Workers PROVE CountOK(t)'
  <2> SUFFICES ASSUME SLP!Synced, hpc[t] = "counted", SLP!Phase(t)' # "called"
               PROVE  SLP!Answered(t)' \in NumIterations .. NumElements
    BY <1>2, <1>4 DEF CountOK
  <2>1. CASE SLP!Set!Effect(t)
    <3> DEFINE S == {e \in linked : BinOf[key[e]] = call[t].bin}
    <3>1. call[t] \in SLP!CallType /\ pc[t] # "idle"
      BY <1>1, <2>1, EffectFacts DEF CommonInv, LibInv, SLP!Inv, SLP!TypeOK, SLP!Phase
    <3>2. SLP!Fn(t) = "length"
      <4>1. SLP!Fn(t) # "none"
        BY <1>1, <3>1 DEF CommonInv, LibInv, SLP!Inv, SLP!Shape
      <4>2. SLP!Fn(t) \in {"none", "insert", "delete", "lookup", "length"}
        BY <3>1, LibArgs, SLP!CallTypeFacts DEF SLP!Fn
      <4> QED
        BY <1>1, <4>1, <4>2 DEF CommonInv, ThreadOK, Position
    <3>3. SLP!Answered(t)' = Cardinality(S)
      BY <2>1, <3>2, EffectFacts
    <3>4. call[t].bin = 0
      <4>1. call[t].bin \in Bin
        BY <3>1, <3>2, LibArgs, SLP!CallTypeFacts DEF SLP!Fn
      <4> QED
        BY <4>1, OneList
    <3>5. linked \subseteq Elem /\ \A e \in Elem : BinOf[key[e]] = 0
      <4>1. linked \subseteq Elem /\ \A e \in Elem : BinOf[key[e]] \in Bin
        BY <1>1, LibArgs, SLP!NodeFacts DEF CommonInv, LibInv, SLP!Inv, SLP!TypeOK
      <4> QED
        BY <4>1, OneList
    <3>6. S = linked
      BY <3>4, <3>5
    <3>7. Own(t) \subseteq linked
      BY <1>1 DEF CommonInv, ThreadOK, Present
    <3>8. IsFiniteSet(Elem) /\ Cardinality(Elem) <= NumElements
      BY LibArgs, SameFinite DEF SLP!NodeAssumption, SLP!LimitAssumption
    <3>9. /\ IsFiniteSet(linked)
          /\ Cardinality(linked) <= Cardinality(Elem)
          /\ NumIterations <= Cardinality(linked)
          /\ Cardinality(linked) \in Nat /\ Cardinality(Elem) \in Nat
      <4>1. IsFiniteSet(linked) /\ Cardinality(linked) <= Cardinality(Elem)
        BY <3>5, <3>8, FS_Subset
      <4>2. Cardinality(Own(t)) <= Cardinality(linked) /\ Cardinality(Own(t)) = NumIterations
        BY <1>6, <3>7, <4>1, FS_Subset, OwnCount
      <4> QED
        BY <3>8, <4>1, <4>2, FS_CardinalityType
    <3> QED
      BY <3>3, <3>6, <3>8, <3>9, ArgsAssumption, Sizes, Between
  <2>2. CASE SLP!Set!Return(t) \/ UNCHANGED SLP!Set!vars
    <3>1. /\ SLP!Phase(t) # "called"
          /\ SLP!Answered(t)' = SLP!Answered(t)
      BY <2>2, ReturnFacts, StutterFacts
    <3> QED
      BY <1>6, <3>1 DEF HarnessAInv, CountOK
  <2> QED
    BY <1>3, <2>1, <2>2
<1> QED
  BY <1>1, <1>2, <1>5, <1>6 DEF HarnessAInv

(* The steps that only call, or only move a thread on.                     *)
LEMMA SharedCounts ==
    ASSUME HarnessAInv, Running, NEW t \in Thread,
           \/ InsertNext(t) \/ LookupNext(t) \/ DeleteMatching(t) \/ CheckDeleted(t)
           \/ Create \/ AppendCsv
    PROVE  LibraryStep /\ HarnessAInv'
<1>1. CommonInv /\ (\A u \in Workers : CountOK(u)) /\ hpc = [u \in Thread |-> hpc[u]]
  BY DEF HarnessAInv, CommonInv, TypeOK
<1>2. LibraryStep /\ CommonInv'
  <2>1. UNCHANGED libVars => LibraryStep
    BY DEF LibraryStep, libVars, SLP!vars, SLP!links, SLP!fixed, SLP!locals
  <2>2. CASE InsertNext(t) \/ LookupNext(t) \/ DeleteMatching(t)
    BY <1>1, <2>2, InsertNextInv, LookupNextInv, DeleteMatchingInv
  <2>3. CASE CheckDeleted(t)
    BY <1>1, <2>1, <2>3, CheckDeletedInv DEF CheckDeleted, Exit
  <2>4. CASE Create
    BY <1>1, <2>1, <2>4, CreateThreadInv, EndInv DEF Create, CreateThread, CreateFails, Exit
  <2>5. CASE AppendCsv
    BY <1>1, <2>1, <2>5, EndInv DEF AppendCsv, Exit
  <2> QED
    BY <2>2, <2>3, <2>4, <2>5
<1>3. UNCHANGED bin
  BY DEF InsertNext, LookupNext, DeleteMatching, CheckDeleted, Create, CreateThread,
         CreateFails, AppendCsv, Exit
<1>4. \A u \in Workers : CountOK(u)'
  <2>1. CASE InsertNext(t)
    <3>1. /\ SLP!Invoke(t, SL!Set!Call("insert", BinOf[key[n[t]]], n[t]))
          /\ hpc' = [hpc EXCEPT ![t] = hpc[t]]
      BY <1>1, <2>1, SameInvoke DEF InsertNext
    <3> QED
      BY <1>1, <3>1, CallAlone
  <2>2. CASE LookupNext(t)
    BY <1>1, <2>2, SameInvoke, CallAlone DEF LookupNext, Goto
  <2>delete. CASE DeleteMatching(t) /\ ~Exit("corrupted")
    BY <1>1, <2>delete, SameInvoke, CallAlone DEF DeleteMatching, Goto
  <2>4. CASE \E how : Exit(how)
    BY <1>1, <2>4, LocalAlone DEF Exit
  <2>5. CASE CheckDeleted(t) /\ ~Exit("corrupted")
    <3>1. UNCHANGED libVars /\ hpc' = [hpc EXCEPT ![t] = "delete"]
      BY <2>5 DEF CheckDeleted, Goto
    <3> QED
      BY <1>1, <3>1, MainFacts, LocalAlone
  <2>6. CASE CreateThread
    <3>1. \/ hpc' = [hpc EXCEPT ![created] = "insert"]
          \/ hpc' = [hpc EXCEPT ![Main] = "join"]
      BY <2>6 DEF CreateThread, Goto
    <3>2. \A u \in Workers : hpc'[u] = "counted" => hpc[u] = "counted"
      BY <1>1, <3>1, MainFacts
    <3>3. UNCHANGED libVars
      BY <2>6 DEF CreateThread
    <3> QED
      BY <1>1, <3>2, <3>3, LocalAlone
  <2> QED
    BY <2>1, <2>2, <2>delete, <2>4, <2>5, <2>6 DEF DeleteMatching, CheckDeleted, Create,
       CreateFails, AppendCsv
<1> QED
  BY <1>2, <1>3, <1>4 DEF HarnessAInv

-----------------------------------------------------------------------------
(* The steps of its own.                                                   *)

LEMMA InsertedInv ==
    ASSUME HarnessAInv, Running, NEW t \in Thread, Inserted(t)
    PROVE  HarnessAInv'
<1>1. /\ hpc[t] = "insert" /\ pc[t] = "idle" /\ n[t] = End(t)
      /\ hpc' = [hpc EXCEPT ![t] = "check"]
      /\ UNCHANGED <<libVars, n, absent, mains>> /\ CommonInv
  BY DEF Inserted, At, Goto, HarnessAInv
<1>2. t \in Workers
  BY <1>1, WorkerAt DEF CommonInv
<1>3. /\ Start(t) \in Nat /\ End(t) \in Nat /\ Own(t) = Start(t) .. End(t) - 1
      /\ hpc'[t] = "check" /\ n'[t] = n[t]
  BY <1>1, <1>2, Sizes, OwnFacts DEF CommonInv, TypeOK
<1>4. /\ SLP!Phase(t) = "idle" /\ SLP!Fn(t)' = "none" /\ (SLP!Synced' <=> SLP!Synced)
      /\ UNCHANGED <<linked, sync_opt>>
  BY <1>1, Idle DEF libVars
<1>5. ThreadOK(t)'
  <2>1. Position(t)' /\ Loop(t)' /\ Returned(t)' /\ Answered(t)'
    BY <1>3, <1>4 DEF Position, Loop, Returned, Answered
  <2>2. \A e \in Own(t) : Present(t, e)' <=> Present(t, e)
    BY <1>1, <1>3, <1>4 DEF Present
  <2> QED
    BY <1>1, <1>4, <2>1, <2>2 DEF ThreadOK, CommonInv
<1>6. LibInv' /\ \A u \in Thread : ThreadOK(u)'
  BY <1>1, <1>5, LocalKept DEF absent
<1>7. MainOK' /\ TypeOK'
  BY <1>1, <1>2, <1>4, MainKept DEF CommonInv, TypeOK, absent, barriers, counts, mains
<1>8. \A u \in Workers : CountOK(u)'
  BY <1>1, MainFacts, LocalAlone DEF HarnessAInv
<1> QED
  BY <1>1, <1>6, <1>7, <1>8 DEF HarnessAInv, CommonInv, absent

LEMMA DeletedInv ==
    ASSUME HarnessAInv, Running, NEW t \in Thread, Deleted(t)
    PROVE  HarnessAInv'
<1>1. /\ hpc[t] = "delete" /\ pc[t] = "idle" /\ n[t] = End(t)
      /\ hpc' = [hpc EXCEPT ![t] = "exited"]
      /\ UNCHANGED <<libVars, n, absent, mains>> /\ CommonInv
  BY DEF Deleted, At, Goto, HarnessAInv
<1>2. t \in Workers
  BY <1>1, WorkerAt DEF CommonInv
<1>3. /\ Start(t) \in Nat /\ End(t) \in Nat /\ Own(t) = Start(t) .. End(t) - 1
      /\ hpc'[t] = "exited" /\ n'[t] = n[t]
  BY <1>1, <1>2, Sizes, OwnFacts DEF CommonInv, TypeOK
<1>4. /\ SLP!Phase(t) = "idle" /\ SLP!Fn(t)' = "none" /\ (SLP!Synced' <=> SLP!Synced)
      /\ UNCHANGED <<linked, sync_opt>>
  BY <1>1, Idle DEF libVars
<1>5. ThreadOK(t)'
  <2>1. Position(t)' /\ Loop(t)' /\ Returned(t)' /\ Answered(t)'
    BY <1>1, <1>3, <1>4 DEF Position, Loop, Returned, Answered
  <2>2. \A e \in Own(t) : Present(t, e)' <=> Present(t, e)
    BY <1>1, <1>3, <1>4 DEF Present
  <2> QED
    BY <1>1, <1>4, <2>1, <2>2 DEF ThreadOK, CommonInv
<1>6. LibInv' /\ \A u \in Thread : ThreadOK(u)'
  BY <1>1, <1>5, LocalKept DEF absent
<1>7. MainOK' /\ TypeOK'
  BY <1>1, <1>2, <1>4, MainKept DEF CommonInv, TypeOK, absent, barriers, counts, mains
<1>8. \A u \in Workers : CountOK(u)'
  BY <1>1, MainFacts, LocalAlone DEF HarnessAInv
<1> QED
  BY <1>1, <1>6, <1>7, <1>8 DEF HarnessAInv, CommonInv, absent

LEMMA LengthInv ==
    ASSUME HarnessAInv, Running, NEW t \in Thread, Length(t)
    PROVE  LibraryStep /\ HarnessAInv'
<1> DEFINE c == SLP!Set!Call("length", 0, Null)
<1>1. /\ hpc[t] = "check" /\ pc[t] = "idle" /\ SLP!Invoke(t, c)
      /\ hpc' = [hpc EXCEPT ![t] = "counted"]
      /\ UNCHANGED <<n, absent, mains>> /\ CommonInv
  BY SameCall, SameInvoke DEF Length, At, Goto, HarnessAInv
<1>2. c \in SLP!MayCall(t) /\ c.fn = "length"
  BY OneList DEF SLP!MayCall, SLP!Set!Calls, SLP!Set!Call
<1>3. /\ SLP!Fn(t)' = "length" /\ SLP!Phase(t)' = "called" /\ pc'[t] = "lock"
      /\ UNCHANGED <<linked, sync_opt>> /\ (SLP!Synced' <=> SLP!Synced)
  BY <1>1, <1>2, Called
<1>4. hpc'[t] = "counted" /\ bin'[t] = 0 /\ 0 \in Bin
  BY <1>1, OneList DEF HarnessAInv, CommonInv, TypeOK, absent
<1>5. ThreadOK(t)'
  <2>1. Position(t)' /\ Loop(t)' /\ Returned(t)' /\ Answered(t)'
    BY <1>3, <1>4 DEF Position, Loop, Returned, Answered
  <2>2. \A e \in Own(t) : Present(t, e)' <=> Present(t, e)
    BY <1>1, <1>4 DEF Present
  <2> QED
    BY <1>1, <1>3, <2>1, <2>2 DEF ThreadOK, CommonInv
<1>6. LibraryStep /\ LibInv' /\ \A u \in Thread : ThreadOK(u)'
  BY <1>1, <1>2, <1>5, CallKept DEF absent
<1>7. MainOK' /\ TypeOK'
  BY <1>1, <1>3, MainKept DEF CommonInv, TypeOK, absent, barriers, counts, mains
<1>8. \A u \in Workers : CountOK(u)'
  BY <1>1, CallAlone DEF HarnessAInv
<1> QED
  BY <1>1, <1>6, <1>7, <1>8 DEF HarnessAInv, CommonInv, absent

LEMMA AcceptInv ==
    ASSUME HarnessAInv, Running, NEW t \in Thread, Accept(t)
    PROVE  HarnessAInv'
<1>1. hpc[t] = "counted" /\ pc[t] = "idle" /\ CommonInv
  BY DEF Accept, At, HarnessAInv
<1>2. /\ SLP!Phase(t) = "idle" /\ SLP!Answered(t) = ret[t]
      /\ UNCHANGED libVars => SLP!Fn(t)' = "none" /\ (SLP!Synced' <=> SLP!Synced)
                              /\ UNCHANGED <<linked, sync_opt>>
  BY <1>1, Idle DEF libVars
<1>3. SLP!Synced => ret[t] # -1
  <2>1. SLP!Synced => ret[t] \in Nat
    BY <1>1, <1>2 DEF CommonInv, ThreadOK, Answered
  <2> QED
    BY <2>1
<1>4. CASE Exit("corrupted")
  <2>1. ~SLP!Synced
    <3>1. ret[t] = -1
      BY <1>1, <1>4 DEF Accept, Exit, mains, CommonInv, MainOK, Running
    <3> QED
      BY <1>3, <3>1
  <2>2. CommonInv'
    BY <1>1, <1>4, <2>1, ExitKept
  <2>3. \A u \in Workers : CountOK(u)'
    BY <1>1, <1>4, LocalAlone DEF HarnessAInv, Exit
  <2> QED
    BY <1>4, <2>2, <2>3 DEF HarnessAInv, Exit
<1>5. CASE ~Exit("corrupted") /\ t = Main
  <2>1. /\ hpc' = [hpc EXCEPT ![Main] = "append"]
        /\ UNCHANGED <<libVars, n, absent, mains>>
    BY <1>5 DEF Accept, Goto
  <2>2. hpc'[Main] = "append" /\ \A u \in Workers : hpc'[u] = hpc[u]
    BY <1>1, <2>1, MainFacts DEF CommonInv, TypeOK
  <2>3. ThreadOK(Main)'
    BY <1>2, <1>5, <2>1, <2>2, MainFacts
       DEF ThreadOK, Position, Loop, Returned, Answered
  <2>4. LibInv' /\ \A u \in Thread : ThreadOK(u)'
    BY <1>1, <2>1, <2>3, MainFacts, LocalKept DEF absent
  <2>5. TypeOK'
    BY <1>1, <2>1 DEF CommonInv, TypeOK, absent, barriers, counts, mains
  <2>6. MainOK'
    <3>1. UNCHANGED <<created, joined, status>> /\ joined = NumThreads
          /\ created = NumThreads
      BY <1>1, <1>5, <2>1 DEF mains, CommonInv, MainOK
    <3> QED
      BY <1>1, <1>2, <2>1, <2>2, <3>1 DEF CommonInv, MainOK
  <2>7. \A u \in Workers : CountOK(u)'
    BY <1>1, <2>1, <2>2, LocalAlone DEF HarnessAInv
  <2> QED
    BY <2>1, <2>4, <2>5, <2>6, <2>7 DEF HarnessAInv, CommonInv, absent
<1>6. CASE ~Exit("corrupted") /\ t # Main
  <2>1. /\ hpc' = [hpc EXCEPT ![t] = "delete"] /\ n' = [n EXCEPT ![t] = Start(t)]
        /\ UNCHANGED <<libVars, absent, mains>>
    BY <1>6 DEF Accept, Goto
  <2>2. t \in Workers
    BY <1>6 DEF Thread
  <2>3. /\ Start(t) \in Nat /\ End(t) \in Nat /\ Start(t) <= End(t)
        /\ End(t) <= NumElements /\ NumElements \in Nat
        /\ Own(t) = Start(t) .. End(t) - 1
        /\ hpc'[t] = "delete" /\ n'[t] = Start(t)
    BY <1>1, <2>1, <2>2, Sizes, OwnFacts DEF CommonInv, TypeOK
  <2>4. ThreadOK(t)'
    <3>1. Position(t)' /\ Loop(t)' /\ Returned(t)' /\ Answered(t)'
      BY <1>2, <2>1, <2>3 DEF Position, Loop, Returned, Answered
    <3>2. \A e \in Own(t) : Present(t, e)' <=> Present(t, e)
      BY <1>1, <2>3 DEF Present
    <3> QED
      BY <1>1, <1>2, <2>1, <3>1, <3>2 DEF ThreadOK, CommonInv
  <2>5. LibInv' /\ \A u \in Thread : ThreadOK(u)'
    BY <1>1, <2>1, <2>4, LocalKept DEF absent
  <2>6. TypeOK'
    <3>1. Start(t) \in 0 .. NumElements
      BY <2>3
    <3>2. n' \in [Thread -> 0 .. NumElements]
      BY <1>1, <2>1, <3>1 DEF CommonInv, TypeOK
    <3> QED
      BY <1>1, <2>1, <3>2 DEF CommonInv, TypeOK, absent, barriers, counts, mains
  <2>7. MainOK'
    BY <1>1, <1>2, <2>1, <2>2, MainKept DEF CommonInv
  <2>8. \A u \in Workers : CountOK(u)'
    BY <1>1, <2>1, MainFacts, LocalAlone DEF HarnessAInv
  <2> QED
    BY <2>1, <2>5, <2>6, <2>7, <2>8 DEF HarnessAInv, CommonInv, absent
<1> QED
  BY <1>4, <1>5, <1>6

LEMMA JoinInv ==
    ASSUME HarnessAInv, Running, Join
    PROVE  HarnessAInv'
<1>1. /\ hpc[Main] = "join" /\ CommonInv
      /\ UNCHANGED <<libVars, n, absent, created, status>>
  BY DEF Join, HarnessAInv
<1>2. joined \in 0 .. NumThreads /\ created = NumThreads /\ NumThreads \in Nat
  BY <1>1, MainFacts DEF CommonInv, TypeOK, MainOK
<1>3. CASE joined < NumThreads
  <2>1. hpc[joined] = "exited" /\ joined' = joined + 1 /\ UNCHANGED hpc
    BY <1>2, <1>3 DEF Join
  <2>2. LibInv' /\ \A u \in Thread : ThreadOK(u)'
    BY <1>1, <2>1, LibStutter, ThreadKept DEF CommonInv, libVars, absent
  <2>types. TypeOK'
    <3>1. joined + 1 \in 0 .. created
      BY <1>2, <1>3
    <3> QED
      BY <1>1, <2>1, <3>1 DEF CommonInv, TypeOK, absent, barriers, counts
  <2>4. MainOK'
    <3>1. \A t \in Workers : t < joined + 1 => hpc[t] = "exited"
      <4>1. \A t \in Workers : t < joined => hpc[t] = "exited"
        BY <1>1 DEF CommonInv, MainOK
      <4> QED
        BY <1>2, <2>1, <4>1, Sizes
    <3>2. SLP!Synced' <=> SLP!Synced
      BY <1>1 DEF libVars, SLP!Synced
    <3> QED
      BY <1>1, <2>1, <3>1, <3>2 DEF CommonInv, MainOK
  <2>5. \A u \in Workers : CountOK(u)'
    BY <1>1, <2>1, LocalAlone DEF HarnessAInv
  <2> QED
    BY <1>1, <2>2, <2>types, <2>4, <2>5 DEF HarnessAInv, CommonInv, absent
<1>4. CASE ~(joined < NumThreads)
  <2>1. joined = NumThreads /\ hpc' = [hpc EXCEPT ![Main] = "check"] /\ joined' = joined
    BY <1>2, <1>4 DEF Join, Goto
  <2>2. list_count' \in [Bin -> {0, 1}]
    BY <1>1 DEF CommonInv, TypeOK, absent, counts
  <2>3. pc[Main] = "idle"
    BY <1>1, MainIdle
  <2>4. CommonInv'
    BY <1>1, <2>1, <2>2, <2>3, MainGoto DEF absent, counts, mains
  <2>5. \A u \in Workers : CountOK(u)'
    BY <1>1, <2>1, MainFacts, LocalAlone DEF HarnessAInv
  <2> QED
    BY <1>1, <2>4, <2>5 DEF HarnessAInv, absent
<1> QED
  BY <1>3, <1>4

-----------------------------------------------------------------------------
(* The whole program.                                                      *)

LEMMA HarnessAInit == InitA => HarnessAInv
<1> SUFFICES ASSUME InitA PROVE HarnessAInv
  OBVIOUS
<1>1. CommonInv /\ bin = [t \in Thread |-> 0]
  BY HarnessInit DEF InitA, HarnessInv, Init
<1>2. \A t \in Workers : hpc[t] # "counted"
  BY MainFacts DEF InitA, Init
<1> QED
  BY <1>1, <1>2 DEF HarnessAInv, CountOK

LEMMA HarnessANext == HarnessAInv /\ [NextA]_vars => LibraryStep /\ HarnessAInv'
<1> SUFFICES ASSUME HarnessAInv, [NextA]_vars PROVE LibraryStep /\ HarnessAInv'
  OBVIOUS
<1>1. UNCHANGED libVars => LibraryStep
  BY DEF LibraryStep, libVars, SLP!vars, SLP!links, SLP!fixed, SLP!locals
<1>2. ASSUME NEW t \in Thread, ListOperations(t) PROVE LibraryStep /\ HarnessAInv'
  <2>1. CASE InsertNext(t) \/ LookupNext(t) \/ DeleteMatching(t) \/ CheckDeleted(t)
    BY <1>2, <2>1, SharedCounts DEF ListOperations
  <2>2. CASE Length(t)
    BY <1>2, <2>2, LengthInv DEF ListOperations
  <2>3. CASE Inserted(t) \/ Accept(t) \/ Deleted(t)
    <3>1. LibraryStep
      BY <1>1, <2>3 DEF Inserted, Accept, Deleted, Exit
    <3> QED
      BY <1>2, <2>3, <3>1, InsertedInv, AcceptInv, DeletedInv DEF ListOperations
  <2>4. CASE CallStep(t)
    <3>1. LibraryStep
      BY <2>4, SameStep DEF CallStep, Library, LibraryStep, SLP!Next
    <3> QED
      BY <1>2, <2>4, <3>1, LibraryCounts DEF ListOperations, CallStep
  <2> QED
    BY <1>2, <2>1, <2>2, <2>3, <2>4 DEF ListOperations
<1>3. CASE MainOperations
  <2>1. CASE Create \/ AppendCsv
    BY <1>3, <2>1, MainFacts, SharedCounts DEF MainOperations
  <2>2. CASE Join
    BY <1>1, <1>3, <2>2, JoinInv DEF MainOperations, Join
  <2> QED
    BY <1>3, <2>1, <2>2 DEF MainOperations
<1>4. CASE UNCHANGED vars
  <2>1. UNCHANGED <<libVars, hpc, n, bin, barriers, counts, mains>>
    BY <1>4 DEF vars
  <2>2. LibInv' /\ \A u \in Thread : ThreadOK(u)'
    BY <2>1, LibStutter, ThreadKept DEF HarnessAInv, CommonInv, libVars
  <2>3. TypeOK' /\ MainOK'
    BY <2>1, MainSame DEF HarnessAInv, CommonInv, TypeOK, libVars, barriers, counts, mains
  <2>4. \A u \in Workers : CountOK(u)'
    BY <2>1, LocalAlone DEF HarnessAInv
  <2> QED
    BY <1>1, <2>1, <2>2, <2>3, <2>4 DEF HarnessAInv, CommonInv
<1> QED
  BY <1>2, <1>3, <1>4 DEF NextA

LEMMA HarnessASpec == SpecA => []HarnessAInv
<1>1. HarnessAInv /\ [NextA]_vars => HarnessAInv'
  BY HarnessANext
<1> QED
  BY HarnessAInit, <1>1, PTL DEF SpecA

(* Under a lock the count of a thread finds all of the thread's own        *)
(* elements and never more than there are, for every number of threads,    *)
(* while others are still inserting and already deleting.                  *)
THEOREM CountsOwn == SpecA => []CountIncludesOwn
<1>1. HarnessAInv => CountIncludesOwn
  <2> SUFFICES ASSUME HarnessAInv, SLP!Synced, NEW t \in Workers,
                      hpc[t] = "counted", pc[t] = "idle"
               PROVE  ret[t] \in NumIterations .. NumElements
    BY SameInit DEF CountIncludesOwn, At
  <2>1. SLP!Phase(t) = "idle" /\ SLP!Answered(t) = ret[t]
    BY Idle, MainFacts DEF HarnessAInv
  <2> QED
    BY <2>1 DEF HarnessAInv, CountOK
<1> QED
  BY <1>1, HarnessASpec, PTL

(* Under a lock the program of project 2a never finds its list corrupted   *)
(* either, and a run that exits with 0 leaves it empty.                    *)
THEOREM ListEmptyAtEnd == SpecA => [](ListsEmptyAtExit /\ NeverCorruptedWhenSynced)
<1>1. HarnessAInv => ListsEmptyAtExit /\ NeverCorruptedWhenSynced
  BY EmptyAtExit, Uncorrupted DEF HarnessAInv
<1> QED
  BY <1>1, HarnessASpec, PTL

(* The program of project 2a keeps to the contract of the library too,     *)
(* although a thread deletes while others insert.                          *)
THEOREM HarnessAKeepsContract == SpecA => LibrarySpec
<1>1. InitA => SL!Init
  BY DEF InitA, Init
<1>2. HarnessAInv /\ [NextA]_vars => [SL!Next]_(SL!vars)
  BY HarnessANext, SameLibraryStep
<1> QED
  BY <1>1, <1>2, HarnessASpec, PTL DEF SpecA, LibrarySpec, SL!Spec

=============================================================================
