------------------------ MODULE SharedCounter_proofs ------------------------
(***************************************************************************)
(* Proofs about lab2_add: type correctness, mutual exclusion, and that     *)
(* every run with a --sync option implements the atomic counter, so that   *)
(* no addition is lost and the counter reported is 0.                      *)
(***************************************************************************)
EXTENDS SharedCounter, FiniteSetTheorems, TLAPS

(* How far a thread is tells how many additions it has made.               *)
DoneOK ==
    \A t \in Thread :
        /\ pc[t] \in {"none", "start"} => done[t] = 0
        /\ pc[t] \in {"load", "store"} => done[t] < 2 * Loops
        /\ pc[t] \in {"unlock", "exited"} => done[t] = 2 * Loops

(* How far main is tells which threads exist and which have ended.         *)
MainOK ==
    /\ m = 0 \/ m <= num_threads
    /\ main = "create" => \A t \in Thread : t >= m => pc[t] = "none"
    /\ main = "join" => \A t \in Thread :
           /\ t < m => pc[t] = "exited"
           /\ t >= num_threads => pc[t] = "none"
    /\ main = "append" => \A t \in Thread : pc[t] \in {"none", "exited"}
    /\ main = "ended" <=> status # "running"
    /\ status = "running" => csv = <<>>
    /\ status = "exit 0" =>
           /\ csv[1].counter = counter
           /\ \A t \in Thread : pc[t] \in {"none", "exited"}

(* The inductive invariant.                                                *)
Inv == TypeOK /\ DoneOK /\ MutualExclusion /\ NoStaleStore /\ MainOK

LEMMA LoopsNat == TypeOK => Loops \in Nat /\ num_iterations \in Int
<1>1. TypeOK => num_iterations \in IterationCounts
  BY DEF TypeOK
<1>2. num_iterations \in IterationCounts => num_iterations \in Int
  BY IterationAssumption
<1>3. num_iterations \in Int => Loops \in Nat
  BY DEF Loops
<1> QED
  BY <1>1, <1>2, <1>3

LEMMA InitInv == Init => Inv
<1> SUFFICES ASSUME Init PROVE Inv
  OBVIOUS
<1>1. Loops \in Nat
  BY IterationAssumption DEF Init, ProcessArgs, Loops
<1>2. TypeOK
  BY <1>1 DEF Init, ProcessArgs, TypeOK
<1>3. DoneOK /\ MutualExclusion /\ NoStaleStore /\ MainOK
  BY DEF Init, DoneOK, MutualExclusion, NoStaleStore, MainOK, Holding
<1> QED
  BY <1>2, <1>3 DEF Inv

-----------------------------------------------------------------------------
(* The steps of the threads.                                               *)

LEMMA AcquireInv ==
    ASSUME Inv, status = "running", NEW t \in Thread, Acquire(t)
    PROVE  Inv'
<1>1. Loops \in Nat /\ Loops' = Loops /\ (Locking' <=> Locking)
  BY LoopsNat DEF Inv, Acquire, Loops, Locking, options
<1>2. pc' = [pc EXCEPT ![t] = LoopHead(0)] /\ LoopHead(0) \in {"load", "unlock"}
  BY DEF Acquire, Goto, LoopHead
<1>3. TypeOK'
  BY <1>1, <1>2 DEF Inv, TypeOK, Acquire, options, mainVars
<1>4. DoneOK'
  BY <1>1, <1>2 DEF Inv, TypeOK, DoneOK, Acquire, LoopHead
<1>5. MutualExclusion'
  BY <1>1, <1>2 DEF Inv, TypeOK, MutualExclusion, Holding, Acquire
<1>6. NoStaleStore'
  BY <1>1, <1>2 DEF Inv, TypeOK, NoStaleStore, Acquire
<1>7. MainOK'
  BY <1>2 DEF Inv, TypeOK, MainOK, Acquire, options, mainVars
<1> QED
  BY <1>3, <1>4, <1>5, <1>6, <1>7 DEF Inv

LEMMA LoadInv ==
    ASSUME Inv, status = "running", NEW t \in Thread, Load(t)
    PROVE  Inv'
<1>1. Loops \in Nat /\ Loops' = Loops /\ (Locking' <=> Locking)
  BY LoopsNat DEF Inv, Load, Loops, Locking, options
<1>2. pc' = [pc EXCEPT ![t] = "store"] /\ seen' = [seen EXCEPT ![t] = counter]
  BY DEF Load, Goto
<1>3. TypeOK'
  BY <1>1, <1>2 DEF Inv, TypeOK, Load, options, mainVars
<1>4. DoneOK'
  BY <1>1, <1>2 DEF Inv, TypeOK, DoneOK, Load
<1>5. MutualExclusion'
  BY <1>1, <1>2 DEF Inv, TypeOK, MutualExclusion, Holding, Load
<1>6. NoStaleStore'
  BY <1>1, <1>2 DEF Inv, TypeOK, NoStaleStore, Load
<1>7. MainOK'
  BY <1>2 DEF Inv, TypeOK, MainOK, Load, options, mainVars
<1> QED
  BY <1>3, <1>4, <1>5, <1>6, <1>7 DEF Inv

LEMMA StoreSumInv ==
    ASSUME Inv, status = "running", NEW t \in Thread, pc[t] = "store", StoreSum(t)
    PROVE  Inv'
<1>1. Loops \in Nat /\ Loops' = Loops /\ (Locking' <=> Locking)
  BY LoopsNat DEF Inv, StoreSum, Loops, Locking, options
<1>2. /\ done[t] \in 0 .. 2 * Loops - 1
      /\ done' = [done EXCEPT ![t] = done[t] + 1]
      /\ pc' = [pc EXCEPT ![t] = LoopHead(done[t] + 1)]
      /\ LoopHead(done[t] + 1) \in {"load", "unlock"}
  BY <1>1 DEF Inv, TypeOK, DoneOK, StoreSum, Goto, LoopHead
<1>3. TypeOK'
  <2>1. counter' \in Int
    BY DEF Inv, TypeOK, StoreSum, Value
  <2>2. done' \in [Thread -> 0 .. 2 * Loops]
    BY <1>1, <1>2 DEF Inv, TypeOK
  <2>3. pc' \in [Thread -> {"none", "start", "load", "store", "unlock", "exited"}]
    BY <1>2 DEF Inv, TypeOK
  <2> QED
    BY <2>1, <2>2, <2>3, <1>1 DEF Inv, TypeOK, StoreSum, options, mainVars
<1>4. DoneOK'
  BY <1>1, <1>2 DEF Inv, TypeOK, DoneOK, LoopHead
<1>5. MutualExclusion'
  BY <1>1, <1>2 DEF Inv, TypeOK, MutualExclusion, Holding, StoreSum
<1>6. NoStaleStore'
  BY <1>1, <1>2 DEF Inv, TypeOK, NoStaleStore, MutualExclusion, Holding, StoreSum
<1>7. MainOK'
  BY <1>2 DEF Inv, TypeOK, MainOK, StoreSum, options, mainVars
<1> QED
  BY <1>3, <1>4, <1>5, <1>6, <1>7 DEF Inv

LEMMA CompareAndSwapInv ==
    ASSUME Inv, status = "running", NEW t \in Thread, CompareAndSwap(t)
    PROVE  Inv'
<1>1. CASE StoreSum(t)
  BY <1>1, StoreSumInv DEF CompareAndSwap
<1>2. CASE ~StoreSum(t)
  <2>1. /\ pc' = [pc EXCEPT ![t] = "load"] /\ pc[t] = "store"
        /\ UNCHANGED <<options, counter, lock, done, seen, mainVars>>
        /\ sync_opt = "c"
    BY <1>2 DEF CompareAndSwap, Goto
  <2>2. Loops' = Loops /\ ~Locking /\ ~Locking'
    BY <2>1 DEF Loops, Locking, options
  <2>3. TypeOK' /\ DoneOK' /\ MainOK'
    BY <2>1, <2>2 DEF Inv, TypeOK, DoneOK, MainOK, options, mainVars
  <2> QED
    BY <2>2, <2>3 DEF Inv, MutualExclusion, NoStaleStore
<1> QED
  BY <1>1, <1>2

LEMMA ReleaseInv ==
    ASSUME Inv, status = "running", NEW t \in Thread, Release(t)
    PROVE  Inv'
<1>1. Loops \in Nat /\ Loops' = Loops /\ (Locking' <=> Locking)
  BY LoopsNat DEF Inv, Release, Loops, Locking, options
<1>2. pc' = [pc EXCEPT ![t] = "exited"]
  BY DEF Release, Goto
<1>3. TypeOK'
  BY <1>1, <1>2 DEF Inv, TypeOK, Release, options, mainVars
<1>4. DoneOK'
  BY <1>1, <1>2 DEF Inv, TypeOK, DoneOK, Release
<1>5. MutualExclusion'
  BY <1>1, <1>2 DEF Inv, TypeOK, MutualExclusion, Holding, Release
<1>6. NoStaleStore'
  BY <1>1, <1>2 DEF Inv, TypeOK, NoStaleStore, Release
<1>7. MainOK'
  BY <1>2 DEF Inv, TypeOK, MainOK, Release, options, mainVars
<1> QED
  BY <1>3, <1>4, <1>5, <1>6, <1>7 DEF Inv

LEMMA StepInv ==
    ASSUME Inv, status = "running", NEW t \in Thread, Step(t)
    PROVE  Inv'
BY AcquireInv, LoadInv, StoreSumInv, CompareAndSwapInv, ReleaseInv DEF Step, Store

-----------------------------------------------------------------------------
(* The steps of main.                                                      *)

LEMMA CreateThreadInv ==
    ASSUME Inv, status = "running", CreateThread
    PROVE  Inv'
<1>1. Loops' = Loops /\ (Locking' <=> Locking)
  BY DEF CreateThread, Loops, Locking, options
<1>2. m \in Thread /\ pc[m] = "none" /\ pc' = [pc EXCEPT ![m] = "start"]
  BY MaxAssumption, CountAssumption DEF Inv, TypeOK, MainOK, CreateThread, Thread
<1>3. TypeOK'
  BY <1>1, <1>2 DEF Inv, TypeOK, CreateThread, options
<1>4. DoneOK' /\ MutualExclusion' /\ NoStaleStore'
  BY <1>1, <1>2
     DEF Inv, TypeOK, DoneOK, MutualExclusion, NoStaleStore, Holding, CreateThread
<1>5. MainOK'
  BY <1>2, CountAssumption DEF Inv, TypeOK, MainOK, CreateThread, Thread, options
<1> QED
  BY <1>3, <1>4, <1>5 DEF Inv

(* The other steps of main leave the threads and the counter alone.        *)
LEMMA MainOnlyInv ==
    ASSUME Inv, UNCHANGED <<options, counter, lock, pc, done, seen>>, TypeOK', MainOK'
    PROVE  Inv'
BY DEF Inv, DoneOK, MutualExclusion, NoStaleStore, Holding, Locking, Loops, options

LEMMA MainStepInv ==
    ASSUME Inv, status = "running", MainStep
    PROVE  Inv'
<1>1. num_threads \in Int /\ Loops' = Loops
  BY CountAssumption
     DEF Inv, TypeOK, MainStep, CreateThread, CreateFails, AllCreated, JoinThread,
         AllJoined, AppendFails, AppendDividesByZero, AppendCsv, Loops, options
<1>2. CASE CreateThread
  BY <1>2, CreateThreadInv
<1>3. CASE CreateFails \/ AppendFails \/ AppendDividesByZero
  <2>1. TypeOK'
    BY <1>1, <1>3 DEF Inv, TypeOK, CreateFails, AppendFails, AppendDividesByZero,
                      Exit, options
  <2>2. MainOK'
    BY <1>3 DEF Inv, MainOK, CreateFails, AppendFails, AppendDividesByZero,
                Exit, options
  <2> QED
    BY <1>3, <2>1, <2>2, MainOnlyInv
       DEF CreateFails, AppendFails, AppendDividesByZero
<1>4. CASE AllCreated
  <2>1. TypeOK'
    BY <1>1, <1>4 DEF Inv, TypeOK, AllCreated, options
  <2>2. MainOK'
    BY <1>1, <1>4 DEF Inv, TypeOK, MainOK, AllCreated, Thread, options
  <2> QED
    BY <1>4, <2>1, <2>2, MainOnlyInv DEF AllCreated
<1>5. CASE JoinThread
  <2>1. TypeOK'
    BY <1>1, <1>5 DEF Inv, TypeOK, JoinThread, options
  <2>2. MainOK'
    BY <1>1, <1>5 DEF Inv, TypeOK, MainOK, JoinThread, Thread, options
  <2> QED
    BY <1>5, <2>1, <2>2, MainOnlyInv DEF JoinThread
<1>6. CASE AllJoined
  <2>1. TypeOK'
    BY <1>1, <1>6 DEF Inv, TypeOK, AllJoined, options
  <2>2. MainOK'
    BY <1>1, <1>6 DEF Inv, TypeOK, MainOK, AllJoined, Thread, options
  <2> QED
    BY <1>6, <2>1, <2>2, MainOnlyInv DEF AllJoined
<1>7. CASE AppendCsv
  <2> DEFINE row == [threads |-> num_threads, iterations |-> num_iterations,
                     operations |-> NumOperations, counter |-> counter]
  <2>1. row \in [threads : Int, iterations : Int, operations : Int, counter : Int]
    BY <1>1, LoopsNat DEF Inv, TypeOK, NumOperations
  <2>2. csv' = Append(csv, row) /\ csv = <<>>
    BY <1>7 DEF AppendCsv, Inv, MainOK
  <2>3. csv' = <<row>>
    <3> HIDE DEF row
    <3> QED BY <2>1, <2>2
  <2>4. TypeOK'
    <3>1. csv' \in Seq([threads : Int, iterations : Int, operations : Int, counter : Int])
      <4> HIDE DEF row
      <4> QED BY <2>1, <2>3
    <3> QED
      BY <1>1, <1>7, <3>1 DEF Inv, TypeOK, AppendCsv, Exit, options
  <2>5. csv'[1].counter = counter'
    <3>1. csv'[1] = row
      <4> HIDE DEF row
      <4> QED BY <2>3
    <3>2. row.counter = counter /\ counter' = counter
      BY <1>7 DEF AppendCsv
    <3> QED
      BY <3>1, <3>2
  <2>6. MainOK'
    BY <1>7, <2>5 DEF Inv, MainOK, AppendCsv, Exit, options
  <2> QED
    BY <1>7, <2>4, <2>6, MainOnlyInv DEF AppendCsv
<1> QED
  BY <1>2, <1>3, <1>4, <1>5, <1>6, <1>7 DEF MainStep

LEMMA StutterInv == Inv /\ UNCHANGED vars => Inv'
BY DEF Inv, vars, options, mainVars, TypeOK, DoneOK, MutualExclusion, NoStaleStore,
       MainOK, Holding, Locking, Loops

LEMMA NextInv == Inv /\ [Next]_vars => Inv'
BY StepInv, MainStepInv, StutterInv DEF Next, Terminated

LEMMA SpecInv == Spec => []Inv
BY InitInv, NextInv, PTL DEF Spec

(* Every variable keeps its type.                                          *)
THEOREM TypeCorrect == Spec => []TypeOK
<1>1. Inv => TypeOK
  BY DEF Inv
<1> QED
  BY SpecInv, <1>1, PTL

(* Whatever the number of threads and iterations, a lock keeps all other   *)
(* threads out of the two loops, and no thread then stores a stale sum.    *)
THEOREM LockExcludes == Spec => [](MutualExclusion /\ NoStaleStore)
<1>1. Inv => MutualExclusion /\ NoStaleStore
  BY DEF Inv
<1> QED
  BY SpecInv, <1>1, PTL

-----------------------------------------------------------------------------
(* Refinement: an addition takes effect when its sum is stored.            *)

LEMMA StoreSumCommits ==
    ASSUME Inv, NEW t \in Thread, pc[t] = "store", seen[t] = counter, StoreSum(t)
    PROVE  Abstract!Commit(t)
<1>1. done[t] < 2 * Loops /\ UNCHANGED num_iterations
  BY DEF Inv, DoneOK, StoreSum, options
<1> QED
  BY <1>1 DEF StoreSum, Abstract!Commit, Abstract!Loops, Abstract!Value, Loops, Value

LEMMA StepRefines ==
    ASSUME Inv, Synced, NEW t \in Thread, Step(t)
    PROVE  [Abstract!Next]_(Abstract!vars)
<1>1. CASE Acquire(t) \/ Load(t) \/ Release(t)
  BY <1>1 DEF Acquire, Load, Release, options, Abstract!vars
<1>2. CASE Store(t)
  <2>1. seen[t] = counter
    <3>1. sync_opt \in {"none", "m", "s", "c"}
      BY SyncAssumption DEF Inv, TypeOK
    <3> QED
      BY <1>2, <3>1 DEF Inv, NoStaleStore, Store, Synced, Locking
  <2> QED
    BY <1>2, <2>1, StoreSumCommits DEF Store, Abstract!Next
<1>3. CASE CompareAndSwap(t)
  BY <1>3, StoreSumCommits DEF CompareAndSwap, Abstract!Next, options, Abstract!vars
<1> QED
  BY <1>1, <1>2, <1>3 DEF Step

LEMMA MainStepRefines == MainStep => UNCHANGED Abstract!vars
BY DEF MainStep, CreateThread, CreateFails, AllCreated, JoinThread, AllJoined,
       AppendFails, AppendDividesByZero, AppendCsv, options, Abstract!vars

LEMMA NextRefines ==
    ASSUME Inv, Synced, [Next]_vars
    PROVE  [Abstract!Next]_(Abstract!vars) /\ Synced'
<1>1. Synced'
  BY DEF Synced, Next, Terminated, MainStep, CreateThread, CreateFails, AllCreated,
         JoinThread, AllJoined, AppendFails, AppendDividesByZero, AppendCsv, Step,
         Acquire, Load, Store, StoreSum, CompareAndSwap, Release, vars, options
<1>2. [Abstract!Next]_(Abstract!vars)
  BY StepRefines, MainStepRefines DEF Next, Terminated, vars, options, Abstract!vars
<1> QED
  BY <1>1, <1>2

(* Every step of lab2_add under a --sync option is one of the atomic       *)
(* counter, or none, for every number of threads and iterations.           *)
THEOREM ImplementsAtomic == Spec => AtomicSpec
<1>1. Init => Abstract!Init
  BY IterationAssumption DEF Init, ProcessArgs, Abstract!Init
<1>2. Inv /\ [Next]_vars => [Synced => Abstract!Next]_(Abstract!vars)
  BY NextRefines
<1> QED
  BY <1>1, <1>2, SpecInv, PTL DEF Spec, AtomicSpec

(* A run that is synchronised at its start is one of the atomic counter.   *)
LEMMA SyncedImplements == Spec /\ Synced => Abstract!Spec
<1>1. Init => Abstract!Init
  BY IterationAssumption DEF Init, ProcessArgs, Abstract!Init
<1> QED
  BY <1>1, SpecInv, NextRefines, PTL DEF Spec, Abstract!Spec

-----------------------------------------------------------------------------
(* The atomic counter: its value is always the difference of the additions *)
(* made, and hence 0 when they balance.                                    *)

(* The module of finite sets is the same whether it is reached through the *)
(* abstract specification or not.                                          *)
LEMMA SameFinite == \A S : /\ Abstract!IsFiniteSet(S) <=> IsFiniteSet(S)
                           /\ Abstract!Cardinality(S) = Cardinality(S)
BY DEF Abstract!IsFiniteSet, IsFiniteSet, Abstract!Cardinality, Cardinality

(* NetOfCommits is inductive together with the finiteness of the two sets  *)
(* it counts: a step adds one element to one of them.                      *)
AtomicInv ==
    /\ Abstract!TypeOK
    /\ IsFiniteSet(Abstract!Adds)
    /\ IsFiniteSet(Abstract!Subs)
    /\ Abstract!NetOfCommits

LEMMA AtomicLoops == Abstract!TypeOK => Abstract!Loops \in Nat /\ num_iterations \in Int
BY DEF Abstract!TypeOK, Abstract!Loops

LEMMA AtomicInitInv == Abstract!Init => AtomicInv
<1> SUFFICES ASSUME Abstract!Init PROVE AtomicInv
  OBVIOUS
<1>1. Abstract!Loops \in Nat
  BY DEF Abstract!Init, Abstract!Loops
<1>2. Abstract!TypeOK
  BY <1>1 DEF Abstract!Init, Abstract!TypeOK
<1>3. Abstract!Adds = {} /\ Abstract!Subs = {}
  BY <1>1 DEF Abstract!Init, Abstract!Adds, Abstract!Subs
<1> QED
  BY <1>2, <1>3, FS_EmptySet, SameFinite DEF AtomicInv, Abstract!NetOfCommits, Abstract!Init

(* One more addition of a thread is one more element of one of the sets.   *)
LEMMA AtomicOneMore ==
    ASSUME Abstract!TypeOK, IsFiniteSet(Abstract!Adds), IsFiniteSet(Abstract!Subs),
           NEW t \in Thread,
           done[t] < 2 * Abstract!Loops, done' = [done EXCEPT ![t] = @ + 1],
           UNCHANGED num_iterations
    PROVE  /\ done' \in [Thread -> 0 .. 2 * Abstract!Loops]
           /\ IsFiniteSet(Abstract!Adds') /\ IsFiniteSet(Abstract!Subs')
           /\ done[t] < Abstract!Loops =>
                  /\ Cardinality(Abstract!Adds') = Cardinality(Abstract!Adds) + 1
                  /\ Abstract!Subs' = Abstract!Subs
           /\ done[t] >= Abstract!Loops =>
                  /\ Cardinality(Abstract!Subs') = Cardinality(Abstract!Subs) + 1
                  /\ Abstract!Adds' = Abstract!Adds
<1> DEFINE k == done[t]
<1>1. Abstract!Loops \in Nat /\ Abstract!Loops' = Abstract!Loops /\ Thread' = Thread
  BY AtomicLoops DEF Abstract!Loops
<1>2. k \in 0 .. 2 * Abstract!Loops - 1 /\ done \in [Thread -> 0 .. 2 * Abstract!Loops]
  BY <1>1 DEF Abstract!TypeOK
<1>3. done' = [done EXCEPT ![t] = k + 1]
  OBVIOUS
<1>4. done' \in [Thread -> 0 .. 2 * Abstract!Loops]
  BY <1>1, <1>2, <1>3
<1>6. CASE k < Abstract!Loops
  <2>1. Abstract!Adds' = Abstract!Adds \cup {<<t, k>>}
    <3>1. ASSUME NEW a \in Thread \X (0 .. Abstract!Loops - 1)
          PROVE  a[2] < done'[a[1]] <=> (a[2] < done[a[1]] \/ a = <<t, k>>)
      <4>1. CASE a[1] = t
        BY <4>1, <3>1, <1>1, <1>2, <1>3
      <4>2. CASE a[1] # t
        BY <4>2, <3>1, <1>2, <1>3
      <4> QED
        BY <4>1, <4>2
    <3>2. <<t, k>> \in Thread \X (0 .. Abstract!Loops - 1)
      BY <1>1, <1>2, <1>6
    <3> QED
      BY <3>1, <3>2, <1>1 DEF Abstract!Adds
  <2>2. Abstract!Subs' = Abstract!Subs
    <3>1. ASSUME NEW a \in Thread \X (Abstract!Loops .. 2 * Abstract!Loops - 1)
          PROVE  a[2] < done'[a[1]] <=> a[2] < done[a[1]]
      <4>1. CASE a[1] = t
        BY <4>1, <3>1, <1>1, <1>2, <1>3, <1>6
      <4>2. CASE a[1] # t
        BY <4>2, <3>1, <1>2, <1>3
      <4> QED
        BY <4>1, <4>2
    <3> QED
      BY <3>1, <1>1 DEF Abstract!Subs
  <2>3. <<t, k>> \notin Abstract!Adds
    BY <1>2 DEF Abstract!Adds
  <2>4. /\ IsFiniteSet(Abstract!Adds')
        /\ Cardinality(Abstract!Adds') = Cardinality(Abstract!Adds) + 1
    BY <2>1, <2>3, FS_AddElement
  <2> QED
    BY <1>1, <1>2, <1>4, <1>6, <2>2, <2>4
<1>7. CASE ~(k < Abstract!Loops)
  <2>1. Abstract!Subs' = Abstract!Subs \cup {<<t, k>>}
    <3>1. ASSUME NEW a \in Thread \X (Abstract!Loops .. 2 * Abstract!Loops - 1)
          PROVE  a[2] < done'[a[1]] <=> (a[2] < done[a[1]] \/ a = <<t, k>>)
      <4>1. CASE a[1] = t
        BY <4>1, <3>1, <1>1, <1>2, <1>3
      <4>2. CASE a[1] # t
        BY <4>2, <3>1, <1>2, <1>3
      <4> QED
        BY <4>1, <4>2
    <3>2. <<t, k>> \in Thread \X (Abstract!Loops .. 2 * Abstract!Loops - 1)
      BY <1>1, <1>2, <1>7
    <3> QED
      BY <3>1, <3>2, <1>1 DEF Abstract!Subs
  <2>2. Abstract!Adds' = Abstract!Adds
    <3>1. ASSUME NEW a \in Thread \X (0 .. Abstract!Loops - 1)
          PROVE  a[2] < done'[a[1]] <=> a[2] < done[a[1]]
      <4>1. CASE a[1] = t
        BY <4>1, <3>1, <1>1, <1>2, <1>3, <1>7
      <4>2. CASE a[1] # t
        BY <4>2, <3>1, <1>2, <1>3
      <4> QED
        BY <4>1, <4>2
    <3> QED
      BY <3>1, <1>1 DEF Abstract!Adds
  <2>3. <<t, k>> \notin Abstract!Subs
    BY <1>2 DEF Abstract!Subs
  <2>4. /\ IsFiniteSet(Abstract!Subs')
        /\ Cardinality(Abstract!Subs') = Cardinality(Abstract!Subs) + 1
    BY <2>1, <2>3, FS_AddElement
  <2> QED
    BY <1>1, <1>2, <1>4, <1>7, <2>2, <2>4
<1> QED
  BY <1>6, <1>7

LEMMA AtomicCommitInv ==
    ASSUME AtomicInv, NEW t \in Thread, Abstract!Commit(t)
    PROVE  AtomicInv'
<1>1. Abstract!Loops \in Nat /\ Abstract!Loops' = Abstract!Loops /\ done[t] \in Int
  BY AtomicLoops DEF AtomicInv, Abstract!TypeOK, Abstract!Commit, Abstract!Loops
<1>2. /\ done' \in [Thread -> 0 .. 2 * Abstract!Loops]
      /\ IsFiniteSet(Abstract!Adds') /\ IsFiniteSet(Abstract!Subs')
      /\ done[t] < Abstract!Loops =>
             /\ Cardinality(Abstract!Adds') = Cardinality(Abstract!Adds) + 1
             /\ Abstract!Subs' = Abstract!Subs
      /\ done[t] >= Abstract!Loops =>
             /\ Cardinality(Abstract!Subs') = Cardinality(Abstract!Subs) + 1
             /\ Abstract!Adds' = Abstract!Adds
  BY AtomicOneMore DEF AtomicInv, Abstract!Commit
<1>3. Abstract!TypeOK'
  <2>1. counter' \in Int
    BY DEF AtomicInv, Abstract!TypeOK, Abstract!Commit, Abstract!Value
  <2> QED
    BY <1>1, <1>2, <2>1 DEF AtomicInv, Abstract!TypeOK, Abstract!Commit
<1>4. counter' = counter + (IF done[t] < Abstract!Loops THEN 1 ELSE -1)
  BY DEF Abstract!Commit, Abstract!Value
<1>5. Cardinality(Abstract!Adds) \in Nat /\ Cardinality(Abstract!Subs) \in Nat /\ counter \in Int
  BY FS_CardinalityType DEF AtomicInv, Abstract!TypeOK
<1>6. Abstract!NetOfCommits'
  BY <1>1, <1>2, <1>4, <1>5, SameFinite DEF AtomicInv, Abstract!NetOfCommits
<1> QED
  BY <1>2, <1>3, <1>6 DEF AtomicInv

LEMMA AtomicStutterInv == AtomicInv /\ UNCHANGED Abstract!vars => AtomicInv'
BY DEF AtomicInv, Abstract!vars, Abstract!TypeOK, Abstract!NetOfCommits,
       Abstract!Adds, Abstract!Subs, Abstract!Loops

(* No addition is lost or counted twice, for every set of threads and      *)
(* every number of iterations.                                             *)
THEOREM AtomicNetOfCommits == Abstract!Spec => [](Abstract!TypeOK /\ Abstract!NetOfCommits)
<1>1. AtomicInv /\ [Abstract!Next]_(Abstract!vars) => AtomicInv'
  BY AtomicCommitInv, AtomicStutterInv DEF Abstract!Next
<1>2. AtomicInv => Abstract!TypeOK /\ Abstract!NetOfCommits
  BY DEF AtomicInv
<1> QED
  BY AtomicInitInv, <1>1, <1>2, PTL DEF Abstract!Spec

-----------------------------------------------------------------------------

(* Shifting every addition of +1 by Loops maps them one to one to those of *)
(* -1 when each thread has made all or none.                               *)
LEMMA BalancedSets ==
    ASSUME Abstract!TypeOK, IsFiniteSet(Abstract!Adds),
           \A t \in Thread : done[t] \in {0, 2 * Abstract!Loops}
    PROVE  Cardinality(Abstract!Adds) = Cardinality(Abstract!Subs)
<1>1. Abstract!Loops \in Nat
  BY AtomicLoops
<1> DEFINE f == [a \in Abstract!Adds |-> <<a[1], a[2] + Abstract!Loops>>]
<1>2. ASSUME NEW a \in Abstract!Adds
      PROVE  /\ f[a] \in Abstract!Subs
             /\ a = <<a[1], a[2]>> /\ a[2] \in Int
  <2>1. a \in Thread \X (0 .. Abstract!Loops - 1) /\ a[2] < done[a[1]]
    BY DEF Abstract!Adds
  <2>2. done[a[1]] = 2 * Abstract!Loops
    BY <2>1, <1>1
  <2> QED
    BY <2>1, <2>2, <1>1 DEF Abstract!Subs
<1>3. \A a, b \in Abstract!Adds : f[a] = f[b] => a = b
  <2> SUFFICES ASSUME NEW a \in Abstract!Adds, NEW b \in Abstract!Adds, f[a] = f[b] PROVE a = b
    OBVIOUS
  <2>1. a = <<a[1], a[2]>> /\ a[2] \in Int /\ b = <<b[1], b[2]>> /\ b[2] \in Int
    BY <1>2
  <2>2. a[1] = b[1] /\ a[2] + Abstract!Loops = b[2] + Abstract!Loops
    OBVIOUS
  <2> QED
    BY <2>1, <2>2, <1>1
<1>4. ASSUME NEW s \in Abstract!Subs PROVE \E a \in Abstract!Adds : f[a] = s
  <2>1. s \in Thread \X (Abstract!Loops .. 2 * Abstract!Loops - 1) /\ s[2] < done[s[1]]
    BY DEF Abstract!Subs
  <2>2. done[s[1]] = 2 * Abstract!Loops
    BY <2>1, <1>1
  <2> DEFINE a == <<s[1], s[2] - Abstract!Loops>>
  <2>3. a \in Abstract!Adds
    BY <2>1, <2>2, <1>1 DEF Abstract!Adds
  <2>4. f[a] = s
    BY <2>1, <2>3, <1>1
  <2> QED
    BY <2>3, <2>4
<1>5. f \in Bijection(Abstract!Adds, Abstract!Subs)
  <2>1. f \in [Abstract!Adds -> Abstract!Subs]
    BY <1>2
  <2> HIDE DEF f
  <2> QED
    BY <2>1, <1>3, <1>4 DEF Bijection, Injection, Surjection, IsInjective
<1> QED
  BY <1>5, FS_Bijection DEF ExistsBijection

(* The counter is 0 whenever every thread has made all its additions or    *)
(* none of them.                                                           *)
THEOREM AtomicBalanced == Abstract!Spec => []Abstract!BalancedIsZero
<1>1. AtomicInv => Abstract!BalancedIsZero
  <2> SUFFICES ASSUME AtomicInv, \A t \in Thread : done[t] \in {0, 2 * Abstract!Loops}
               PROVE  counter = 0
    BY DEF Abstract!BalancedIsZero
  <2>1. Cardinality(Abstract!Adds) = Cardinality(Abstract!Subs)
    BY BalancedSets DEF AtomicInv
  <2>2. Cardinality(Abstract!Subs) \in Nat
    BY FS_CardinalityType DEF AtomicInv
  <2> QED
    BY <2>1, <2>2, SameFinite DEF AtomicInv, Abstract!NetOfCommits
<1>2. AtomicInv /\ [Abstract!Next]_(Abstract!vars) => AtomicInv'
  BY AtomicCommitInv, AtomicStutterInv DEF Abstract!Next
<1> QED
  BY AtomicInitInv, <1>1, <1>2, PTL DEF Abstract!Spec

-----------------------------------------------------------------------------
(* What the atomic counter guarantees, carried over to lab2_add.           *)

LEMMA SyncedBalanced == Spec /\ Synced => []Abstract!BalancedIsZero
BY AtomicBalanced, SyncedImplements

(* A thread that ended made all its additions and one that was never       *)
(* created made none, so the row of a synchronised run reports 0.          *)
THEOREM ReportsZero == Spec => []FinalCounterZero
<1>1. Inv /\ Abstract!BalancedIsZero => FinalCounterZero
  <2> SUFFICES ASSUME Inv, Abstract!BalancedIsZero, status = "exit 0"
               PROVE  csv[1].counter = 0
    BY DEF FinalCounterZero
  <2>1. csv[1].counter = counter /\ \A t \in Thread : pc[t] \in {"none", "exited"}
    BY DEF Inv, MainOK
  <2>2. \A t \in Thread : done[t] \in {0, 2 * Abstract!Loops}
    BY <2>1 DEF Inv, DoneOK, Loops, Abstract!Loops
  <2> QED
    BY <2>1, <2>2 DEF Abstract!BalancedIsZero
<1>2. ~Synced => FinalCounterZero
  BY DEF FinalCounterZero
<1>3. ~Synced /\ [Next]_vars => ~Synced'
  BY DEF Synced, Next, Terminated, MainStep, CreateThread, CreateFails, AllCreated,
         JoinThread, AllJoined, AppendFails, AppendDividesByZero, AppendCsv, Step,
         Acquire, Load, Store, StoreSum, CompareAndSwap, Release, vars, options
<1> QED
  BY <1>1, <1>2, <1>3, SpecInv, SyncedBalanced, PTL DEF Spec

-----------------------------------------------------------------------------
(* How far off an unsynchronised run may be.                               *)

Plus == Cardinality(Abstract!Adds)
Minus == Cardinality(Abstract!Subs)

(* No value of the counter exceeds the additions of +1 stored so far, nor  *)
(* does any that a thread has loaded.  The last store was of a +1 only     *)
(* while the thread that made it is still in its first loop.               *)
AtMostPlus ==
    /\ counter <= Plus
    /\ \A t \in Thread : pc[t] = "store" => seen[t] <= Plus
    /\ \/ counter < Plus
       \/ Plus = 0
       \/ \E t \in Thread : done[t] \in 1 .. Loops

(* The first store, and so the first of those that any value is made of,   *)
(* was of a +1.                                                            *)
AboveMinus ==
    /\ \/ counter >= 1 - Minus
       \/ counter = 0 /\ \A t \in Thread : done[t] = 0
    /\ \A t \in Thread : pc[t] = "store" =>
           \/ seen[t] >= 1 - Minus
           \/ seen[t] >= 0 /\ done[t] = 0

(* A thread that is alone loses nothing.                                   *)
Alone ==
    /\ \A t \in Thread : t >= num_threads => pc[t] = "none"
    /\ num_threads = 1 =>
           /\ counter = Plus - Minus
           /\ \A t \in Thread : pc[t] = "store" => seen[t] = counter

BoundInv ==
    /\ IsFiniteSet(Abstract!Adds) /\ IsFiniteSet(Abstract!Subs)
    /\ AtMostPlus /\ AboveMinus /\ Alone

LEMMA PlusMinusNat == BoundInv => Plus \in Nat /\ Minus \in Nat
BY FS_CardinalityType DEF BoundInv, Plus, Minus

LEMMA BoundInit == Init => BoundInv
<1> SUFFICES ASSUME Init PROVE BoundInv
  OBVIOUS
<1>1. Loops \in Nat /\ Loops = Abstract!Loops
  BY IterationAssumption DEF Init, ProcessArgs, Loops, Abstract!Loops
<1>2. Abstract!Adds = {} /\ Abstract!Subs = {}
  BY <1>1 DEF Init, Abstract!Adds, Abstract!Subs
<1>3. IsFiniteSet(Abstract!Adds) /\ IsFiniteSet(Abstract!Subs) /\ Plus = 0 /\ Minus = 0
  BY <1>2, FS_EmptySet DEF Plus, Minus
<1> QED
  BY <1>3 DEF Init, BoundInv, AtMostPlus, AboveMinus, Alone

LEMMA BoundStore ==
    ASSUME Inv, BoundInv, status = "running", NEW t \in Thread, pc[t] = "store", StoreSum(t)
    PROVE  BoundInv'
<1>1. /\ Loops \in Nat /\ Loops' = Loops /\ Loops = Abstract!Loops /\ num_threads' = num_threads
      /\ counter \in Int /\ seen[t] \in Int /\ done \in [Thread -> 0 .. 2 * Loops]
  BY LoopsNat DEF Inv, TypeOK, StoreSum, Loops, Abstract!Loops, options
<1>2. done[t] \in 0 .. 2 * Loops - 1
  BY <1>1 DEF Inv, DoneOK
<1>3. Abstract!TypeOK
  BY <1>1, LoopsNat DEF Inv, Abstract!TypeOK
<1>4. /\ IsFiniteSet(Abstract!Adds') /\ IsFiniteSet(Abstract!Subs')
      /\ done[t] < Loops => Plus' = Plus + 1 /\ Minus' = Minus
      /\ done[t] >= Loops => Plus' = Plus /\ Minus' = Minus + 1
  <2>1. /\ done' = [done EXCEPT ![t] = @ + 1] /\ UNCHANGED num_iterations
        /\ done[t] < 2 * Abstract!Loops
    BY <1>1, <1>2 DEF StoreSum, options
  <2>2. IsFiniteSet(Abstract!Adds) /\ IsFiniteSet(Abstract!Subs)
    BY DEF BoundInv
  <2> QED
    BY <1>1, <1>3, <2>1, <2>2, AtomicOneMore DEF Plus, Minus
<1>5. /\ counter' = seen[t] + (IF done[t] < Loops THEN 1 ELSE -1)
      /\ done' = [done EXCEPT ![t] = done[t] + 1]
      /\ pc' = [pc EXCEPT ![t] = LoopHead(done[t] + 1)]
      /\ LoopHead(done[t] + 1) \in {"load", "unlock"}
      /\ UNCHANGED seen
  BY DEF StoreSum, Goto, Value, LoopHead
<1>6. /\ \A u \in Thread : pc'[u] = "store" => u # t /\ pc[u] = "store"
      /\ \A u \in Thread \ {t} : done'[u] = done[u]
      /\ done'[t] = done[t] + 1
      /\ \A u \in Thread : seen[u] \in Int
  BY <1>1, <1>5 DEF Inv, TypeOK
<1>7. Plus \in Nat /\ Minus \in Nat
  BY PlusMinusNat
<1>8. AtMostPlus'
  <2>1. seen[t] <= Plus /\ \A u \in Thread : pc'[u] = "store" => seen[u] <= Plus
    BY <1>6 DEF BoundInv, AtMostPlus
  <2>2. CASE done[t] < Loops
    <3>1. done'[t] \in 1 .. Loops' /\ Plus' = Plus + 1 /\ counter' = seen[t] + 1
      BY <1>1, <1>2, <1>4, <1>5, <1>6, <2>2
    <3>2. counter' <= Plus' /\ \A u \in Thread : pc'[u] = "store" => seen[u] <= Plus'
      BY <1>1, <1>6, <1>7, <2>1, <3>1
    <3> QED
      BY <1>5, <3>1, <3>2 DEF AtMostPlus
  <2>3. CASE done[t] >= Loops
    <3>1. counter' = seen[t] - 1 /\ Plus' = Plus
      BY <1>1, <1>2, <1>4, <1>5, <2>3
    <3>2. counter' < Plus' /\ counter' <= Plus'
      BY <1>1, <1>7, <2>1, <3>1
    <3> QED
      BY <1>5, <2>1, <3>1, <3>2 DEF AtMostPlus
  <2> QED
    BY <1>1, <1>2, <2>2, <2>3
<1>9. AboveMinus'
  <2>1. Minus' \in {Minus, Minus + 1}
    BY <1>1, <1>2, <1>4
  <2>2. \A u \in Thread : pc'[u] = "store" =>
          seen'[u] >= 1 - Minus' \/ (seen'[u] >= 0 /\ done'[u] = 0)
    <3> SUFFICES ASSUME NEW u \in Thread, pc'[u] = "store"
                 PROVE  seen'[u] >= 1 - Minus' \/ (seen'[u] >= 0 /\ done'[u] = 0)
      OBVIOUS
    <3>1. seen[u] >= 1 - Minus \/ (seen[u] >= 0 /\ done[u] = 0)
      BY <1>6 DEF BoundInv, AboveMinus
    <3>2. done'[u] = done[u] /\ seen'[u] = seen[u] /\ seen[u] \in Int
      BY <1>5, <1>6
    <3> QED
      BY <1>7, <2>1, <3>1, <3>2
  <2>3. seen[t] >= 1 - Minus \/ (seen[t] >= 0 /\ done[t] = 0)
    BY DEF BoundInv, AboveMinus
  <2>4. counter' >= 1 - Minus'
    <3>1. CASE done[t] < Loops
      <4>1. Minus' = Minus /\ counter' = seen[t] + 1
        BY <1>4, <1>5, <3>1
      <4> QED
        BY <1>1, <1>7, <2>3, <4>1
    <3>2. CASE done[t] >= Loops
      <4>1. Minus' = Minus + 1 /\ counter' = seen[t] - 1
        BY <1>1, <1>2, <1>4, <1>5, <3>2
      <4>2. done[t] # 0
        BY <1>1, <1>2, <3>2
      <4> QED
        BY <1>1, <1>7, <2>3, <4>1, <4>2
    <3> QED
      BY <1>1, <1>2, <3>1, <3>2
  <2> QED
    BY <2>2, <2>4 DEF AboveMinus
<1>10. Alone'
  <2>1. \A u \in Thread : u >= num_threads => u # t /\ pc'[u] = "none"
    <3>1. \A u \in Thread : u >= num_threads => pc[u] = "none"
      BY DEF BoundInv, Alone
    <3> QED
      BY <1>1, <1>5, <3>1 DEF Inv, TypeOK
  <2>2. ASSUME num_threads = 1
        PROVE  counter' = Plus' - Minus' /\ \A u \in Thread : pc'[u] # "store"
    <3>1. counter = Plus - Minus /\ seen[t] = counter
      BY <2>2 DEF BoundInv, Alone
    <3>2. \A u \in Thread : u # t => pc[u] = "none"
      BY <2>1, <2>2 DEF BoundInv, Alone, Thread
    <3>3. counter' = Plus' - Minus'
      BY <1>1, <1>2, <1>4, <1>5, <1>7, <3>1
    <3> QED
      BY <1>6, <3>2, <3>3
  <2> QED
    BY <1>1, <2>1, <2>2 DEF Alone
<1> QED
  BY <1>4, <1>8, <1>9, <1>10 DEF BoundInv

(* A step that changes none of the additions.                              *)
LEMMA BoundSame ==
    ASSUME Inv, BoundInv, UNCHANGED <<num_iterations, num_threads, counter, done>>,
           \A t \in Thread : pc'[t] = "store" =>
               \/ pc[t] = "store" /\ seen'[t] = seen[t]
               \/ pc[t] = "load" /\ seen'[t] = counter,
           \A t \in Thread : t >= num_threads => pc'[t] = "none"
    PROVE  BoundInv'
<1>1. Abstract!Adds' = Abstract!Adds /\ Abstract!Subs' = Abstract!Subs /\ Plus' = Plus /\ Minus' = Minus
      /\ Loops' = Loops
  BY DEF Abstract!Adds, Abstract!Subs, Abstract!Loops, Plus, Minus, Loops
<1>2. AtMostPlus'
  BY <1>1 DEF BoundInv, AtMostPlus
<1>3. AboveMinus'
  <2>1. Minus \in Nat
    BY PlusMinusNat
  <2> QED
    BY <1>1, <2>1 DEF BoundInv, AboveMinus
<1>4. Alone'
  BY <1>1 DEF BoundInv, Alone
<1> QED
  BY <1>1, <1>2, <1>3, <1>4 DEF BoundInv

LEMMA BoundNext == Inv /\ BoundInv /\ [Next]_vars => BoundInv'
<1> SUFFICES ASSUME Inv, BoundInv, [Next]_vars PROVE BoundInv'
  OBVIOUS
<1>1. pc \in [Thread -> {"none", "start", "load", "store", "unlock", "exited"}]
      /\ seen \in [Thread -> Int] /\ num_threads \in Int
      /\ \A t \in Thread : t >= num_threads => pc[t] = "none"
  BY CountAssumption DEF Inv, TypeOK, BoundInv, Alone
<1>2. ASSUME NEW t \in Thread, status = "running", Step(t)
      PROVE  BoundInv'
  <2>1. CASE Store(t)
    BY <1>2, <2>1, BoundStore DEF Store
  <2>2. CASE CompareAndSwap(t) /\ StoreSum(t)
    BY <1>2, <2>2, BoundStore DEF CompareAndSwap
  <2>failed. CASE CompareAndSwap(t) /\ ~StoreSum(t)
    <3>1. /\ pc' = [pc EXCEPT ![t] = "load"] /\ pc[t] = "store"
          /\ UNCHANGED <<num_iterations, num_threads, counter, done, seen>>
      BY <2>failed DEF CompareAndSwap, Goto, options
    <3> QED
      BY <1>1, <3>1, BoundSame
  <2>4. CASE Load(t)
    <3>1. /\ pc' = [pc EXCEPT ![t] = "store"] /\ pc[t] = "load"
          /\ seen' = [seen EXCEPT ![t] = counter]
          /\ UNCHANGED <<num_iterations, num_threads, counter, done>>
      BY <2>4 DEF Load, Goto, options
    <3> QED
      BY <1>1, <3>1, BoundSame
  <2>5. CASE Acquire(t) \/ Release(t)
    <3>1. PICK label \in {"load", "unlock", "exited"} : pc' = [pc EXCEPT ![t] = label]
      BY <2>5 DEF Acquire, Release, Goto, LoopHead
    <3>2. /\ pc[t] # "none"
          /\ UNCHANGED <<num_iterations, num_threads, counter, done, seen>>
      BY <2>5 DEF Acquire, Release, options
    <3> QED
      BY <1>1, <3>1, <3>2, BoundSame
  <2> QED
    BY <1>2, <2>1, <2>2, <2>failed, <2>4, <2>5 DEF Step
<1>3. CASE status = "running" /\ CreateThread
  <2>1. /\ m < num_threads /\ pc' = [pc EXCEPT ![m] = "start"] /\ m \in Nat
        /\ UNCHANGED <<num_iterations, num_threads, counter, done, seen>>
    BY <1>3 DEF Inv, TypeOK, CreateThread, options
  <2>2. \A t \in Thread : t >= num_threads => t # m
    BY <1>1, <2>1
  <2> QED
    BY <1>1, <2>1, <2>2, BoundSame
<1>4. CASE status = "running" /\ MainStep /\ ~CreateThread
  <2>1. UNCHANGED <<num_iterations, num_threads, counter, done, seen, pc>>
    BY <1>4 DEF MainStep, CreateFails, AllCreated, JoinThread, AllJoined,
                AppendFails, AppendDividesByZero, AppendCsv, options
  <2> QED
    BY <1>1, <2>1, BoundSame
<1>5. CASE UNCHANGED vars
  <2>1. UNCHANGED <<num_iterations, num_threads, counter, done, seen, pc>>
    BY <1>5 DEF vars, options
  <2> QED
    BY <1>1, <2>1, BoundSame
<1> QED
  BY <1>2, <1>3, <1>4, <1>5 DEF Next, Terminated

LEMMA ZeroOnly == -0 .. 0 = {0}
OBVIOUS

(* When every thread has made all its additions or none of them.           *)
LEMMA Bounded ==
    ASSUME Inv, BoundInv, num_threads > 0,
           \A t \in Thread : done[t] \in {0, 2 * Loops},
           \A t \in Thread : t >= num_threads => done[t] = 0
    PROVE  IF num_threads = 1 \/ Loops = 0
           THEN counter = 0
           ELSE counter \in -(num_threads * Loops - 1) .. num_threads * Loops - 1
<1>1. /\ Loops \in Nat /\ Loops = Abstract!Loops /\ num_threads \in Nat /\ counter \in Int
      /\ Plus \in Nat /\ Minus \in Nat
  <2>1. Loops \in Nat /\ Loops = Abstract!Loops /\ num_threads \in Int /\ counter \in Int
    BY LoopsNat, CountAssumption DEF Inv, TypeOK, Loops, Abstract!Loops
  <2> QED
    BY <2>1, PlusMinusNat
<1>2. CASE num_threads = 1
  <2>1. Abstract!TypeOK
    BY <1>1, LoopsNat DEF Inv, TypeOK, Abstract!TypeOK
  <2>2. Plus = Minus
    <3>1. IsFiniteSet(Abstract!Adds) /\ \A t \in Thread : done[t] \in {0, 2 * Abstract!Loops}
      BY <1>1 DEF BoundInv
    <3>2. Cardinality(Abstract!Adds) = Cardinality(Abstract!Subs)
      BY <2>1, <3>1, BalancedSets
    <3> QED
      BY <3>2 DEF Plus, Minus
  <2> QED
    BY <1>1, <1>2, <2>2 DEF BoundInv, Alone
<1>3. CASE Loops = 0
  <2>1. Abstract!Adds = {} /\ Abstract!Subs = {}
    BY <1>1, <1>3 DEF Abstract!Adds, Abstract!Subs
  <2>2. Plus = 0 /\ Minus = 0
    BY <2>1, FS_EmptySet DEF Plus, Minus
  <2> QED
    BY <1>1, <1>3, <2>2 DEF BoundInv, AtMostPlus, AboveMinus
<1>4. CASE num_threads # 1 /\ Loops # 0
  <2>1. Plus <= num_threads * Loops
    <3> DEFINE R == 0 .. num_threads - 1
               L == 0 .. Loops - 1
    <3>1. IsFiniteSet(R) /\ Cardinality(R) = num_threads
      BY <1>1, FS_Interval
    <3>2. IsFiniteSet(L) /\ Cardinality(L) = Loops
      BY <1>1, FS_Interval
    <3>3. Abstract!Adds \subseteq R \X L
      <4> SUFFICES ASSUME NEW a \in Abstract!Adds PROVE a \in R \X L
        OBVIOUS
      <4>1. a \in Thread \X L /\ a[2] < done[a[1]] /\ a[1] \in Thread /\ a[2] \in L
        BY <1>1 DEF Abstract!Adds
      <4>2. a[1] < num_threads
        BY <1>1, <4>1 DEF Thread
      <4>3. a[1] \in R
        BY <1>1, <4>1, <4>2, MaxAssumption DEF Thread
      <4> QED
        BY <4>1, <4>3
    <3> HIDE DEF R, L
    <3>4. IsFiniteSet(R \X L) /\ Cardinality(R \X L) = num_threads * Loops
      BY <3>1, <3>2, FS_Product
    <3> QED
      BY <3>3, <3>4, FS_Subset DEF Plus
  <2>2. Minus <= num_threads * Loops
    <3> DEFINE R == 0 .. num_threads - 1
               L == Loops .. 2 * Loops - 1
    <3>1. IsFiniteSet(R) /\ Cardinality(R) = num_threads
      BY <1>1, FS_Interval
    <3>2. IsFiniteSet(L) /\ Cardinality(L) = Loops
      BY <1>1, FS_Interval
    <3>3. Abstract!Subs \subseteq R \X L
      <4> SUFFICES ASSUME NEW a \in Abstract!Subs PROVE a \in R \X L
        OBVIOUS
      <4>1. a \in Thread \X L /\ a[2] < done[a[1]] /\ a[1] \in Thread /\ a[2] \in L
        BY <1>1 DEF Abstract!Subs
      <4>2. a[1] < num_threads
        BY <1>1, <4>1 DEF Thread
      <4>3. a[1] \in R
        BY <1>1, <4>1, <4>2, MaxAssumption DEF Thread
      <4> QED
        BY <4>1, <4>3
    <3> HIDE DEF R, L
    <3>4. IsFiniteSet(R \X L) /\ Cardinality(R \X L) = num_threads * Loops
      BY <3>1, <3>2, FS_Product
    <3> QED
      BY <3>3, <3>4, FS_Subset DEF Minus
  <2>3. num_threads * Loops \in Nat /\ num_threads * Loops >= 1
    BY <1>1, <1>4
  <2>4. counter < Plus \/ (Plus = 0 /\ counter <= 0)
    <3>1. \A t \in Thread : done[t] \notin 1 .. Loops
      <4>1. 0 \notin 1 .. Loops /\ 2 * Loops \notin 1 .. Loops
        BY <1>1, <1>4
      <4> QED
        BY <4>1
    <3> QED
      BY <3>1 DEF BoundInv, AtMostPlus
  <2>5. counter >= 1 - Minus \/ counter = 0
    BY DEF BoundInv, AboveMinus
  <2>6. counter <= num_threads * Loops - 1
    BY <1>1, <2>1, <2>3, <2>4
  <2>7. counter >= 1 - num_threads * Loops
    BY <1>1, <2>2, <2>3, <2>5
  <2> QED
    BY <1>1, <1>4, <2>3, <2>6, <2>7
<1> QED
  BY <1>2, <1>3, <1>4

(* Without --sync the counter is off by less than the number of additions  *)
(* of one sign, and not at all for one thread or no iterations, for every  *)
(* number of threads and iterations and in every interleaving.             *)
THEOREM LostUpdatesBounded == Spec => []LostUpdateBound
<1>1. Inv /\ BoundInv => LostUpdateBound
  <2> SUFFICES ASSUME Inv, BoundInv, status = "exit 0", num_threads > 0
               PROVE  IF num_threads = 1 \/ Loops = 0
                      THEN csv[1].counter = 0
                      ELSE csv[1].counter \in
                             -(num_threads * Loops - 1) .. num_threads * Loops - 1
    BY ZeroOnly DEF LostUpdateBound
  <2>1. csv[1].counter = counter /\ \A t \in Thread : pc[t] \in {"none", "exited"}
    BY DEF Inv, MainOK
  <2>2. \A t \in Thread : /\ done[t] \in {0, 2 * Loops}
                          /\ t >= num_threads => done[t] = 0
    BY <2>1 DEF Inv, DoneOK, BoundInv, Alone
  <2> QED
    BY <2>1, <2>2, Bounded
<1> QED
  BY <1>1, BoundInit, BoundNext, SpecInv, PTL DEF Spec

=============================================================================
