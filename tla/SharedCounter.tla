--------------------------- MODULE SharedCounter ---------------------------
(***************************************************************************)
(* lab2_add.c of project 2a: main creates threads that add to one shared   *)
(* counter, joins them and appends a row to lab2_add.csv.                  *)
(*                                                                         *)
(* One action is one access to shared memory.  The load and the store of   *)
(* an addition are separate, with or without the sched_yield() of --yield  *)
(* between them: a preemption there needs no yield.                        *)
(***************************************************************************)
EXTENDS Integers, FiniteSets, Sequences

CONSTANTS
    MaxThreads,      \* bounds --threads
    ThreadCounts,    \* the values of --threads considered
    IterationCounts, \* the values of --iterations considered
    SyncOptions      \* the values of --sync considered; "none" when absent

ASSUME MaxAssumption == MaxThreads \in Nat
ASSUME CountAssumption ==
    /\ ThreadCounts \subseteq Int
    /\ \A n \in ThreadCounts : n <= MaxThreads
ASSUME IterationAssumption == IterationCounts \subseteq Int
ASSUME SyncAssumption == SyncOptions \subseteq {"none", "m", "s", "c"}

Thread == 0 .. MaxThreads - 1

VARIABLES
    num_threads, num_iterations, sync_opt,   \* set by process_args
    counter,  \* the shared counter
    lock,     \* mutex or spinlock: 1 while it is held
    pc,       \* pc[t]: where thread t is
    done,     \* done[t]: additions of t stored so far (n, in both loops)
    seen,     \* seen[t]: the value of the counter t last loaded
    main, m,  \* where main is, and the index t of its loops
    status,   \* "running", or how the process ended
    csv       \* the rows this process appended to lab2_add.csv

options == <<num_threads, num_iterations, sync_opt>>
mainVars == <<main, m, status, csv>>
vars == <<options, counter, lock, pc, done, seen, mainVars>>

Locking == sync_opt \in {"m", "s"}

Abstract == INSTANCE AtomicCounter

(* Iterations of each loop of a thread, the value of its k-th addition.    *)
Loops == IF num_iterations > 0 THEN num_iterations ELSE 0
(* Mutant: the first loop makes one addition too many.                     *)
BugValue(k) == IF k <= Loops THEN 1 ELSE -1

Value(k) == IF k < Loops THEN 1 ELSE -1

(* Mutant: the second loop runs once too often.                            *)
BugLoopsLong(k) == IF k <= 2 * Loops THEN "load" ELSE "unlock"

(* The control point after k additions.                                    *)
LoopHead(k) == IF k < 2 * Loops THEN "load" ELSE "unlock"

TypeOK ==
    /\ num_threads \in ThreadCounts
    /\ num_iterations \in IterationCounts
    /\ sync_opt \in SyncOptions
    /\ counter \in Int
    /\ lock \in {0, 1}
    /\ pc \in [Thread -> {"none", "start", "load", "store", "unlock", "exited"}]
    /\ done \in [Thread -> 0 .. 2 * Loops]
    /\ seen \in [Thread -> Int]
    /\ main \in {"create", "join", "append", "ended"}
    /\ m \in Nat
    /\ status \in {"running", "exit 0", "exit 2", "SIGFPE"}
    /\ csv \in Seq([threads : Int, iterations : Int, operations : Int, counter : Int])

-----------------------------------------------------------------------------

(* The options after process_args.  Its exit(1) on a usage error is left   *)
(* out: nothing has been created then and nothing follows.                 *)
ProcessArgs ==
    /\ num_threads \in ThreadCounts
    /\ num_iterations \in IterationCounts
    /\ sync_opt \in SyncOptions

Init ==
    /\ ProcessArgs
    /\ counter = 0
    /\ lock = 0
    /\ pc = [t \in Thread |-> "none"]
    /\ done = [t \in Thread |-> 0]
    /\ seen = [t \in Thread |-> 0]
    /\ main = "create"
    /\ m = 0
    /\ status = "running"
    /\ csv = <<>>

-----------------------------------------------------------------------------
(* The threads: add_wrapper, add and add_compare_and_swap.                 *)

Goto(t, label) == pc' = [pc EXCEPT ![t] = label]

(* Mutant: the lock is taken without looking whether it is free.           *)
BugAcquire(t) ==
    /\ pc[t] = "start"
    /\ lock' = IF Locking THEN 1 ELSE lock
    /\ Goto(t, LoopHead(0))
    /\ UNCHANGED <<options, counter, done, seen, mainVars>>

Acquire(t) ==
    /\ pc[t] = "start"
    /\ \/ Locking /\ lock = 0 /\ lock' = 1
       \/ ~Locking /\ UNCHANGED lock
    /\ Goto(t, LoopHead(0))
    /\ UNCHANGED <<options, counter, done, seen, mainVars>>

Load(t) ==
    /\ pc[t] = "load"
    /\ seen' = [seen EXCEPT ![t] = counter]
    /\ Goto(t, "store")
    /\ UNCHANGED <<options, counter, lock, done, mainVars>>

(* The addition takes effect: the counter gets the value loaded plus 1 or  *)
(* minus 1, whatever it holds now.                                         *)
StoreSum(t) ==
    /\ counter' = seen[t] + Value(done[t])
    /\ done' = [done EXCEPT ![t] = @ + 1]
    /\ Goto(t, LoopHead(done[t] + 1))
    /\ UNCHANGED <<options, lock, seen, mainVars>>

Store(t) ==
    /\ pc[t] = "store"
    /\ sync_opt # "c"
    /\ StoreSum(t)

(* Mutants: the swap does not compare; the retry does not load again.      *)
BugSwapAlways(t) == pc[t] = "store" /\ sync_opt = "c" /\ StoreSum(t)
BugRetryStale(t) ==
    /\ pc[t] = "store"
    /\ sync_opt = "c"
    /\ \/ counter = seen[t] /\ StoreSum(t)
       \/ counter # seen[t] /\ UNCHANGED vars

CompareAndSwap(t) ==
    /\ pc[t] = "store"
    /\ sync_opt = "c"
    /\ \/ counter = seen[t] /\ StoreSum(t)
       \/ /\ counter # seen[t]
          /\ Goto(t, "load")
          /\ UNCHANGED <<options, counter, lock, done, seen, mainVars>>

Release(t) ==
    /\ pc[t] = "unlock"
    /\ lock' = IF Locking THEN 0 ELSE lock
    /\ Goto(t, "exited")
    /\ UNCHANGED <<options, counter, done, seen, mainVars>>

Step(t) ==
    Acquire(t) \/ Load(t) \/ Store(t) \/ CompareAndSwap(t) \/ Release(t)

-----------------------------------------------------------------------------
(* main.  exit() ends every thread.                                        *)

Exit(how) == main' = "ended" /\ status' = how

CreateThread ==
    /\ main = "create"
    /\ m < num_threads
    /\ pc' = [pc EXCEPT ![m] = "start"]
    /\ m' = m + 1
    /\ UNCHANGED <<options, counter, lock, done, seen, main, status, csv>>

(* pthread_create fails (EAGAIN) while earlier threads may be running.     *)
CreateFails ==
    /\ main = "create"
    /\ m < num_threads
    /\ Exit("exit 2")
    /\ UNCHANGED <<options, counter, lock, pc, done, seen, m, csv>>

AllCreated ==
    /\ main = "create"
    /\ m >= num_threads
    /\ main' = "join"
    /\ m' = 0
    /\ UNCHANGED <<options, counter, lock, pc, done, seen, status, csv>>

(* Mutant: the join does not wait.                                         *)
BugJoinEarly ==
    /\ main = "join"
    /\ m < num_threads
    /\ m' = m + 1
    /\ UNCHANGED <<options, counter, lock, pc, done, seen, main, status, csv>>

(* Every thread id is valid and joined once, so pthread_join succeeds.     *)
JoinThread ==
    /\ main = "join"
    /\ m < num_threads
    /\ pc[m] = "exited"
    /\ m' = m + 1
    /\ UNCHANGED <<options, counter, lock, pc, done, seen, main, status, csv>>

AllJoined ==
    /\ main = "join"
    /\ m >= num_threads
    /\ main' = "append"
    /\ UNCHANGED <<options, counter, lock, pc, done, seen, m, status, csv>>

NumOperations == 2 * num_threads * num_iterations

(* open() or write() fails.                                                *)
AppendFails ==
    /\ main = "append"
    /\ Exit("exit 2")
    /\ UNCHANGED <<options, counter, lock, pc, done, seen, m, csv>>

(* The average time divides by the number of operations.                   *)
AppendDividesByZero ==
    /\ main = "append"
    /\ NumOperations = 0
    /\ Exit("SIGFPE")
    /\ UNCHANGED <<options, counter, lock, pc, done, seen, m, csv>>

AppendCsv ==
    /\ main = "append"
    /\ NumOperations # 0
    /\ csv' = Append(csv, [threads |-> num_threads,
                           iterations |-> num_iterations,
                           operations |-> NumOperations,
                           counter |-> counter])
    /\ Exit("exit 0")
    /\ UNCHANGED <<options, counter, lock, pc, done, seen, m>>

MainStep ==
    \/ CreateThread \/ CreateFails \/ AllCreated
    \/ JoinThread \/ AllJoined
    \/ AppendFails \/ AppendDividesByZero \/ AppendCsv

-----------------------------------------------------------------------------

Terminated == status # "running" /\ UNCHANGED vars

Next ==
    \/ status = "running" /\ (MainStep \/ \E t \in Thread : Step(t))
    \/ Terminated

Spec == Init /\ [][Next]_vars

(* The kernel runs every runnable thread: weak fairness for each.          *)
Fairness ==
    /\ WF_vars(status = "running" /\ MainStep)
    /\ \A t \in Thread : WF_vars(status = "running" /\ Step(t))

FairSpec == Spec /\ Fairness

-----------------------------------------------------------------------------
(* Properties.                                                             *)

Synced == sync_opt # "none"

(* Between pthread_mutex_lock (or the test-and-set loop) and the release a *)
(* thread is alone, and the lock is then seen as held.                     *)
Holding(t) == pc[t] \in {"load", "store", "unlock"}

MutualExclusion ==
    Locking => \A t \in Thread : Holding(t) =>
        /\ lock = 1
        /\ \A u \in Thread \ {t} : ~Holding(u)

(* The counter that a thread of a locked run is about to overwrite is the  *)
(* one it loaded; compare-and-swap may find another one and then retries.  *)
NoStaleStore ==
    \A t \in Thread : Locking /\ pc[t] = "store" => seen[t] = counter

(* The row that a synchronised run reports has counter 0.                  *)
FinalCounterZero == Synced /\ status = "exit 0" => csv[1].counter = 0

(* Without --sync updates are lost.  One thread alone still ends at 0, and *)
(* several end strictly nearer to 0 than the number of additions of one    *)
(* sign: the last store is a subtraction and the first one an addition.    *)
LostUpdateBound ==
    status = "exit 0" /\ num_threads > 0 =>
        LET bound == IF num_threads = 1 \/ Loops = 0
                     THEN 0 ELSE num_threads * Loops - 1
        IN  csv[1].counter \in -bound .. bound

(* Synchronised runs implement the atomic counter: each of their steps is  *)
(* one of its steps or none.                                               *)
AtomicSpec == Abstract!Init /\ [][Synced => Abstract!Next]_(Abstract!vars)

(* The process ends, whatever the synchronisation.                         *)
Termination == <>(status # "running")

=============================================================================
