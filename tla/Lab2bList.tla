----------------------------- MODULE Lab2bList -----------------------------
(***************************************************************************)
(* lab2_list.c of project 2b: every thread inserts its own elements, waits *)
(* for the others, takes part in counting the lists, looks its elements up *)
(* and deletes them, and waits again; main joins the threads, counts once  *)
(* more and appends a row to lab2b_list.csv.  The calls run in SortedList. *)
(*                                                                         *)
(* The sections under mut hold no other lock and call nothing, so each is  *)
(* one action.  Wait times and wording are left out.                       *)
(***************************************************************************)
EXTENDS Integers, FiniteSets

CONSTANTS
    NumThreads, NumIterations, NumLists, \* --threads, --iterations, --lists
    list, Null, BinOf, Keyings, SyncOptions

ASSUME ArgsAssumption ==
    NumThreads \in Nat \ {0} /\ NumIterations \in Nat /\ NumLists \in Nat \ {0}

Main == -1
Workers == 0 .. NumThreads - 1
Thread == Workers \cup {Main}
NumElements == NumThreads * NumIterations
Elem == 0 .. NumElements - 1
Bin == 0 .. NumLists - 1
Owner == [e \in Elem |-> e \div NumIterations]

(* The heads are allocated apart from the elements; random keys that clash *)
(* are not considered.                                                     *)
ASSUME HeadAssumption ==
    /\ Null \notin Elem
    /\ \A b \in Bin : list[b] \notin Elem /\ list[b] # Null
    /\ \A b, c \in Bin : list[b] = list[c] => b = c
ASSUME KeysAssumption ==
    /\ Keyings \subseteq [Elem -> Int]
    /\ \A k \in Keyings : \A e, f \in Elem : k[e] = k[f] => e = f
    /\ BinOf \in [UNION {{k[e] : e \in Elem} : k \in Keyings} -> Bin]
ASSUME OptionAssumption == SyncOptions \subseteq {"none", "m", "s"}

VARIABLES
    next, prev, key, lock, sync_opt, pc, call, it, limiter, ret, segv, linked,
    hpc,     \* hpc[t]: where thread t is in list_operations, or main
    n,       \* n[t]: the element index of its loop
    bin,     \* bin[t]: the list index of check_correct_list_length
    threads_finished_inserting, threads_finished_deleting,
    list_count,        \* list_count[b]: 1 once a thread counts list b
    list_count_total,
    created, joined,   \* the loops of create_threads and join_threads
    status             \* "running", or how the process ended

libVars == <<next, prev, key, lock, sync_opt, pc, call, it, limiter, ret, segv, linked>>
barriers == <<threads_finished_inserting, threads_finished_deleting>>
counts == <<list_count, list_count_total>>
mains == <<created, joined, status>>
vars == <<libVars, hpc, n, bin, barriers, counts, mains>>

SL == INSTANCE SortedList

Synced == SL!Synced

(* Mutant: every thread starts at the first element.                       *)
BugStart(t) == 0

Start(t) == t * NumIterations
End(t) == (t + 1) * NumIterations

TypeOK ==
    /\ hpc \in [Thread -> {"none", "insert", "barrier1", "check", "counted",
                           "delete", "found", "deleted", "barrier2", "exited",
                           "create", "join", "append"}]
    /\ n \in [Thread -> 0 .. NumElements]
    /\ bin \in [Thread -> 0 .. NumLists]
    /\ threads_finished_inserting \in 0 .. NumThreads
    /\ threads_finished_deleting \in 0 .. threads_finished_inserting
    /\ list_count \in [Bin -> {0, 1}]
    /\ list_count_total \in Int
    /\ created \in 0 .. NumThreads
    /\ joined \in 0 .. created
    /\ status \in {"running", "exit 0", "exit 2", "corrupted", "SIGSEGV", "SIGFPE"}

-----------------------------------------------------------------------------
Init ==
    /\ SL!Init
    /\ hpc = [t \in Thread |-> IF t = Main THEN "create" ELSE "none"]
    /\ n = [t \in Thread |-> 0]
    /\ bin = [t \in Thread |-> 0]
    /\ threads_finished_inserting = 0
    /\ threads_finished_deleting = 0
    /\ list_count = [b \in Bin |-> 0]
    /\ list_count_total = 0
    /\ created = 0
    /\ joined = 0
    /\ status = "running"

At(t, label) == hpc[t] = label /\ pc[t] = "idle"
Goto(t, label) == hpc' = [hpc EXCEPT ![t] = label]

Exit(how) ==
    /\ status' = how
    /\ UNCHANGED <<libVars, hpc, n, bin, barriers, counts, created, joined>>

-----------------------------------------------------------------------------
(* list_operations: inserting and deleting.                                *)

InsertNext(t) ==
    /\ At(t, "insert")
    /\ n[t] < End(t)
    /\ SL!Invoke(t, SL!Set!Call("insert", BinOf[key[n[t]]], n[t]))
    /\ n' = [n EXCEPT ![t] = @ + 1]
    /\ UNCHANGED <<hpc, bin, barriers, counts, mains>>

FinishInserting(t) ==
    /\ At(t, "insert")
    /\ n[t] = End(t)
    /\ threads_finished_inserting' = threads_finished_inserting + 1
    /\ Goto(t, "barrier1")
    /\ UNCHANGED <<libVars, n, bin, threads_finished_deleting, counts, mains>>

(* Mutant: the barrier opens when one thread is still missing.             *)
BugPassInsertBarrier(t) ==
    /\ At(t, "barrier1")
    /\ threads_finished_inserting >= NumThreads - 1
    /\ Goto(t, "check")
    /\ n' = [n EXCEPT ![t] = Start(t)]
    /\ UNCHANGED <<libVars, bin, barriers, counts, mains>>

PassInsertBarrier(t) ==
    /\ At(t, "barrier1")
    /\ threads_finished_inserting = NumThreads
    /\ Goto(t, "check")
    /\ n' = [n EXCEPT ![t] = Start(t)]
    /\ UNCHANGED <<libVars, bin, barriers, counts, mains>>

(* Mutant: the thread looks up its first key every time.                   *)
BugLookupNext(t) ==
    /\ At(t, "delete")
    /\ n[t] < End(t)
    /\ SL!Invoke(t, SL!Set!Call("lookup", BinOf[key[Start(t)]], key[Start(t)]))
    /\ Goto(t, "found")
    /\ UNCHANGED <<n, bin, barriers, counts, mains>>

LookupNext(t) ==
    /\ At(t, "delete")
    /\ n[t] < End(t)
    /\ SL!Invoke(t, SL!Set!Call("lookup", BinOf[key[n[t]]], key[n[t]]))
    /\ Goto(t, "found")
    /\ UNCHANGED <<n, bin, barriers, counts, mains>>

DeleteMatching(t) ==
    /\ At(t, "found")
    /\ \/ ret[t] = Null /\ Exit("corrupted")
       \/ /\ ret[t] # Null
          /\ SL!Invoke(t, SL!Set!Call("delete", BinOf[key[n[t]]], ret[t]))
          /\ Goto(t, "deleted")
          /\ UNCHANGED <<n, bin, barriers, counts, mains>>

CheckDeleted(t) ==
    /\ At(t, "deleted")
    /\ \/ ret[t] = 1 /\ Exit("corrupted")
       \/ /\ ret[t] # 1
          /\ n' = [n EXCEPT ![t] = @ + 1]
          /\ Goto(t, "delete")
          /\ UNCHANGED <<libVars, bin, barriers, counts, mains>>

(* Mutants: the deletions stop one element early; the wrong barrier is     *)
(* counted.                                                                *)
BugFinishEarly(t) ==
    /\ At(t, "delete")
    /\ n[t] >= End(t) - 1
    /\ threads_finished_deleting' = threads_finished_deleting + 1
    /\ Goto(t, "barrier2")
    /\ UNCHANGED <<libVars, n, bin, threads_finished_inserting, counts, mains>>
BugFinishWrong(t) ==
    /\ At(t, "delete")
    /\ n[t] = End(t)
    /\ threads_finished_inserting' = threads_finished_inserting + 1
    /\ Goto(t, "barrier2")
    /\ UNCHANGED <<libVars, n, bin, threads_finished_deleting, counts, mains>>

FinishDeleting(t) ==
    /\ At(t, "delete")
    /\ n[t] = End(t)
    /\ threads_finished_deleting' = threads_finished_deleting + 1
    /\ Goto(t, "barrier2")
    /\ UNCHANGED <<libVars, n, bin, threads_finished_inserting, counts, mains>>

PassDeleteBarrier(t) ==
    /\ At(t, "barrier2")
    /\ threads_finished_deleting = NumThreads
    /\ Goto(t, "exited")
    /\ UNCHANGED <<libVars, n, bin, barriers, counts, mains>>

-----------------------------------------------------------------------------
(* check_correct_list_length, by the threads and then by main, which alone *)
(* enforces it.                                                            *)

(* Mutant: the loop does not go on past a list that another thread counts. *)
BugCountStuck(t) ==
    /\ At(t, "check")
    /\ bin[t] < NumLists
    /\ \/ /\ list_count[bin[t]] = 0
          /\ list_count' = [list_count EXCEPT ![bin[t]] = 1]
          /\ SL!Invoke(t, SL!Set!Call("length", bin[t], Null))
          /\ Goto(t, "counted")
          /\ UNCHANGED <<n, bin, barriers, list_count_total, mains>>
       \/ list_count[bin[t]] # 0 /\ UNCHANGED vars

CountList(t) ==
    /\ At(t, "check")
    /\ bin[t] < NumLists
    /\ \/ /\ list_count[bin[t]] = 0
          /\ list_count' = [list_count EXCEPT ![bin[t]] = 1]
          /\ SL!Invoke(t, SL!Set!Call("length", bin[t], Null))
          /\ Goto(t, "counted")
          /\ UNCHANGED bin
       \/ /\ list_count[bin[t]] # 0
          /\ bin' = [bin EXCEPT ![t] = @ + 1]
          /\ UNCHANGED <<libVars, hpc, list_count>>
    /\ UNCHANGED <<n, barriers, list_count_total, mains>>

(* Mutant: main does not enforce its count.                                *)
BugAddCount(t) ==
    /\ At(t, "counted")
    /\ list_count_total' = list_count_total + ret[t]
    /\ bin' = [bin EXCEPT ![t] = @ + 1]
    /\ Goto(t, "check")
    /\ UNCHANGED <<libVars, n, barriers, list_count, mains>>

AddCount(t) ==
    /\ At(t, "counted")
    /\ \/ ret[t] = -1 /\ t = Main /\ Exit("corrupted")
       \/ /\ ret[t] # -1 \/ t # Main
          /\ list_count_total' = list_count_total + ret[t]
          /\ bin' = [bin EXCEPT ![t] = @ + 1]
          /\ Goto(t, "check")
          /\ UNCHANGED <<libVars, n, barriers, list_count, mains>>

AllCounted(t) ==
    /\ At(t, "check")
    /\ bin[t] = NumLists
    /\ t # Main
    /\ Goto(t, "delete")
    /\ UNCHANGED <<libVars, n, bin, barriers, counts, mains>>

-----------------------------------------------------------------------------
(* main.                                                                   *)

CreateThread ==
    /\ hpc[Main] = "create"
    /\ \/ /\ created < NumThreads
          /\ hpc' = [hpc EXCEPT ![created] = "insert"]
          /\ n' = [n EXCEPT ![created] = Start(created)]
          /\ created' = created + 1
       \/ /\ created = NumThreads
          /\ Goto(Main, "join")
          /\ UNCHANGED <<n, created>>
    /\ UNCHANGED <<libVars, bin, barriers, counts, joined, status>>

CreateFails ==
    /\ hpc[Main] = "create"
    /\ created < NumThreads
    /\ Exit("exit 2")

(* memset(list_count, 0, num_lists) clears that many BYTES: the int of     *)
(* list b (4 bytes, little-endian, holding 1) is cleared if its first byte *)
(* is among them.                                                          *)
ClearListCount ==
    list_count' = [b \in Bin |-> IF 4 * b < NumLists THEN 0 ELSE list_count[b]]

JoinThread ==
    /\ hpc[Main] = "join"
    /\ \/ /\ joined < NumThreads
          /\ hpc[joined] = "exited"
          /\ joined' = joined + 1
          /\ UNCHANGED <<hpc, list_count>>
       \/ /\ joined = NumThreads
          /\ ClearListCount
          /\ Goto(Main, "check")
          /\ UNCHANGED joined
    /\ UNCHANGED <<libVars, n, bin, barriers, list_count_total, created, status>>

(* The last count ends with a write through the uninitialised pointer      *)
(* dummy: it goes unnoticed or it is a segmentation fault.                 *)
MainCounted ==
    /\ At(Main, "check")
    /\ bin[Main] = NumLists
    /\ \/ /\ Goto(Main, "append")
          /\ UNCHANGED <<libVars, n, bin, barriers, counts, mains>>
       \/ Exit("SIGSEGV")

(* append_csv: open() or write() fails; the average time divides by the    *)
(* number of operations.  Then main exits with 0.                          *)
AppendCsv ==
    /\ hpc[Main] = "append"
    /\ \/ Exit("exit 2")
       \/ Exit(IF 3 * NumElements = 0 THEN "SIGFPE" ELSE "exit 0")

-----------------------------------------------------------------------------
Running == status = "running" /\ ~segv

Library(t) == SL!Step(t) /\ UNCHANGED <<hpc, n, bin, barriers, counts, mains>>

ThreadStep(t) ==
    /\ Running
    /\ \/ InsertNext(t) \/ FinishInserting(t) \/ PassInsertBarrier(t)
       \/ LookupNext(t) \/ DeleteMatching(t) \/ CheckDeleted(t)
       \/ FinishDeleting(t) \/ PassDeleteBarrier(t)
       \/ CountList(t) \/ AddCount(t) \/ AllCounted(t)
       \/ Library(t)

MainStep ==
    Running /\ (CreateThread \/ CreateFails \/ JoinThread \/ MainCounted \/ AppendCsv)

Next ==
    \/ \E t \in Thread : ThreadStep(t)
    \/ MainStep
    \/ ~Running /\ UNCHANGED vars

Spec == Init /\ [][Next]_vars

(* The kernel runs every runnable thread.                                  *)
FairSpec ==
    Spec /\ WF_vars(MainStep) /\ \A t \in Thread : WF_vars(ThreadStep(t))

-----------------------------------------------------------------------------
(* Properties.                                                             *)

(* The threads use the library as SortedList says callers may: under a     *)
(* lock, each deletes only elements of its own that are in a list.         *)
LibrarySpec == SL!Spec

(* From the moment the first thread passes the first barrier, every        *)
(* element is in a list until its own thread deletes it.                   *)
PastInsertBarrier(t) ==
    hpc[t] \in {"check", "counted", "delete", "found", "deleted", "barrier2", "exited"}
Deleting(t) ==
    hpc[t] \in {"delete", "found", "deleted", "barrier2", "exited"}

UndeletedLinked ==
    Synced /\ Running /\ (\E t \in Workers : PastInsertBarrier(t)) =>
        \A u \in Workers : \A e \in Start(u) .. End(u) - 1 :
            \/ e \in linked
            \/ Deleting(u) /\ e < n[u]
            \/ hpc[u] = "deleted" /\ e = n[u]

(* Under a lock no thread and no count finds the lists corrupted, and no   *)
(* null pointer is followed: the run fails only for want of resources, or  *)
(* by the write through dummy.                                             *)
NeverCorruptedWhenSynced == Synced => status # "corrupted" /\ ~segv

(* A synchronised run that exits with 0 leaves all lists empty, unlocked.  *)
ListsEmptyAtExit ==
    Synced /\ status = "exit 0" =>
        /\ linked = {}
        /\ \A b \in Bin : next[list[b]] = Null /\ lock[b] = 0

(* Whatever was lost, with or without a lock, a run that exits with 0      *)
(* leaves the first list empty: the last count, which with up to four      *)
(* lists is of that one only (ClearListCount), finds every race that left  *)
(* an element in it.                                                       *)
ExitZeroMeansEmpty ==
    status = "exit 0" => next[list[0]] = Null

(* Every run ends, with or without a lock.                                 *)
Termination == <>~Running

=============================================================================
