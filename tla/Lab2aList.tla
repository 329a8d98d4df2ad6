------------------------------ MODULE Lab2aList ------------------------------
(***************************************************************************)
(* lab2_list.c of project 2a, from which that of project 2b grew: one list *)
(* under one lock, and nothing between the phases of different threads.  A *)
(* thread counts and deletes while others still insert.                    *)
(*                                                                         *)
(* Its inserting, looking up, deleting, creating and reporting are those   *)
(* of Lab2bList, its library that of SortedList with one list.  Barriers,  *)
(* list flags and total do not exist: they keep their initial values.      *)
(***************************************************************************)
EXTENDS Lab2bList

ASSUME OneListAssumption == NumLists = 1

(* The variables that do not exist here.                                   *)
absent == <<bin, barriers, counts>>

(* Mutant: the insertions stop one element early.                          *)
BugInserted(t) ==
    /\ At(t, "insert")
    /\ n[t] = End(t) - 1
    /\ Goto(t, "check")
    /\ UNCHANGED <<libVars, n, absent, mains>>

Inserted(t) ==
    /\ At(t, "insert")
    /\ n[t] = End(t)
    /\ Goto(t, "check")
    /\ UNCHANGED <<libVars, n, absent, mains>>

(* check_correct_list_length, by a thread or by main.  By then main has    *)
(* destroyed the mutex: locking it is undefined and fails in practice.     *)
(* That is no different from taking it, as no other thread is left.        *)
Length(t) ==
    /\ At(t, "check")
    /\ SL!Invoke(t, SL!Set!Call("length", 0, Null))
    /\ Goto(t, "counted")
    /\ UNCHANGED <<n, absent, mains>>

(* Mutant: a thread enforces its count, by counting again.                 *)
BugAccept(t) ==
    /\ At(t, "counted")
    /\ \/ ret[t] = -1 /\ Goto(t, "check") /\ UNCHANGED n
       \/ ret[t] # -1 /\ t = Main /\ Goto(t, "append") /\ UNCHANGED n
       \/ ret[t] # -1 /\ t # Main /\ Goto(t, "delete") /\ n' = [n EXCEPT ![t] = Start(t)]
    /\ UNCHANGED <<libVars, absent, mains>>

(* Only main enforces that the list was not corrupted.                     *)
Accept(t) ==
    /\ At(t, "counted")
    /\ \/ t = Main /\ ret[t] = -1 /\ Exit("corrupted")
       \/ /\ t = Main /\ ret[t] # -1
          /\ Goto(t, "append")
          /\ UNCHANGED <<libVars, n, absent, mains>>
       \/ /\ t # Main
          /\ Goto(t, "delete")
          /\ n' = [n EXCEPT ![t] = Start(t)]
          /\ UNCHANGED <<libVars, absent, mains>>

(* Mutant: the deletions stop one element early.                           *)
BugDeleted(t) ==
    /\ At(t, "delete")
    /\ n[t] >= End(t) - 1
    /\ Goto(t, "exited")
    /\ UNCHANGED <<libVars, n, absent, mains>>

Deleted(t) ==
    /\ At(t, "delete")
    /\ n[t] = End(t)
    /\ Goto(t, "exited")
    /\ UNCHANGED <<libVars, n, absent, mains>>

Join ==
    /\ hpc[Main] = "join"
    /\ \/ /\ joined < NumThreads
          /\ hpc[joined] = "exited"
          /\ joined' = joined + 1
          /\ UNCHANGED hpc
       \/ /\ joined = NumThreads
          /\ Goto(Main, "check")
          /\ UNCHANGED joined
    /\ UNCHANGED <<libVars, n, absent, created, status>>

(* The calls of SortedList.c, which differ from those of project 2b only   *)
(* in having one lock where those have one per list.                       *)
CallStep(t) == Library(t)

ListOperations(t) ==
    /\ Running
    /\ \/ InsertNext(t) \/ Inserted(t)
       \/ Length(t) \/ Accept(t)
       \/ LookupNext(t) \/ DeleteMatching(t) \/ CheckDeleted(t) \/ Deleted(t)
       \/ CallStep(t)

Create == CreateThread \/ CreateFails

MainOperations == Running /\ (Create \/ Join \/ AppendCsv)

(* The options have been read (process_args) and the keys chosen.          *)
InitA == Init

NextA ==
    \/ \E t \in Thread : ListOperations(t)
    \/ MainOperations
    \/ ~Running /\ UNCHANGED vars

SpecA == InitA /\ [][NextA]_vars

(* The kernel runs every runnable thread.                                  *)
FairSpecA ==
    /\ SpecA
    /\ WF_vars(MainOperations)
    /\ \A t \in Thread : WF_vars(ListOperations(t))

-----------------------------------------------------------------------------
(* Properties, besides LibrarySpec, ListsEmptyAtExit and Termination of    *)
(* Lab2bList, which hold here as well.  ExitZeroMeansEmpty does not: here  *)
(* an element may be left behind without --sync and main count it calmly.  *)

(* However the other threads' insertions and deletions overlap the count   *)
(* of a thread, under a lock it finds at least the thread's own elements   *)
(* and at most all, never a corrupted list.                                *)
CountIncludesOwn ==
    Synced => \A t \in Workers :
        At(t, "counted") => ret[t] \in NumIterations .. NumElements

=============================================================================
