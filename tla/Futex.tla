--------------------------------- MODULE Futex ---------------------------------
(***************************************************************************)
(* Futexes (futex.c), and the wait for a thread by futex_wait on the word  *)
(* that thread_exit clears (thread.c).  The other wait, thread_join, is in *)
(* module Scheduler.                                                       *)
(*                                                                         *)
(* None of these paths holds a lock between its test and proc_sleep.  A    *)
(* CPU does not preempt a thread in the kernel, so with NCPU = 1 a call is *)
(* interrupted only where it sleeps; with more, calls interleave.  The     *)
(* futex table is global and is searched by user address alone, whatever   *)
(* the process.                                                            *)
(***************************************************************************)
EXTENDS Integers, FiniteSets, FiniteSetsExt

CONSTANTS NCPU,
          MAX_THREADS,         \* slots of thread_table
          NPROC,               \* processes; thread td belongs to process td % NPROC
          Addrs,               \* user addresses of futex words
          MAX_FUTEX_ENTRIES,
          NULL

ASSUME FutexAssumption ==
    /\ {NCPU, MAX_THREADS, NPROC, MAX_FUTEX_ENTRIES} \subseteq Nat \ {0}
    /\ NULL \notin Addrs

Threads == 0 .. MAX_THREADS - 1
Procs == 0 .. NPROC - 1
Entries == 1 .. MAX_FUTEX_ENTRIES
Proc(td) == td % NPROC

VARIABLES
    word,         \* word[p][a]: user memory, 0 or another value (1)
    tid_address,  \* thread_t.tid_address
    futex_table,  \* futex_table[e]: uaddr and refcount, or NULL when unused
    state,        \* thread_t.state: "ALIVE" stands for RUNNABLE and RUNNING
    pc,           \* where each thread is
    loc           \* its locals: the address, expected value and entry of its futex_wait

vars == <<word, tid_address, futex_table, state, pc, loc>>

NoLoc == [addr |-> NULL, val |-> 0, entry |-> NULL]

Init ==
    /\ word = [p \in Procs |-> [a \in Addrs |-> 0]]
    /\ tid_address = [td \in Threads |-> NULL]
    /\ futex_table = [e \in Entries |-> NULL]
    /\ state = [td \in Threads |-> "ALIVE"]
    /\ pc = [td \in Threads |-> "user"]
    /\ loc = [td \in Threads |-> NoLoc]

\* Threads inside the kernel, each on a CPU; a sleeper and a thread that was
\* woken but has not run since are not.
Inside == {td \in Threads : pc[td] \notin {"user", "asleep", "dead"}}
At(td, label) ==
    /\ pc[td] = label /\ state[td] # "SLEEPING"
    /\ td \in Inside \/ Cardinality(Inside) < NCPU
Goto(td, label) ==
    /\ pc' = [pc EXCEPT ![td] = label]
    /\ loc' = [loc EXCEPT ![td] = IF label \in {"user", "dead"} THEN NoLoc ELSE @]

\* proc_sleep; the thread goes on from "asleep" once it is ALIVE again.
ProcSleep(td) ==
    /\ state' = [state EXCEPT ![td] = "SLEEPING"]
    /\ Goto(td, "asleep")

\* proc_wakeup and proc_wakeup_one, for a set of sleepers.
ProcWakeup(sleepers) ==
    state' = [td \in Threads |-> IF td \in sleepers THEN "ALIVE" ELSE state[td]]

-----------------------------------------------------------------------------
(* Futexes *)

\* Programs write to words, but leave to the kernel the ones they gave it.
UserStore(td, a, v) ==
    /\ At(td, "user")
    /\ \A x \in Threads : Proc(x) = Proc(td) => tid_address[x] # a
    /\ word' = [word EXCEPT ![Proc(td)][a] = v]
    /\ UNCHANGED <<tid_address, futex_table, state, pc, loc>>

\* api_proc_set_tid_address stores the thread id, which is not 0.
SetTidAddress(td, a) ==
    /\ At(td, "user")
    /\ tid_address' = [tid_address EXCEPT ![td] = a]
    /\ word' = [word EXCEPT ![Proc(td)][a] = 1]
    /\ UNCHANGED <<futex_table, state, pc, loc>>

\* A call of futex_wait.
FutexWaitCall(td, a, v) ==
    /\ At(td, "user")
    /\ pc' = [pc EXCEPT ![td] = "futex_test"]
    /\ loc' = [loc EXCEPT ![td].addr = a, ![td].val = v]
    /\ UNCHANGED <<word, tid_address, futex_table, state>>

\* The word must still have the value expected.
FutexTest(td) ==
    /\ At(td, "futex_test")
    /\ Goto(td, IF word[Proc(td)][loc[td].addr] # loc[td].val THEN "user" ELSE "futex_ref")
    /\ UNCHANGED <<word, tid_address, futex_table, state>>

\* futex_find, and the free entry that futex_alloc takes.
FutexFind(a) == {e \in Entries : futex_table[e] # NULL /\ futex_table[e].uaddr = a}
FutexFree == {e \in Entries : futex_table[e] = NULL}

\* The entry of the address is found or allocated, and counts the waiter.
FutexRef(td) ==
    /\ At(td, "futex_ref")
    /\ LET a == loc[td].addr
           found == IF FutexFind(a) # {} THEN FutexFind(a) ELSE FutexFree
           e == Min(found)
           refs == IF FutexFind(a) # {} THEN futex_table[e].refcount ELSE 0
       IN  IF found = {} THEN Goto(td, "user") /\ UNCHANGED futex_table
           ELSE /\ futex_table' = [futex_table EXCEPT ![e] = [uaddr |-> a, refcount |-> refs + 1]]
                /\ pc' = [pc EXCEPT ![td] = "futex_sleep"]
                /\ loc' = [loc EXCEPT ![td].entry = e]
    /\ UNCHANGED <<word, tid_address, state>>

FutexSleep(td) ==
    /\ At(td, "futex_sleep")
    /\ ProcSleep(td)
    /\ UNCHANGED <<word, tid_address, futex_table>>

\* Mutant: the first waiter to go frees the entry.
FutexDone_Frees(td) ==
    /\ At(td, "asleep")
    /\ futex_table' = [futex_table EXCEPT ![loc[td].entry] = NULL]
    /\ Goto(td, "user")
    /\ UNCHANGED <<word, tid_address, state>>

\* Awake again: the last waiter of the entry frees it.
FutexDone(td) ==
    /\ At(td, "asleep")
    /\ LET e == loc[td].entry
       IN  futex_table' = [futex_table EXCEPT ![e] =
                             IF @.refcount <= 1 THEN NULL ELSE [@ EXCEPT !.refcount = @ - 1]]
    /\ Goto(td, "user")
    /\ UNCHANGED <<word, tid_address, state>>

\* Threads asleep on the entry of address a.
Sleepers(a) ==
    {td \in Threads : state[td] = "SLEEPING" /\ loc[td].entry \in FutexFind(a)}

\* The first k of a set of slots, as calls of proc_wakeup_one find them.
First(k, S) == {x \in S : Cardinality({y \in S : y < x}) < k}

\* futex_wake, by address, up to n waiters; the refcount bounds the calls.
FutexWake(td, a, n) ==
    /\ At(td, "user") /\ FutexFind(a) # {}
    /\ ProcWakeup(First(Min({n, futex_table[Min(FutexFind(a))].refcount}), Sleepers(a)))
    /\ UNCHANGED <<word, tid_address, futex_table, pc, loc>>

-----------------------------------------------------------------------------
(* Exiting *)

\* thread_exit marks itself dead.
Exit(td) ==
    /\ At(td, "user")
    /\ state' = [state EXCEPT ![td] = "TERMINATED"]
    /\ Goto(td, IF tid_address[td] = NULL THEN "dead" ELSE "exit_clear")
    /\ UNCHANGED <<word, tid_address, futex_table>>

\* It clears the word it was given ...
ExitClear(td) ==
    /\ At(td, "exit_clear")
    /\ word' = [word EXCEPT ![Proc(td)][tid_address[td]] = 0]
    /\ Goto(td, "exit_futex")
    /\ UNCHANGED <<tid_address, futex_table, state>>

\* Mutant: one waiter is woken.
ExitFutex_One(td) ==
    /\ At(td, "exit_futex")
    /\ ProcWakeup(First(1, Sleepers(tid_address[td])))
    /\ Goto(td, "dead")
    /\ UNCHANGED <<word, tid_address, futex_table>>

\* ... and wakes the waiters of that (futex_wake_all).
ExitFutex(td) ==
    /\ At(td, "exit_futex")
    /\ ProcWakeup(Sleepers(tid_address[td]))
    /\ Goto(td, "dead")
    /\ UNCHANGED <<word, tid_address, futex_table>>

\* process_exit: thread_kill_all ends the siblings where they are, asleep or not,
\* and wakes nobody.  Here no sibling is inside the kernel on another CPU.
ExitGroup(td) ==
    /\ At(td, "user")
    /\ LET group == {x \in Threads : Proc(x) = Proc(td)}
       IN  /\ Inside \cap group = {}
           /\ state' = [x \in Threads |-> IF x \in group THEN "TERMINATED" ELSE state[x]]
           /\ pc' = [x \in Threads |-> IF x \in group THEN "dead" ELSE pc[x]]
           /\ loc' = [x \in Threads |-> IF x \in group THEN NoLoc ELSE loc[x]]
    /\ UNCHANGED <<word, tid_address, futex_table>>

-----------------------------------------------------------------------------

Call(td) ==
    \/ \E a \in Addrs :
         \/ \E v \in {0, 1} : UserStore(td, a, v) \/ FutexWaitCall(td, a, v)
         \/ SetTidAddress(td, a)
         \/ \E n \in 1 .. MAX_THREADS : FutexWake(td, a, n)
    \/ Exit(td) \/ ExitGroup(td)

Continue(td) ==
    \/ FutexTest(td) \/ FutexRef(td) \/ FutexSleep(td) \/ FutexDone(td)
    \/ ExitClear(td) \/ ExitFutex(td)

Next == \E td \in Threads : Call(td) \/ Continue(td)

Spec == Init /\ [][Next]_vars

-----------------------------------------------------------------------------
(* Properties *)

\* Every variable has its type.
TypeOK ==
    /\ word \in [Procs -> [Addrs -> {0, 1}]]
    /\ tid_address \in [Threads -> Addrs \cup {NULL}]
    /\ \A e \in Entries : futex_table[e] # NULL =>
           futex_table[e].uaddr \in Addrs /\ futex_table[e].refcount \in Nat \ {0}
    /\ state \in [Threads -> {"ALIVE", "SLEEPING", "TERMINATED"}]

Waiters(e) == {td \in Threads : pc[td] \in {"futex_sleep", "asleep"} /\ loc[td].entry = e}

\* Every variable has its type, and on one CPU the entry a waiter sleeps on is not freed and not given to another
\* address before the waiter has left futex_wait: its refcount covers the threads
\* that wait there, though some were killed in their sleep and never left.
EntryHeld ==
    /\ TypeOK
    /\ \A e \in Entries : Waiters(e) # {} =>
           /\ futex_table[e] # NULL
           /\ futex_table[e].refcount >= Cardinality(Waiters(e))
           /\ \A td \in Waiters(e) : futex_table[e].uaddr = loc[td].addr

\* thread_exit clears the word it was given and does a futex wake so that anyone
\* waiting on it wakes up: nobody sleeps there for the thread id once it is gone,
\* except between these two steps.
TidWaiterWoken ==
    \A td \in Threads :
        (state[td] = "SLEEPING" /\ loc[td].entry # NULL /\ loc[td].val = 1
         /\ \E x \in Threads : Proc(x) = Proc(td) /\ tid_address[x] = loc[td].addr
         /\ word[Proc(td)][loc[td].addr] = 0)
        => \E x \in Threads : /\ pc[x] = "exit_futex" /\ Proc(x) = Proc(td)
                              /\ tid_address[x] = loc[td].addr
=============================================================================
