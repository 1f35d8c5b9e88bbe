------------------------------- MODULE ProcLife -------------------------------
(***************************************************************************)
(* The life of processes: creation (api/copy.c), process_exit, the exit    *)
(* records that outlive it, process_reap (process.c) and the calls that    *)
(* wait for a process (api/wait.c, posix_wait4).                           *)
(*                                                                         *)
(* A CPU executes the thread it runs without preemption while that is in   *)
(* the kernel: with one CPU a call is interrupted only where it sleeps.    *)
(* Reference counts change in one step here, see Entity for the finer      *)
(* ones.  alloc_process and process_record_consume take no lock, so with   *)
(* several CPUs an instance has one process that creates and collects.     *)
(* A process has one thread; which runnable thread a CPU picks is left     *)
(* open, and Scheduler has the policies.                                   *)
(***************************************************************************)
EXTENDS Integers, FiniteSets, FiniteSetsExt

CONSTANTS NCPU,
          MAX_PROCESSES,    \* slots of process_table and of its entity block
          MAX_THREADS,      \* slots of thread_table
          MaxPid,           \* bound on next_pid
          MaxHandles,       \* bound on the process handles of one process
          PROC_WAIT_PASSES,
          Creators,         \* pids that create processes
          NULL

ASSUME ProcLifeAssumption ==
    /\ {NCPU, MAX_PROCESSES, MAX_THREADS, MaxPid, PROC_WAIT_PASSES} \subseteq Nat \ {0}
    /\ MaxHandles \in Nat
    /\ NCPU > 1 => Creators = {1} /\ MaxHandles = 0

Cpus == 1 .. NCPU
Slots == 1 .. MAX_PROCESSES
Threads == 1 .. MAX_THREADS
Pids == 1 .. MaxPid

VARIABLES
    pcb,         \* process_table: pid (0 when free), ppid, reapable, thread_list, handles
    ent,         \* the entity of each slot and its exit record
    next_pid,
    pending,     \* process_reapable_pending
    thr,         \* thread_table: proc (NULL when free), state, running_cpu, reap APC
    tpc,         \* where each thread is in its call
    loc,         \* locals of its wait loop: passes made, and the id of its handle
    cur,         \* current thread of each CPU
    cpc,         \* where each CPU is: "run" or in scheduler_switch
    scan,        \* slot that process_reap looks at on each CPU
    sched_spin,  \* CPU that holds it
    lost,        \* references of handles whose table is gone, per slot
    fate         \* fate[p]: what became of the exit status of pid p

cpuVars == <<cur, cpc, scan, sched_spin>>
vars == <<pcb, ent, next_pid, pending, thr, tpc, loc, cur, cpc, scan, sched_spin, lost, fate>>

NoPcb == [pid |-> 0, ppid |-> 0, reapable |-> FALSE, threads |-> {}, hnd |-> {}]
NoEnt == [used |-> FALSE, gen |-> 0, active |-> FALSE, refs |-> 0,
          exited |-> FALSE, reaped |-> FALSE, parent |-> NULL, notify |-> FALSE]
NoLoc == [pass |-> 0, id |-> NULL]
NoThread == [proc |-> NULL, state |-> "UNUSED", cpu |-> NULL, apc |-> FALSE]

\* process_entity_attach: one reference for the entity and one for its record.
Attached(gen, parent) ==
    [NoEnt EXCEPT !.used = TRUE, !.gen = gen, !.active = TRUE, !.refs = 2, !.parent = parent]
NewPcb(pid, ppid, td, hnd) ==
    [NoPcb EXCEPT !.pid = pid, !.ppid = ppid, !.threads = {td}, !.hnd = hnd]
NewThread(s) == [NoThread EXCEPT !.proc = s, !.state = "RUNNABLE"]

\* Init (pid 1) is runnable and no CPU has a thread yet.
Init ==
    /\ pcb = [s \in Slots |-> IF s = 1 THEN NewPcb(1, 0, 1, {}) ELSE NoPcb]
    /\ ent = [s \in Slots |-> IF s = 1 THEN Attached(1, NULL) ELSE NoEnt]
    /\ next_pid = 2 /\ pending = 0
    /\ thr = [td \in Threads |-> IF td = 1 THEN NewThread(1) ELSE NoThread]
    /\ tpc = [td \in Threads |-> "user"] /\ loc = [td \in Threads |-> NoLoc]
    /\ cur = [c \in Cpus |-> NULL] /\ cpc = [c \in Cpus |-> "run"]
    /\ scan = [c \in Cpus |-> 0] /\ sched_spin = NULL
    /\ lost = [s \in Slots |-> 0]
    /\ fate = [p \in Pids |-> [is |-> "none", parent |-> NULL]]

-----------------------------------------------------------------------------
(* Entities and records *)

IdAt(s) == [slot |-> s, gen |-> ent[s].gen]
Valid(id) == ent[id.slot].used /\ ent[id.slot].gen = id.gen
Active(id) == id # NULL /\ Valid(id) /\ ent[id.slot].active
UsedSlots == {s \in Slots : ent[s].used}

\* The stores to process_reapable_pending are neither locked nor atomic: on
\* several CPUs one may be lost.
PendingBecomes(n) ==
    pending' \in {Max({0, n})} \cup (IF NCPU = 1 THEN {} ELSE {pending})

\* Mutant: the hook does not count a slot that was still to be reaped.
Release_Uncounted(D, e, p) ==
    LET gone == {s \in D : e[s].refs = 1}
    IN  /\ ent' = [s \in Slots |->
                     IF s \in gone THEN [NoEnt EXCEPT !.gen = e[s].gen]
                     ELSE IF s \in D THEN [e[s] EXCEPT !.refs = @ - 1] ELSE e[s]]
        /\ pcb' = [s \in Slots |-> IF s \in gone THEN NoPcb ELSE p[s]]
        /\ UNCHANGED pending

\* entity_release of each slot in D, on tables e and p that the caller has
\* written; the last reference runs process_release_hook, which clears the slot.
Release(D, e, p) ==
    LET gone == {s \in D : e[s].refs = 1}
        unreaped == {s \in gone : p[s].reapable}
    IN  /\ ent' = [s \in Slots |->
                     IF s \in gone THEN [NoEnt EXCEPT !.gen = e[s].gen]
                     ELSE IF s \in D THEN [e[s] EXCEPT !.refs = @ - 1] ELSE e[s]]
        /\ pcb' = [s \in Slots |-> IF s \in gone THEN NoPcb ELSE p[s]]
        /\ IF unreaped = {} THEN UNCHANGED pending
           ELSE PendingBecomes(pending - Cardinality(unreaped))

Records(D) == {s \in D : ~ent[s].reaped}

\* process_record_consume of the records of the slots in D.
Consume(D) ==
    Release(Records(D),
            [s \in Slots |-> IF s \in Records(D) THEN [ent[s] EXCEPT !.reaped = TRUE]
                             ELSE ent[s]],
            pcb)

\* process_record_find_child: slots whose record waits for this parent.
Children(parent) ==
    {s \in UsedSlots : s # parent.slot /\ ent[s].parent = parent
                       /\ ent[s].exited /\ ~ent[s].reaped}

\* process_child_count
ChildCount(pid) == Cardinality({s \in Slots : pcb[s].pid # 0 /\ pcb[s].ppid = pid})

Collected(s) ==
    fate' = IF fate[pcb[s].pid].is = "exited"
            THEN [fate EXCEPT ![pcb[s].pid].is = "collected"] ELSE fate

-----------------------------------------------------------------------------
(* Calls of the current thread td of a CPU *)

Runs(td) == \E c \in Cpus : cur[c] = td /\ cpc[c] = "run"
At(td, label) == tpc[td] = label /\ Runs(td) /\ thr[td].state # "SLEEPING"
Proc(td) == thr[td].proc
Me(td) == IdAt(Proc(td))
Goto(td, label) ==
    /\ tpc' = [tpc EXCEPT ![td] = label]
    /\ loc' = [loc EXCEPT ![td] = IF label = "user" THEN NoLoc ELSE @]
FreeSlots == {s \in Slots : pcb[s].pid = 0 /\ ~ent[s].used}
FreeThreads == {td \in Threads : thr[td].proc = NULL}

\* Mutant: the child is attached without the reference of its record.
Spawn_OneRef(td) ==
    /\ At(td, "user") /\ pcb[Proc(td)].pid \in Creators
    /\ next_pid \in Pids /\ FreeSlots # {} /\ FreeThreads # {}
    /\ LET s == Min(FreeSlots)
           new == Min(FreeThreads)
       IN  /\ ent' = [ent EXCEPT ![s] = [Attached(@.gen + 1, Me(td)) EXCEPT !.refs = 1]]
           /\ pcb' = [pcb EXCEPT ![s] = NewPcb(next_pid, pcb[Proc(td)].pid, new, {})]
           /\ thr' = [thr EXCEPT ![new] = NewThread(s)]
    /\ fate' = [fate EXCEPT ![next_pid] = [is |-> "running", parent |-> Me(td)]]
    /\ next_pid' = next_pid + 1
    /\ UNCHANGED <<pending, tpc, loc, cpuVars, lost>>

\* procCopy: a free slot and a pid, copies of the caller's handles, the entity,
\* a thread.  Without a thread process_creation_abort takes the entity back and
\* clears the slot, but the copied handles stay in the handle table.
Spawn(td) ==
    /\ At(td, "user") /\ pcb[Proc(td)].pid \in Creators
    /\ next_pid \in Pids /\ FreeSlots # {}
    /\ LET s == Min(FreeSlots)
           hnd == pcb[Proc(td)].hnd
           copied == [i \in Slots |-> IF IdAt(i) \in hnd THEN [ent[i] EXCEPT !.refs = @ + 1]
                                      ELSE ent[i]]
       IN  IF FreeThreads # {}
           THEN LET new == Min(FreeThreads)
                IN  /\ ent' = [copied EXCEPT ![s] = Attached(@.gen + 1, Me(td))]
                    /\ pcb' = [pcb EXCEPT ![s] = NewPcb(next_pid, pcb[Proc(td)].pid, new, hnd)]
                    /\ thr' = [thr EXCEPT ![new] = NewThread(s)]
                    /\ fate' = [fate EXCEPT ![next_pid] = [is |-> "running", parent |-> Me(td)]]
                    /\ UNCHANGED lost
           ELSE /\ ent' = [copied EXCEPT ![s].gen = @ + 1]
                /\ lost' = [i \in Slots |-> IF IdAt(i) \in hnd THEN lost[i] + 1 ELSE lost[i]]
                /\ UNCHANGED <<pcb, thr, fate>>
    /\ next_pid' = next_pid + 1
    /\ UNCHANGED <<pending, tpc, loc, cpuVars>>

\* api_proc_open: a handle on any process whose entity is still there.
Open(td, s) ==
    /\ At(td, "user") /\ ent[s].used
    /\ Cardinality(pcb[Proc(td)].hnd) < MaxHandles /\ IdAt(s) \notin pcb[Proc(td)].hnd
    /\ ent' = [ent EXCEPT ![s].refs = @ + 1]
    /\ pcb' = [pcb EXCEPT ![Proc(td)].hnd = @ \cup {IdAt(s)}]
    /\ UNCHANGED <<next_pid, pending, thr, tpc, loc, cpuVars, lost, fate>>

\* api_proc_close
Close(td, id) ==
    /\ At(td, "user") /\ id \in pcb[Proc(td)].hnd
    /\ Release({id.slot}, ent, [pcb EXCEPT ![Proc(td)].hnd = @ \ {id}])
    /\ UNCHANGED <<next_pid, thr, tpc, loc, cpuVars, lost, fate>>

\* api_proc_notify with a mode other than PROC_NOTIFY_NONE.
Notify(td, id) ==
    /\ At(td, "user") /\ id \in pcb[Proc(td)].hnd
    /\ ent' = [ent EXCEPT ![id.slot].notify = TRUE]
    /\ fate' = [fate EXCEPT ![pcb[id.slot].pid].is = "waived"]
    /\ UNCHANGED <<pcb, next_pid, pending, thr, tpc, loc, cpuVars, lost>>

\* proc_wait_take of the first child found, and the return to user mode.
Take(td, kids) ==
    LET s == Min(kids)
    IN  Consume({s}) /\ Collected(s) /\ Goto(td, "user") /\ UNCHANGED thr

\* api_proc_trywait, and posix_wait4 with WNOHANG, when there is a child to take.
TryWait(td) ==
    /\ At(td, "user") /\ Children(Me(td)) # {}
    /\ Take(td, Children(Me(td)))
    /\ UNCHANGED <<next_pid, cpuVars, lost>>

\* A call of api_proc_wait or posix_wait4.
WaitCall(td) ==
    /\ At(td, "user")
    /\ Goto(td, "wait")
    /\ UNCHANGED <<pcb, ent, next_pid, pending, thr, cpuVars, lost, fate>>

\* One pass of the loop up to proc_sleep.
Wait(td) ==
    /\ At(td, "wait")
    /\ LET kids == Children(Me(td))
       IN  IF loc[td].pass < PROC_WAIT_PASSES /\ kids # {} THEN Take(td, kids)
           ELSE /\ Goto(td, IF loc[td].pass = PROC_WAIT_PASSES
                               \/ ChildCount(pcb[Proc(td)].pid) = 0
                            THEN "user" ELSE "wait_sleep")
                /\ UNCHANGED <<pcb, ent, pending, thr, fate>>
    /\ UNCHANGED <<next_pid, cpuVars, lost>>

\* api_proc_exitcode, for a process that has exited; else it changes nothing.
ExitCode(td, id) ==
    /\ At(td, "user") /\ id \in pcb[Proc(td)].hnd /\ ent[id.slot].exited
    /\ Consume({id.slot}) /\ Collected(id.slot)
    /\ UNCHANGED <<next_pid, thr, tpc, loc, cpuVars, lost>>

\* A call of api_proc_waith.
WaithCall(td, id) ==
    /\ At(td, "user") /\ id \in pcb[Proc(td)].hnd
    /\ tpc' = [tpc EXCEPT ![td] = "waith"]
    /\ loc' = [loc EXCEPT ![td].id = id]
    /\ UNCHANGED <<pcb, ent, next_pid, pending, thr, cpuVars, lost, fate>>

\* One pass of its loop up to proc_sleep.
Waith(td) ==
    /\ At(td, "waith")
    /\ LET s == loc[td].id.slot
       IN  IF loc[td].pass < PROC_WAIT_PASSES /\ ent[s].exited
           THEN Consume({s}) /\ Collected(s) /\ Goto(td, "user")
           ELSE /\ Goto(td, IF loc[td].pass = PROC_WAIT_PASSES THEN "user" ELSE "waith_sleep")
                /\ UNCHANGED <<pcb, ent, pending, fate>>
    /\ UNCHANGED <<next_pid, thr, cpuVars, lost>>

\* proc_sleep on the caller's own process, and the next pass.
Sleep(td) ==
    /\ At(td, "wait_sleep") \/ At(td, "waith_sleep")
    /\ tpc' = [tpc EXCEPT ![td] = IF @ = "wait_sleep" THEN "wait" ELSE "waith"]
    /\ thr' = [thr EXCEPT ![td].state = "SLEEPING"]
    /\ loc' = [loc EXCEPT ![td].pass = @ + 1]
    /\ UNCHANGED <<pcb, ent, next_pid, pending, cpuVars, lost, fate>>

-----------------------------------------------------------------------------
(* process_exit *)

\* The record gets its code and PROC_EXIT_EXITED; init never gets here.
Exit(td) ==
    /\ At(td, "user") /\ pcb[Proc(td)].pid # 1
    /\ ent' = [ent EXCEPT ![Proc(td)].exited = TRUE]
    /\ fate' = [fate EXCEPT ![pcb[Proc(td)].pid].is = IF @ = "running" THEN "exited" ELSE @]
    /\ Goto(td, "exit_dead")
    /\ UNCHANGED <<pcb, next_pid, pending, thr, cpuVars, lost>>

\* thread_mark_dead; the process becomes reapable.
ExitDead(td) ==
    /\ At(td, "exit_dead")
    /\ thr' = [thr EXCEPT ![td].state = "TERMINATED"]
    /\ pcb' = [pcb EXCEPT ![Proc(td)].reapable = TRUE]
    /\ PendingBecomes(pending + 1)
    /\ Goto(td, "exit_teardown")
    /\ UNCHANGED <<ent, next_pid, cpuVars, lost, fate>>

\* process_teardown_resources: the handles of the process are released.
ExitTeardown(td) ==
    /\ At(td, "exit_teardown")
    /\ Release({id.slot : id \in pcb[Proc(td)].hnd}, ent, [pcb EXCEPT ![Proc(td)].hnd = {}])
    /\ Goto(td, "exit_notify")
    /\ UNCHANGED <<next_pid, thr, cpuVars, lost, fate>>

\* process_get: the slot of a pid whose entity is ACTIVE.
ProcessGet(pid) == {s \in Slots : pid # 0 /\ pcb[s].pid = pid /\ ent[s].active}

\* Mutant: the channel is the process that exits, not its parent.
ExitNotify_Self(td) ==
    /\ At(td, "exit_notify")
    /\ LET woken == {w \in Threads : thr[w].state = "SLEEPING" /\ Proc(w) = Proc(td)}
       IN  thr' = [w \in Threads |-> IF w \in woken THEN [thr[w] EXCEPT !.state = "RUNNABLE"]
                                     ELSE thr[w]]
    /\ Goto(td, "exit_orphans")
    /\ UNCHANGED <<pcb, ent, next_pid, pending, cpuVars, lost, fate>>

\* process_notify_parent: proc_wakeup of the threads that sleep on the parent.
ExitNotify(td) ==
    /\ At(td, "exit_notify")
    /\ LET woken == {w \in Threads : /\ thr[w].state = "SLEEPING"
                                     /\ Proc(w) \in ProcessGet(pcb[Proc(td)].ppid)}
       IN  thr' = [w \in Threads |-> IF w \in woken THEN [thr[w] EXCEPT !.state = "RUNNABLE"]
                                     ELSE thr[w]]
    /\ Goto(td, "exit_orphans")
    /\ UNCHANGED <<pcb, ent, next_pid, pending, cpuVars, lost, fate>>

\* The children that are left go to init.
ExitOrphans(td) ==
    /\ At(td, "exit_orphans")
    /\ pcb' = [s \in Slots |-> IF pcb[s].pid # 0 /\ pcb[s].ppid = pcb[Proc(td)].pid
                               THEN [pcb[s] EXCEPT !.ppid = 1] ELSE pcb[s]]
    /\ Goto(td, "exit_children")
    /\ UNCHANGED <<ent, next_pid, pending, thr, cpuVars, lost, fate>>

\* Mutant: the records of the children are left to process_reap.
ExitChildren_None(td) ==
    /\ At(td, "exit_children")
    /\ Goto(td, "exit_destroy")
    /\ UNCHANGED <<pcb, ent, pending, next_pid, thr, cpuVars, lost, fate>>

\* process_records_release_children
ExitChildren(td) ==
    /\ At(td, "exit_children")
    /\ Consume(Children(Me(td)))
    /\ Goto(td, "exit_destroy")
    /\ UNCHANGED <<next_pid, thr, cpuVars, lost, fate>>

\* entity_destroy of the process; its thread then yields for ever.
ExitDestroy(td) ==
    /\ At(td, "exit_destroy")
    /\ Release({Proc(td)}, [ent EXCEPT ![Proc(td)].active = FALSE], pcb)
    /\ Goto(td, "exited")
    /\ UNCHANGED <<next_pid, thr, cpuVars, lost, fate>>

-----------------------------------------------------------------------------
(* scheduler_switch and process_reap on CPU c *)

Ready == {td \in Threads : thr[td].state = "RUNNABLE" /\ thr[td].cpu = NULL}
Load(c, td, t) == /\ cur' = [cur EXCEPT ![c] = td]
                  /\ thr' = [t EXCEPT ![td].cpu = c]

\* The first thread of a CPU.
SwitchBoot(c) ==
    /\ cur[c] = NULL
    /\ \E td \in Ready : Load(c, td, thr)
    /\ UNCHANGED <<pcb, ent, next_pid, pending, tpc, loc, cpc, scan, sched_spin, lost, fate>>

\* A sleeping thread gives its CPU away.
SwitchSleep(c) ==
    /\ cur[c] # NULL /\ cpc[c] = "run" /\ sched_spin = NULL
    /\ thr[cur[c]].state = "SLEEPING"
    /\ \E td \in Ready : Load(c, td, [thr EXCEPT ![cur[c]].cpu = NULL])
    /\ UNCHANGED <<pcb, ent, next_pid, pending, tpc, loc, cpc, scan, sched_spin, lost, fate>>

\* A tick in user mode, or the yield of a thread that is dead: threads that died
\* on this CPU leave it, unless current; then process_reap.
Switch(c) ==
    /\ cur[c] # NULL /\ cpc[c] = "run" /\ sched_spin = NULL
    /\ At(cur[c], "user") \/ At(cur[c], "exited")
    /\ LET retired == {td \in Threads : /\ thr[td].state = "TERMINATED"
                                        /\ thr[td].cpu = c /\ td # cur[c]}
           apc == retired # {} /\ thr[cur[c]].state # "TERMINATED" /\ pending # 0
       IN  thr' = [td \in Threads |->
                     IF td \in retired THEN [thr[td] EXCEPT !.cpu = NULL]
                     ELSE IF td = cur[c] THEN [thr[td] EXCEPT !.apc = @ \/ apc] ELSE thr[td]]
    /\ sched_spin' = c
    /\ cpc' = [cpc EXCEPT ![c] = IF pending = 0 THEN "pick" ELSE "reap"]
    /\ scan' = [scan EXCEPT ![c] = 1]
    /\ UNCHANGED <<pcb, ent, next_pid, pending, tpc, loc, cur, lost, fate>>

\* scheduler_reap_apc, on the way back to user mode and without sched_spin.
ReapApc(c) ==
    /\ cur[c] # NULL /\ At(cur[c], "user") /\ thr[cur[c]].apc
    /\ thr' = [thr EXCEPT ![cur[c]].apc = FALSE]
    /\ cpc' = [cpc EXCEPT ![c] = IF pending = 0 THEN "run" ELSE "reap"]
    /\ scan' = [scan EXCEPT ![c] = 1]
    /\ UNCHANGED <<pcb, ent, next_pid, pending, tpc, loc, cur, sched_spin, lost, fate>>

Busy(s) == \E td \in pcb[s].threads : thr[td].cpu # NULL
ReapNext(c) ==
    /\ scan' = [scan EXCEPT ![c] = @ + 1]
    /\ cpc' = [cpc EXCEPT ![c] = IF scan[c] < MAX_PROCESSES THEN "reap"
                                 ELSE IF sched_spin = c THEN "pick" ELSE "run"]

\* Mutant: process_reap always consumes the record.
Retain_Never(s) == FALSE

\* Whether the record is kept for the parent to collect.
Retain(s) == Active(ent[s].parent) /\ ~ent[s].notify

\* One slot of process_reap: once none of its threads is on a CPU they are
\* destroyed, and the record is consumed unless it is kept.
ReapSlot(c) ==
    /\ cpc[c] = "reap"
    /\ LET s == scan[c]
           idle == [pcb EXCEPT ![s].reapable = FALSE, ![s].threads = {}]
       IN  IF pcb[s].pid = 0 \/ ~pcb[s].reapable \/ Busy(s)
           THEN UNCHANGED <<pcb, ent, pending, thr, tpc>>
           ELSE /\ thr' = [td \in Threads |-> IF td \in pcb[s].threads THEN NoThread ELSE thr[td]]
                /\ tpc' = [td \in Threads |-> IF td \in pcb[s].threads THEN "user" ELSE tpc[td]]
                /\ PendingBecomes(pending - 1)
                /\ IF Retain(s) \/ ent[s].reaped
                   THEN pcb' = idle /\ UNCHANGED ent
                   ELSE LET e == [ent EXCEPT ![s].reaped = TRUE]
                        IN  /\ ent' = [e EXCEPT ![s] = IF @.refs = 1 THEN [NoEnt EXCEPT !.gen = e[s].gen]
                                                       ELSE [@ EXCEPT !.refs = @ - 1]]
                            /\ pcb' = [idle EXCEPT ![s] = IF ent[s].refs = 1 THEN NoPcb ELSE @]
    /\ ReapNext(c)
    /\ UNCHANGED <<next_pid, loc, cur, sched_spin, lost, fate>>

\* The next thread of CPU c: another one that is ready, else the current.  A dead
\* thread stays bound to its CPU until the next switch there.
SwitchPick(c) ==
    /\ cpc[c] = "pick"
    /\ LET td == cur[c]
           left == IF thr[td].state = "TERMINATED" THEN thr ELSE [thr EXCEPT ![td].cpu = NULL]
       IN  IF Ready = {} THEN UNCHANGED <<cur, thr>> ELSE \E n \in Ready : Load(c, n, left)
    /\ cpc' = [cpc EXCEPT ![c] = "run"]
    /\ sched_spin' = NULL
    /\ UNCHANGED <<pcb, ent, next_pid, pending, tpc, loc, scan, lost, fate>>

-----------------------------------------------------------------------------

Call(td) ==
    \/ Spawn(td) \/ TryWait(td) \/ WaitCall(td)
    \/ \E s \in Slots : Open(td, s)
    \/ \E id \in pcb[Proc(td)].hnd :
         Close(td, id) \/ Notify(td, id) \/ ExitCode(td, id) \/ WaithCall(td, id)

\* Steps of a call in progress; they need no further decision of the program.
Continue(td) ==
    \/ Wait(td) \/ Waith(td) \/ Sleep(td)
    \/ ExitDead(td) \/ ExitTeardown(td) \/ ExitNotify(td) \/ ExitOrphans(td)
    \/ ExitChildren(td) \/ ExitDestroy(td)

Schedule(c) ==
    \/ SwitchBoot(c) \/ SwitchSleep(c) \/ Switch(c) \/ ReapApc(c) \/ ReapSlot(c) \/ SwitchPick(c)

Next ==
    \/ \E td \in Threads : thr[td].proc # NULL /\ (Call(td) \/ Exit(td) \/ Continue(td))
    \/ \E c \in Cpus : Schedule(c)

Spec == Init /\ [][Next]_vars

\* Calls in progress go on, a program that keeps calling is interrupted in user
\* mode by some tick, and the round robin of pick_next_thread
\* gives every ready thread its turn; programs need not call anything.
FairSpec ==
    /\ Spec
    /\ \A td \in Threads : WF_vars(thr[td].proc # NULL /\ Continue(td))
    /\ \A c \in Cpus : WF_vars(Schedule(c)) /\ SF_vars(Switch(c))
    /\ \A c \in Cpus, td \in Threads :
         SF_vars(SwitchPick(c) /\ cur'[c] = td) /\ SF_vars(SwitchSleep(c) /\ cur'[c] = td)

-----------------------------------------------------------------------------
(* Properties *)

\* Every variable has its type.
TypeOK ==
    /\ \A s \in Slots : /\ pcb[s].pid \in 0 .. MaxPid /\ pcb[s].ppid \in 0 .. MaxPid
                        /\ pcb[s].threads \subseteq Threads
                        /\ \A id \in pcb[s].hnd : Valid(id)
                        /\ ent[s].refs \in Nat /\ (ent[s].used <=> ent[s].refs > 0)
                        /\ ent[s].used <=> pcb[s].pid # 0
    /\ \A td \in Threads : /\ thr[td].proc \in Slots \cup {NULL}
                           /\ thr[td].cpu \in Cpus \cup {NULL}
                           /\ loc[td].pass \in 0 .. PROC_WAIT_PASSES
    /\ pending \in 0 .. MAX_PROCESSES /\ next_pid \in 2 .. MaxPid + 1

\* Every variable has its type, and the references of a process entity are those of its creation (dropped by
\* process_exit), of its record (dropped by whoever consumes that, process_reap or
\* the exit of the parent), and of the handles on it, those lost included: no
\* order of exit, wait, reap and close drops one twice or forgets it.
RefsCounted ==
    /\ TypeOK
    /\ \A s \in UsedSlots :
           ent[s].refs = (IF ent[s].active THEN 1 ELSE 0) + (IF ent[s].reaped THEN 0 ELSE 1)
                         + Cardinality({p \in Slots : IdAt(s) \in pcb[p].hnd}) + lost[s]

\* The status of a process that has exited stays where process_record_find_child
\* finds it as long as its parent runs and nobody has taken it or asked to be
\* notified instead.
StatusKept ==
    \A p \in Pids :
        fate[p].is = "exited" /\ Active(fate[p].parent) /\ ~ent[fate[p].parent.slot].exited =>
            \E s \in Children(fate[p].parent) : pcb[s].pid = p

\* On one CPU: a thread asleep in api_proc_wait has no child to collect, unless
\* that child is still on its way to process_notify_parent.
NoLostChild ==
    \A td \in Threads :
        thr[td].state = "SLEEPING" /\ tpc[td] = "wait" =>
            \A s \in Children(Me(td)) :
                \E k \in pcb[s].threads : tpc[k] \in {"exit_dead", "exit_teardown", "exit_notify"}

\* On one CPU process_reapable_pending counts the slots that wait for
\* process_reap, also when process_release_hook clears one of them first.
PendingCounted == pending = Cardinality({s \in Slots : pcb[s].reapable})

\* A process that has exited and whose parent has too gives its slot back: nobody
\* is left to collect it.  process_reap runs from ticks of running programs only,
\* so this needs one that is not for ever asleep.
OrphanFreed ==
    []<>(\E td \in Threads : At(td, "user")) =>
        \A s \in Slots :
            (ent[s].used /\ ent[s].exited /\ ~Active(ent[s].parent))
                ~> ~(ent[s].used /\ ent[s].exited /\ ~Active(ent[s].parent))

\* A thread in api_proc_wait whose process has a child to collect returns.
WaitReturns ==
    \A td \in Threads :
        (thr[td].proc # NULL /\ tpc[td] = "wait" /\ Children(Me(td)) # {}) ~> tpc[td] # "wait"

\* thread_list is what process.h says of it, the list of all threads of the
\* process: process_reap finds every thread there that it has to destroy.
ThreadListed ==
    \A td \in Threads : thr[td].proc # NULL => td \in pcb[thr[td].proc].threads
=============================================================================
