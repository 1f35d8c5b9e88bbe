------------------------------- MODULE Scheduler -------------------------------
(***************************************************************************)
(* Threads and their dispatch on one or more CPUs (scheduler.c, thread.c,  *)
(* the thread side of process_exit and process_reap in process.c).         *)
(*                                                                         *)
(* A section under thread_spin is one step: it interleaves only with the   *)
(* unlocked stores that a running thread makes to its own slot.  sched_spin *)
(* is held over several steps of scheduler_switch.  The window between the *)
(* end of the locked section and the return from the interrupt, in which a *)
(* CPU still executes on the kernel stack of the thread it has just        *)
(* switched away from, is the label "load".                                *)
(***************************************************************************)
EXTENDS Integers, FiniteSets, FiniteSetsExt

CONSTANTS NCPU,          \* CPUs that schedule (smp_sched_cpu_count)
          MAX_THREADS,   \* slots of thread_table
          NPROC,         \* processes; process p starts with the thread in slot p
          Policy,        \* "strict", "smart" or "free": the Scheduler hive keys
          Threshold,     \* MigrationThreshold
          Joinable,      \* bound: the slots that thread_join is called for
          NULL

ASSUME SchedulerAssumption ==
    /\ NCPU \in Nat \ {0}
    /\ NPROC \in 1 .. MAX_THREADS /\ MAX_THREADS \in Nat
    /\ Policy \in {"strict", "smart", "free"}
    /\ Threshold \in Nat
    /\ Joinable \subseteq 0 .. MAX_THREADS - 1
    /\ NULL \notin Int

Cpus == 0 .. NCPU - 1
Threads == 0 .. MAX_THREADS - 1
Procs == 0 .. NPROC - 1

VARIABLES
    used, state, running_cpu,            \* thread_t
    wait_channel,   \* thread_t; a thread joined, EVENT (any other) or NULL
    owner,          \* thread_t.proc
    tpc,            \* tpc[td]: where the thread is in its own code
    apc,            \* apc[td]: scheduler_reap_apc is queued on the thread
    cur_thread, last_cpu, reapable,      \* process_t
    torn,           \* process_t.resources_released: address space destroyed
    dead_pending,   \* thread_dead_pending
    reap_pending,   \* process_reapable_pending
    sched_spin,     \* CPU that holds sched_spin, or NULL
    current,        \* smp_cpu_map[c].current_thread
    stack,          \* thread whose kernel stack CPU c executes on
    pc,             \* where CPU c is in scheduler_switch; "run" outside it
    target,         \* local of CPU c: the thread or process it works on
    join,           \* join[td]: the slot that the local td of thread_join points to, or NULL
    stale           \* threads whose join slot was destroyed after they took the pointer:
                    \* the slot is free or holds another thread than the one joined

EVENT == MAX_THREADS
joinVars == <<join, stale>>
threadVars == <<used, state, running_cpu, wait_channel, owner, tpc, apc, join, stale>>
procVars == <<cur_thread, last_cpu, reapable, torn, reap_pending>>
cpuVars == <<current, stack, pc, target>>
vars == <<used, state, running_cpu, wait_channel, owner, tpc, apc, cur_thread, last_cpu, reapable,
          torn, reap_pending, dead_pending, sched_spin, current, stack, pc, target, join, stale>>

Init ==
    /\ used = [td \in Threads |-> td \in Procs]
    /\ state = [td \in Threads |-> IF td \in Procs THEN "RUNNABLE" ELSE "UNUSED"]
    /\ running_cpu = [td \in Threads |-> -1]
    /\ wait_channel = [td \in Threads |-> NULL]
    /\ owner = [td \in Threads |-> IF td \in Procs THEN td ELSE NULL]
    /\ tpc = [td \in Threads |-> "user"]
    /\ apc = [td \in Threads |-> FALSE]
    /\ cur_thread = [p \in Procs |-> NULL]
    /\ last_cpu = [p \in Procs |-> -1]
    /\ reapable = [p \in Procs |-> FALSE]
    /\ torn = [p \in Procs |-> FALSE]
    /\ dead_pending = 0
    /\ reap_pending = 0
    /\ sched_spin = NULL
    /\ current = [c \in Cpus |-> NULL]
    /\ stack = [c \in Cpus |-> NULL]
    /\ pc = [c \in Cpus |-> "run"]
    /\ target = [c \in Cpus |-> NULL]
    /\ join = [td \in Threads |-> NULL]
    /\ stale = {}

Goto(c, label) == pc' = [pc EXCEPT ![c] = label]
TGoto(td, label) == tpc' = [tpc EXCEPT ![td] = label]
ThreadsOf(p) == {td \in Threads : used[td] /\ owner[td] = p}

-----------------------------------------------------------------------------
(* Choosing a thread; st and rc are the state and running_cpu fields *)

\* scheduler_assign_process; -1 when any CPU will do.
PreferredCpu(p) == IF Policy = "free" THEN -1 ELSE p % NCPU

\* scheduler_load_snapshot
Load(cpu, st, rc) ==
    LET alive == {td \in Threads : used[td] /\ st[td] \notin {"TERMINATED", "UNUSED"}}
    IN  Cardinality({td \in alive : PreferredCpu(owner[td]) = cpu})
        + Cardinality({td \in alive : rc[td] = cpu /\ PreferredCpu(owner[td]) # cpu})

\* scheduler_thread_can_run_on
CanRunOn(td, cpu, st, rc) ==
    LET p == owner[td]
    IN  /\ rc[td] < 0 \/ rc[td] = cpu
        /\ \/ PreferredCpu(p) < 0
           \/ Policy = "strict" /\ PreferredCpu(p) = cpu
           \/ /\ Policy = "smart"
              /\ \/ last_cpu[p] = cpu \/ PreferredCpu(p) = cpu
                 \/ Load(cpu, st, rc) + Threshold < Load(PreferredCpu(p), st, rc)

\* The first candidate after slot cur, in the order of the table; cur if none.
FirstAfter(cur, cands) ==
    LET start == IF cur = NULL THEN 0 ELSE cur + 1
        steps == {i \in 0 .. MAX_THREADS - 1 : (start + i) % MAX_THREADS \in cands}
    IN  IF steps = {} THEN cur ELSE (start + Min(steps)) % MAX_THREADS

\* pick_next_thread
PickNext(c, cur, st, rc) ==
    FirstAfter(cur, {td \in Threads :
        used[td] /\ st[td] = "RUNNABLE" /\ CanRunOn(td, c, st, rc)})

\* pick_any_runnable_thread: for a dead current thread, without the policy.
PickAny(c, cur, st, rc) ==
    FirstAfter(cur, {td \in Threads :
        used[td] /\ st[td] = "RUNNABLE" /\ (rc[td] < 0 \/ rc[td] = c)})

\* thread_set_current, at the end of a locked section.
SetCurrent(c, td, st, rc) ==
    /\ current' = [current EXCEPT ![c] = td]
    /\ state' = [st EXCEPT ![td] = "RUNNING"]
    /\ running_cpu' = [rc EXCEPT ![td] = c]
    /\ cur_thread' = [cur_thread EXCEPT ![owner[td]] = td]
    /\ last_cpu' = [last_cpu EXCEPT ![owner[td]] = c]
    /\ Goto(c, "load")

-----------------------------------------------------------------------------
(* scheduler_switch *)

\* Interrupts are off in the kernel, so a switch starts from user mode, from the
\* loops of proc_sleep_wait, thread_join and process_exit that yield, or on a CPU
\* without a thread.
Interruptible(c) ==
    /\ pc[c] = "run"
    /\ LET cur == current[c]
       IN  cur # NULL => \/ tpc[cur] \in {"user", "sleep_wait", "dying"}
                         \/ tpc[cur] = "join_wait" /\ running_cpu[join[cur]] >= 0

\* The state of the current thread is read before any lock is taken.
SwitchEnter(c) ==
    /\ Interruptible(c)
    /\ Goto(c, IF current[c] = NULL THEN "boot"
               ELSE IF state[current[c]] = "SLEEPING" THEN "sleep" ELSE "retire")
    /\ UNCHANGED <<threadVars, procVars, dead_pending, sched_spin, current, stack, target>>

\* A CPU without a thread takes one, or stays idle.
SwitchBoot(c) ==
    /\ pc[c] = "boot"
    /\ sched_spin = NULL
    /\ LET next == PickNext(c, NULL, state, running_cpu)
       IN  IF next = NULL
           THEN Goto(c, "run") /\ UNCHANGED <<threadVars, procVars, current>>
           ELSE SetCurrent(c, next, state, running_cpu)
                /\ UNCHANGED <<used, wait_channel, joinVars, owner, tpc, apc, reapable, torn, reap_pending>>
    /\ UNCHANGED <<dead_pending, sched_spin, stack, target>>

\* A sleeping thread gives the CPU away if there is another thread to run.
SwitchSleep(c) ==
    /\ pc[c] = "sleep"
    /\ sched_spin = NULL
    /\ LET cur == current[c]
           rc == [running_cpu EXCEPT ![cur] = -1]
           next == PickNext(c, cur, state, rc)
       IN  IF next = cur
           THEN Goto(c, "run") /\ running_cpu' = [running_cpu EXCEPT ![cur] = c]
                /\ UNCHANGED <<state, cur_thread, last_cpu, current>>
           ELSE SetCurrent(c, next, state, rc)
    /\ UNCHANGED <<used, wait_channel, joinVars, owner, tpc, apc, reapable, torn, reap_pending, dead_pending,
                   sched_spin, stack, target>>

\* Mutant: the current thread is retired too.
SwitchRetire_Current(c) ==
    /\ pc[c] = "retire"
    /\ sched_spin = NULL
    /\ sched_spin' = c
    /\ LET dead == IF dead_pending = 0 THEN {}
                   ELSE {td \in Threads : used[td] /\ state[td] = "TERMINATED"
                                          /\ running_cpu[td] = c}
       IN  /\ running_cpu' = [td \in Threads |-> IF td \in dead THEN -1 ELSE running_cpu[td]]
           /\ dead_pending' = Max({0, dead_pending - Cardinality(dead)})
           /\ apc' = IF dead # {} /\ state[current[c]] # "TERMINATED" /\ reap_pending # 0
                     THEN [apc EXCEPT ![current[c]] = TRUE] ELSE apc
    /\ target' = [target EXCEPT ![c] = 0]
    /\ Goto(c, "reap")
    /\ UNCHANGED <<used, state, wait_channel, joinVars, owner, tpc, procVars, current, stack>>

\* Mutant: dead threads are looked for on the other CPUs.
SwitchRetire_Elsewhere(c) ==
    /\ pc[c] = "retire"
    /\ sched_spin = NULL
    /\ sched_spin' = c
    /\ LET dead == IF dead_pending = 0 THEN {}
                   ELSE {td \in Threads : used[td] /\ td # current[c] /\ running_cpu[td] >= 0
                                          /\ state[td] = "TERMINATED" /\ running_cpu[td] # c}
       IN  /\ running_cpu' = [td \in Threads |-> IF td \in dead THEN -1 ELSE running_cpu[td]]
           /\ dead_pending' = Max({0, dead_pending - Cardinality(dead)})
    /\ target' = [target EXCEPT ![c] = 0]
    /\ Goto(c, "reap")
    /\ UNCHANGED <<used, state, wait_channel, joinVars, owner, tpc, apc, procVars, current, stack>>

\* Under sched_spin: scheduler_retire_dead takes dead threads other than the
\* current one off this CPU, and asks the current thread to reap.
SwitchRetire(c) ==
    /\ pc[c] = "retire"
    /\ sched_spin = NULL
    /\ sched_spin' = c
    /\ LET dead == IF dead_pending = 0 THEN {}
                   ELSE {td \in Threads : used[td] /\ td # current[c]
                                          /\ state[td] = "TERMINATED" /\ running_cpu[td] = c}
       IN  /\ running_cpu' = [td \in Threads |-> IF td \in dead THEN -1 ELSE running_cpu[td]]
           /\ dead_pending' = Max({0, dead_pending - Cardinality(dead)})
           /\ apc' = IF dead # {} /\ state[current[c]] # "TERMINATED" /\ reap_pending # 0
                     THEN [apc EXCEPT ![current[c]] = TRUE] ELSE apc
    /\ target' = [target EXCEPT ![c] = 0]
    /\ Goto(c, "reap")
    /\ UNCHANGED <<used, state, wait_channel, joinVars, owner, tpc, procVars, current, stack>>

\* scheduler_user_return_work delivers the queued scheduler_reap_apc, which
\* calls process_reap without sched_spin.
ReapApc(c) ==
    /\ Interruptible(c)
    /\ current[c] # NULL
    /\ tpc[current[c]] = "user" /\ state[current[c]] # "TERMINATED" /\ apc[current[c]]
    /\ apc' = [apc EXCEPT ![current[c]] = FALSE]
    /\ target' = [target EXCEPT ![c] = 0]
    /\ Goto(c, "reap")
    /\ UNCHANGED <<used, state, running_cpu, wait_channel, joinVars, owner, tpc, procVars, dead_pending,
                   sched_spin, current, stack>>

\* process_reap looks at process target[c]: it is not reapable, some thread of
\* it is still on a CPU, or its resources are released and its threads go next.
SwitchReap(c) ==
    /\ pc[c] = "reap"
    /\ \/ /\ target[c] = NPROC \/ (target[c] = 0 /\ reap_pending = 0)
          /\ Goto(c, IF sched_spin = c THEN "pick" ELSE "run")
          /\ target' = [target EXCEPT ![c] = NULL]
          /\ UNCHANGED torn
       \/ /\ target[c] \in Procs /\ ~(target[c] = 0 /\ reap_pending = 0)
          /\ LET p == target[c]
                 busy == \E td \in ThreadsOf(p) : running_cpu[td] >= 0
             IN  IF reapable[p] /\ ~busy
                 THEN Goto(c, "destroy") /\ torn' = [torn EXCEPT ![p] = TRUE]
                      /\ UNCHANGED target
                 ELSE target' = [target EXCEPT ![c] = p + 1] /\ UNCHANGED <<pc, torn>>
    /\ UNCHANGED <<threadVars, cur_thread, last_cpu, reapable, reap_pending, dead_pending,
                   sched_spin, current, stack>>

\* thread_destroy of a set of threads: one that is on a CPU is left alone, whatever
\* its state.  A thread_join that points to the slot is not told, except for those
\* of the threads in done, which return.
ThreadDestroy(c, tds, done) ==
    LET gone == {td \in tds : used[td] /\ running_cpu[td] < 0 /\ td # current[c]}
    IN  /\ used' = [td \in Threads |-> used[td] /\ td \notin gone]
        /\ state' = [td \in Threads |-> IF td \in gone THEN "UNUSED" ELSE state[td]]
        /\ owner' = [td \in Threads |-> IF td \in gone THEN NULL ELSE owner[td]]
        /\ wait_channel' = [td \in Threads |-> IF td \in gone THEN NULL ELSE wait_channel[td]]
        /\ apc' = [td \in Threads |-> apc[td] /\ td \notin gone]
        /\ tpc' = [td \in Threads |-> IF td \in gone \cup done THEN "user" ELSE tpc[td]]
        /\ join' = [td \in Threads |-> IF td \in gone \cup done THEN NULL ELSE join[td]]
        /\ stale' = (stale \cup {td \in Threads : join[td] \in gone}) \ (gone \cup done)

\* Mutant: reapable is not reset.
SwitchDestroy_StaysReapable(c) ==
    /\ pc[c] = "destroy"
    /\ LET p == target[c]
       IN  /\ ThreadDestroy(c, ThreadsOf(p), {})
           /\ reap_pending' = Max({0, reap_pending - 1})
           /\ cur_thread' = [cur_thread EXCEPT ![p] = NULL]
           /\ target' = [target EXCEPT ![c] = p + 1]
    /\ Goto(c, "reap")
    /\ UNCHANGED <<running_cpu, last_cpu, reapable, torn, dead_pending, sched_spin, current,
                   stack>>

\* The rest of process_reap for one process; thread_list is dropped.
SwitchDestroy(c) ==
    /\ pc[c] = "destroy"
    /\ LET p == target[c]
       IN  /\ ThreadDestroy(c, ThreadsOf(p), {})
           /\ reapable' = [reapable EXCEPT ![p] = FALSE]
           /\ reap_pending' = Max({0, reap_pending - 1})
           /\ cur_thread' = [cur_thread EXCEPT ![p] = NULL]
           /\ target' = [target EXCEPT ![c] = p + 1]
    /\ Goto(c, "reap")
    /\ UNCHANGED <<running_cpu, last_cpu, torn, dead_pending, sched_spin, current, stack>>

\* The current thread goes back to the queue, a dead one stays bound to the CPU
\* until it is retired; the next thread is chosen and sched_spin released.
SwitchPick(c) ==
    /\ pc[c] = "pick"
    /\ LET cur == current[c]
           st == IF state[cur] = "RUNNING" THEN [state EXCEPT ![cur] = "RUNNABLE"] ELSE state
           rc == IF st[cur] = "TERMINATED" THEN running_cpu ELSE [running_cpu EXCEPT ![cur] = -1]
           next == PickNext(c, cur, st, rc)
           chosen == IF next = cur /\ st[cur] = "TERMINATED"
                     THEN PickAny(c, cur, st, rc) ELSE next
       IN  IF chosen = cur
           THEN /\ state' = IF st[cur] = "TERMINATED" THEN st ELSE [st EXCEPT ![cur] = "RUNNING"]
                /\ running_cpu' = [rc EXCEPT ![cur] = c]
                /\ Goto(c, "run")
                /\ UNCHANGED <<current, cur_thread, last_cpu>>
           ELSE SetCurrent(c, chosen, st, rc)
    /\ sched_spin' = NULL
    /\ UNCHANGED <<used, wait_channel, joinVars, owner, tpc, apc, reapable, torn, reap_pending, dead_pending,
                   stack, target>>

\* thread_load_context and the return from the interrupt: only now does the CPU
\* leave the kernel stack of the thread it ran before.
SwitchLoad(c) ==
    /\ pc[c] = "load"
    /\ stack' = [stack EXCEPT ![c] = current[c]]
    /\ Goto(c, "run")
    /\ UNCHANGED <<threadVars, procVars, dead_pending, sched_spin, current, target>>

Switch(c) ==
    \/ SwitchEnter(c) \/ SwitchBoot(c) \/ SwitchSleep(c) \/ SwitchRetire(c)
    \/ ReapApc(c) \/ SwitchReap(c) \/ SwitchDestroy(c) \/ SwitchPick(c) \/ SwitchLoad(c)

-----------------------------------------------------------------------------
(* What a running thread does in system calls.  cur is the current thread. *)

\* Thread cur executes its own code on CPU c at label l.
At(c, cur, l) == pc[c] = "run" /\ current[c] = cur /\ cur # NULL /\ tpc[cur] = l

\* Everything but the fields of threads is unchanged.
OnlyThreads == UNCHANGED <<procVars, dead_pending, sched_spin, current, stack, pc, target>>

\* proc_sleep: publish the channel, then SLEEPING, then wait for it to clear,
\* then RUNNING; none of these stores is made under thread_spin.
SleepOn(cur, channel) ==
    /\ wait_channel' = [wait_channel EXCEPT ![cur] = channel]
    /\ TGoto(cur, "sleep_state")
    /\ UNCHANGED <<used, state, running_cpu, owner, apc, joinVars>> /\ OnlyThreads

SleepChannel(c, cur) == At(c, cur, "user") /\ SleepOn(cur, EVENT)

SleepState(c, cur) ==
    /\ At(c, cur, "sleep_state")
    /\ state' = [state EXCEPT ![cur] = "SLEEPING"]
    /\ TGoto(cur, "sleep_wait")
    /\ UNCHANGED <<used, running_cpu, wait_channel, joinVars, owner, apc>> /\ OnlyThreads

SleepWake(c, cur) ==
    /\ At(c, cur, "sleep_wait")
    /\ wait_channel[cur] = NULL
    /\ state' = [state EXCEPT ![cur] = "RUNNING"]
    /\ TGoto(cur, IF join[cur] = NULL THEN "user" ELSE "join_test")
    /\ UNCHANGED <<used, running_cpu, wait_channel, joinVars, owner, apc>> /\ OnlyThreads

\* Mutant: the state of the sleeper is not tested.
SetRunnable_AnyState(tds) ==
    LET woken == {td \in tds : used[td] /\ wait_channel[td] # NULL}
    IN  /\ state' = [td \in Threads |-> IF td \in woken THEN "RUNNABLE" ELSE state[td]]
        /\ wait_channel' = [td \in Threads |-> IF td \in woken THEN NULL ELSE wait_channel[td]]

\* The sleepers among tds become RUNNABLE and lose their channel, under thread_spin.
SetRunnable(tds) ==
    LET woken == {td \in tds : used[td] /\ state[td] = "SLEEPING" /\ wait_channel[td] # NULL}
    IN  /\ state' = [td \in Threads |-> IF td \in woken THEN "RUNNABLE" ELSE state[td]]
        /\ wait_channel' = [td \in Threads |-> IF td \in woken THEN NULL ELSE wait_channel[td]]

\* The threads that sleep, or are about to, on a channel.
On(channel) == {td \in Threads : wait_channel[td] = channel}

\* proc_wakeup_one of another channel, or a signal or an APC for a thread that
\* sleeps on any channel.
Wakeup(c, cur, td) ==
    /\ At(c, cur, "user")
    /\ wait_channel[td] # NULL
    /\ SetRunnable({td})
    /\ UNCHANGED <<used, running_cpu, owner, tpc, apc, joinVars>> /\ OnlyThreads

\* thread_create: the new thread is linked, and only then made RUNNABLE without
\* a lock.
CloneLink(c, cur, td) ==
    /\ At(c, cur, "user")
    /\ ~used[td]
    /\ used' = [used EXCEPT ![td] = TRUE]
    /\ state' = [state EXCEPT ![td] = "EMBRYO"]
    /\ running_cpu' = [running_cpu EXCEPT ![td] = -1]
    /\ owner' = [owner EXCEPT ![td] = owner[cur]]
    /\ tpc' = [tpc EXCEPT ![cur] = "clone", ![td] = "user"]
    /\ target' = [target EXCEPT ![c] = td]
    /\ UNCHANGED <<wait_channel, joinVars, apc, procVars, dead_pending, sched_spin, current,
                   stack, pc>>

CloneReady(c, cur) ==
    /\ At(c, cur, "clone")
    /\ state' = [state EXCEPT ![target[c]] = "RUNNABLE"]
    /\ TGoto(cur, "user")
    /\ target' = [target EXCEPT ![c] = NULL]
    /\ UNCHANGED <<used, running_cpu, wait_channel, joinVars, owner, apc, procVars, dead_pending, sched_spin,
                   current, stack, pc>>

\* thread_join returns.
JoinReturn(cur) ==
    /\ join' = [join EXCEPT ![cur] = NULL]
    /\ stale' = stale \ {cur}
    /\ TGoto(cur, "user")

\* thread_join finds the slot of any other thread: the pointer is kept without a
\* reference, over every sleep and every yield that follows.
JoinCall(c, cur, td) ==
    /\ At(c, cur, "user")
    /\ td # cur /\ used[td] /\ td \in Joinable
    /\ join' = [join EXCEPT ![cur] = td]
    /\ TGoto(cur, "join_test")
    /\ UNCHANGED <<used, state, running_cpu, wait_channel, owner, apc, stale>> /\ OnlyThreads

\* The joiner sleeps while the slot is alive, at most THREAD_JOIN_SPINS times.
JoinTest(c, cur) ==
    /\ At(c, cur, "join_test")
    /\ \/ TGoto(cur, "join_state")
       \/ state[join[cur]] \notin {"TERMINATED", "UNUSED"} /\ TGoto(cur, "join_sleep")
    /\ UNCHANGED <<used, state, running_cpu, wait_channel, owner, apc, joinVars>> /\ OnlyThreads

JoinSleep(c, cur) == At(c, cur, "join_sleep") /\ SleepOn(cur, join[cur])

\* Mutant: a thread that is still alive is destroyed when the joiner gives up.
JoinState_Untested(c, cur) ==
    /\ At(c, cur, "join_state")
    /\ TGoto(cur, "join_wait")
    /\ UNCHANGED joinVars
    /\ UNCHANGED <<used, state, running_cpu, wait_channel, owner, apc>> /\ OnlyThreads

\* The state is read once more: only a dead thread is waited for.
JoinState(c, cur) ==
    /\ At(c, cur, "join_state")
    /\ IF state[join[cur]] = "TERMINATED"
       THEN TGoto(cur, "join_wait") /\ UNCHANGED joinVars
       ELSE JoinReturn(cur)
    /\ UNCHANGED <<used, state, running_cpu, wait_channel, owner, apc>> /\ OnlyThreads

\* The joiner yields (SwitchEnter) until the slot is off its CPU, at most
\* THREAD_JOIN_SPINS times; the state is not read again.
JoinWait(c, cur) ==
    /\ At(c, cur, "join_wait")
    /\ IF running_cpu[join[cur]] < 0
       THEN TGoto(cur, "join_destroy") /\ UNCHANGED joinVars
       ELSE JoinReturn(cur)
    /\ UNCHANGED <<used, state, running_cpu, wait_channel, owner, apc>> /\ OnlyThreads

JoinDestroy(c, cur) ==
    /\ At(c, cur, "join_destroy")
    /\ ThreadDestroy(c, {join[cur]}, {cur})
    /\ UNCHANGED running_cpu /\ OnlyThreads

-----------------------------------------------------------------------------
(* thread_exit and process_exit *)

\* thread_exit and process_exit bind themselves to this CPU, then thread_mark_dead
\* stores the state and then counts the dead thread, all without a lock.
ExitBind(c, cur, label) ==
    /\ running_cpu' = [running_cpu EXCEPT ![cur] = c]
    /\ TGoto(cur, label)
    /\ UNCHANGED <<used, state, wait_channel, owner, apc, joinVars>> /\ OnlyThreads

ThreadExit(c, cur) == At(c, cur, "user") /\ ExitBind(c, cur, "exit_dead")

MarkDead(c, cur) ==
    /\ At(c, cur, "exit_dead") \/ At(c, cur, "pexit_dead")
    /\ state' = [state EXCEPT ![cur] = "TERMINATED"]
    /\ TGoto(cur, IF tpc[cur] = "exit_dead" THEN "exit_add" ELSE "pexit_add")
    /\ UNCHANGED <<used, running_cpu, wait_channel, owner, apc, joinVars>> /\ OnlyThreads

\* Mutant: the dead thread is not counted.
CountDead_Uncounted(c, cur) ==
    /\ At(c, cur, "exit_add") \/ At(c, cur, "pexit_add")
    /\ TGoto(cur, IF tpc[cur] = "exit_add" THEN "exit_wake" ELSE "exit_reapable")
    /\ UNCHANGED <<used, state, running_cpu, wait_channel, owner, apc, joinVars>> /\ OnlyThreads

CountDead(c, cur) ==
    /\ At(c, cur, "exit_add") \/ At(c, cur, "pexit_add")
    /\ dead_pending' = IF running_cpu[cur] >= 0 THEN dead_pending + 1 ELSE dead_pending
    /\ TGoto(cur, IF tpc[cur] = "exit_add" THEN "exit_wake" ELSE "exit_reapable")
    /\ UNCHANGED <<used, state, running_cpu, wait_channel, owner, apc, joinVars, procVars,
                   sched_spin, current, stack, pc, target>>

\* Mutant: the joiners are not woken.
ExitWake_Nobody(c, cur) ==
    /\ At(c, cur, "exit_wake")
    /\ TGoto(cur, "exit_count")
    /\ UNCHANGED <<used, state, running_cpu, wait_channel, owner, apc, joinVars>> /\ OnlyThreads

\* "Wake up anyone joining this thread": proc_wakeup of the thread's own address.
ExitWake(c, cur) ==
    /\ At(c, cur, "exit_wake")
    /\ SetRunnable(On(cur))
    /\ TGoto(cur, "exit_count")
    /\ UNCHANGED <<used, running_cpu, owner, apc, joinVars>> /\ OnlyThreads

\* Mutant: every thread that exits releases the resources of the process.
ThreadExitCount_Always(c, cur) ==
    /\ At(c, cur, "exit_count")
    /\ TGoto(cur, "exit_teardown")
    /\ UNCHANGED <<used, state, running_cpu, wait_channel, joinVars, owner, apc>> /\ OnlyThreads

\* thread_count_alive: the last thread takes the process with it.
ThreadExitCount(c, cur) ==
    /\ At(c, cur, "exit_count")
    /\ TGoto(cur, IF \E td \in ThreadsOf(owner[cur]) : state[td] # "TERMINATED"
                  THEN "dying" ELSE "exit_kill")
    /\ UNCHANGED <<used, state, running_cpu, wait_channel, joinVars, owner, apc>> /\ OnlyThreads

ProcessExit(c, cur) ==
    /\ At(c, cur, "user")
    /\ TGoto(cur, "exit_kill")
    /\ UNCHANGED <<used, state, running_cpu, wait_channel, joinVars, owner, apc>> /\ OnlyThreads

\* thread_kill_all: every thread of the process but proc->cur_thread.
ExitKillAll(c, cur) ==
    /\ At(c, cur, "exit_kill")
    /\ LET victims == ThreadsOf(owner[cur]) \ {cur_thread[owner[cur]]}
       IN  /\ state' = [td \in Threads |-> IF td \in victims THEN "TERMINATED" ELSE state[td]]
           /\ dead_pending' = dead_pending
                  + Cardinality({td \in victims : running_cpu[td] >= 0})
    /\ TGoto(cur, "exit_mark")
    /\ UNCHANGED <<used, running_cpu, wait_channel, joinVars, owner, apc, procVars, sched_spin, current,
                   stack, pc, target>>

ExitMark(c, cur) == At(c, cur, "exit_mark") /\ ExitBind(c, cur, "pexit_dead")

\* proc->reapable = 1, and the load of process_reapable_pending++.
ExitReapable(c, cur) ==
    /\ At(c, cur, "exit_reapable")
    /\ reapable' = [reapable EXCEPT ![owner[cur]] = TRUE]
    /\ target' = [target EXCEPT ![c] = reap_pending]
    /\ TGoto(cur, "exit_pending")
    /\ UNCHANGED <<used, state, running_cpu, wait_channel, joinVars, owner, apc, cur_thread, last_cpu, torn,
                   reap_pending, dead_pending, sched_spin, current, stack, pc>>

ExitPending(c, cur) ==
    /\ At(c, cur, "exit_pending")
    /\ reap_pending' = target[c] + 1
    /\ target' = [target EXCEPT ![c] = NULL]
    /\ TGoto(cur, "exit_teardown")
    /\ UNCHANGED <<used, state, running_cpu, wait_channel, joinVars, owner, apc, cur_thread, last_cpu,
                   reapable, torn, dead_pending, sched_spin, current, stack, pc>>

\* process_teardown_resources destroys the address space; then the thread
\* yields for ever.
ExitTeardown(c, cur) ==
    /\ At(c, cur, "exit_teardown")
    /\ torn' = [torn EXCEPT ![owner[cur]] = TRUE]
    /\ TGoto(cur, "dying")
    /\ UNCHANGED <<used, state, running_cpu, wait_channel, joinVars, owner, apc, cur_thread, last_cpu,
                   reapable, reap_pending, dead_pending, sched_spin, current, stack, pc, target>>

\* The steps of a call in progress.
Progress(c, cur) ==
    \/ SleepState(c, cur) \/ SleepWake(c, cur) \/ CloneReady(c, cur)
    \/ JoinTest(c, cur) \/ JoinSleep(c, cur) \/ JoinState(c, cur) \/ JoinWait(c, cur)
    \/ JoinDestroy(c, cur)
    \/ MarkDead(c, cur) \/ CountDead(c, cur) \/ ExitWake(c, cur)
    \/ ThreadExitCount(c, cur) \/ ExitKillAll(c, cur) \/ ExitMark(c, cur)
    \/ ExitReapable(c, cur) \/ ExitPending(c, cur) \/ ExitTeardown(c, cur)

\* The calls a thread in user mode may make.
Call(c, cur) ==
    \/ SleepChannel(c, cur) \/ ThreadExit(c, cur) \/ ProcessExit(c, cur)
    \/ \E td \in Threads : Wakeup(c, cur, td) \/ CloneLink(c, cur, td) \/ JoinCall(c, cur, td)

Next == \E c \in Cpus : Switch(c) \/ \E cur \in Threads : Call(c, cur) \/ Progress(c, cur)

Spec == Init /\ [][Next]_vars

\* A call in progress goes on, scheduler_switch finishes, and the timer keeps
\* interrupting user mode and the loops that wait with interrupts on.
FairSpec ==
    /\ Spec
    /\ \A c \in Cpus :
        /\ WF_vars(SwitchBoot(c) \/ SwitchSleep(c) \/ SwitchRetire(c) \/ SwitchReap(c)
                   \/ SwitchDestroy(c) \/ SwitchPick(c) \/ SwitchLoad(c))
        /\ WF_vars(\E cur \in Threads : Progress(c, cur))
        /\ WF_vars(SwitchEnter(c))
        /\ SF_vars(SwitchEnter(c) /\ current[c] # NULL /\ tpc[current[c]] = "user")

-----------------------------------------------------------------------------
(* Properties *)

\* Every variable has its type.
TypeOK ==
    /\ used \in [Threads -> BOOLEAN]
    /\ wait_channel \in [Threads -> Threads \cup {EVENT, NULL}]
    /\ join \in [Threads -> Threads \cup {NULL}] /\ stale \subseteq Threads
    /\ apc \in [Threads -> BOOLEAN]
    /\ state \in [Threads -> {"UNUSED", "EMBRYO", "RUNNABLE", "RUNNING", "SLEEPING",
                              "TERMINATED"}]
    /\ running_cpu \in [Threads -> Cpus \cup {-1}]
    /\ owner \in [Threads -> Procs \cup {NULL}]
    /\ cur_thread \in [Procs -> Threads \cup {NULL}]
    /\ last_cpu \in [Procs -> Cpus \cup {-1}]
    /\ reapable \in [Procs -> BOOLEAN] /\ torn \in [Procs -> BOOLEAN]
    /\ dead_pending \in Nat /\ reap_pending \in Nat
    /\ sched_spin \in Cpus \cup {NULL}
    /\ current \in [Cpus -> Threads \cup {NULL}]
    /\ stack \in [Cpus -> Threads \cup {NULL}]

\* The current thread of a CPU is a live slot bound to that CPU, so that no thread
\* is the current thread of two CPUs.
CurrentBound ==
    \A c \in Cpus : current[c] # NULL => used[current[c]] /\ running_cpu[current[c]] = c

\* thread.h:142 says running_cpu is "-1 when not running on any CPU", and the
\* pickers rely on it: no two CPUs are on one kernel stack (the one they will
\* trap to next, or that they have not left yet), and none is on a freed one.
StackExclusive ==
    /\ \A c, d \in Cpus : stack[c] # NULL /\ stack[c] = stack[d] => c = d
    /\ \A c \in Cpus : stack[c] # NULL => used[stack[c]]

\* thread_dead_pending never under-counts the dead threads still bound to a CPU,
\* but for those between the two stores of thread_mark_dead.
DeadCounted ==
    Cardinality({td \in Threads : used[td] /\ state[td] = "TERMINATED" /\ running_cpu[td] >= 0
                                  /\ tpc[td] \notin {"exit_add", "pexit_add"}}) <= dead_pending

\* Every variable has its type, and process_reapable_pending is never zero while a process waits to be reaped:
\* process_reap would not look for it.
ReapCounted ==
    /\ TypeOK
    /\ (\E p \in Procs : reapable[p] /\ ~\E td \in ThreadsOf(p) : tpc[td] = "exit_pending")
           => reap_pending > 0

\* A TERMINATED thread never becomes anything but a free slot.
DeadStaysDead ==
    [][\A td \in Threads : state[td] = "TERMINATED" => state'[td] \in {"TERMINATED", "UNUSED"}]_vars

\* A thread is destroyed alive only by a thread_join whose slot was destroyed and
\* taken again while it slept or yielded: thread_destroy does not look at the
\* state, and the joiner's last look at it comes before its last yield.
LiveDestroyedByStaleJoin ==
    [][\A td \in Threads : used[td] /\ ~used'[td] /\ state[td] # "TERMINATED"
          => \E x \in stale : join[x] = td]_vars

\* No joiner sleeps on a thread of its own process that is dead and whose exit has
\* gone past its wake-up, so that no sleep of thread_join is left to a signal.
JoinerWoken ==
    \A td, x \in Threads :
        state[td] = "SLEEPING" /\ wait_channel[td] = x /\ used[x] /\ owner[x] = owner[td]
            => state[x] # "TERMINATED" \/ tpc[x] \in {"exit_add", "exit_wake"}

\* No thread executes in user mode on an address space that has been destroyed.
NoUserAfterTeardown ==
    \A c \in Cpus : pc[c] = "run" /\ current[c] # NULL /\ tpc[current[c]] = "user"
        => ~torn[owner[current[c]]]

\* A process that has exited is reaped, unless the CPUs run out of threads to
\* switch to (the dead thread then stays current and is never retired).
ExitedIsReaped ==
    \A p \in Procs :
        reapable[p] ~> (~reapable[p] \/ ~\E td \in Threads : state[td] \in {"RUNNABLE", "RUNNING"})
=============================================================================
