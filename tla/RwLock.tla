-------------------------------- MODULE RwLock --------------------------------
(***************************************************************************)
(* The reader/writer lock rw_t (sync/rwlock.c) over the sleep queue.       *)
(* Every field of rw_t but the unlocked recursion check of rw_wlock is     *)
(* accessed under the interlock, so a critical section that does not sleep *)
(* is one step; a sleeper keeps the interlock until its channel and its    *)
(* SLEEPING state are published.  Readers sleep on &rchan, writers on      *)
(* &wchan, and a release wakes after it has let the interlock go.          *)
(***************************************************************************)
EXTENDS SleepQueue, Sequences, FiniteSets

VARIABLES
    readers, writer, wowner, rwaiters, wwaiters,   \* the fields of rw_t
    interlock,   \* holder of rw_t.interlock, or NULL
    after,       \* after[c]: where c goes on after a sleep or a wake-up
    wakes        \* wakes[c]: the channels c still has to wake, in order

rwVars == <<readers, writer, wowner, rwaiters, wwaiters>>
sleepVars == <<state, wait_channel, thread_spin, cursor>>
vars == <<pc, readers, writer, wowner, rwaiters, wwaiters, interlock, after, wakes,
          state, wait_channel, thread_spin, cursor>>

rchan == "rchan"
wchan == "wchan"

\* rw_init
Init ==
    /\ pc = [c \in Contexts |-> "idle"]
    /\ readers = 0 /\ writer = 0 /\ wowner = NULL
    /\ rwaiters = 0 /\ wwaiters = 0
    /\ interlock = NULL
    /\ after = [c \in Contexts |-> "idle"]
    /\ wakes = [c \in Contexts |-> <<>>]
    /\ SleepQueueInit

\* The section leaves the interlock and wakes the channels in chans, if any,
\* before it continues at label.
WakeThenGoto(c, chans, label) ==
    /\ wakes' = [wakes EXCEPT ![c] = chans]
    /\ after' = [after EXCEPT ![c] = IF chans = <<>> THEN "idle" ELSE label]
    /\ Goto(c, IF chans = <<>> THEN label ELSE "wakeup")
    /\ UNCHANGED interlock

\* The caller goes to sleep with the interlock held and retries at label; a CPU
\* without a thread leaves the interlock and spins.
SleepOrSpin(c, label) ==
    \/ /\ ThreadCurrent(c) = NULL
       /\ UNCHANGED <<pc, after, interlock>>
    \/ /\ ThreadCurrent(c) # NULL
       /\ interlock' = c
       /\ after' = [after EXCEPT ![c] = label]
       /\ Goto(c, "sleep_channel")

-----------------------------------------------------------------------------
(* rw_rlock *)

RwRlockEnter(c) ==
    /\ pc[c] = "idle"
    /\ Goto(c, "rlock")
    /\ UNCHANGED <<rwVars, interlock, after, wakes, sleepVars>>

\* One turn of the loop: read, or wait for the writer to leave.
RwRlock(c) ==
    /\ pc[c] = "rlock"
    /\ interlock = NULL
    /\ \/ /\ writer = 0
          /\ readers' = readers + 1
          /\ Goto(c, "reading")
          /\ UNCHANGED <<rwaiters, interlock, after>>
       \/ /\ writer # 0
          /\ SleepOrSpin(c, "rlock")
          /\ rwaiters' = IF ThreadCurrent(c) = NULL THEN rwaiters ELSE rwaiters + 1
          /\ UNCHANGED readers
    /\ UNCHANGED <<writer, wowner, wwaiters, wakes, sleepVars>>

-----------------------------------------------------------------------------
(* rw_runlock *)

\* Mutant: the writers are woken by the last but one reader.
RwRunlock_OffByOne(c) ==
    /\ pc[c] = "reading"
    /\ interlock = NULL
    /\ readers' = readers - 1
    /\ LET wake == readers = 2 /\ wwaiters # 0
       IN  /\ wwaiters' = IF wake THEN 0 ELSE wwaiters
           /\ WakeThenGoto(c, IF wake THEN <<wchan>> ELSE <<>>, "idle")
    /\ UNCHANGED <<writer, wowner, rwaiters, sleepVars>>

\* The last reader wakes the writers.
RwRunlock(c) ==
    /\ pc[c] = "reading"
    /\ interlock = NULL
    /\ IF readers = 0
       THEN Goto(c, "panic") /\ UNCHANGED <<readers, wwaiters, interlock, after, wakes>>
       ELSE /\ readers' = readers - 1
            /\ LET wake == readers' = 0 /\ wwaiters # 0
               IN  /\ wwaiters' = IF wake THEN 0 ELSE wwaiters
                   /\ WakeThenGoto(c, IF wake THEN <<wchan>> ELSE <<>>, "idle")
    /\ UNCHANGED <<writer, wowner, rwaiters, sleepVars>>

-----------------------------------------------------------------------------
(* rw_wlock *)

\* Entry: the recursion check, made without the interlock.
RwWlockEnter(c) ==
    /\ pc[c] = "idle"
    /\ Goto(c, IF ThreadCurrent(c) # NULL /\ writer # 0 /\ wowner = ThreadCurrent(c)
               THEN "panic" ELSE "wlock")
    /\ UNCHANGED <<rwVars, interlock, after, wakes, sleepVars>>

\* Mutant: readers do not keep a writer out.
RwWlock_IgnoresReaders(c) ==
    /\ pc[c] = "wlock"
    /\ interlock = NULL
    /\ \/ /\ writer = 0
          /\ writer' = 1
          /\ wowner' = ThreadCurrent(c)
          /\ Goto(c, "writing")
          /\ UNCHANGED <<wwaiters, interlock, after>>
       \/ /\ writer # 0
          /\ SleepOrSpin(c, "wlock")
          /\ wwaiters' = IF ThreadCurrent(c) = NULL THEN wwaiters ELSE wwaiters + 1
          /\ UNCHANGED <<writer, wowner>>
    /\ UNCHANGED <<readers, rwaiters, wakes, sleepVars>>

\* One turn of the loop: write, or wait until nobody holds the lock.
RwWlock(c) ==
    /\ pc[c] = "wlock"
    /\ interlock = NULL
    /\ \/ /\ writer = 0 /\ readers = 0
          /\ writer' = 1
          /\ wowner' = ThreadCurrent(c)
          /\ Goto(c, "writing")
          /\ UNCHANGED <<wwaiters, interlock, after>>
       \/ /\ writer # 0 \/ readers # 0
          /\ SleepOrSpin(c, "wlock")
          /\ wwaiters' = IF ThreadCurrent(c) = NULL THEN wwaiters ELSE wwaiters + 1
          /\ UNCHANGED <<writer, wowner>>
    /\ UNCHANGED <<readers, rwaiters, wakes, sleepVars>>

-----------------------------------------------------------------------------
(* rw_wunlock, rw_try_upgrade and rw_downgrade *)

\* The check all writers' releases make.
NotMine(c) == writer = 0 \/ wowner # ThreadCurrent(c)

\* Both counts are taken; the readers are woken first, then the writers.
RwWunlock(c) ==
    /\ pc[c] = "writing"
    /\ interlock = NULL
    /\ IF NotMine(c)
       THEN Goto(c, "panic") /\ UNCHANGED <<rwVars, interlock, after, wakes>>
       ELSE /\ writer' = 0 /\ wowner' = NULL
            /\ rwaiters' = 0 /\ wwaiters' = 0
            /\ WakeThenGoto(c, (IF rwaiters # 0 THEN <<rchan>> ELSE <<>>) \o
                               (IF wwaiters # 0 THEN <<wchan>> ELSE <<>>), "idle")
            /\ UNCHANGED readers
    /\ UNCHANGED sleepVars

\* Mutant: the new writer is not recorded as the owner.
RwTryUpgrade_NoOwner(c) ==
    /\ pc[c] = "reading"
    /\ interlock = NULL
    /\ writer = 0 /\ readers = 1
    /\ readers' = 0 /\ writer' = 1
    /\ Goto(c, "writing")
    /\ UNCHANGED <<wowner, rwaiters, wwaiters, interlock, after, wakes, sleepVars>>

\* Only the sole reader becomes the writer; the other case changes nothing.
RwTryUpgrade(c) ==
    /\ pc[c] = "reading"
    /\ interlock = NULL
    /\ writer = 0 /\ readers = 1
    /\ readers' = 0 /\ writer' = 1 /\ wowner' = ThreadCurrent(c)
    /\ Goto(c, "writing")
    /\ UNCHANGED <<rwaiters, wwaiters, interlock, after, wakes, sleepVars>>

\* The writer becomes a reader and lets the sleeping readers in; the writers
\* stay counted until the last reader leaves.
RwDowngrade(c) ==
    /\ pc[c] = "writing"
    /\ interlock = NULL
    /\ IF NotMine(c)
       THEN Goto(c, "panic") /\ UNCHANGED <<rwVars, interlock, after, wakes>>
       ELSE /\ writer' = 0 /\ wowner' = NULL /\ readers' = 1
            /\ rwaiters' = 0
            /\ WakeThenGoto(c, IF rwaiters # 0 THEN <<rchan>> ELSE <<>>, "reading")
            /\ UNCHANGED wwaiters
    /\ UNCHANGED sleepVars

-----------------------------------------------------------------------------
(* proc_sleep_interlock and proc_wakeup on the two channels *)

RwSleep(td) ==
    /\ \/ /\ \/ ProcSleepChannel(td, IF after[td] = "rlock" THEN rchan ELSE wchan)
             \/ ProcSleepState(td)
          /\ UNCHANGED <<interlock, after>>
       \/ /\ pc[td] = "sleep_unlock"
          /\ interlock' = NULL
          /\ Goto(td, "sleep_wait")
          /\ UNCHANGED <<after, sleepVars>>
       \/ /\ ProcSleepWait(td, after[td])
          /\ after' = [after EXCEPT ![td] = "idle"]
          /\ UNCHANGED interlock
    /\ UNCHANGED <<rwVars, wakes>>

Waking == {"wakeup", "wakeup_scan", "wakeup_clear"}

\* The scans of wakes[c] one after the other, then the rest of the call.
RwWakeup(c) ==
    /\ pc[c] \in Waking
    /\ ProcWakeup(c, Head(wakes[c]), IF Len(wakes[c]) > 1 THEN "wakeup" ELSE after[c])
    /\ wakes' = IF pc'[c] \notin {"wakeup_scan", "wakeup_clear"}
                THEN [wakes EXCEPT ![c] = Tail(@)] ELSE wakes
    /\ after' = IF wakes'[c] = <<>> THEN [after EXCEPT ![c] = "idle"] ELSE after
    /\ UNCHANGED <<rwVars, interlock>>

\* A step of a call in progress, or the release that a holder owes.
Step(c) ==
    \/ RwRlock(c) \/ RwWlock(c) \/ RwRunlock(c) \/ RwWunlock(c) \/ RwWakeup(c)
    \/ c \in Slots /\ RwSleep(c)

Next ==
    \E c \in Contexts :
        RwRlockEnter(c) \/ RwWlockEnter(c) \/ RwTryUpgrade(c) \/ RwDowngrade(c) \/ Step(c)

Spec == Init /\ [][Next]_vars

\* Every context inside a call keeps executing and a holder releases the lock.
\* The spin locks are test-and-set loops: a waker gets its turn at the scan if the
\* lock is free again and again.
FairSpec == Spec /\ \A c \in Contexts : WF_vars(Step(c)) /\ SF_vars(RwWakeup(c))

-----------------------------------------------------------------------------
(* Properties *)

Reads(c) == pc[c] = "reading" \/ (pc[c] \in Waking /\ after[c] = "reading")
Writes(c) == pc[c] = "writing"

\* Every variable has its type.
TypeOK ==
    /\ pc \in [Contexts -> {"idle", "panic", "rlock", "wlock", "reading", "writing",
                            "sleep_channel", "sleep_state", "sleep_unlock", "sleep_wait"}
                           \cup Waking]
    /\ readers \in 0 .. Cardinality(Contexts)
    /\ writer \in {0, 1}
    /\ wowner \in Slots \cup {NULL}
    /\ rwaiters \in Nat /\ wwaiters \in Nat
    /\ interlock \in Slots \cup {NULL}
    /\ after \in [Contexts -> {"idle", "rlock", "wlock", "reading"}]
    /\ \A c \in Contexts : wakes[c] \in {<<>>, <<rchan>>, <<wchan>>, <<rchan, wchan>>}
    /\ SleepQueueTypeOK({rchan, wchan})

\* Every variable has its type; a writer excludes every other holder, through upgrades and downgrades too,
\* and the readers field counts exactly the contexts that hold the lock shared.
RwExclusion ==
    /\ TypeOK
    /\ \A c, d \in Contexts : Writes(c) /\ (Reads(d) \/ Writes(d)) => c = d
    /\ readers = Cardinality({c \in Contexts : Reads(c)})

\* No caller that pairs its calls runs into one of the panics: in rw_runlock, in
\* the ownership checks of rw_wunlock and rw_downgrade, or in the recursion
\* check of rw_wlock, which reads writer and wowner without the interlock.
NoPanic == \A c \in Contexts : pc[c] # "panic"

Asleep(td, ch) == pc[td] = "sleep_wait" /\ wait_channel[td] = ch

\* The channels c is going to scan up to slot td.
WillWake(c, td) ==
    IF pc[c] \notin Waking THEN {}
    ELSE LET rest == {wakes[c][i] : i \in 2 .. Len(wakes[c])}
         IN  IF pc[c] = "wakeup" \/ cursor <= td THEN rest \cup {wakes[c][1]} ELSE rest

\* No lost wake-up: a sleeping reader is counted and a writer is still there to
\* take the count, or its wake-up is on the way; a sleeping writer is counted
\* and somebody holds the lock, or its wake-up is on the way.
NoLostWakeup ==
    \A td \in Slots :
        /\ Asleep(td, rchan) =>
              \/ rwaiters > 0 /\ writer = 1
              \/ \E c \in Contexts : rchan \in WillWake(c, td)
        /\ Asleep(td, wchan) =>
              \/ wwaiters > 0 /\ (writer = 1 \/ readers > 0)
              \/ \E c \in Contexts : wchan \in WillWake(c, td)

\* Nobody sleeps for ever.  A sleeping reader is always woken: only a writer can keep it asleep, and the
\* writer's rw_wunlock or rw_downgrade wakes it.
\* rw_rlock never looks at wwaiters, so overlapping readers (or a holder that
\* keeps upgrading and downgrading) may keep a writer asleep for ever; but if
\* the lock is free again and again, every sleeping writer is woken.
SleepersWoken ==
    /\ \A td \in Slots : Asleep(td, rchan) ~> ~Asleep(td, rchan)
    /\ []<>(readers = 0 /\ writer = 0) => \A td \in Slots : Asleep(td, wchan) ~> ~Asleep(td, wchan)
=============================================================================
