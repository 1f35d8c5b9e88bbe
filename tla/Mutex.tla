-------------------------------- MODULE Mutex ---------------------------------
(***************************************************************************)
(* The adaptive mutex mtx_t (sync/mutex.c) over the sleep queue.  The lock *)
(* word is taken by an atomic exchange without the interlock; the          *)
(* interlock only protects the waiters count and the decision to sleep.    *)
(* One step per access to shared memory.                                   *)
(***************************************************************************)
EXTENDS SleepQueue

VARIABLES
    lock,       \* mtx_t.lock
    owner,      \* mtx_t.owner
    waiters,    \* mtx_t.waiters
    interlock   \* holder of mtx_t.interlock, or NULL

mtxVars == <<lock, owner, waiters, interlock>>
sleepVars == <<state, wait_channel, thread_spin, cursor>>
vars == <<pc, lock, owner, waiters, interlock, state, wait_channel, thread_spin, cursor>>

\* The channel of the mutex is its own address.
mp == "mp"

ASSUME MutexAssumption == NULL # mp

Init ==
    /\ pc = [c \in Contexts |-> "idle"]
    /\ lock = 0
    /\ owner = NULL
    /\ waiters = 0
    /\ interlock = NULL
    /\ SleepQueueInit

-----------------------------------------------------------------------------
(* mtx_lock *)

\* Entry: the recursion check.
MtxLock(c) ==
    /\ pc[c] = "idle"
    /\ IF ThreadCurrent(c) # NULL /\ owner = ThreadCurrent(c) /\ lock # 0
       THEN Goto(c, "panic")
       ELSE Goto(c, "lock_exchange")
    /\ UNCHANGED <<mtxVars, sleepVars>>

MtxLockExchange(c) ==
    /\ pc[c] = "lock_exchange"
    /\ lock' = 1
    /\ Goto(c, IF lock = 0 THEN "lock_owner" ELSE "lock_recheck")
    /\ UNCHANGED <<owner, waiters, interlock, sleepVars>>

\* Shared with mtx_trylock: the owner is recorded after the exchange.
MtxLockOwner(c) ==
    /\ pc[c] = "lock_owner"
    /\ owner' = ThreadCurrent(c)
    /\ Goto(c, "held")
    /\ UNCHANGED <<lock, waiters, interlock, sleepVars>>

\* Mutant: the spin gives up, and mtx_lock returns.
MtxLockRecheck_GivesUp(c) ==
    /\ pc[c] = "lock_recheck"
    /\ Goto(c, IF lock = 0 THEN "lock_exchange"
               ELSE IF ThreadCurrent(c) = NULL THEN "idle" ELSE "lock_interlock")
    /\ UNCHANGED <<mtxVars, sleepVars>>

\* The end of the bounded adaptive spin: retry if the lock looks free, spin on
\* if there is no thread to put to sleep, otherwise prepare to sleep.
MtxLockRecheck(c) ==
    /\ pc[c] = "lock_recheck"
    /\ Goto(c, IF lock = 0 \/ ThreadCurrent(c) = NULL
               THEN "lock_exchange" ELSE "lock_interlock")
    /\ UNCHANGED <<mtxVars, sleepVars>>

MtxLockInterlock(c) ==
    /\ pc[c] = "lock_interlock"
    /\ interlock = NULL
    /\ interlock' = c
    /\ Goto(c, "lock_decide")
    /\ UNCHANGED <<lock, owner, waiters, sleepVars>>

\* Mutant: sleeps without looking at the lock again under the interlock.
MtxLockDecide_NoRecheck(c) ==
    /\ pc[c] = "lock_decide"
    /\ waiters' = waiters + 1
    /\ Goto(c, "sleep_channel")
    /\ UNCHANGED <<lock, owner, interlock, sleepVars>>

\* Under the interlock: look at the lock once more, then count as a waiter.
MtxLockDecide(c) ==
    /\ pc[c] = "lock_decide"
    /\ \/ /\ lock = 0
          /\ interlock' = NULL
          /\ Goto(c, "lock_exchange")
          /\ UNCHANGED waiters
       \/ /\ lock # 0
          /\ waiters' = waiters + 1
          /\ Goto(c, "sleep_channel")
          /\ UNCHANGED interlock
    /\ UNCHANGED <<lock, owner, sleepVars>>

\* spin_unlock_nocli(interlock) inside proc_sleep_interlock.
MtxSleepUnlock(c) ==
    /\ pc[c] = "sleep_unlock"
    /\ interlock' = NULL
    /\ Goto(c, "sleep_wait")
    /\ UNCHANGED <<lock, owner, waiters, sleepVars>>

\* proc_sleep_interlock(mp, &mp->interlock), then the next turn of the loop.
MtxSleep(c) ==
    \/ /\ \/ ProcSleepChannel(c, mp)
          \/ ProcSleepState(c)
          \/ ProcSleepWait(c, "lock_exchange")
       /\ UNCHANGED mtxVars
    \/ MtxSleepUnlock(c)

\* Mutant: the result of the exchange is ignored.
MtxTrylock_NoTest(c) ==
    /\ pc[c] = "idle"
    /\ lock' = 1
    /\ Goto(c, "lock_owner")
    /\ UNCHANGED <<owner, waiters, interlock, sleepVars>>

MtxTrylock(c) ==
    /\ pc[c] = "idle"
    /\ lock' = 1
    /\ Goto(c, IF lock = 0 THEN "lock_owner" ELSE "idle")
    /\ UNCHANGED <<owner, waiters, interlock, sleepVars>>

-----------------------------------------------------------------------------
(* mtx_unlock *)

MtxUnlock(c) ==
    /\ pc[c] = "held"
    /\ Goto(c, IF lock = 0 \/ owner # ThreadCurrent(c) THEN "panic" ELSE "unlock_owner")
    /\ UNCHANGED <<mtxVars, sleepVars>>

\* Mutant: the owner is not reset.
MtxUnlockOwner_Stale(c) ==
    /\ pc[c] = "unlock_owner"
    /\ Goto(c, "unlock_lock")
    /\ UNCHANGED <<mtxVars, sleepVars>>

MtxUnlockOwner(c) ==
    /\ pc[c] = "unlock_owner"
    /\ owner' = NULL
    /\ Goto(c, "unlock_lock")
    /\ UNCHANGED <<lock, waiters, interlock, sleepVars>>

MtxUnlockLock(c) ==
    /\ pc[c] = "unlock_lock"
    /\ lock' = 0
    /\ Goto(c, "unlock_interlock")
    /\ UNCHANGED <<owner, waiters, interlock, sleepVars>>

MtxUnlockInterlock(c) ==
    /\ pc[c] = "unlock_interlock"
    /\ interlock = NULL
    /\ interlock' = c
    /\ Goto(c, "unlock_take")
    /\ UNCHANGED <<lock, owner, waiters, sleepVars>>

\* Mutant: one waiter is taken off the count instead of all of them.
MtxUnlockTake_One(c) ==
    /\ pc[c] = "unlock_take"
    /\ waiters' = waiters - 1
    /\ interlock' = NULL
    /\ Goto(c, IF waiters # 0 THEN "wakeup" ELSE "idle")
    /\ UNCHANGED <<lock, owner, sleepVars>>

\* The count is taken and cleared under the interlock; the wake-up itself runs
\* after the interlock is released.
MtxUnlockTake(c) ==
    /\ pc[c] = "unlock_take"
    /\ waiters' = 0
    /\ interlock' = NULL
    /\ Goto(c, IF waiters # 0 THEN "wakeup" ELSE "idle")
    /\ UNCHANGED <<lock, owner, sleepVars>>

MtxUnlockWakeup(c) == ProcWakeup(c, mp, "idle") /\ UNCHANGED mtxVars

-----------------------------------------------------------------------------
\* A step of a call in progress; a context between calls may do nothing.
Step(c) ==
    \/ MtxLockExchange(c) \/ MtxLockOwner(c) \/ MtxLockRecheck(c)
    \/ MtxLockInterlock(c) \/ MtxLockDecide(c)
    \/ c \in Slots /\ MtxSleep(c)
    \/ MtxUnlock(c) \/ MtxUnlockOwner(c) \/ MtxUnlockLock(c)
    \/ MtxUnlockInterlock(c) \/ MtxUnlockTake(c) \/ MtxUnlockWakeup(c)

Next == \E c \in Contexts : MtxLock(c) \/ MtxTrylock(c) \/ Step(c)

Spec == Init /\ [][Next]_vars

\* Every context that is inside a call keeps executing, and a holder gives the
\* mutex back.
FairSpec == Spec /\ \A c \in Contexts : WF_vars(Step(c))

-----------------------------------------------------------------------------
(* Properties *)

Owning == {"lock_owner", "held", "unlock_owner", "unlock_lock"}
Interlocked == {"lock_decide", "sleep_channel", "sleep_state", "sleep_unlock", "unlock_take"}
Waking == {"wakeup", "wakeup_scan", "wakeup_clear"}
Labels == {"idle", "panic", "lock_exchange", "lock_recheck", "lock_interlock",
           "sleep_wait", "unlock_interlock"} \cup Owning \cup Interlocked \cup Waking

\* Every variable has its type.
TypeOK ==
    /\ pc \in [Contexts -> Labels]
    /\ lock \in {0, 1}
    /\ owner \in Slots \cup {NULL}
    /\ waiters \in Nat
    /\ interlock \in Contexts \cup {NULL}
    /\ SleepQueueTypeOK({mp})

\* The mutex has at most one holder, from the exchange in mtx_lock or
\* mtx_trylock to the release store in mtx_unlock.
MutualExclusion ==
    \A c, d \in Contexts : pc[c] \in Owning /\ pc[d] \in Owning => c = d

\* The recursion check of mtx_lock and the two ownership checks of mtx_unlock
\* never panic for callers that pair their calls: owner is read outside any
\* lock and must never name a thread that has already let go.
NoPanic == \A c \in Contexts : pc[c] # "panic"

\* A thread that has left the sleep queue is RUNNING and on no channel: the
\* waker's two stores, made under thread_spin, never land on a thread that has
\* already gone on without taking thread_spin.
InSleepQueue == {"sleep_state", "sleep_unlock", "sleep_wait"}
AwakeIsRunning ==
    \A td \in Slots : pc[td] \notin InSleepQueue =>
        state[td] = "RUNNING" /\ wait_channel[td] = NULL

\* No lost wake-up: a thread asleep on the mutex is counted while somebody
\* still has to pass through mtx_unlock, or a waker that took the count has not
\* yet scanned past its slot.
Asleep(td) == pc[td] = "sleep_wait" /\ wait_channel[td] = mp
WillTake(c) == pc[c] \in Owning \cup {"unlock_interlock", "unlock_take"}
WillWake(c, td) ==
    \/ pc[c] = "wakeup"
    \/ pc[c] \in {"wakeup_scan", "wakeup_clear"} /\ cursor <= td
NoLostWakeup ==
    \A td \in Slots : Asleep(td) =>
        \/ waiters > 0 /\ \E c \in Contexts : WillTake(c)
        \/ \E c \in Contexts : WillWake(c, td)

\* A thread asleep on the mutex is eventually woken by some mtx_unlock.
SleeperWoken == \A td \in Slots : Asleep(td) ~> ~Asleep(td)

\* The mutex implements the abstract lock, with its progress: when contexts
\* wait in mtx_lock and the lock is free, one of them gets it.
HolderOf(p) ==
    IF \E c \in Contexts : p[c] \in Owning
    THEN CHOOSE c \in Contexts : p[c] \in Owning
    ELSE NULL
Waiting == {"lock_exchange", "lock_recheck", "lock_interlock", "lock_decide",
            "sleep_channel", "sleep_state", "sleep_unlock", "sleep_wait"}
LockImpl == INSTANCE LockSpec WITH
    NoOne <- NULL,
    holder <- HolderOf(pc),
    want <- {c \in Contexts : pc[c] \in Waiting}
ImplementsLock == LockImpl!Spec
=============================================================================
