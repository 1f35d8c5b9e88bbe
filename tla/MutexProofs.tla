----------------------------- MODULE MutexProofs ------------------------------
(***************************************************************************)
(* Proofs about Mutex for any number of threads and bare CPUs.             *)
(***************************************************************************)
EXTENDS Mutex, TLAPS

\* Who may be where: a context without a thread never takes the sleeping path.
BareNeverSleeps ==
    \A c \in Contexts : c \notin Slots =>
        pc[c] \notin {"lock_interlock", "lock_decide", "sleep_channel",
                      "sleep_state", "sleep_unlock", "sleep_wait"}

\* The lock word is set exactly while somebody owns the mutex, and owner names
\* a thread only between the owner store and the owner reset.
LockWord ==
    /\ lock = 1 <=> \E c \in Contexts : pc[c] \in Owning
    /\ \A c \in Contexts : pc[c] \in {"held", "unlock_owner"} => owner = ThreadCurrent(c)
    /\ \A c \in Contexts : owner = c => pc[c] \in {"held", "unlock_owner"}

\* The two spin locks are held exactly along their critical sections.
SpinLocks ==
    /\ \A c \in Contexts : interlock = c <=> pc[c] \in Interlocked
    /\ \A c \in Contexts : thread_spin = c <=> pc[c] \in {"wakeup_scan", "wakeup_clear"}

\* What state and wait_channel hold while a thread is in the sleep queue.  A
\* waker that took an older count may find the thread before it has dropped
\* the interlock.
SleepStates ==
    /\ \A td \in Slots : pc[td] = "sleep_state" =>
           state[td] = "RUNNING" /\ wait_channel[td] = mp
    /\ \A td \in Slots : pc[td] \in {"sleep_unlock", "sleep_wait"} =>
           \/ SleepsOn(td, mp)
           \/ /\ state[td] = "RUNNABLE"
              /\ wait_channel[td] = mp
              /\ cursor = td /\ \E c \in Contexts : pc[c] = "wakeup_clear"
           \/ state[td] = "RUNNABLE" /\ wait_channel[td] = NULL
    /\ \A c \in Contexts : pc[c] = "wakeup_clear" =>
           /\ cursor \in Slots
           /\ pc[cursor] \in {"sleep_unlock", "sleep_wait"}
           /\ state[cursor] = "RUNNABLE" /\ wait_channel[cursor] = mp

\* The waiters count: positive while a thread is on its way to sleep, and then
\* somebody is going to take it.
WaitersCounted ==
    /\ \A td \in Slots : pc[td] \in {"sleep_channel", "sleep_state", "sleep_unlock"}
                            => waiters > 0
    /\ waiters > 0 => \E c \in Contexts : WillTake(c)

\* The inductive invariant.
IInv ==
    /\ TypeOK /\ MutualExclusion /\ NoPanic /\ AwakeIsRunning /\ NoLostWakeup
    /\ BareNeverSleeps /\ LockWord /\ SpinLocks /\ SleepStates /\ WaitersCounted

-----------------------------------------------------------------------------

\* NULL is no context, and every slot is a context.
LEMMA ContextFacts ==
    /\ Slots \subseteq Contexts
    /\ NULL \notin Contexts
    /\ \A c \in Contexts : ThreadCurrent(c) \in Slots \cup {NULL}
    /\ \A c \in Contexts : ThreadCurrent(c) # NULL => ThreadCurrent(c) = c
    /\ \A c \in Contexts : c \notin Slots => ThreadCurrent(c) = NULL
    /\ \A c \in Slots : ThreadCurrent(c) = c
BY SleepQueueAssumption DEF Slots, Contexts, ThreadCurrent

\* Initially everything is idle.
LEMMA InitIInv == Init => IInv
BY SleepQueueAssumption, ContextFacts
   DEF Init, SleepQueueInit, IInv, TypeOK, SleepQueueTypeOK, Labels, Owning,
       Interlocked, MutualExclusion, NoPanic, AwakeIsRunning, NoLostWakeup,
       Asleep, BareNeverSleeps, LockWord, SpinLocks, SleepStates,
       WaitersCounted


\* The inductive invariant is preserved by every step of every context.
LEMMA NextIInv == IInv /\ [Next]_vars => IInv'
<1> SUFFICES ASSUME IInv, [Next]_vars
             PROVE  IInv'
    OBVIOUS
<1> USE ContextFacts, MutexAssumption
    DEF IInv, TypeOK, SleepQueueTypeOK, Labels, Owning, Interlocked, Waking,
        Goto, MutualExclusion, NoPanic, AwakeIsRunning, InSleepQueue,
        NoLostWakeup, Asleep, WillTake, WillWake, BareNeverSleeps, LockWord,
        SpinLocks, SleepStates, SleepsOn, WaitersCounted, mp
<1>1. ASSUME NEW c \in Contexts, MtxLock(c) PROVE IInv'
    BY <1>1 DEF MtxLock, mtxVars, sleepVars
<1>2. ASSUME NEW c \in Contexts, MtxTrylock(c) PROVE IInv'
    BY <1>2 DEF MtxTrylock, sleepVars
<1>3. ASSUME NEW c \in Contexts, MtxLockExchange(c) PROVE IInv'
    BY <1>3 DEF MtxLockExchange, sleepVars
<1>4. ASSUME NEW c \in Contexts, MtxLockOwner(c) PROVE IInv'
    BY <1>4 DEF MtxLockOwner, sleepVars
<1>5. ASSUME NEW c \in Contexts, MtxLockRecheck(c) PROVE IInv'
    BY <1>5 DEF MtxLockRecheck, mtxVars, sleepVars
<1>6. ASSUME NEW c \in Contexts, MtxLockInterlock(c) PROVE IInv'
    BY <1>6 DEF MtxLockInterlock, sleepVars
<1>7. ASSUME NEW c \in Contexts, MtxLockDecide(c) PROVE IInv'
    BY <1>7 DEF MtxLockDecide, sleepVars
<1>8. ASSUME NEW c \in Contexts, MtxSleepUnlock(c) PROVE IInv'
    BY <1>8 DEF MtxSleepUnlock, sleepVars
<1>9. ASSUME NEW c \in Contexts, MtxUnlock(c) PROVE IInv'
    BY <1>9 DEF MtxUnlock, mtxVars, sleepVars
<1>10. ASSUME NEW c \in Contexts, MtxUnlockOwner(c) PROVE IInv'
    BY <1>10 DEF MtxUnlockOwner, sleepVars
<1>11. ASSUME NEW c \in Contexts, MtxUnlockLock(c) PROVE IInv'
    BY <1>11 DEF MtxUnlockLock, sleepVars
<1>12. ASSUME NEW c \in Contexts, MtxUnlockInterlock(c) PROVE IInv'
    BY <1>12 DEF MtxUnlockInterlock, sleepVars
<1>13. ASSUME NEW c \in Contexts, MtxUnlockTake(c) PROVE IInv'
    BY <1>13 DEF MtxUnlockTake, sleepVars
<1>14. ASSUME NEW c \in Slots, ProcSleepChannel(c, mp), UNCHANGED mtxVars PROVE IInv'
    BY <1>14 DEF ProcSleepChannel, mtxVars
<1>15. ASSUME NEW c \in Slots, ProcSleepState(c), UNCHANGED mtxVars PROVE IInv'
    BY <1>15 DEF ProcSleepState, mtxVars
<1>16. ASSUME NEW c \in Slots, ProcSleepWait(c, "lock_exchange"), UNCHANGED mtxVars PROVE IInv'
    BY <1>16 DEF ProcSleepWait, mtxVars
<1>17. ASSUME NEW c \in Contexts, ProcWakeupEnter(c), UNCHANGED mtxVars PROVE IInv'
    BY <1>17, SleepQueueAssumption DEF ProcWakeupEnter, mtxVars, Slots
<1>18. ASSUME NEW c \in Contexts, ProcWakeupMark(c, mp), UNCHANGED mtxVars PROVE IInv'
    BY <1>18, SleepQueueAssumption DEF ProcWakeupMark, mtxVars, Slots
<1>19. ASSUME NEW c \in Contexts, ProcWakeupClear(c), UNCHANGED mtxVars PROVE IInv'
    BY <1>19, SleepQueueAssumption DEF ProcWakeupClear, mtxVars, Slots
<1>20. ASSUME NEW c \in Contexts, ProcWakeupSkip(c, mp), UNCHANGED mtxVars PROVE IInv'
    BY <1>20, SleepQueueAssumption DEF ProcWakeupSkip, mtxVars, Slots
<1>21. ASSUME NEW c \in Contexts, ProcWakeupLeave(c, "idle"), UNCHANGED mtxVars PROVE IInv'
    BY <1>21, SleepQueueAssumption DEF ProcWakeupLeave, mtxVars, Slots
<1>22. CASE UNCHANGED vars
    BY <1>22 DEF vars
<1>23. QED
    BY <1>1, <1>2, <1>3, <1>4, <1>5, <1>6, <1>7, <1>8, <1>9, <1>10, <1>11, <1>12, <1>13, <1>14, <1>15, <1>16, <1>17, <1>18, <1>19, <1>20, <1>21, <1>22
    DEF Next, Step, MtxSleep, MtxUnlockWakeup, ProcWakeup

\* The inductive invariant holds throughout.
LEMMA Invariance == Spec => []IInv
BY InitIInv, NextIInv, PTL DEF Spec

\* Every variable of the mutex keeps its type.
THEOREM TypeCorrect == Spec => []TypeOK
<1>1. IInv => TypeOK
    BY DEF IInv
<1>2. QED
    BY <1>1, Invariance, PTL

\* At most one context is between the exchange of mtx_lock or mtx_trylock and
\* the release store of mtx_unlock.
THEOREM MutualExclusionHolds == Spec => []MutualExclusion
<1>1. IInv => MutualExclusion
    BY DEF IInv
<1>2. QED
    BY <1>1, Invariance, PTL

\* No ownership check of mtx_lock or mtx_unlock fails.
THEOREM NoPanicHolds == Spec => []NoPanic
<1>1. IInv => NoPanic
    BY DEF IInv
<1>2. QED
    BY <1>1, Invariance, PTL

\* The stores of proc_wakeup only land on threads still in the sleep queue.
THEOREM AwakeIsRunningHolds == Spec => []AwakeIsRunning
<1>1. IInv => AwakeIsRunning
    BY DEF IInv
<1>2. QED
    BY <1>1, Invariance, PTL

\* No mtx_unlock leaves a sleeper that nobody is going to wake.
THEOREM NoLostWakeupHolds == Spec => []NoLostWakeup
<1>1. IInv => NoLostWakeup
    BY DEF IInv
<1>2. QED
    BY <1>1, Invariance, PTL
-----------------------------------------------------------------------------
\* With at most one context in Owning, HolderOf names it.
LEMMA HolderIs ==
    ASSUME NEW p,
           \A c, d \in Contexts : p[c] \in Owning /\ p[d] \in Owning => c = d
    PROVE  /\ HolderOf(p) \in Contexts \cup {NULL}
           /\ \A c \in Contexts : HolderOf(p) = c <=> p[c] \in Owning
BY ContextFacts DEF HolderOf

\* The program counter of one context moves at a time, and only five kinds of
\* moves matter to the abstract lock.
Moves(c, from, to) == pc[c] = from /\ Goto(c, to)
Class(label) == IF label \in Owning THEN "owning"
                ELSE IF label \in Waiting THEN "waiting" ELSE "outside"

LEMMA PcMoves ==
    ASSUME IInv, IInv', Next
    PROVE  \E c \in Contexts :
              \/ Moves(c, "idle", "lock_exchange")
              \/ Moves(c, "lock_exchange", "lock_owner") /\ lock = 0
              \/ Moves(c, "idle", "lock_owner") /\ lock = 0
              \/ Moves(c, "unlock_lock", "unlock_interlock")
              \/ \E l \in Labels : Goto(c, l) /\ Class(l) = Class(pc[c])
              \/ pc' = pc
<1> USE DEF Owning, Interlocked, Waking, Waiting, Labels, Class, Moves, Goto
<1> DEFINE Goal(c) ==
              \/ Moves(c, "idle", "lock_exchange")
              \/ Moves(c, "lock_exchange", "lock_owner") /\ lock = 0
              \/ Moves(c, "idle", "lock_owner") /\ lock = 0
              \/ Moves(c, "unlock_lock", "unlock_interlock")
              \/ \E l \in Labels : Goto(c, l) /\ Class(l) = Class(pc[c])
              \/ pc' = pc
<1>1. /\ pc \in [Contexts -> Labels]
      /\ \A c \in Contexts : pc'[c] # "panic"
    BY DEF IInv, TypeOK, NoPanic
<1>2. ASSUME NEW c \in Contexts, MtxLock(c) \/ MtxTrylock(c)
      PROVE  Goal(c)
    BY <1>1, <1>2 DEF MtxLock, MtxTrylock
<1>3. ASSUME NEW c \in Contexts, Step(c)
      PROVE  Goal(c)
  <2>1. CASE MtxLockExchange(c) \/ MtxLockOwner(c) \/ MtxLockRecheck(c)
    BY <1>1, <2>1 DEF MtxLockExchange, MtxLockOwner, MtxLockRecheck
  <2>2. CASE MtxLockInterlock(c) \/ MtxLockDecide(c)
    BY <1>1, <2>2 DEF MtxLockInterlock, MtxLockDecide
  <2>3. CASE MtxSleep(c)
    BY <1>1, <2>3 DEF MtxSleep, MtxSleepUnlock, ProcSleepChannel, ProcSleepState,
                      ProcSleepWait
  <2>4. CASE MtxUnlock(c) \/ MtxUnlockOwner(c) \/ MtxUnlockLock(c)
    BY <1>1, <2>4 DEF MtxUnlock, MtxUnlockOwner, MtxUnlockLock
  <2>5. CASE MtxUnlockInterlock(c) \/ MtxUnlockTake(c)
    BY <1>1, <2>5 DEF MtxUnlockInterlock, MtxUnlockTake
  <2>6. CASE MtxUnlockWakeup(c)
    BY <1>1, <2>6 DEF MtxUnlockWakeup, ProcWakeup, ProcWakeupEnter, ProcWakeupMark,
                      ProcWakeupClear, ProcWakeupSkip, ProcWakeupLeave
  <2>7. QED
    BY <1>3, <2>1, <2>2, <2>3, <2>4, <2>5, <2>6 DEF Step
<1>4. QED
    BY <1>2, <1>3 DEF Next

\* Every step of the mutex is a step of the abstract lock or leaves it alone:
\* the exchange that finds 0 acquires, the release store releases, entering
\* mtx_lock requests, and the rest, the whole sleep queue included, stutters.
LEMMA StepRefines == IInv /\ IInv' /\ [Next]_vars => [LockImpl!Next]_(LockImpl!lockVars)
<1> DEFINE holder == HolderOf(pc)
           want == {c \in Contexts : pc[c] \in Waiting}
<1> SUFFICES ASSUME IInv, IInv', [Next]_vars
             PROVE  LockImpl!Next \/ (holder' = holder /\ want' = want)
    BY DEF LockImpl!lockVars
<1>1. /\ holder \in Contexts \cup {NULL}
      /\ \A c \in Contexts : holder = c <=> pc[c] \in Owning
    BY HolderIs DEF IInv, MutualExclusion
<1>2. /\ holder' \in Contexts \cup {NULL}
      /\ \A c \in Contexts : holder' = c <=> pc'[c] \in Owning
    BY HolderIs DEF IInv, MutualExclusion
<1>3. CASE UNCHANGED vars
    BY <1>3 DEF vars
<1>4. CASE pc' = pc
    BY <1>4
<1>5. ASSUME Next, pc' # pc PROVE LockImpl!Next \/ (holder' = holder /\ want' = want)
  <2>1. PICK c \in Contexts :
              \/ Moves(c, "idle", "lock_exchange")
              \/ Moves(c, "lock_exchange", "lock_owner") /\ lock = 0
              \/ Moves(c, "idle", "lock_owner") /\ lock = 0
              \/ Moves(c, "unlock_lock", "unlock_interlock")
              \/ \E l \in Labels : Goto(c, l) /\ Class(l) = Class(pc[c])
    BY <1>5, PcMoves
  <2>2. pc \in [Contexts -> Labels] /\ pc' \in [Contexts -> Labels]
    BY DEF IInv, TypeOK
  <2>3. lock = 0 => holder = NULL
    BY <1>1 DEF IInv, LockWord
  <2>4. \A d \in Contexts : d # c => pc'[d] = pc[d]
    BY <2>1, <2>2 DEF Moves, Goto
  <2> HIDE DEF holder
  <2>5. CASE Moves(c, "idle", "lock_exchange")
    <3>1. pc[c] = "idle" /\ pc'[c] = "lock_exchange"
      BY <2>2, <2>5 DEF Moves, Goto
    <3>2. holder' = holder /\ holder # c
      BY <3>1, <1>1, <1>2, <2>4 DEF Owning
    <3>3. want' = want \cup {c} /\ c \notin want
      BY <3>1, <2>4 DEF Waiting
    <3>4. QED
      BY <3>2, <3>3 DEF LockImpl!Next, LockImpl!Request, holder
  <2>6. CASE Moves(c, "lock_exchange", "lock_owner") /\ lock = 0
    <3>1. pc[c] = "lock_exchange" /\ pc'[c] = "lock_owner"
      BY <2>2, <2>6 DEF Moves, Goto
    <3>2. holder = NULL /\ holder' = c
      BY <3>1, <2>3, <2>6, <1>2 DEF Owning
    <3>3. want' = want \ {c} /\ c \in want
      BY <3>1, <2>4 DEF Waiting
    <3>4. QED
      BY <3>2, <3>3 DEF LockImpl!Next, LockImpl!Acquire, holder
  <2>7. CASE Moves(c, "idle", "lock_owner") /\ lock = 0
    <3>1. pc[c] = "idle" /\ pc'[c] = "lock_owner"
      BY <2>2, <2>7 DEF Moves, Goto
    <3>2. holder = NULL /\ holder' = c
      BY <3>1, <2>3, <2>7, <1>2 DEF Owning
    <3>3. want' = want /\ c \notin want
      BY <3>1, <2>4 DEF Waiting
    <3>4. QED
      BY <3>2, <3>3 DEF LockImpl!Next, LockImpl!TryAcquire, holder
  <2>8. CASE Moves(c, "unlock_lock", "unlock_interlock")
    <3>1. pc[c] = "unlock_lock" /\ pc'[c] = "unlock_interlock"
      BY <2>2, <2>8 DEF Moves, Goto
    <3>2. holder = c /\ holder' = NULL
      BY <3>1, <1>1, <1>2, <2>4, ContextFacts DEF Owning
    <3>3. want' = want
      BY <3>1, <2>4 DEF Waiting
    <3>4. QED
      BY <3>2, <3>3 DEF LockImpl!Next, LockImpl!Release, holder
  <2>9. CASE \E l \in Labels : Goto(c, l) /\ Class(l) = Class(pc[c])
    <3>1. Class(pc'[c]) = Class(pc[c])
      BY <2>2, <2>9 DEF Goto
    <3>2. /\ pc'[c] \in Owning <=> pc[c] \in Owning
          /\ pc'[c] \in Waiting <=> pc[c] \in Waiting
      BY <3>1 DEF Class, Owning, Waiting
    <3>3. holder' = holder
      BY <3>2, <1>1, <1>2, <2>4
    <3>4. want' = want
      BY <3>2, <2>4
    <3>5. QED
      BY <3>3, <3>4
  <2>10. QED
    BY <2>1, <2>5, <2>6, <2>7, <2>8, <2>9
<1>6. QED
    BY <1>3, <1>4, <1>5

\* The mutex implements the safety part of the abstract lock; its progress
\* part is left to model checking.
THEOREM RefinesLock == Spec => LockImpl!Safety
<1>1. Init => LockImpl!Init
    BY DEF Init, LockImpl!Init, HolderOf, Owning, Waiting
<1>2. IInv /\ IInv' /\ [Next]_vars => [LockImpl!Next]_(LockImpl!lockVars)
    BY StepRefines
<1>3. QED
    BY <1>1, <1>2, Invariance, PTL DEF Spec, LockImpl!Safety
=============================================================================
