------------------------------ MODULE SleepQueue ------------------------------
(***************************************************************************)
(* Sleeping and waking on a wait channel (event/event.c: proc_sleep_       *)
(* interlock, proc_sleep_wait, proc_wakeup).  The kernel                   *)
(* has no sleep queues as such: a sleeper publishes the channel and its    *)
(* SLEEPING state in its slot of thread_table, a waker scans the whole     *)
(* table under thread_spin.  The sleeper's two stores are NOT made under   *)
(* thread_spin, so every store here is a step of its own.                  *)
(*                                                                         *)
(* The module has no specification: the users of the sleep queue (Mutex,   *)
(* RwLock, ...) extend it and add their own variables and steps.           *)
(***************************************************************************)
EXTENDS Integers

CONSTANTS MAX_THREADS,   \* slots of thread_table
          Bare,          \* CPUs that call in with thread_current() = NULL
          NULL           \* the null pointer

ASSUME SleepQueueAssumption ==
    /\ MAX_THREADS \in Nat \ {0}
    /\ Bare \cap Int = {}
    /\ NULL \notin Int \cup Bare

\* A thread is named by its slot in thread_table.
Slots == 0 .. MAX_THREADS - 1

\* Everything that executes kernel code: threads, and CPUs without a thread.
Contexts == Slots \cup Bare

\* thread_current() as seen by context c.
ThreadCurrent(c) == IF c \in Slots THEN c ELSE NULL

VARIABLES
    pc,            \* pc[c]: the next step of context c
    state,         \* thread_t.state
    wait_channel,  \* thread_t.wait_channel
    thread_spin,   \* holder of the thread table spin lock, or NULL
    cursor         \* i of the scan in proc_wakeup; local to the holder

Goto(c, label) == pc' = [pc EXCEPT ![c] = label]

SleepQueueInit ==
    /\ state = [td \in Slots |-> "RUNNING"]
    /\ wait_channel = [td \in Slots |-> NULL]
    /\ thread_spin = NULL
    /\ cursor = 0

-----------------------------------------------------------------------------
(* The sleeper. *)

\* proc_sleep_interlock: publish the channel (the interlock is still held).
ProcSleepChannel(td, ch) ==
    /\ pc[td] = "sleep_channel"
    /\ wait_channel' = [wait_channel EXCEPT ![td] = ch]
    /\ Goto(td, "sleep_state")
    /\ UNCHANGED <<state, thread_spin, cursor>>

\* thread_state_set(td, PROC_STATE_SLEEPING).
ProcSleepState(td) ==
    /\ pc[td] = "sleep_state"
    /\ state' = [state EXCEPT ![td] = "SLEEPING"]
    /\ Goto(td, "sleep_unlock")
    /\ UNCHANGED <<wait_channel, thread_spin, cursor>>

\* proc_sleep_wait leaves its yield/hlt loop only when a waker has cleared
\* the channel; the thread is then RUNNING again.
ProcSleepWait(td, next) ==
    /\ pc[td] = "sleep_wait"
    /\ wait_channel[td] = NULL
    /\ state' = [state EXCEPT ![td] = "RUNNING"]
    /\ Goto(td, next)
    /\ UNCHANGED <<wait_channel, thread_spin, cursor>>

-----------------------------------------------------------------------------
(* The waker: proc_wakeup, one step per store. *)

ProcWakeupEnter(c) ==
    /\ pc[c] = "wakeup"
    /\ thread_spin = NULL
    /\ thread_spin' = c
    /\ cursor' = 0
    /\ Goto(c, "wakeup_scan")
    /\ UNCHANGED <<state, wait_channel>>

\* The test of one slot.
SleepsOn(td, ch) == state[td] = "SLEEPING" /\ wait_channel[td] = ch

\* A sleeper of the channel becomes RUNNABLE before its channel is cleared.
ProcWakeupMark(c, ch) ==
    /\ pc[c] = "wakeup_scan"
    /\ cursor \in Slots
    /\ SleepsOn(cursor, ch)
    /\ state' = [state EXCEPT ![cursor] = "RUNNABLE"]
    /\ Goto(c, "wakeup_clear")
    /\ UNCHANGED <<wait_channel, thread_spin, cursor>>

ProcWakeupClear(c) ==
    /\ pc[c] = "wakeup_clear"
    /\ wait_channel' = [wait_channel EXCEPT ![cursor] = NULL]
    /\ cursor' = cursor + 1
    /\ Goto(c, "wakeup_scan")
    /\ UNCHANGED <<state, thread_spin>>

\* Mutant: the scan starts over at a slot that does not sleep on the channel.
ProcWakeupSkip_Restarts(c, ch) ==
    /\ pc[c] = "wakeup_scan"
    /\ cursor \in Slots
    /\ ~SleepsOn(cursor, ch)
    /\ cursor' = 0
    /\ UNCHANGED <<pc, state, wait_channel, thread_spin>>

ProcWakeupSkip(c, ch) ==
    /\ pc[c] = "wakeup_scan"
    /\ cursor \in Slots
    /\ ~SleepsOn(cursor, ch)
    /\ cursor' = cursor + 1
    /\ UNCHANGED <<pc, state, wait_channel, thread_spin>>

ProcWakeupLeave(c, next) ==
    /\ pc[c] = "wakeup_scan"
    /\ cursor = MAX_THREADS
    /\ thread_spin' = NULL
    /\ Goto(c, next)
    /\ UNCHANGED <<state, wait_channel, cursor>>

\* Mutant: the channel is cleared before the thread is made RUNNABLE.
ProcWakeup_ClearFirst(c, ch, next) ==
    \/ ProcWakeupEnter(c)
    \/ /\ pc[c] = "wakeup_scan"
       /\ cursor \in Slots
       /\ SleepsOn(cursor, ch)
       /\ wait_channel' = [wait_channel EXCEPT ![cursor] = NULL]
       /\ Goto(c, "wakeup_clear")
       /\ UNCHANGED <<state, thread_spin, cursor>>
    \/ /\ pc[c] = "wakeup_clear"
       /\ state' = [state EXCEPT ![cursor] = "RUNNABLE"]
       /\ cursor' = cursor + 1
       /\ Goto(c, "wakeup_scan")
       /\ UNCHANGED <<wait_channel, thread_spin>>
    \/ ProcWakeupSkip(c, ch)
    \/ ProcWakeupLeave(c, next)

\* The whole scan for channel ch, after which c continues at next.
ProcWakeup(c, ch, next) ==
    \/ ProcWakeupEnter(c)
    \/ ProcWakeupMark(c, ch)
    \/ ProcWakeupClear(c)
    \/ ProcWakeupSkip(c, ch)
    \/ ProcWakeupLeave(c, next)

-----------------------------------------------------------------------------
SleepQueueTypeOK(channels) ==
    /\ state \in [Slots -> {"RUNNABLE", "RUNNING", "SLEEPING"}]
    /\ wait_channel \in [Slots -> channels \cup {NULL}]
    /\ thread_spin \in Contexts \cup {NULL}
    /\ cursor \in 0 .. MAX_THREADS
=============================================================================
