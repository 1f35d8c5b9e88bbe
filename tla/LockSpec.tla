------------------------------- MODULE LockSpec -------------------------------
(***************************************************************************)
(* What a sleeping lock of the kernel promises its users: at most one      *)
(* holder, and whenever contexts wait for a free lock one of them gets it. *)
(* Nothing is promised about which one: mtx_t has no hand-off.             *)
(***************************************************************************)
CONSTANTS Contexts, NoOne

VARIABLES holder,  \* the context that has the lock, or NoOne
          want     \* the contexts waiting inside the lock operation

lockVars == <<holder, want>>

Init == holder = NoOne /\ want = {}

Request(c) ==
    /\ c \notin want /\ holder # c
    /\ want' = want \cup {c}
    /\ UNCHANGED holder

Acquire(c) ==
    /\ c \in want /\ holder = NoOne
    /\ holder' = c
    /\ want' = want \ {c}

TryAcquire(c) ==
    /\ c \notin want /\ holder = NoOne
    /\ holder' = c
    /\ UNCHANGED want

Release(c) ==
    /\ holder = c
    /\ holder' = NoOne
    /\ UNCHANGED want

Next == \E c \in Contexts : Request(c) \/ Acquire(c) \/ TryAcquire(c) \/ Release(c)

Fairness ==
    /\ WF_lockVars(\E c \in Contexts : Acquire(c))
    /\ WF_lockVars(\E c \in Contexts : Release(c))

Safety == Init /\ [][Next]_lockVars

Spec == Safety /\ Fairness
=============================================================================
