---------------------------------- MODULE Ipc ----------------------------------
(***************************************************************************)
(* Message passing between processes (ipc/ipc.c, api/ipc.c): services,     *)
(* sessions, message queues, calls with a timeout and their cancellation.  *)
(*                                                                         *)
(* An endpoint is a block of kernel memory.  Its handle holds a reference, *)
(* and so does every call in progress on it; a sender holds none on the    *)
(* endpoint it sends to.  There is no lock: this is the system on one CPU, *)
(* where a call is interrupted only where it sleeps.                       *)
(*                                                                         *)
(* The kernel compares message ids and gives them no other meaning.  The   *)
(* id of a call is the one its program chose, or the next of a counter     *)
(* that plain messages draw from too; the id a reply names is up to the    *)
(* server.  So both are any id here, used before or not.  Session numbers  *)
(* are unique in a service: a server that names one names the session.     *)
(***************************************************************************)
EXTENDS Integers, Sequences, FiniteSets, SequencesExt

CONSTANTS Threads, Procs,
          Servers, Clients,    \* processes that create services, that connect
          Services,            \* service names, each with its slot
          Eps,                 \* memory blocks for endpoints
          IPC_QUEUE_MESSAGES, IPC_MAX_SESSIONS, IPC_MAX_WAITERS, IPC_CANCEL_SLOTS,
          ServerNonblock, ClientNonblock,  \* values of IPC_OPEN_NONBLOCK that programs use
          Counts,              \* numbers of handles that messages carry
          Waits,               \* kinds of timeout of calls: "forever", "zero", "timed"
          Ids,                 \* message ids
          Repliers,            \* roles of the endpoints whose plain messages name a request
          NULL

ASSUME IpcAssumption ==
    /\ {IPC_QUEUE_MESSAGES, IPC_MAX_SESSIONS, IPC_MAX_WAITERS,
        IPC_CANCEL_SLOTS} \subseteq Nat \ {0}
    /\ NULL \notin Eps \cup Services \cup Threads \cup Procs \cup Ids
    /\ Servers \cup Clients \subseteq Procs
    /\ ServerNonblock \cup ClientNonblock \subseteq BOOLEAN /\ Counts \subseteq Nat
    /\ Repliers \subseteq {"SERVER", "CLIENT"}
    /\ Waits \subseteq {"forever", "zero", "timed"}

Waiters == 1 .. IPC_MAX_WAITERS
CancelSlots == 0 .. IPC_CANCEL_SLOTS - 1

VARIABLES
    proc,     \* proc[td]: the process of thread td
    ep,       \* ep[e]: the block e as an ipc_endpoint_t, all zero when it is free
    svc,      \* svc[s]: ipc_services; clients is the set of non-null pointers
    waiter,   \* waiter[w]: ipc_waiters, or NULL when unused
    holder,   \* holder[e]: the process with the handle of endpoint e
    refs,     \* entity references taken for messages, without the ones lost
    strays,   \* senders whose target was cleared while they slept
    pc, loc,  \* where each thread is, and its locals
    asleep,   \* asleep[td]: the endpoint that td sleeps on
    cpu       \* the thread that executes in the kernel, or NULL

vars == <<proc, ep, svc, waiter, holder, refs, strays, pc, loc, asleep, cpu>>

Free == [used |-> FALSE, refcount |-> 0, role |-> NULL, closed |-> FALSE, nonblock |-> FALSE,
         canceled |-> [i \in CancelSlots |-> NULL], cancel_pos |-> 0, service |-> NULL,
         queue |-> <<>>]
Unused == [used |-> FALSE, server |-> NULL, clients |-> {}, client_count |-> 0]
\* A message; early: it passed ipc_cancel_take before the call it replies to was
\* cancelled.
NoMsg == [reply_to |-> NULL, handles |-> 0, early |-> FALSE]
NoLoc == [own |-> NULL, target |-> NULL, msg |-> NoMsg, waited |-> FALSE, wait |-> NULL,
          id |-> NULL, waiter |-> NULL]

\* Every process has a thread.
Init ==
    /\ proc \in {f \in [Threads -> Procs] : Range(f) = Procs}
    /\ ep = [e \in Eps |-> Free]
    /\ svc = [s \in Services |-> Unused]
    /\ waiter = [w \in Waiters |-> NULL]
    /\ holder = [e \in Eps |-> NULL]
    /\ refs = 0 /\ strays = {}
    /\ pc = [td \in Threads |-> "user"]
    /\ loc = [td \in Threads |-> NoLoc]
    /\ asleep = [td \in Threads |-> NULL]
    /\ cpu = NULL

At(td, label) ==
    /\ pc[td] = label /\ asleep[td] = NULL
    /\ cpu \in {td, NULL}
Goto(td, label) ==
    /\ pc' = [pc EXCEPT ![td] = label]
    /\ cpu' = IF label = "user" THEN NULL ELSE td
\* proc_sleep on endpoint e, and proc_wakeup on a set of them.
ProcSleep(td, e) ==
    /\ asleep' = [asleep EXCEPT ![td] = e]
    /\ cpu' = NULL
ProcWakeup(sleep, es) == [td \in Threads |-> IF sleep[td] \in es THEN NULL ELSE sleep[td]]

\* Entity references of a sequence of messages.
CarriedBy(q) == FoldSeq(LAMBDA m, n : n + m.handles, 0, q)

-----------------------------------------------------------------------------
(* Services and sessions *)

\* ipc_endpoint_alloc: the block is cleared, whatever was written to it while free.
\* The references of a message overwritten so are lost: nobody gives them back.
Alloc(e, s, role, nonblock) ==
    /\ ~ep[e].used
    /\ refs' = refs - CarriedBy(ep[e].queue)
    /\ ep' = [ep EXCEPT ![e] = [Free EXCEPT !.used = TRUE, !.refcount = 1, !.role = role,
                                  !.service = s, !.nonblock = nonblock]]

\* api_ipc_create
Create(td, s, e, nonblock) ==
    /\ At(td, "user") /\ proc[td] \in Servers
    /\ ~svc[s].used
    /\ Alloc(e, s, "SERVER", nonblock)
    /\ svc' = [svc EXCEPT ![s] = [Unused EXCEPT !.used = TRUE, !.server = e]]
    /\ holder' = [holder EXCEPT ![e] = proc[td]]
    /\ UNCHANGED <<proc, waiter, strays, pc, loc, asleep, cpu>>

\* api_ipc_connect
Connect(td, s, e, nonblock) ==
    /\ At(td, "user") /\ proc[td] \in Clients
    /\ svc[s].used /\ svc[s].server # NULL /\ ~ep[svc[s].server].closed
    /\ Cardinality(svc[s].clients) < IPC_MAX_SESSIONS
    /\ Alloc(e, s, "CLIENT", nonblock)
    /\ svc' = [svc EXCEPT ![s].clients = @ \cup {e}, ![s].client_count = @ + 1]
    /\ holder' = [holder EXCEPT ![e] = proc[td]]
    /\ UNCHANGED <<proc, waiter, strays, pc, loc, asleep, cpu>>

\* The tables that ipc_endpoint_release changes.
K == [ep |-> ep, svc |-> svc, asleep |-> asleep, refs |-> refs]

\* The last reference of endpoint e goes: the server takes its sessions along, a
\* client leaves its service, the block is cleared with the messages in it.
Clear(k, e) ==
    LET s == k.ep[e].service
        orphans == IF s # NULL /\ k.ep[e].role = "SERVER" THEN k.svc[s].clients ELSE {}
    IN  [ep |-> [x \in Eps |-> IF x = e THEN Free
                               ELSE IF x \in orphans
                                    THEN [k.ep[x] EXCEPT !.closed = TRUE, !.service = NULL]
                                    ELSE k.ep[x]],
         svc |-> [x \in Services |->
                    IF x # s THEN k.svc[x]
                    ELSE IF k.ep[e].role = "SERVER"
                         THEN [k.svc[x] EXCEPT !.used = FALSE, !.server = NULL,
                                               !.clients = {}, !.client_count = 0]
                         ELSE [k.svc[x] EXCEPT !.clients = @ \ {e},
                                               !.client_count = IF e \in k.svc[x].clients /\ @ > 0
                                                                THEN @ - 1 ELSE @]],
         asleep |-> ProcWakeup(k.asleep, orphans \cup {e}),
         refs |-> k.refs - CarriedBy(k.ep[e].queue)]

\* Mutant: the sessions of a server that goes keep their pointer to the service.
EndpointRelease_KeepsService(k, e) ==
    IF ~k.ep[e].used THEN k
    ELSE IF k.ep[e].refcount > 1 THEN [k EXCEPT !.ep[e].refcount = @ - 1]
    ELSE [Clear(k, e) EXCEPT !.ep = [x \in Eps |-> IF x = e THEN Free ELSE
                                       [k.ep[x] EXCEPT !.closed = Clear(k, e).ep[x].closed]]]

\* ipc_endpoint_release
EndpointRelease(k, e) ==
    IF ~k.ep[e].used THEN k
    ELSE IF k.ep[e].refcount > 1 THEN [k EXCEPT !.ep[e].refcount = @ - 1]
    ELSE Clear(k, e)

Becomes(k) ==
    /\ ep' = k.ep /\ svc' = k.svc /\ asleep' = k.asleep /\ refs' = k.refs
    /\ strays' = {td \in Threads : LET t == loc'[td].target
                                   IN  t # NULL /\ (td \in strays \/ (ep[t].used /\ ~k.ep[t].used))}

\* The handle is closed and the release hook of its entity runs.
Close(td, e) ==
    /\ At(td, "user") /\ holder[e] = proc[td]
    /\ holder' = [holder EXCEPT ![e] = NULL]
    /\ UNCHANGED <<proc, waiter, pc, loc, cpu>>
    /\ Becomes(EndpointRelease(K, e))

\* ipc_endpoint_ctl with IPC_CTL_DISCONNECT
Disconnect(td, e) ==
    /\ At(td, "user") /\ holder[e] = proc[td]
    /\ ep' = [ep EXCEPT ![e].closed = TRUE]
    /\ asleep' = ProcWakeup(asleep, {e})
    /\ UNCHANGED <<proc, svc, waiter, holder, refs, strays, pc, loc, cpu>>

\* What a thread that is killed in its sleep holds on to.
Kept(l) == [NoLoc EXCEPT !.own = l.own, !.waiter = l.waiter, !.msg.handles = l.msg.handles]

\* process_exit: the threads of the process end where they are, asleep or not, and
\* keep what they hold; then its handles are closed.
ExitGroup(td) ==
    /\ At(td, "user")
    /\ LET group == {x \in Threads : proc[x] = proc[td]}
           mine == {e \in Eps : holder[e] = proc[td]}
           k == [K EXCEPT !.asleep = [x \in Threads |-> IF x \in group THEN NULL ELSE @[x]]]
       IN  /\ pc' = [x \in Threads |-> IF x \in group THEN "dead" ELSE pc[x]]
           /\ loc' = [x \in Threads |-> IF x \in group THEN Kept(loc[x]) ELSE loc[x]]
           /\ holder' = [e \in Eps |-> IF e \in mine THEN NULL ELSE holder[e]]
           /\ UNCHANGED <<proc, waiter, cpu>>
           /\ Becomes(FoldSet(LAMBDA e, acc : EndpointRelease(acc, e), k, mine))

-----------------------------------------------------------------------------
(* Messages *)

\* ipc_handle_get: a call on endpoint e holds a reference.
Enter(td, e, label, locals) ==
    /\ At(td, "user") /\ holder[e] = proc[td]
    /\ Goto(td, label)
    /\ loc' = [loc EXCEPT ![td] = [locals EXCEPT !.own = e]]

\* ipc_message_build: the message retains an entity for each of its handles.  One
\* that is not a handle of the sender ends the call, and those retained before it
\* are released.
Build(reply, n) == [NoMsg EXCEPT !.reply_to = reply, !.handles = n]

\* ipc_endpoint_target: a client sends to its server, a server to the session it
\* names.
Target(e) ==
    LET s == ep[e].service
    IN  IF ep[e].role = "CLIENT" THEN {svc[s].server} \ {NULL}
        ELSE {c \in svc[s].clients : ~ep[c].closed}

\* Mutant: a reply is not matched with the calls that were cancelled.
Canceled_Never(t, reply) == {}

\* Slots of the cancelled call that a reply answers (ipc_cancel_take).
Canceled(t, reply) == {i \in CancelSlots : reply # NULL /\ ep[t].canceled[i] = reply}

\* ipc_endpoint_send of a reply to a cancelled call: it is dropped with its handles.
SendCanceled(td, e, reply) ==
    /\ At(td, "user") /\ holder[e] = proc[td]
    /\ ep[e].service # NULL /\ ~ep[e].closed
    /\ \E t \in Target(e) :
          /\ ~ep[t].closed /\ Canceled(t, reply) # {}
          /\ ep' = [ep EXCEPT ![t].canceled[Min(Canceled(t, reply))] = NULL]
    /\ UNCHANGED <<proc, svc, waiter, holder, refs, strays, pc, loc, asleep, cpu>>

\* ipc_endpoint_send up to the queue of the target; reply is the id of the request
\* that the message answers, or NULL.
Send(td, e, reply, n) ==
    /\ ep[e].service # NULL /\ ~ep[e].closed
    /\ \E t \in Target(e) :
          /\ ~ep[t].closed /\ Canceled(t, reply) = {}
          /\ Enter(td, e, "push", [NoLoc EXCEPT !.target = t, !.msg = Build(reply, n)])
    /\ ep' = [ep EXCEPT ![e].refcount = @ + 1]
    /\ refs' = refs + n
    /\ UNCHANGED <<proc, svc, waiter, holder, strays, asleep>>

\* ipc_endpoint_call up to the queue of the server; it does not look whether the
\* server is closed.
Call(td, e, id, wait, n) ==
    /\ ep[e].role = "CLIENT" /\ ~ep[e].closed
    /\ ep[e].service # NULL /\ Target(e) # {}
    /\ Enter(td, e, "push", [NoLoc EXCEPT !.target = svc[ep[e].service].server,
                                          !.msg = Build(NULL, n), !.wait = wait, !.id = id])
    /\ ep' = [ep EXCEPT ![e].refcount = @ + 1]
    /\ refs' = refs + n
    /\ UNCHANGED <<proc, svc, waiter, holder, strays, asleep>>

\* Mutant: the reference taken by ipc_handle_get is kept.
Return_Leaks(td, k) ==
    /\ Goto(td, "user")
    /\ loc' = [loc EXCEPT ![td] = NoLoc]
    /\ Becomes(k)

\* The call gives its reference back and returns; k is what it changed before.
Return(td, k) ==
    /\ Goto(td, "user")
    /\ loc' = [loc EXCEPT ![td] = NoLoc]
    /\ Becomes(EndpointRelease(k, loc[td].own))

Full(e) == Len(ep[e].queue) >= IPC_QUEUE_MESSAGES

\* ipc_queue_push.  The target may have been cleared while the thread slept.
Push(td) ==
    /\ At(td, "push") /\ ~Full(loc[td].target)
    /\ LET t == loc[td].target
           k == [K EXCEPT !.ep[t].queue = Append(@, [loc[td].msg EXCEPT !.early = loc[td].waited]),
                        !.asleep = ProcWakeup(@, {t})]
       IN  IF loc[td].wait = NULL THEN Return(td, k)
           ELSE /\ Goto(td, "sent")
                /\ loc' = [loc EXCEPT ![td].target = NULL, ![td].msg = NoMsg, ![td].waited = FALSE]
                /\ Becomes(k)
    /\ UNCHANGED <<proc, waiter, holder>>

\* Whether the target may be waited for was read before the first sleep.
PushSleep(td) ==
    /\ At(td, "push") /\ Full(loc[td].target)
    /\ ~ep[loc[td].target].closed /\ (loc[td].waited \/ ~ep[loc[td].target].nonblock)
    /\ ProcSleep(td, loc[td].target)
    /\ loc' = [loc EXCEPT ![td].waited = TRUE]
    /\ UNCHANGED <<proc, ep, svc, waiter, holder, refs, strays, pc>>

\* The queue is full and the target closed, or the caller does not want to wait
\* (a thread that slept here did): the message is dropped with its handles.
PushRefused(td) ==
    /\ At(td, "push") /\ Full(loc[td].target)
    /\ loc[td].waited => ep[loc[td].target].closed
    /\ Return(td, [K EXCEPT !.refs = @ - loc[td].msg.handles])
    /\ UNCHANGED <<proc, waiter, holder>>

\* ipc_cancel_add
Cancel(e, id) ==
    [K EXCEPT !.ep[e].canceled[ep[e].cancel_pos] = id,
              !.ep[e].cancel_pos = (@ + 1) % IPC_CANCEL_SLOTS]

\* What is in the queue of e as a reply to id came before the call was cancelled.
Passed(q, id) == [i \in DOMAIN q |-> [q[i] EXCEPT !.early = @ \/ q[i].reply_to = id]]

\* The request is queued; a call with a timeout takes a waiter or is cancelled,
\* without a look at the queue.
Sent(td) ==
    /\ At(td, "sent")
    /\ LET unused == {w \in Waiters : waiter[w] = NULL}
       IN  IF loc[td].wait = "timed" /\ unused = {}
           THEN /\ Return(td, [Cancel(loc[td].own, loc[td].id) EXCEPT
                                 !.ep[loc[td].own].queue = Passed(@, loc[td].id)])
                /\ UNCHANGED waiter
           ELSE LET w == IF loc[td].wait = "timed" THEN Min(unused) ELSE NULL
                IN  /\ waiter' = IF w = NULL THEN waiter
                                 ELSE [waiter EXCEPT ![w] = [ep |-> loc[td].own, expired |-> FALSE]]
                    /\ loc' = [loc EXCEPT ![td].waiter = w]
                    /\ Goto(td, "reply")
                    /\ Becomes(K)
    /\ UNCHANGED <<proc, holder>>

\* api_ipc_recv up to ipc_queue_pop.
Recv(td, e) ==
    /\ Enter(td, e, "recv", NoLoc)
    /\ ep' = [ep EXCEPT ![e].refcount = @ + 1]
    /\ UNCHANGED <<proc, svc, waiter, holder, refs, strays, asleep>>

\* Messages in the queue that the thread looks for: any, or the reply to its call.
Matches(td) ==
    LET q == ep[loc[td].own].queue
    IN  {i \in DOMAIN q : pc[td] = "reply" => q[i].reply_to = loc[td].id}
Popping(td) == At(td, "recv") \/ At(td, "reply")
Expired(td) == loc[td].waiter # NULL /\ waiter[loc[td].waiter].expired
\* ipc_waiter_release, if the call has a waiter.
WaiterRelease(td) ==
    waiter' = IF loc[td].waiter = NULL THEN waiter ELSE [waiter EXCEPT ![loc[td].waiter] = NULL]

\* Mutant: the handle installed first is not taken back.
TakenBack_ButFirst(k) == 1 .. k - 1

\* Indices of the handles that ipc_message_copyout takes back when it could install
\* k of them and no more.
TakenBack(k) == 0 .. k - 1

\* Outcomes of ipc_message_copyout for n handles: it installs all; it fails, after k
\* of them for want of a slot in the handle table or before the first for a bad
\* address; or it finds the buffers too small.
Copyouts(n) == {[ret |-> "ok", installed |-> n], [ret |-> "too_big", installed |-> 0]}
               \cup {[ret |-> "failed", installed |-> k] : k \in 0 .. Max({0, n - 1})}

\* The references of a message of n handles after an outcome: every handle installed
\* takes one, the handles of a message delivered are the program's.
Delivered(n, out) ==
    IF out.ret = "too_big" THEN 0
    ELSE (out.installed - IF out.ret = "ok" THEN n ELSE Cardinality(TakenBack(out.installed))) - n

\* ipc_queue_unpop
Unpop(q, m) == <<m>> \o q

\* ipc_queue_pop takes the first match out of the queue.  The message goes with its
\* handles, or back to the queue if it is too big.
Pop(td) ==
    /\ Popping(td) /\ Matches(td) # {}
    /\ LET e == loc[td].own
           q == ep[e].queue
           m == q[Min(Matches(td))]
           rest == RemoveAt(q, Min(Matches(td)))
       IN  \E out \in Copyouts(m.handles) :
              Return(td, [K EXCEPT !.asleep = ProcWakeup(@, {e}),
                                   !.ep[e].queue = IF out.ret = "too_big" THEN Unpop(rest, m) ELSE rest,
                                   !.refs = @ + Delivered(m.handles, out)])
    /\ WaiterRelease(td)
    /\ UNCHANGED <<proc, holder>>

\* Nothing there and the endpoint is closed, or opened not to block, or a receiver
\* does not want to wait.
PopRefused(td) ==
    /\ Popping(td) /\ Matches(td) = {}
    /\ LET own == ep[loc[td].own]
       IN  \/ own.closed
           \/ pc[td] = "recv" /\ ~loc[td].waited
           \/ own.nonblock /\ (pc[td] = "reply" => loc[td].wait = "forever")
    /\ WaiterRelease(td)
    /\ Return(td, K)
    /\ UNCHANGED <<proc, holder>>

\* Mutant: the waiter of a call that times out is not released.
CallTimeout_KeepsWaiter(td) ==
    /\ At(td, "reply") /\ Matches(td) = {} /\ ~ep[loc[td].own].closed
    /\ loc[td].wait = "zero" \/ Expired(td)
    /\ Return(td, Cancel(loc[td].own, loc[td].id))
    /\ UNCHANGED <<proc, waiter, holder>>

\* A call without patience, or whose time is up, is cancelled.
CallTimeout(td) ==
    /\ At(td, "reply") /\ Matches(td) = {} /\ ~ep[loc[td].own].closed
    /\ loc[td].wait = "zero" \/ Expired(td)
    /\ WaiterRelease(td)
    /\ Return(td, Cancel(loc[td].own, loc[td].id))
    /\ UNCHANGED <<proc, holder>>

PopSleep(td) ==
    /\ Popping(td) /\ Matches(td) = {} /\ ~ep[loc[td].own].closed
    /\ pc[td] = "recv" \/ loc[td].wait = "forever" => ~ep[loc[td].own].nonblock
    /\ loc[td].wait # "zero" /\ ~Expired(td)
    /\ ProcSleep(td, loc[td].own)
    /\ loc' = [loc EXCEPT ![td].waited = (pc[td] = "recv")]
    /\ UNCHANGED <<proc, ep, svc, waiter, holder, refs, strays, pc>>

\* Mutant: a waiter past its deadline is marked but not woken.
TimerTick_NoWake(w) ==
    /\ cpu = NULL
    /\ waiter[w] # NULL /\ ~waiter[w].expired
    /\ waiter' = [waiter EXCEPT ![w].expired = TRUE]
    /\ UNCHANGED <<proc, ep, svc, holder, refs, strays, pc, loc, asleep, cpu>>

\* ipc_timer_tick finds waiter w past its deadline.
TimerTick(w) ==
    /\ cpu = NULL
    /\ waiter[w] # NULL /\ ~waiter[w].expired
    /\ waiter' = [waiter EXCEPT ![w].expired = TRUE]
    /\ asleep' = ProcWakeup(asleep, {waiter[w].ep})
    /\ UNCHANGED <<proc, ep, svc, holder, refs, strays, pc, loc, cpu>>

-----------------------------------------------------------------------------

UserCall(td) ==
    \E e \in Eps :
        \/ \E s \in Services :
              \/ \E nonblock \in ServerNonblock : Create(td, s, e, nonblock)
              \/ \E nonblock \in ClientNonblock : Connect(td, s, e, nonblock)
        \/ Close(td, e) \/ Disconnect(td, e) \/ Recv(td, e)
        \/ \E n \in Counts :
              \/ \E id \in Ids, wait \in Waits : Call(td, e, id, wait, n)
              \/ \E reply \in {NULL} \cup Ids :
                    (ep[e].role \in Repliers \/ reply = NULL) /\ Send(td, e, reply, n)
        \/ \E reply \in Ids : SendCanceled(td, e, reply)

Continue(td) ==
    \/ Push(td) \/ PushSleep(td) \/ PushRefused(td)
    \/ Sent(td) \/ PopRefused(td) \/ CallTimeout(td) \/ PopSleep(td)
    \/ Pop(td)

Next ==
    \/ \E td \in Threads : UserCall(td) \/ ExitGroup(td) \/ Continue(td)
    \/ \E w \in Waiters : TimerTick(w)

Spec == Init /\ [][Next]_vars

-----------------------------------------------------------------------------
(* Properties *)

\* Every variable has its type.
TypeOK ==
    /\ \A e \in Eps :
          /\ ep[e].refcount \in 0 .. Cardinality(Threads) + 1 /\ (ep[e].used <=> ep[e].refcount > 0)
          /\ Len(ep[e].queue) <= IPC_QUEUE_MESSAGES
          /\ ep[e].service \in Services \cup {NULL}
    /\ \A w \in Waiters : waiter[w] # NULL => waiter[w].ep \in Eps
    /\ refs \in Nat
    /\ asleep \in [Threads -> Eps \cup {NULL}]
    /\ cpu \in Threads \cup {NULL}

\* The reference count of an endpoint is its handle and the calls in progress on
\* it; the calls of threads killed in their sleep count for ever, and keep the
\* endpoint open.  A block that is free is in nobody's call.
RefsCounted ==
    /\ TypeOK
    /\ \A e \in Eps :
           ep[e].refcount = Cardinality({td \in Threads : loc[td].own = e})
                            + IF holder[e] = NULL THEN 0 ELSE 1

\* Endpoints and services point at each other, in whatever order they are released:
\* a service in use has a live server, its clients are live endpoints of it, and
\* every other client is closed.
Sessions ==
    /\ \A s \in Services :
          /\ svc[s].used <=> svc[s].server # NULL
          /\ svc[s].server # NULL => /\ ep[svc[s].server].role = "SERVER"
                                     /\ ep[svc[s].server].service = s
          /\ svc[s].clients = {e \in Eps : ep[e].role = "CLIENT" /\ ep[e].service = s}
          /\ svc[s].client_count = Cardinality(svc[s].clients)
    /\ \A e \in Eps : /\ ep[e].role = "SERVER" => svc[ep[e].service].server = e
                      /\ ep[e].role = "CLIENT" /\ ep[e].service = NULL => ep[e].closed

\* Every entity reference taken for a message is that of a handle in a queue or
\* with a thread that sends, killed in its sleep or not: none is left over when
\* handles are installed in part and taken back, or released twice when a message
\* is refused, put back or cleared with its endpoint.  The exception is a message
\* that reached a block which had been freed under its sender.
CarriedCounted ==
    refs = MapThenSumSet(LAMBDA e : CarriedBy(ep[e].queue), Eps)
           + MapThenSumSet(LAMBDA td : loc[td].msg.handles, Threads)

\* A thread sleeps only while there is nothing for it to do: a sender while the
\* queue is full, a receiver while it is empty, a call while its reply is not there
\* and its time not up, all while the endpoint is open.  This says nothing of a
\* sender whose target is gone.
NoLostWakeup ==
    \A td \in Threads \ strays : asleep[td] # NULL =>
        /\ ~ep[asleep[td]].closed
        /\ IF pc[td] = "push" THEN Full(asleep[td])
           ELSE Matches(td) = {} /\ ~Expired(td)

\* The late reply to a call that timed out does not get into the queue as long as
\* the call is remembered, unless it had passed the test before: its sender had
\* been waiting for room, or the call was given up without a look at the queue.
LateReplyDropped ==
    \A e \in Eps : \A i \in DOMAIN ep[e].queue :
        LET m == ep[e].queue[i]
        IN  m.reply_to # NULL /\ ~m.early => \A c \in CancelSlots : ep[e].canceled[c] # m.reply_to

\* Threads that hold waiter w.
HoldersOf(w) == {td \in Threads : loc[td].waiter = w}

\* A waiter in use belongs to one call, that waits for its reply or was killed while
\* it did, and its endpoint is still there for the timer to wake; every call with a
\* timeout that waits for its reply has one of its own.
WaitersHeld ==
    /\ \A w \in Waiters :
          IF waiter[w] = NULL THEN HoldersOf(w) = {}
          ELSE /\ \E td \in Threads : /\ HoldersOf(w) = {td}
                                      /\ pc[td] \in {"reply", "dead"}
                                      /\ loc[td].own = waiter[w].ep
               /\ ep[waiter[w].ep].used
    /\ \A td \in Threads : pc[td] = "reply" => (loc[td].wait = "timed" <=> loc[td].waiter # NULL)
==============================================================================
