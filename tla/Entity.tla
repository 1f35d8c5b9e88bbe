-------------------------------- MODULE Entity --------------------------------
(***************************************************************************)
(* Entities: reference-counted slots with generations (entity.c), the      *)
(* per-process handle table (entity_handle.c), the name space              *)
(* (entity_ns.c) and the system calls on them (api/entity.c).              *)
(*                                                                         *)
(* Each of the three tables has a spin lock, and every section under one   *)
(* of them is a step; the system calls take several, so threads on         *)
(* different CPUs, of one process or of several, interleave between them.  *)
(* A call on a handle looks its entity up and goes on without a reference  *)
(* of its own.  Access rights, owners and payload data are left out.       *)
(***************************************************************************)
EXTENDS Integers, FiniteSets, SequencesExt

CONSTANTS Procs,           \* processes
          Threads,         \* their threads
          KERNEL,          \* the kernel subsystem that owns the inline slot
          Slots,           \* slots of the entity blocks
          Inline,          \* the slots of Slots in an inline block
          Names,           \* paths
          ENTITY_REF_MAX,
          ENTITY_MAX_HANDLES,
          ENTITY_MAX_NS_NODES,
          SHIFT, WIDTH,    \* a handle is (gen << SHIFT) | slot in WIDTH bits
          MaxEntities,     \* bound: entities made in a behaviour
          NULL

ASSUME EntityAssumption ==
    /\ Inline \subseteq Slots /\ IsFiniteSet(Slots)
    /\ KERNEL \notin Threads
    /\ {ENTITY_REF_MAX, ENTITY_MAX_HANDLES, ENTITY_MAX_NS_NODES, SHIFT, WIDTH} \subseteq Nat
    /\ MaxEntities \in Nat
    /\ ENTITY_MAX_HANDLES <= 2 ^ SHIFT /\ SHIFT < WIDTH

Actors == Threads \cup {KERNEL}
Handles == 0 .. ENTITY_MAX_HANDLES - 1

VARIABLES
    slots,         \* bound: the slots of one kind of block, ordinary or inline; fixed
    used, gen, state, refs,    \* the columns of entity_meta_block_t
    free,          \* entity_free_head and entity_free_next, as a stack
    names,         \* names[n]: the id bound to path n, or NULL
    htab,          \* htab[h]: owner and id of handle slot h, or NULL
    hgen,          \* entity_handle_gen
    hfree,         \* entity_handle_free_head, as a stack
    chain,         \* chain[p]: handle slots of p from entity_handle_head on
    proc,          \* thread_t.proc; any assignment of the threads, fixed
    alive,         \* processes that run
    pc,            \* where each actor is
    loc,           \* the locals of its call, see NoCall
    holds,         \* references on loc[a].id that the call of a owns
    hooks,         \* calls of the release hook in the life of a slot
    raced          \* history: what two threads of one process have spoilt, see NoRace

tableVars == <<used, gen, state, refs, free, hooks>>
handleVars == <<htab, hgen, hfree, chain>>
procVars == <<proc, alive, raced, slots>>
vars == <<slots, used, gen, state, refs, free, names, htab, hgen, hfree, chain, proc, alive, pc,
          loc, holds, hooks, raced>>

\* op: the call; id, h: the entity and the handle (an int) it works on; dst: the
\* process whose handle table it changes; snap: ids still to be copied; after:
\* where entity_release returns to.
NoCall == [op |-> NULL, id |-> NULL, h |-> NULL, dst |-> NULL, snap |-> <<>>, after |-> "idle"]

\* ids: entities of which ENTITY_CTL_DELETE has released a reference that was not
\* its handle's any more; names: paths bound to an entity already DYING or gone;
\* procs: processes that were given a handle after their exit.
NoRace == [ids |-> {}, names |-> {}, procs |-> {}]

Init ==
    /\ used = [s \in Slots |-> FALSE] /\ gen = [s \in Slots |-> 0]
    /\ state = [s \in Slots |-> "NONE"] /\ refs = [s \in Slots |-> 0]
    /\ slots \in {Slots \ Inline, Inline}
    /\ free = SetToSeq(slots \ Inline)
    /\ names = [n \in Names |-> NULL]
    /\ htab = [h \in Handles |-> NULL] /\ hgen = [h \in Handles |-> 0]
    /\ hfree = [i \in 1 .. ENTITY_MAX_HANDLES |-> i - 1]
    /\ chain = [p \in Procs |-> <<>>]
    /\ proc \in [Threads -> Procs]
    /\ \E t \in Threads : alive = {proc[t]}
    /\ pc = [a \in Actors |-> "idle"] /\ loc = [a \in Actors |-> NoCall]
    /\ holds = [a \in Actors |-> 0] /\ hooks = [s \in Slots |-> 0]
    /\ raced = NoRace

\* Actor a goes on at a label with locals l; a call that ends forgets them.
GotoWith(a, label, l) ==
    /\ pc' = [pc EXCEPT ![a] = label]
    /\ loc' = [loc EXCEPT ![a] = IF label = "idle" THEN NoCall ELSE l]
Goto(a, label) == GotoWith(a, label, loc[a])
Id(a) == loc[a].id
Hold(a, n) == holds' = [holds EXCEPT ![a] = @ + n]

-----------------------------------------------------------------------------
(* Entities *)

\* entity_slot: the id names a slot in use, in its present generation.
Valid(i) == i # NULL /\ used[i.slot] /\ gen[i.slot] = i.gen

\* entity_create and entity_attach on slot s, for actor a.
Occupy(a, s) ==
    /\ MapThenSumSet(LAMBDA x : gen[x], Slots) < MaxEntities
    /\ gen' = [gen EXCEPT ![s] = @ + 1]
    /\ used' = [used EXCEPT ![s] = TRUE]
    /\ state' = [state EXCEPT ![s] = "ACTIVE"]
    /\ refs' = [refs EXCEPT ![s] = 1]
    /\ hooks' = [hooks EXCEPT ![s] = 0]
    /\ Hold(a, 1)

\* entity_destroy: ACTIVE becomes DELETED and its names go, then a reference is
\* released; an id that is not valid ends the call.
Destroy(a) ==
    /\ pc[a] = "destroy"
    /\ LET s == Id(a).slot
           l == [loc[a] EXCEPT !.after = IF loc[a].op = "delete" THEN "drop" ELSE "idle"]
       IN  IF ~Valid(Id(a))
           THEN Goto(a, "idle") /\ Hold(a, -holds[a]) /\ UNCHANGED state
           ELSE /\ UNCHANGED holds
                /\ IF state[s] = "ACTIVE"
                   THEN /\ state' = [state EXCEPT ![s] = "DELETED"]
                        /\ GotoWith(a, "destroy_unbind", l)
                   ELSE UNCHANGED state /\ GotoWith(a, "release", l)
    /\ UNCHANGED <<used, gen, refs, free, hooks, names, handleVars, procVars>>

\* entity_ns_free_slot of the nodes of some paths.
Unbind(ns) ==
    /\ names' = [n \in Names |-> IF n \in ns THEN NULL ELSE names[n]]
    /\ raced' = [raced EXCEPT !.names = @ \ ns]

\* entity_ns_unbind_all_id, from entity_destroy or entity_release.
UnbindAll(a) ==
    /\ pc[a] \in {"destroy_unbind", "release_unbind"}
    /\ Unbind({n \in Names : names[n] = Id(a)})
    /\ Goto(a, IF pc[a] = "destroy_unbind" THEN "release" ELSE "release_free")
    /\ UNCHANGED <<tableVars, handleVars, proc, alive, slots, holds>>

\* Mutant: the hook is not run for a deleted entity.
Release_Deleted(a) ==
    /\ pc[a] = "release"
    /\ LET s == Id(a).slot
           left == Max({0, refs[s] - 1})
       IN  IF ~Valid(Id(a)) THEN Goto(a, loc[a].after) /\ UNCHANGED <<refs, state>>
           ELSE /\ refs' = [refs EXCEPT ![s] = left]
                /\ IF left # 0 \/ state[s] = "DYING"
                   THEN Goto(a, loc[a].after) /\ UNCHANGED state
                   ELSE Goto(a, IF state[s] = "DELETED" THEN "release_unbind" ELSE "release_hook")
                        /\ state' = [state EXCEPT ![s] = "DYING"]
    /\ Hold(a, -1)
    /\ UNCHANGED <<used, gen, free, hooks, names, handleVars, procVars>>

\* entity_release: the last reference makes the entity DYING.
Release(a) ==
    /\ pc[a] = "release"
    /\ LET s == Id(a).slot
           left == Max({0, refs[s] - 1})
       IN  IF ~Valid(Id(a)) THEN Goto(a, loc[a].after) /\ UNCHANGED <<refs, state>>
           ELSE /\ refs' = [refs EXCEPT ![s] = left]
                /\ IF left # 0 \/ state[s] = "DYING"
                   THEN Goto(a, loc[a].after) /\ UNCHANGED state
                   ELSE Goto(a, "release_hook") /\ state' = [state EXCEPT ![s] = "DYING"]
    /\ Hold(a, -1)
    /\ UNCHANGED <<used, gen, free, hooks, names, handleVars, procVars>>

\* Mutant: the names are not unbound.
ReleaseHook_KeepsNames(a) ==
    /\ pc[a] = "release_hook"
    /\ hooks' = [hooks EXCEPT ![Id(a).slot] = @ + 1]
    /\ Goto(a, "release_free")
    /\ UNCHANGED <<used, gen, state, refs, free, names, handleVars, procVars, holds>>

\* The archetype's release hook runs without a lock.
ReleaseHook(a) ==
    /\ pc[a] = "release_hook"
    /\ hooks' = [hooks EXCEPT ![Id(a).slot] = @ + 1]
    /\ Goto(a, "release_unbind")
    /\ UNCHANGED <<used, gen, state, refs, free, names, handleVars, procVars, holds>>

\* Mutant: inline slots are pushed too.
ReleaseFree_Inline(a) ==
    /\ pc[a] = "release_free"
    /\ LET s == Id(a).slot
       IN  IF Valid(Id(a)) /\ state[s] = "DYING"
           THEN /\ used' = [used EXCEPT ![s] = FALSE]
                /\ free' = <<s>> \o free
           ELSE UNCHANGED <<used, free>>
    /\ Goto(a, loc[a].after)
    /\ UNCHANGED <<gen, state, refs, hooks, names, handleVars, procVars, holds>>

\* The slot is free again; an inline slot has no place in the free list.
ReleaseFree(a) ==
    /\ pc[a] = "release_free"
    /\ LET s == Id(a).slot
       IN  IF Valid(Id(a)) /\ state[s] = "DYING"
           THEN /\ used' = [used EXCEPT ![s] = FALSE]
                /\ free' = IF s \in Inline THEN free ELSE <<s>> \o free
           ELSE UNCHANGED <<used, free>>
    /\ Goto(a, loc[a].after)
    /\ UNCHANGED <<gen, state, refs, hooks, names, handleVars, procVars, holds>>

-----------------------------------------------------------------------------
(* Handles *)

\* The int that stands for slot h in generation g, and what it decodes to.
Encode(h, g) ==
    LET raw == h + ((g * 2 ^ SHIFT) % 2 ^ WIDTH)
    IN  IF raw >= 2 ^ (WIDTH - 1) THEN raw - 2 ^ WIDTH ELSE raw

HandleOf(h) == Encode(h, hgen[h])

\* entity_handle_slot: int n resolves for process p.
Resolves(p, n) ==
    /\ n >= 0
    /\ LET h == n % 2 ^ SHIFT
       IN  /\ h \in Handles /\ htab[h] # NULL
           /\ htab[h].pid = p /\ hgen[h] = n \div 2 ^ SHIFT

\* entity_handle_drop_locked
DropSlot(p, h) ==
    /\ chain' = [chain EXCEPT ![p] = SelectSeq(@, LAMBDA x : x # h)]
    /\ htab' = [htab EXCEPT ![h] = NULL]
    /\ hfree' = <<h>> \o hfree
    /\ UNCHANGED hgen

\* Where a call goes when entity_handle_alloc returns a handle, or an error: a
\* negative int.
AllocDone(a) ==
    CASE loc[a].op = "create" -> "release" [] loc[a].op = "fork" -> "fork_next" [] OTHER -> "idle"
AllocFailed(a) ==
    CASE loc[a].op = "create" -> "destroy" [] loc[a].op = "fork" -> "release_all" [] OTHER -> "idle"

\* entity_handle_alloc: entity_retain_checked, then a slot of the handle table.
AllocRetain(a) ==
    /\ pc[a] = "alloc_retain"
    /\ IF Valid(Id(a)) /\ state[Id(a).slot] # "DYING" /\ refs[Id(a).slot] < ENTITY_REF_MAX
       THEN /\ refs' = [refs EXCEPT ![Id(a).slot] = @ + 1]
            /\ Hold(a, 1) /\ Goto(a, "alloc_link")
       ELSE Goto(a, AllocFailed(a)) /\ UNCHANGED <<refs, holds>>
    /\ UNCHANGED <<used, gen, state, free, hooks, names, handleVars, procVars>>

\* Mutant: a full table does not release the entity.
AllocLink_Leaks(a) ==
    /\ pc[a] = "alloc_link"
    /\ IF hfree = <<>>
       THEN /\ Goto(a, AllocFailed(a))
            /\ UNCHANGED <<handleVars, holds>>
       ELSE LET h == Head(hfree)
                g == hgen[h] + 1
            IN  /\ hfree' = Tail(hfree)
                /\ hgen' = [hgen EXCEPT ![h] = g]
                /\ htab' = [htab EXCEPT ![h] = [pid |-> loc[a].dst, id |-> Id(a)]]
                /\ chain' = [chain EXCEPT ![loc[a].dst] = <<h>> \o @]
                /\ Hold(a, -1)
                /\ Goto(a, IF Encode(h, g) < 0 THEN AllocFailed(a) ELSE AllocDone(a))
    /\ raced' = IF hfree # <<>> /\ loc[a].op # "fork" /\ loc[a].dst \notin alive
                THEN [raced EXCEPT !.procs = @ \cup {loc[a].dst}] ELSE raced
    /\ UNCHANGED <<tableVars, names, proc, alive, slots>>

AllocLink(a) ==
    /\ pc[a] = "alloc_link"
    /\ IF hfree = <<>>
       THEN /\ GotoWith(a, "release", [loc[a] EXCEPT !.after = AllocFailed(a)])
            /\ UNCHANGED <<handleVars, holds>>
       ELSE LET h == Head(hfree)
                g == hgen[h] + 1
            IN  /\ hfree' = Tail(hfree)
                /\ hgen' = [hgen EXCEPT ![h] = g]
                /\ htab' = [htab EXCEPT ![h] = [pid |-> loc[a].dst, id |-> Id(a)]]
                /\ chain' = [chain EXCEPT ![loc[a].dst] = <<h>> \o @]
                /\ Hold(a, -1)
                /\ Goto(a, IF Encode(h, g) < 0 THEN AllocFailed(a) ELSE AllocDone(a))
    /\ raced' = IF hfree # <<>> /\ loc[a].op # "fork" /\ loc[a].dst \notin alive
                THEN [raced EXCEPT !.procs = @ \cup {loc[a].dst}] ELSE raced
    /\ UNCHANGED <<tableVars, names, proc, alive, slots>>

\* entity_handle_drop without a release: the end of a delete, whose reference
\* entity_destroy has released.  The handle may have been dropped since.
Drop(a) ==
    /\ pc[a] = "drop"
    /\ LET p == proc[a]
           n == loc[a].h
       IN  /\ IF Resolves(p, n) THEN DropSlot(p, n % 2 ^ SHIFT) ELSE UNCHANGED handleVars
           /\ raced' = IF Resolves(p, n) /\ holds[a] = -1
                       THEN raced ELSE [raced EXCEPT !.ids = @ \cup {Id(a)}]
    /\ holds' = [holds EXCEPT ![a] = 0]
    /\ Goto(a, "idle")
    /\ UNCHANGED <<tableVars, names, proc, alive, slots>>

\* Mutant: the last handle of the chain is kept.
ReleaseAll_KeepsLast(a) ==
    /\ pc[a] = "release_all"
    /\ LET p == loc[a].dst
           h == Head(chain[p])
       IN  IF Len(chain[p]) > 1 /\ Resolves(p, HandleOf(h))
           THEN /\ DropSlot(p, h) /\ Hold(a, 1)
                /\ GotoWith(a, "release",
                            [loc[a] EXCEPT !.id = htab[h].id, !.after = "release_all"])
                /\ UNCHANGED alive
           ELSE /\ alive' = IF loc[a].op = "fork" THEN alive \cup {p} ELSE alive \ {p}
                /\ Goto(a, "idle")
                /\ UNCHANGED <<handleVars, holds>>
    /\ UNCHANGED <<tableVars, names, proc, raced, slots>>

\* entity_handle_release_all: the handles of a process from the head of its chain
\* on, until none is left or one does not resolve.  A fork goes on without
\* handles after a failed copy.
ReleaseAll(a) ==
    /\ pc[a] = "release_all"
    /\ LET p == loc[a].dst
           h == Head(chain[p])
       IN  IF chain[p] # <<>> /\ Resolves(p, HandleOf(h))
           THEN /\ DropSlot(p, h) /\ Hold(a, 1)
                /\ GotoWith(a, "release",
                            [loc[a] EXCEPT !.id = htab[h].id, !.after = "release_all"])
                /\ UNCHANGED alive
           ELSE /\ alive' = IF loc[a].op = "fork" THEN alive \cup {p} ELSE alive \ {p}
                /\ Goto(a, "idle")
                /\ UNCHANGED <<handleVars, holds>>
    /\ UNCHANGED <<tableVars, names, proc, raced, slots>>

-----------------------------------------------------------------------------
(* System calls of thread t *)

\* A thread of a process that runs and does not exit.
Idle(t) ==
    /\ proc[t] \in alive /\ pc[t] = "idle"
    /\ ~\E x \in Threads : proc[x] = proc[t] /\ loc[x].op = "exit"

\* Call o begins at a label, on entity i or handle n; handles go to the process.
Begin(t, o, label, i, n) ==
    GotoWith(t, label, [NoCall EXCEPT !.op = o, !.id = i, !.h = n,
                                      !.dst = IF t = KERNEL THEN NULL ELSE proc[t]])

\* The handle slots that p has a handle for.
Mine(p) == {h \in Handles : htab[h] # NULL /\ Resolves(p, HandleOf(h))}

\* api_entity_create: a name is bound next, if the caller gives one.
ApiCreate(t) ==
    /\ Idle(t)
    /\ free # <<>>
    /\ Occupy(t, Head(free))
    /\ free' = Tail(free)
    /\ \E label \in {"bind", "alloc_retain"} :
        Begin(t, "create", label, [slot |-> Head(free), gen |-> gen[Head(free)] + 1], NULL)
    /\ UNCHANGED <<names, handleVars, procVars>>

\* entity_ns_bind: a name in use and a full table are errors.  A create then
\* destroys its entity; ENTITY_CTL_BIND and the kernel leave it.  The entity may
\* be gone: only its id is needed.
Bind(a) ==
    /\ pc[a] = "bind"
    /\ LET rest == IF loc[a].op = "kernel" THEN "owner" ELSE "idle"
           gone == ~Valid(Id(a)) \/ state[Id(a).slot] = "DYING"
       IN  \E n \in Names :
            IF /\ names[n] = NULL
               /\ Cardinality({m \in Names : names[m] # NULL}) < ENTITY_MAX_NS_NODES
            THEN /\ names' = [names EXCEPT ![n] = Id(a)]
                 /\ raced' = IF gone THEN [raced EXCEPT !.names = @ \cup {n}] ELSE raced
                 /\ Goto(a, IF loc[a].op = "create" THEN "alloc_retain" ELSE rest)
            ELSE /\ UNCHANGED <<names, raced>>
                 /\ Goto(a, IF loc[a].op = "create" THEN "destroy" ELSE rest)
    /\ UNCHANGED <<tableVars, handleVars, proc, alive, slots, holds>>

\* api_entity_open: the id is looked up, checked by entity_access, and given a
\* handle in separate steps.
ApiOpen(t, n) ==
    /\ Idle(t)
    /\ names[n] # NULL
    /\ Begin(t, "open", "access", names[n], NULL)
    /\ UNCHANGED <<tableVars, names, handleVars, procVars, holds>>

\* api_entity_ctl: the handle is looked up, then ENTITY_CTL_DELETE, ENTITY_CTL_BIND
\* and ENTITY_CTL_UNBIND check the id by entity_access and work on it.
ApiCtl(t, h, op) ==
    /\ Idle(t)
    /\ Begin(t, op, "access", htab[h].id, HandleOf(h))
    /\ UNCHANGED <<tableVars, names, handleVars, procVars, holds>>

\* entity_access of an open or a ctl.
Access(t) ==
    /\ pc[t] = "access"
    /\ Goto(t, IF ~Valid(Id(t)) THEN "idle"
               ELSE CASE loc[t].op = "open" -> "alloc_retain" [] loc[t].op = "delete" -> "destroy"
                      [] loc[t].op = "ctl_bind" -> "bind" [] loc[t].op = "ctl_unbind" -> "unbind")
    /\ UNCHANGED <<tableVars, names, handleVars, procVars, holds>>

\* entity_ns_unbind_id: one of the names of the entity, if it has any.
UnbindId(t) ==
    /\ pc[t] = "unbind"
    /\ LET bound == {n \in Names : names[n] = Id(t)}
       IN  \/ bound = {} /\ UNCHANGED <<names, raced>>
           \/ \E n \in bound : Unbind({n})
    /\ Goto(t, "idle")
    /\ UNCHANGED <<tableVars, handleVars, proc, alive, slots, holds>>

ApiDup(t, h) ==
    /\ Idle(t)
    /\ Begin(t, "dup", "alloc_retain", htab[h].id, HandleOf(h))
    /\ UNCHANGED <<tableVars, names, handleVars, procVars, holds>>

ApiClose(t, h) ==
    /\ Idle(t)
    /\ DropSlot(proc[t], h) /\ Hold(t, 1)
    /\ Begin(t, "close", "release", htab[h].id, HandleOf(h))
    /\ UNCHANGED <<tableVars, names, procVars>>

\* entity_handle_copy_all into a new process q: the ids are copied under the
\* lock, and given to q one by one.
ApiFork(t, q) ==
    /\ Idle(t)
    /\ q \notin alive /\ chain[q] = <<>>
    /\ ~\E a \in Actors : loc[a].dst = q
    /\ GotoWith(t, "fork_next", [NoCall EXCEPT !.op = "fork", !.dst = q,
           !.snap = [i \in 1 .. Len(chain[proc[t]]) |-> htab[chain[proc[t]][i]].id]])
    /\ UNCHANGED <<tableVars, names, handleVars, procVars, holds>>

ForkNext(t) ==
    /\ pc[t] = "fork_next"
    /\ IF loc[t].snap = <<>>
       THEN alive' = alive \cup {loc[t].dst} /\ Goto(t, "idle")
       ELSE /\ GotoWith(t, "alloc_retain",
                        [loc[t] EXCEPT !.id = Head(loc[t].snap), !.snap = Tail(@)])
            /\ UNCHANGED alive
    /\ UNCHANGED <<tableVars, names, handleVars, holds, proc, raced, slots>>

\* process_teardown_resources releases the handles of the process.  A thread of it
\* in the middle of a call on another CPU goes on, but makes no other.
ApiExit(t) ==
    /\ Idle(t)
    /\ Begin(t, "exit", "release_all", NULL, NULL)
    /\ UNCHANGED <<tableVars, names, handleVars, procVars, holds>>

\* A subsystem attaches its inline slot s, gives it a name, and later destroys it.
KernelAttach(s) ==
    /\ pc[KERNEL] = "idle"
    /\ s \in slots /\ ~used[s]
    /\ Occupy(KERNEL, s)
    /\ Begin(KERNEL, "kernel", "bind", [slot |-> s, gen |-> gen[s] + 1], NULL)
    /\ UNCHANGED <<free, names, handleVars, procVars>>

KernelDestroy ==
    /\ pc[KERNEL] = "owner"
    /\ Goto(KERNEL, "destroy")
    /\ UNCHANGED <<tableVars, names, handleVars, procVars, holds>>

Call(t) ==
    \/ ApiCreate(t) \/ ApiExit(t)
    \/ \E n \in Names : ApiOpen(t, n)
    \/ \E h \in Mine(proc[t]) :
         \/ ApiDup(t, h) \/ ApiClose(t, h)
         \/ \E op \in {"delete", "ctl_bind", "ctl_unbind"} : ApiCtl(t, h, op)
    \/ \E q \in Procs : ApiFork(t, q)

Progress(a) ==
    \/ Destroy(a) \/ UnbindAll(a) \/ Release(a) \/ ReleaseHook(a) \/ ReleaseFree(a) \/ Bind(a)
    \/ AllocRetain(a) \/ AllocLink(a) \/ Drop(a) \/ ReleaseAll(a) \/ Access(a) \/ UnbindId(a)
    \/ ForkNext(a)

Next ==
    \/ \E t \in Threads : Call(t)
    \/ \E a \in Actors : Progress(a)
    \/ \E s \in Inline : KernelAttach(s)
    \/ KernelDestroy

Spec == Init /\ [][Next]_vars

-----------------------------------------------------------------------------
(* Properties *)

Ids == [slot : Slots, gen : 1 .. MaxEntities]
IdOf(s) == [slot |-> s, gen |-> gen[s]]
Ids0 == Ids \cup {NULL}

\* Every variable has its type.
TypeOK ==
    /\ used \in [Slots -> BOOLEAN] /\ gen \in [Slots -> 0 .. MaxEntities]
    /\ state \in [Slots -> {"NONE", "ACTIVE", "DELETED", "DYING"}]
    /\ refs \in [Slots -> 0 .. ENTITY_REF_MAX]
    /\ names \in [Names -> Ids0] /\ \A a \in Actors : Id(a) \in Ids0
    /\ \A h \in Handles : htab[h] = NULL \/ htab[h] \in [pid : Procs, id : Ids]
    /\ hgen \in [Handles -> 0 .. 2 ^ WIDTH]
    /\ alive \subseteq Procs
    /\ holds \in [Actors -> -1 .. 2]
    /\ raced \in [ids : SUBSET Ids, names : SUBSET Names, procs : SUBSET Procs]

\* Every variable has its type, and the reference count of an entity is the number of handles on it and of
\* references that calls in progress and the kernel own: nothing is leaked by
\* the error paths of api_entity_create and entity_handle_alloc, nor released
\* twice but by an ENTITY_CTL_DELETE whose handle a sibling closed or deleted.
RefsCounted ==
    /\ TypeOK
    /\ \A s \in Slots : used[s] /\ IdOf(s) \notin raced.ids =>
           LET on == {h \in Handles : htab[h] # NULL /\ htab[h].id = IdOf(s)}
               busy == {a \in Actors : Id(a) = IdOf(s)}
           IN  refs[s] = Max({0, Cardinality(on) + MapThenSumSet(LAMBDA a : holds[a], busy)})

\* An ENTITY_CTL_DELETE of entity i whose handle is gone, or is deleted by a sibling
\* as well, or such a delete in the past.
Spoilt(i) ==
    \/ i \in raced.ids
    \/ \E t \in Threads :
         /\ loc[t].op = "delete" /\ Id(t) = i
         /\ \/ ~Resolves(proc[t], loc[t].h)
            \/ \E x \in Threads \ {t} : loc[x].op = "delete" /\ loc[x].h = loc[t].h

\* A handle stands for an entity that is there and not DYING, but for the one
\* ENTITY_CTL_DELETE is about to drop, unless two threads of one process met on the
\* handle of a delete; and a path leads to an entity that is gone only if it was
\* bound when the entity was DYING or gone already, which entity_ns_bind does not
\* look at.
NoDangling ==
    /\ \A h \in Handles : htab[h] # NULL =>
          \/ Valid(htab[h].id) /\ state[htab[h].id.slot] # "DYING"
          \/ \E t \in Threads : loc[t].op = "delete" /\ loc[t].h = HandleOf(h)
          \/ Spoilt(htab[h].id)
    /\ \A n \in Names \ raced.names : names[n] # NULL => Valid(names[n])

\* The release hook of an entity runs once, before its slot is used again.
HookOnce ==
    \A s \in Slots : hooks[s] <= 1 /\ (~used[s] /\ gen[s] > 0 => hooks[s] = 1)

\* The free lists hold every unused slot once: a slot is neither lost nor given
\* out twice.
FreeExact ==
    /\ IsInjective(free) /\ Range(free) = {s \in slots \ Inline : ~used[s]}
    /\ IsInjective(hfree) /\ Range(hfree) = {h \in Handles : htab[h] = NULL}

\* An exited process keeps no handle, unless the generation of its first handle
\* slot has reached the sign bit of the handle: entity_handle_drop_locked then
\* takes it for an error and entity_handle_release_all stops; or a sibling's call
\* on another CPU gave it a handle after the exit had released them all.
ExitReleases ==
    \A p \in Procs \ alive :
        \/ \E a \in Actors : loc[a].dst = p
        \/ chain[p] = <<>>
        \/ HandleOf(Head(chain[p])) < 0
        \/ p \in raced.procs
=============================================================================
