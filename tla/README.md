# A TLA+ model of the OTSOS kernel

This directory models the concurrent core of the OTSOS kernel
(`src/src/kernel/`): how threads sleep and wake, the locks built on that, how
threads are dispatched, what entities and handles promise, how processes live,
exit and are collected, futexes and joining, and message passing. TLC checks
each model on small instances; TLAPS proves the mutex for any number of threads
and CPUs. Paths below are relative to `src/src/kernel/` unless they start with
`src/`.

Contents: [the system](#the-system), [modules](#modules), [runs](#runs),
[proofs](#proofs), [findings](#findings), [what the models leave
out](#what-the-models-leave-out), [inventory](#inventory), [plan](#plan),
[how to run](#how-to-run).

## The system

OTSOS is a small 64-bit kernel with a user land of its own. What matters for the
models is how its code executes:

* **A system call runs with interrupts masked.** `scheduler_switch` leaves a
  thread that is RUNNING in kernel mode alone unless it yields or sleeps
  (`scheduler.c:409-`). On one CPU a call is therefore interrupted only where it
  sleeps, and many paths test something and then sleep on it with no lock over
  both.
* **CPUs run in parallel.** The shipped `config/hives/SYSTEM.hive` turns on
  scheduling on the application processors, `StrictProcessSeparation` (the
  threads of a process stay on its preferred CPU) and `SmartMigration`. The big
  kernel lock of `smp/smp.c` is never taken. Different processes are in the
  kernel at the same time.
* **Sleeping is a field of the thread.** There are no wait queues. A sleeper
  stores a channel and the state SLEEPING in its slot of `thread_table`, and
  `proc_wakeup` scans the table under `thread_spin`. The sleeper's stores are not
  made under that lock.
* **A dead thread cannot free itself.** It stays current until the CPU switches
  away. A later switch unbinds it and then `process_reap` destroys it. This uses
  two counters of pending work that are kept by hand.
* **Every kernel object is an entity.** Entities have reference counts and
  generations. Processes reach them by handles, which are an `int` of generation
  and slot, or by names.

How the parts interact:

    Mutex   RwLock   Futex   ProcLife   Ipc          sleep on channels
       \      |        |        |        |
        +--- sleep and wakeup (event/event.c) ---+
                       |
       threads and dispatch (thread.c, scheduler.c)
                       |
    exit and reaping (process.c) --- entities, handles, names (entity/)
                       |                       |
             wait calls (api/wait.c)    Ipc endpoints, messages carry handles

## Modules

| Module | Models | State and actions |
| --- | --- | --- |
| `SleepQueue` | `event/event.c`: `proc_sleep_interlock`, `proc_sleep_wait`, `proc_wakeup` | `state`, `wait_channel` per slot, `thread_spin`, the scan's `cursor`. Each store is a step. Extended by the two locks. |
| `LockSpec` | what a sleeping lock promises | a holder and the contexts that wait; if the lock is free and somebody waits, somebody gets it |
| `Mutex` | `sync/mutex.c` | every access of `mtx_lock`, `mtx_trylock`, `mtx_unlock` to `lock`, `owner`, `waiters`, `interlock` is a step. Contexts are threads, and CPUs without a thread, which spin. |
| `MutexProofs` | | the inductive invariant and the theorems about `Mutex` |
| `RwLock` | `sync/rwlock.c` | the sections under the interlock are steps. Readers and writers have a channel each. Upgrade and downgrade are included. |
| `Scheduler` | `scheduler.c`, `thread.c`, the thread side of `process_exit` and `process_reap` | `scheduler_switch` in its locked and unlocked parts, picking under the three policies, clone, sleep, wake-up, thread exit, process exit, the reaping APC. `thread_join` with its test, sleep, yields and the destruction of the slot it kept a pointer to: `join` is that pointer, `stale` the joiners whose slot was taken again. The window in which a CPU is still on the old kernel stack is the label "load". |
| `Entity` | `entity/entity.c`, `entity_handle.c`, `entity_ns.c`, `api/entity.c` | the tables with their free lists. Each section under a spin lock is a step. The calls create, open, dup, close, delete, bind, unbind, copying the handles of a parent, exit, and a kernel subsystem with an inline block; threads of one process or of several make them. A ctl call looks its handle up and goes on without a reference. A handle is encoded in `WIDTH` bits with its sign. `raced` records what siblings have spoilt. |
| `ProcLife` | `process.c`, `api/copy.c`, `api/wait.c` | creation, exit in its steps, exit records and who consumes them, handles on processes, both wait calls, reaping by slot |
| `Futex` | `futex.c`, `thread_exit` of `thread.c` | the table of futex entries keyed by address only, waits and wakes, the word cleared at exit, group exit over sleepers |
| `Ipc` | `ipc/ipc.c`, `api/ipc.c` | services, sessions, queues, send, receive, call with its timeouts, waiters, cancellations, handles in messages that are installed one by one and taken back, close, disconnect, exit, the timer tick |
| `IpcRing`, `IpcQueue` | the message ring of `ipc/ipc.c`; the bounded queue it implements | head, tail, count, bytes; push, taking a reply from the middle, putting a message back |
| `MCEntity`, `MCFutex`, `MCIpc` | | symmetry sets for TLC |

`PROJECT.json` ("map") gives the source lines of every definition. An operator
`X_Something` that stands before `X` is a deliberately broken variant of `X`. It
is not part of any specification. "mutants" in `PROJECT.json` says which property
finds it out.

How small a step is differs on purpose. `SleepQueue` and `Mutex` take every
memory access apart, because their code relies on the order of plain stores.
`RwLock`, `Scheduler` and `Entity` take a section under a spin lock as one step
and keep the unlocked stores apart. `Futex` and `ProcLife` have a step per access
to shared state, and the constant `NCPU` limits how many threads are inside the
kernel. `Ipc` is the one-CPU system, where a call runs on to its next sleep.

## Runs

| Run | Instance | Checked |
| --- | --- | --- |
| `mutex` | 2 threads, 2 CPUs without one | `MutualExclusion`; `NoPanic`: the unlocked recursion test never fires on a legal call; `AwakeIsRunning`: the waker's two stores never hit a thread that has gone on; `NoLostWakeup`, `SleeperWoken`; `ImplementsLock`: the mutex refines `LockSpec` with its progress |
| `rwlock` | 2 threads, 2 CPUs without one | `RwExclusion`, `NoPanic`, `NoLostWakeup`, `SleepersWoken`: readers are always woken, writers if the lock is free again and again |
| `scheduler` | 1 CPU, 3 thread slots, 2 processes | `ReapCounted`, `NoUserAfterTeardown`, `DeadStaysDead`, `ExitedIsReaped`; `JoinerWoken`: no joiner sleeps on a sibling whose exit is past its wake-up; `LiveDestroyedByStaleJoin`: nothing destroys a live thread but a join whose slot was reused |
| `scheduler_smp` | 2 CPUs with migration | `CurrentBound`: a thread is current on one CPU at most and bound to it; `DeadCounted` |
| `scheduler_stack` | 2 CPUs, shipped policy | violates `StackExclusive`, see [Findings](#findings) |
| `entity` | 2 threads of 1 or 2 processes and a kernel subsystem, 2 slots or the inline one, 2 entities, 2 handles, 1 name, 3-bit handles | `RefsCounted`, `NoDangling`, `HookOnce`, `FreeExact`, `ExitReleases` |
| `process` | 1 CPU, 3 slots, 3 pids, one handle each | `RefsCounted`, `StatusKept`, `NoLostChild`, `PendingCounted` |
| `process_progress` | 1 CPU, 3 slots, 4 pids, no handles | `OrphanFreed`, `WaitReturns` |
| `process_threads` | 1 CPU, 3 slots | violates `ThreadListed`, see [Findings](#findings) |
| `futex` | 3 threads in 2 processes, 2 colliding addresses, a table of one entry | `EntryHeld`, `TidWaiterWoken` |
| `ipc` | 3 threads in a server and a client process, either with two of them, 2 endpoints, 2 ids, queues, waiters and cancel list of one, messages of 2 handles, every kind of timeout | `RefsCounted`, `Sessions`, `CarriedCounted`, `NoLostWakeup`, `LateReplyDropped`, `WaitersHeld` |
| `ipc_ring` | ring of 3, 2 requests, lengths 0 and 1 | `RingExact`, `ImplementsQueue`: the ring refines the queue |

The type invariant of each module is a conjunct of its first invariant
(`RwExclusion`, `ReapCounted`, the three `RefsCounted`, `EntryHeld`); `Mutex`
checks `TypeOK` by itself because it is also a theorem.

### Bounds, and why they are enough

* Two threads and two bare CPUs on a mutex give two sleepers at once, a holder, and
  a fourth that steals the lock word between the release and a sleeper's retry.
  Only threads sleep, so bare CPUs are the cheaper contenders. `RwLock` needs a
  reader and a writer asleep at once while others hold and release the lock.
* Two CPUs are enough for every race in `Scheduler` between a CPU that leaves a
  thread and one that takes it. Three slots give a process with two threads
  beside another process, so one can be killed by its sibling or joined.
  `Joinable` bounds the slots that `thread_join` is called for. The run allows one,
  which is enough for two joiners of it and for a clone that takes it in between.
  With all three allowed every property of the run holds too (1.19 million states,
  eleven minutes).
* `Entity` has two threads, whose processes are chosen in the initial state, so
  siblings race each other as well as strangers. A behaviour uses the two ordinary
  slots or the inline one (`slots`), and makes two entities (`MaxEntities`), which
  is enough for a stale id to meet a reused slot.
  `ENTITY_REF_MAX = 2` makes the reference count saturate. With `SHIFT = 1` and
  `WIDTH = 3` the sign bit is reached in the second generation of a handle slot,
  where the code's 16-bit generation needs 0x8000.
* Three process slots give a parent, a child and a grandchild, and a slot that is
  reused after one has gone.
* A futex table of one entry makes the table run full while an address waits.
* `Ipc` has a service and a client session whose blocks are reused for each other
  in any order. Which process has two threads is chosen in the initial state: two
  servers share an endpoint, or two calls compete for the one waiter and one is
  killed in its sleep. Limits of one make the queue, the waiters and the cancel
  list run full at once. Two handles are enough to install one and fail. Ids are
  interchangeable and are used again, so two suffice. A server that is opened not
  to block does nothing that callers with `IPC_MSG_NONBLOCK` do not, so only
  clients are (`ClientNonblock`). `Repliers` says whose plain messages name a
  request: the run lets servers do so. With any id in the messages of clients as
  well TLC finds no error either (2,356,364 states, nine minutes). Two sessions open
  at the same time need a third endpoint and are beyond a run of this size.
* A ring of 3 wraps, and has a middle.

`MaxEntities`, `MaxPid` and `MaxHandles` bound counters that the code does not; each
is a guard of the action that counts. Where one of
them stops the system the configuration turns the deadlock check off; it is also
off where the system may stop for good, since processes exit. `Mutex`, `RwLock`
and `IpcRing` are checked for deadlock.

### Fairness

* `Mutex`: each context that is inside an operation goes on (weak fairness of its
  steps). Nobody has to call `mtx_lock`, but a holder unlocks at last.
* `RwLock`: the same, and strong fairness for `proc_wakeup`. Its spin lock
  is test-and-set without a queue, so weak fairness would let one waker lose the
  race for `thread_spin` for ever. That is a matter of the bus, not of this code.
* `Scheduler`: the timer keeps interrupting user mode, `scheduler_switch` and
  calls in progress finish.
* `ProcLife`: the same, and the round robin of `pick_next_thread` gives every
  runnable thread its turn, which is the strong fairness of the picks. Programs
  need not call anything, so `OrphanFreed` assumes that some program is in user
  mode again and again: reaping is driven by ticks of running threads only.

`Entity`, `Futex` and `Ipc` are checked for safety only.

## Proofs

`MutexProofs` proves for every `MAX_THREADS` and every set of bare CPUs:

| Theorem | States |
| --- | --- |
| `TypeCorrect` | `Spec => []TypeOK` |
| `MutualExclusionHolds` | `Spec => []MutualExclusion` |
| `NoPanicHolds` | `Spec => []NoPanic` |
| `AwakeIsRunningHolds` | `Spec => []AwakeIsRunning` |
| `NoLostWakeupHolds` | `Spec => []NoLostWakeup` |
| `RefinesLock` | `Spec => LockImpl!Safety`: the mutex implements the abstract lock |

The assumptions are `SleepQueueAssumption` and `MutexAssumption`: there is at
least one slot, and slots, bare CPUs, `NULL` and the channel are different things.

None of the five invariants is inductive. `IInv` adds what they rest on:

* `BareNeverSleeps`: only threads take the sleeping path;
* `LockWord`: `lock = 1` exactly while somebody owns the mutex, and `owner` names
  a thread only from its own store to its own reset. This is why the unlocked
  recursion test is safe: a thread that reads itself in `owner` wrote it;
* `SpinLocks`: `interlock` and `thread_spin` are held along their sections;
* `SleepStates`: what `state` and `wait_channel` can be while a thread sleeps.
  The subtle case is the thread that the waker has made RUNNABLE and whose channel
  it has not cleared yet. The sleeper is still polling the channel then, which
  keeps the waker's second store from hitting a thread that has left;
* `WaitersCounted`: while a thread is on its way to sleep `waiters` is positive,
  and then somebody is going to take the count.

`NextIInv` has a step per action. `StepRefines` shows that a step of the mutex is
a step of `LockSpec` or a stutter: the exchange that finds 0 is Acquire or
TryAcquire, the store of 0 is Release.

Model-checked only: the progress half of `ImplementsLock` and every other
liveness property (the prover has no fairness), and the invariants of the other
modules.

## Findings

Two statements in the source are not what the code does:

* `thread.h:142` says that `running_cpu` is "-1 when not running on any CPU".
  `scheduler_switch` stores -1 (`scheduler.c:468`) and leaves `sched_spin` while
  it still executes on the stack of that thread; another CPU can pick and load the
  thread first. Run `scheduler_stack`.
* `process.h:81` calls `thread_list` the "linked list of all threads in this
  proc". When the parent collects a child whose dead thread is still bound to a
  CPU, the release hook clears the process slot with the list in it
  (`process.c:679`), and the thread slot and its stack are not freed again. Run
  `process_threads`.

Some properties hold on one CPU and fail on two; the runs state them for one, and
the hazards in `PROJECT.json` say so. Set `NCPU = 2` in the configuration to see
the counterexample: `ReapCounted`, `DeadStaysDead`, `LiveDestroyedByStaleJoin`,
`JoinerWoken` and `NoUserAfterTeardown` of `Scheduler` (unlocked counters and state
stores, test and sleep without a lock over both, a killed thread that runs on until
its next interrupt), and `TidWaiterWoken` of `Futex` (test and sleep).

Other properties name the cases in which the code does not keep the promise one
would like, and show that there are no more. The runs reach every one of them:

* `LiveDestroyedByStaleJoin`: on one CPU too, a joiner that slept or yielded may
  find its slot destroyed by another joiner and taken by a clone, and destroys the
  new thread (`thread.c:705`).
* `JoinerWoken` speaks of joiners in the process of the thread. `thread_kill_all`
  wakes nobody, so a joiner in another process sleeps on.
* `NoDangling`: a path leads to an entity that is gone if it was bound after the
  last release, by a thread whose sibling closed the handle meanwhile.
* `RefsCounted` of `Entity`: a reference is released twice when a sibling closes or
  deletes the handle of an `ENTITY_CTL_DELETE` in progress.
* `ExitReleases`: a handle survives an exit if its generation has reached the sign
  bit, or if a sibling's call on another CPU linked it after the exit released all.
  The races of siblings need them on two CPUs, which `StrictProcessSeparation` rules
  out and the other policies allow.
* `LateReplyDropped`: a late reply is queued if it was waiting for room when its
  call gave up, or was there before a call under a used id found no waiter.
* `CarriedCounted`: the handles of a message are lost if its target was freed while
  the sender slept.

## What the models leave out

* Weak memory. Steps are sequentially consistent; the code runs on x86 and uses
  atomic operations for the lock words.
* `process_kill` (`process.c:982`), which has no caller.
* In `ProcLife` a process has one thread, and its reference counts change in one
  step (`Entity` has the finer ones). A failed `procCopy` is modelled with the
  references it loses.
* In `Entity` access rights, owners and payloads; `entity_foreach`, which only
  reads.
* In `Futex` the values of words are 0 and 1, since the code only compares.
* In `Ipc` the contents and lengths of messages; that a message does not fit is a
  choice of the receiver's copy-out. Message ids are only compared, and a program
  may choose them: a call uses any id and a reply names any. Session numbers are
  unique in a service, so a server names the session itself. An endpoint has one
  handle. Signals may wake a sleeper early; every loop of `ipc.c` tests again.

## Inventory

Modelled are the parts in the table of [modules](#modules). The others, each with
its reason in `PROJECT.json`:

| Part | Why not, or when |
| --- | --- |
| spin locks, critical sections, witness | planned: spin nesting, saved interrupt flags, deferred preemption and the lock-order checks; the modelled components take a spin lock as one atomic acquisition |
| event queues (kqueue) | planned: knotes, filters, collection, timeouts and cleanup at exit; only the sleep and wakeup part of event.c is modelled |
| asynchronous procedure calls | planned: queue, alertable waits, delivery and return; the kernel APC that reaps processes is a step of Scheduler |
| signals | planned with APCs: both act when a thread returns to user mode |
| pipes and UNIX sockets | planned: bounded buffer over sleep and wakeup, closing of ends |
| POSIX personality | thin layer over the native calls; posix_wait4 and posix_futex would repeat ProcLife and Futex with other error codes |
| system call dispatch and user entry | register and address-range work without state of its own; the rule that a system call runs with interrupts masked is an assumption of the models |
| process creation from an image | image loading is parsing and page mapping; the effect on process and handle tables is that of procCopy, which ProcLife and Entity model |
| shared memory and mmap calls | planned with vm_map |
| other system calls | argument checking and copying around one call into a component listed here |
| SMP start-up and inter-processor interrupts | start-up runs once and is hardware protocol; the kernel lock of smp.c is never taken (its depth is always 0) |
| interrupts and traps | planned: shared interrupt descriptors and masking; the timer interrupt is an action of Scheduler and Ipc |
| physical pages and page queues | planned: the buddy allocator and page wiring |
| address spaces, VM objects, pmap | planned: copy-on-write and teardown; page-table layout itself is data |
| kernel allocators | planned: slabs, per-CPU caches |
| DMA maps and bounce buffers | planned: bounce pages and deferred loads |
| network endpoints and TCP | planned: the TCP state machine with lost and reordered segments |
| network layer below the endpoints | planned: reassembly and the ARP cache; the rest is header formatting |
| block input/output | planned: bio completion and its sleep with an interlock |
| disk drivers | planned: the NVMe queue pair; the rest is device programming and parsing |
| virtio | planned: the descriptor ring against the device |
| file systems | planned: block chains of chainFS under crashes between writes; formats and path parsing are data |
| terminals, pseudo-terminals, console | planned: the pty rings and their sleepers; the line discipline is character processing |
| registry (cm) | a configuration tree of names and values; its only use in the modelled parts is to fix constants at boot |
| tracing | observes the other components and changes none of them |
| time and clock sources | hardware counters; the tick is an input of the models |
| input and HID drivers | device programming and scan-code tables |
| USB | host-controller programming; behaviour is decided by the device |
| ACPI and AML interpreter | sequential interpreter of firmware tables |
| device tree and buses | sequential probing at boot |
| graphics and audio | device programming; mode setting and mixing are data |
| firmware, power, watchdog, rtc, uart | pure device input and output |
| kernel shell, panic, start-up, users | start-up order and text commands |
| cryptography | sequential functions of their input |
| boot loader and freestanding libc | runs before the kernel, or pure string functions |
| user-space libraries and programs | users of the system calls; an arbitrary caller stands for them in every model |

## Plan

The order follows what rests on what, and where tests reach least.

1. **Event queues** (`Kqueue`): knotes under the filters, collection with
   timeouts, cleanup when a descriptor or a process goes.
   Properties: no event lost between collection and sleep, a knote of a closed
   object is never fired. Over `SleepQueue`.
2. **APCs and signals** (`Apc`): queueing against alertable waits and delivery at
   the return to user mode; every queued APC runs once or is flushed at exit.
   Replaces the queued bit in `Scheduler` by composition.
3. **Pipes and ptys** (`Pipe`): the bounded buffer and closing of ends, as
   refinements of a bounded channel like `IpcQueue`.
4. **Virtual memory** (`VmPhys`, `VmMap`): the buddy allocator against a set of
   free frames, copy-on-write reference counts, teardown. `NoUserAfterTeardown`
   then becomes a statement about the composition with `Scheduler`.
5. **Drivers** (`NvmeQueue`, `Bio`, `VirtQueue`): rings shared with a device that
   reorders completions; completion against its sleeper.
6. **TCP** (`TcpEndpoint`): the state machine against loss, duplication and
   reordering, with retransmission.
7. **chainFS** (`ChainFs`): the block chains under a crash between two writes.
8. **Witness and spin locks**: nesting of interrupt flags, lock order.

Places that these models should reach and nothing covers yet: `apc.c:589` and
`api/pipe.c:71` test and then sleep without a lock over both;
`entity/entity.c:1048` calls back over one global array after unlocking;
`api/wait.c:250` sleeps for a process whose exit wakes only its parent;
`ipc/ipc.c:780` may wait for room before the timeout of the call has started.

Proofs, in this order: the ring (`RingExact` and the refinement of `IpcQueue`),
the reader/writer lock (`RwExclusion`, `NoPanic`, `NoLostWakeup`, whose invariant
follows the one of the mutex), `Entity` (`NoDangling`, `HookOnce`), `Futex`
(`EntryHeld`), `Scheduler` (`CurrentBound`, `DeadCounted`).

## How to run

    tlc -workers 2 -config MCMutex.cfg Mutex
    tlapm MutexProofs.tla

`PROJECT.json` ("runs") names the module and the configuration of each run. The
longest ones take about two minutes with two workers.
