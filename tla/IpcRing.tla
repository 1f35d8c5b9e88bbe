-------------------------------- MODULE IpcRing --------------------------------
(***************************************************************************)
(* The ring in which an ipc_endpoint_t keeps its messages (ipc/ipc.c).     *)
(* Taking a message from the middle moves the ones behind it, and a        *)
(* message that did not fit in the receiver's buffers is put back.         *)
(***************************************************************************)
EXTENDS Integers, Sequences, FiniteSetsExt

CONSTANTS IPC_QUEUE_MESSAGES, Requests, MaxLength, NULL

ASSUME RingAssumption ==
    /\ IPC_QUEUE_MESSAGES \in Nat \ {0} /\ MaxLength \in Nat
    /\ Requests \subseteq Nat \ {0}

N == IPC_QUEUE_MESSAGES
Slots == 0 .. N - 1
Messages == [reply_to : Requests \cup {0}, length : 0 .. MaxLength]

VARIABLES queue, queue_head, queue_tail, queue_count, queue_bytes,
          message,   \* the receiver's copy, until it is dropped or put back
          reply_to   \* the receiver's argument, meanwhile

vars == <<queue, queue_head, queue_tail, queue_count, queue_bytes, message, reply_to>>

Init ==
    /\ queue = [i \in Slots |-> [reply_to |-> 0, length |-> 0]]
    /\ queue_head = 0 /\ queue_tail = 0 /\ queue_count = 0 /\ queue_bytes = 0
    /\ message = NULL /\ reply_to = 0

\* ipc_queue_push, once there is room.
Push(m) ==
    /\ message = NULL /\ queue_count < N
    /\ queue' = [queue EXCEPT ![queue_tail] = m]
    /\ queue_tail' = (queue_tail + 1) % N
    /\ queue_count' = queue_count + 1
    /\ queue_bytes' = queue_bytes + m.length
    /\ UNCHANGED <<queue_head, message, reply_to>>

\* The slot of the i-th message from the head.
Slot(i) == (queue_head + i) % N

\* Mutant: a caller takes any message for its reply.
Found_Any(r) == 0 .. queue_count - 1

\* Offsets of the messages a receiver may take; r = 0 asks for any.
Found(r) == {i \in 0 .. queue_count - 1 : r = 0 \/ queue[Slot(i)].reply_to = r}

\* Mutant: the messages behind the hole move, but the tail does not.
PopMiddle_KeepsTail(i) ==
    /\ queue' = [s \in Slots |-> IF \E j \in i .. queue_count - 2 : s = Slot(j)
                                 THEN queue[(s + 1) % N] ELSE queue[s]]
    /\ UNCHANGED <<queue_head, queue_tail>>

\* A message taken from the middle: the ones behind it move up.
PopMiddle(i) ==
    /\ queue' = [s \in Slots |-> IF \E j \in i .. queue_count - 2 : s = Slot(j)
                                 THEN queue[(s + 1) % N] ELSE queue[s]]
    /\ queue_tail' = (queue_tail + N - 1) % N
    /\ UNCHANGED queue_head

\* ipc_queue_pop, once a message is there.
Pop(r) ==
    /\ message = NULL /\ Found(r) # {}
    /\ reply_to' = r
    /\ LET i == Min(Found(r))
           m == queue[Slot(i)]
       IN  /\ message' = m
           /\ IF i = 0 THEN queue_head' = (queue_head + 1) % N /\ UNCHANGED <<queue, queue_tail>>
              ELSE PopMiddle(i)
           /\ queue_count' = queue_count - 1
           /\ queue_bytes' = IF queue_bytes >= m.length THEN queue_bytes - m.length ELSE 0

\* The message has been copied out.
Drop ==
    /\ message # NULL
    /\ message' = NULL /\ reply_to' = 0
    /\ UNCHANGED <<queue, queue_head, queue_tail, queue_count, queue_bytes>>

\* ipc_queue_unpop
Unpop ==
    /\ message # NULL
    /\ queue_head' = (queue_head + N - 1) % N
    /\ queue' = [queue EXCEPT ![(queue_head + N - 1) % N] = message]
    /\ queue_count' = queue_count + 1
    /\ queue_bytes' = queue_bytes + message.length
    /\ message' = NULL /\ reply_to' = 0
    /\ UNCHANGED queue_tail

Next ==
    \/ \E m \in Messages : Push(m)
    \/ \E r \in Requests \cup {0} : Pop(r)
    \/ Drop \/ Unpop

Spec == Init /\ [][Next]_vars

-----------------------------------------------------------------------------
(* Properties *)

\* The messages in the ring, from the head.
Contents == [i \in 1 .. queue_count |-> queue[Slot(i - 1)]]

\* The tail stays queue_count slots behind the head, and queue_bytes is the length of
\* the messages between them, through removals from the middle and puts back.
RingExact ==
    /\ queue_head \in Slots /\ queue_count \in 0 .. N
    /\ queue_tail = (queue_head + queue_count) % N
    /\ queue_bytes = MapThenSumSet(LAMBDA i : Contents[i].length, 1 .. queue_count)

Queue == INSTANCE IpcQueue WITH queue <- Contents, hand <- message, wanted <- reply_to

\* The ring behaves as the sequence that ipc_queue_push, ipc_queue_pop and
\* ipc_queue_unpop are meant to keep.
ImplementsQueue == Queue!Spec
=============================================================================
