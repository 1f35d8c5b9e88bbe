-------------------------------- MODULE IpcQueue --------------------------------
(***************************************************************************)
(* What the message queue of an endpoint promises: a bounded sequence that *)
(* grows at its tail.  A receiver takes the first message, a caller the    *)
(* first reply to its request.  A message that did not fit goes back to    *)
(* the head.                                                               *)
(***************************************************************************)
EXTENDS Naturals, Sequences, SequencesExt

CONSTANTS N,         \* capacity
          Requests,  \* ids of requests, none of them 0
          MaxLength,
          NULL

Messages == [reply_to : Requests \cup {0}, length : 0 .. MaxLength]

VARIABLES queue,
          hand,      \* the message that a receiver has taken, or NULL
          wanted     \* the request that the receiver's message replies to, or 0

Init == queue = <<>> /\ hand = NULL /\ wanted = 0

Push(m) ==
    /\ hand = NULL /\ Len(queue) < N
    /\ queue' = Append(queue, m)
    /\ UNCHANGED <<hand, wanted>>

\* r is the request, or 0 for any message.
Pop(r) ==
    /\ hand = NULL
    /\ wanted' = r
    /\ LET matches == {i \in DOMAIN queue : r = 0 \/ queue[i].reply_to = r}
       IN  /\ matches # {}
           /\ hand' = queue[Min(matches)]
           /\ queue' = RemoveAt(queue, Min(matches))

Drop ==
    /\ hand # NULL
    /\ hand' = NULL /\ wanted' = 0
    /\ UNCHANGED queue

Unpop ==
    /\ hand # NULL
    /\ queue' = <<hand>> \o queue
    /\ hand' = NULL /\ wanted' = 0

Next ==
    \/ \E m \in Messages : Push(m)
    \/ \E r \in Requests \cup {0} : Pop(r)
    \/ Drop \/ Unpop

Spec == Init /\ [][Next]_<<queue, hand, wanted>>
=============================================================================
