---------------------------- MODULE SleepQueues ----------------------------
(***************************************************************************)
(* What parking_control promises to fast_mutex and fast_cond: one FIFO     *)
(* queue of parked threads per address, whatever the buckets look like.    *)
(* This is the state ParkingLot.tla is written over.                       *)
(***************************************************************************)
EXTENDS Naturals, Sequences

CONSTANTS Nodes, Addrs, Null

VARIABLES queue,    \* the nodes parked on each address, oldest first
          answer    \* what the last operation told its caller

vars == <<queue, answer>>

\* woken: the node to unpark; more_waiters and requeued: the booleans passed
\* to unpark and requeue_callback.
Answer(woken, more, requeued) ==
    [woken |-> woken, more_waiters |-> more, requeued |-> requeued]

Init ==
    /\ queue = [a \in Addrs |-> <<>>]
    /\ answer = Answer(Null, FALSE, FALSE)

Parked(n) == \E a \in Addrs : \E i \in 1..Len(queue[a]) : queue[a][i] = n

Park(n, a) ==
    /\ ~Parked(n)
    /\ queue' = [queue EXCEPT ![a] = Append(@, n)]
    /\ answer' = Answer(Null, FALSE, FALSE)

UnparkNone(a) ==
    /\ queue[a] = <<>>
    /\ answer' = Answer(Null, FALSE, FALSE)
    /\ UNCHANGED queue

UnparkOne(a) ==
    /\ queue[a] # <<>>
    /\ queue' = [queue EXCEPT ![a] = Tail(@)]
    /\ answer' = Answer(Head(queue[a]), Len(queue[a]) > 1, FALSE)

\* Every node on `from` moves behind those on `to`, the first one excepted
\* when it is to be woken.
UnparkRequeue(from, to, unpark_one) ==
    LET wakes == unpark_one /\ queue[from] # <<>>
        moved == IF wakes THEN Tail(queue[from]) ELSE queue[from]
    IN  /\ from # to
        /\ queue' = [queue EXCEPT ![from] = <<>>, ![to] = @ \o moved]
        /\ answer' = Answer(IF wakes THEN Head(queue[from]) ELSE Null,
                            FALSE, moved # <<>>)

Next ==
    \/ \E n \in Nodes, a \in Addrs : Park(n, a)
    \/ \E a \in Addrs : UnparkNone(a) \/ UnparkOne(a)
    \/ \E from, to \in Addrs, one \in BOOLEAN : UnparkRequeue(from, to, one)

Spec == Init /\ [][Next]_vars
=============================================================================
