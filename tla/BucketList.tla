----------------------------- MODULE BucketList -----------------------------
(***************************************************************************)
(* The pointers of parking_control's hash table                            *)
(* (src/src/runtime/synchronization_common.h): a bucket is a singly linked *)
(* list of queue_data with head and tail, shared by all the addresses that *)
(* hash to it.  Each operation holds the locks of the buckets it touches   *)
(* from beginning to end, so each is one action; validate and the          *)
(* callbacks only choose the outcome and are ParkingLot.tla's subject.  A  *)
(* queue_data lives on the stack of the thread in park: one node a thread. *)
(***************************************************************************)
EXTENDS Naturals, Sequences, FiniteSets, SequencesExt

CONSTANTS Nodes, Addrs, Null,
          BucketOf      \* addr_hash

Buckets == {BucketOf[a] : a \in Addrs}

VARIABLES head, tail,       \* of each hash_bucket
          next,             \* queue_data::next
          sleep_address,    \* queue_data::sleep_address
          should_park,      \* the node's thread is in park
          answer            \* what the last operation told its caller

vars == <<head, tail, next, sleep_address, should_park, answer>>

Answer(woken, more, requeued) ==
    [woken |-> woken, more_waiters |-> more, requeued |-> requeued]

TypeOK ==
    /\ head \in [Buckets -> Nodes \cup {Null}]
    /\ tail \in [Buckets -> Nodes \cup {Null}]
    /\ next \in [Nodes -> Nodes \cup {Null}]
    /\ sleep_address \in [Nodes -> Addrs \cup {Null}]
    /\ should_park \in [Nodes -> BOOLEAN]
    /\ answer \in [woken : Nodes \cup {Null}, more_waiters : BOOLEAN,
                   requeued : BOOLEAN]

Init ==
    /\ head = [b \in Buckets |-> Null]
    /\ tail = [b \in Buckets |-> Null]
    /\ next = [n \in Nodes |-> Null]
    /\ sleep_address = [n \in Nodes |-> Null]
    /\ should_park = [n \in Nodes |-> FALSE]
    /\ answer = Answer(Null, FALSE, FALSE)
----------------------------------------------------------------------------
(* Following the pointers *)

RECURSIVE Walk(_, _)
Walk(n, most) == IF n = Null \/ most = 0 THEN <<>>
                 ELSE <<n>> \o Walk(next[n], most - 1)

\* The nodes a walk from a bucket's head visits, in order.  A list of
\* distinct nodes has at most Cardinality(Nodes); the walk stops one later.
Visited(b) == Walk(head[b], Cardinality(Nodes) + 1)

OnAddress(b, a) == SelectSeq(Visited(b), LAMBDA n : sleep_address[n] = a)

\* bucket.tail->next = &queue_data, or the head, then the tail.
AppendNode(n, b) ==
    /\ head' = IF head[b] = Null THEN [head EXCEPT ![b] = n] ELSE head
    /\ tail' = [tail EXCEPT ![b] = n]
    /\ next' = IF head[b] = Null THEN [next EXCEPT ![n] = Null]
               ELSE [next EXCEPT ![n] = Null, ![tail[b]] = n]

\* Mutant: the hash is recorded in place of the address.
RecordHash(n, a) == sleep_address' = [sleep_address EXCEPT ![n] = BucketOf[a]]

\* queue_data.sleep_address = addr.
RecordAddress(n, a) == sleep_address' = [sleep_address EXCEPT ![n] = a]

\* A thread blocks in at most one park.
Park(n, a) ==
    /\ ~should_park[n]
    /\ AppendNode(n, BucketOf[a])
    /\ RecordAddress(n, a)
    /\ should_park' = [should_park EXCEPT ![n] = TRUE]
    /\ answer' = Answer(Null, FALSE, FALSE)
----------------------------------------------------------------------------
(* Taking nodes out.  A loop over a bucket is a fold of its body over the
   nodes it visits: each body reads data->next before it changes a pointer
   and only changes pointers of nodes behind it.  s.prev stands for both
   prev and data_location, which is &bucket.head while prev is null.  *)

Lists == [head |-> head, tail |-> tail, next |-> next]

\* Mutant: the unlinked node stays the tail of its bucket.
UnlinkKeepsTail(s, b, prev, data) ==
    [s EXCEPT !.head = IF prev = Null THEN [@ EXCEPT ![b] = s.next[data]] ELSE @,
              !.next = IF prev = Null THEN @
                       ELSE [@ EXCEPT ![prev] = s.next[data]]]

\* *data_location = next; the tail moves back to prev.
Unlink(s, b, prev, data) ==
    [s EXCEPT !.head = IF prev = Null THEN [@ EXCEPT ![b] = s.next[data]] ELSE @,
              !.next = IF prev = Null THEN @
                       ELSE [@ EXCEPT ![prev] = s.next[data]],
              !.tail = IF @[b] = data THEN [@ EXCEPT ![b] = prev] ELSE @]

UnparkNone(a) ==
    /\ OnAddress(BucketOf[a], a) = <<>>
    /\ answer' = Answer(Null, FALSE, FALSE)
    /\ UNCHANGED <<head, tail, next, sleep_address, should_park>>

\* Mutant: the rest of the list is not filtered by address.
AnyoneBehind(visited, i, a) == i < Len(visited)

\* The second loop of unpark_one: somebody behind data sleeps on a.
MoreWaiters(visited, i, a) ==
    \E j \in (i + 1)..Len(visited) : sleep_address[visited[j]] = a

UnparkOne(a) ==
    LET b       == BucketOf[a]
        visited == Visited(b)
    IN  \E i \in 1..Len(visited) :
            LET data == visited[i]
                prev == IF i = 1 THEN Null ELSE visited[i - 1]
                s    == Unlink(Lists, b, prev, data)
            IN  /\ sleep_address[data] = a
                /\ \A j \in 1..(i - 1) : sleep_address[visited[j]] # a
                /\ head' = s.head /\ tail' = s.tail /\ next' = s.next
                /\ answer' = Answer(data, tail[b] # data /\ MoreWaiters(visited, i, a),
                                    FALSE)
                /\ should_park' = [should_park EXCEPT ![data] = FALSE]
                /\ UNCHANGED sleep_address

\* Append data to the list of nodes to requeue.
Chain(s, data) ==
    [s EXCEPT !.requeue = IF @ = Null THEN data ELSE @,
              !.requeue_tail = data,
              !.next = IF s.requeue = Null THEN @
                       ELSE [@ EXCEPT ![s.requeue_tail] = data]]

\* A node that sleeps on another address stays.
Skip(s, data) == [s EXCEPT !.prev = data]

\* One turn of unpark_requeue's loop.
RequeueTurn(s, b, from, unpark_one, data) ==
    IF sleep_address[data] # from THEN Skip(s, data)
    ELSE LET u == Unlink(s, b, s.prev, data)
         IN  IF unpark_one /\ s.wakeup = Null
             THEN [u EXCEPT !.wakeup = data]
             ELSE [Chain(u, data) EXCEPT !.moved = @ \cup {data}]

\* The requeued nodes go behind those of the bucket `to`.
Splice(s, to) ==
    LET ended == [s.next EXCEPT ![s.requeue_tail] = Null]
    IN  [s EXCEPT !.next = IF s.head[to] = Null THEN ended
                           ELSE [ended EXCEPT ![s.tail[to]] = s.requeue],
                  !.head = IF @[to] = Null THEN [@ EXCEPT ![to] = s.requeue] ELSE @,
                  !.tail = [@ EXCEPT ![to] = s.requeue_tail]]

\* The code that calls it passes a condition and the mutex it goes with.
UnparkRequeue(from, to, unpark_one) ==
    LET b     == BucketOf[from]
        start == [head |-> head, tail |-> tail, next |-> next, prev |-> Null,
                  requeue |-> Null, requeue_tail |-> Null, wakeup |-> Null,
                  moved |-> {}]
        turn(s, data) == RequeueTurn(s, b, from, unpark_one, data)
        walked == FoldLeft(turn, start, Visited(b))
        s == IF walked.requeue = Null THEN walked ELSE Splice(walked, BucketOf[to])
    IN  /\ from # to
        /\ head' = s.head /\ tail' = s.tail /\ next' = s.next
        /\ sleep_address' = [n \in Nodes |-> IF n \in s.moved THEN to
                                             ELSE sleep_address[n]]
        /\ should_park' = [n \in Nodes |-> should_park[n] /\ n # s.wakeup]
        /\ answer' = Answer(s.wakeup, FALSE, s.requeue # Null)

Next ==
    \/ \E n \in Nodes, a \in Addrs : Park(n, a)
    \/ \E a \in Addrs : UnparkNone(a)
    \/ \E a \in Addrs : UnparkOne(a)
    \/ \E from, to \in Addrs, one \in BOOLEAN : UnparkRequeue(from, to, one)

Spec == Init /\ [][Next]_vars
----------------------------------------------------------------------------
(* A bucket's tail is the last node a walk from its head reaches, and null
   when there is none: what park, which appends at the tail without a walk,
   relies on after any sequence of unpark_one and unpark_requeue.  *)
TailIsLast ==
    \A b \in Buckets :
        LET v == Visited(b)
        IN  IF v = <<>> THEN tail[b] = Null
            ELSE tail[b] = v[Len(v)] /\ next[v[Len(v)]] = Null

(* A thread sleeps exactly while its node is linked, once, in the bucket its
   address hashes to: no parked thread is dropped from the lists by a
   requeue, and no node that has gone out of scope stays reachable.  *)
LinkedWhileParked ==
    \A n \in Nodes, b \in Buckets :
        LET v == Visited(b)
            places == {i \in 1..Len(v) : v[i] = n}
        IN  IF should_park[n] /\ b = BucketOf[sleep_address[n]]
            THEN \E i \in places : places = {i}
            ELSE places = {}

(* Buckets are invisible: the lists implement one FIFO queue per address,
   also when a condition and its mutex share a bucket, and unpark and
   requeue_callback are told the truth about who is left.  *)
Queues == INSTANCE SleepQueues WITH
    queue <- [a \in Addrs |-> OnAddress(BucketOf[a], a)]
FifoPerAddress == Queues!Spec
=============================================================================
