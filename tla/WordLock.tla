------------------------------ MODULE WordLock ------------------------------
(***************************************************************************)
(* word_lock of src/src/runtime/synchronization_common.h, the lock of a    *)
(* hash bucket: one word that holds a lock bit, a queue lock bit and the   *)
(* newest node of a stack of sleeping threads.  Threads push themselves    *)
(* with a CAS and no lock; whoever holds the queue lock walks the stack,   *)
(* fills in prev and tail, and takes the oldest thread out.                *)
(*                                                                         *)
(* Each access to the word is an action.  A failed CAS loads the word into *)
(* expected, as __sync_val_compare_and_swap does; a spurious failure of a  *)
(* weak CAS would only repeat a round of its loop.  A node is on the stack *)
(* of the thread in lock_full: one node a thread, private until pushed.    *)
(* The word is sequentially consistent.                                    *)
(***************************************************************************)
EXTENDS Naturals, FiniteSets

CONSTANTS Threads,
          Null,         \* nullptr
          Spins         \* how often spin_control lets a thread spin

ASSUME NullAssumption == Null \notin Threads
ASSUME SpinsAssumption == Spins \in Nat
ASSUME ThreadsAssumption == IsFiniteSet(Threads)

VARIABLES
    state,      \* word_lock::state, as its two bits and the pointer
    node,       \* word_lock_queue_data of each thread
    should_park,\* thread_parker::should_park of the node
    pc,
    expected,   \* the word as the thread last saw it
    spins,      \* spin_control::spin_count
    current,    \* the node the walk is at
    tail        \* the oldest node, found by the walk

vars == <<state, node, should_park, pc, expected, spins, current, tail>>

Pointer == Threads \cup {Null}
Word    == [lock : BOOLEAN, queueing : BOOLEAN, head : Pointer]
Zero    == [lock |-> FALSE, queueing |-> FALSE, head |-> Null]

Labels == {"idle", "load", "lock_full", "parked", "locked", "unlock_load",
           "unlock_full", "walk", "wake", "unpark", "aborted"}

TypeOK ==
    /\ state \in Word
    /\ node \in [Threads -> [next : Pointer, prev : Pointer, tail : Pointer]]
    /\ should_park \in [Threads -> BOOLEAN]
    /\ pc \in [Threads -> Labels]
    /\ expected \in [Threads -> Word]
    /\ spins \in [Threads -> 0..Spins]
    /\ current \in [Threads -> Pointer]
    /\ tail \in [Threads -> Pointer]

Init ==
    /\ state = Zero
    /\ node = [t \in Threads |-> [next |-> Null, prev |-> Null, tail |-> Null]]
    /\ should_park = [t \in Threads |-> FALSE]
    /\ pc = [t \in Threads |-> "idle"]
    /\ expected = [t \in Threads |-> Zero]
    /\ spins = [t \in Threads |-> Spins]
    /\ current = [t \in Threads |-> Null]
    /\ tail = [t \in Threads |-> Null]

Goto(t, l) == pc' = [pc EXCEPT ![t] = l]

\* atomic_load_relaxed(&state, &expected)
Load(t) == expected' = [expected EXCEPT ![t] = state]

walking == <<current, tail>>
----------------------------------------------------------------------------
(* lock *)

\* The fast CAS from 0 to lock_bit, or its failure.
Lock(t) ==
    /\ pc[t] = "idle"
    /\ \/ state = Zero /\ state' = [Zero EXCEPT !.lock = TRUE] /\ Goto(t, "locked")
       \/ state # Zero /\ Goto(t, "load") /\ UNCHANGED state
    /\ spins' = [spins EXCEPT ![t] = Spins]
    /\ UNCHANGED <<node, should_park, expected, walking>>

\* lock_full's load before its loop and after park.
LoadToLock(t) ==
    /\ pc[t] = "load"
    /\ Load(t)
    /\ Goto(t, "lock_full")
    /\ UNCHANGED <<state, node, should_park, spins, walking>>

\* Mutant: the lock bit is not looked at again.
GrabAnyway(t) ==
    /\ pc[t] = "lock_full"
    /\ ~expected[t].lock
    /\ state' = [state EXCEPT !.lock = TRUE]
    /\ Goto(t, "locked")
    /\ UNCHANGED <<node, should_park, expected, spins, walking>>

\* The word was unlocked when last seen: set the lock bit.
Grab(t) ==
    /\ pc[t] = "lock_full"
    /\ ~expected[t].lock
    /\ \/ /\ state = expected[t]
          /\ state' = [state EXCEPT !.lock = TRUE]
          /\ Goto(t, "locked")
          /\ UNCHANGED expected
       \/ /\ state # expected[t]
          /\ Load(t)
          /\ UNCHANGED <<state, pc>>
    /\ UNCHANGED <<node, should_park, spins, walking>>

\* Spin, but only if somebody sleeps already.
Spin(t) ==
    /\ pc[t] = "lock_full"
    /\ expected[t].lock /\ expected[t].head # Null
    /\ spins[t] > 0
    /\ spins' = [spins EXCEPT ![t] = @ - 1]
    /\ Load(t)
    /\ UNCHANGED <<state, node, should_park, pc, walking>>

\* Mutant: the bits are not masked off the pointer.
NewNodeBits(t, head) ==
    [next |-> state, prev |-> Null, tail |-> IF head = Null THEN t ELSE Null]

\* Only the first node of a queue knows a tail: itself.
NewNode(t, head) ==
    [next |-> head, prev |-> Null, tail |-> IF head = Null THEN t ELSE Null]

\* Push a new node and park.
Push(t) ==
    /\ pc[t] = "lock_full"
    /\ expected[t].lock /\ (expected[t].head = Null \/ spins[t] = 0)
    /\ \/ /\ state = expected[t]
          /\ state' = [state EXCEPT !.head = t]
          /\ node' = [node EXCEPT ![t] = NewNode(t, state.head)]
          /\ should_park' = [should_park EXCEPT ![t] = TRUE]
          /\ Goto(t, "parked")
          /\ UNCHANGED expected
       \/ /\ state # expected[t]
          /\ Load(t)
          /\ UNCHANGED <<state, node, should_park, pc>>
    /\ UNCHANGED <<spins, walking>>

\* park returns, spinner.reset().
WakeUp(t) ==
    /\ pc[t] = "parked"
    /\ ~should_park[t]
    /\ spins' = [spins EXCEPT ![t] = Spins]
    /\ Goto(t, "load")
    /\ UNCHANGED <<state, node, should_park, expected, walking>>
----------------------------------------------------------------------------
(* unlock *)

\* Nobody sleeps, or another thread is queueing and will see to it.
LeavesWakeup == state.queueing \/ state.head = Null

Unlock(t) ==
    /\ pc[t] = "locked"
    /\ state' = [state EXCEPT !.lock = FALSE]
    /\ Goto(t, IF LeavesWakeup THEN "idle" ELSE "unlock_load")
    /\ UNCHANGED <<node, should_park, expected, spins, walking>>

LoadToUnlock(t) ==
    /\ pc[t] = "unlock_load"
    /\ Load(t)
    /\ Goto(t, "unlock_full")
    /\ UNCHANGED <<state, node, should_park, spins, walking>>

\* Mutant: queue_lock_bit may be set already.
QueueLockFree(w) == w.head # Null

\* The queue can be locked, and there is something in it.
Lockable(w) == ~w.queueing /\ w.head # Null

\* Take the queue lock.  expected keeps the word without queue_lock_bit: the
\* next CAS of this thread fails and loads it.
LockQueue(t) ==
    /\ pc[t] = "unlock_full"
    /\ \/ /\ ~Lockable(expected[t])
          /\ Goto(t, "idle")
          /\ UNCHANGED <<state, expected, current>>
       \/ /\ Lockable(expected[t]) /\ state = expected[t]
          /\ state' = [state EXCEPT !.queueing = TRUE]
          /\ current' = [current EXCEPT ![t] = expected[t].head]
          /\ Goto(t, "walk")
          /\ UNCHANGED expected
       \/ /\ Lockable(expected[t]) /\ state # expected[t]
          /\ Load(t)
          /\ UNCHANGED <<state, pc, current>>
    /\ UNCHANGED <<node, should_park, spins, tail>>

\* One turn of the walk to a node that knows the tail; next must not be null.
Walk(t) ==
    LET next == node[current[t]].next
    IN  /\ pc[t] = "walk"
        /\ node[current[t]].tail = Null
        /\ \/ /\ next # Null
              /\ node' = [node EXCEPT ![next].prev = current[t]]
              /\ current' = [current EXCEPT ![t] = next]
              /\ UNCHANGED pc
           \/ /\ next = Null
              /\ Goto(t, "aborted")
              /\ UNCHANGED <<node, current>>
        /\ UNCHANGED <<state, should_park, expected, spins, tail>>

\* head->tail = tail.
EndWalk(t) ==
    LET oldest == node[current[t]].tail
    IN  /\ pc[t] = "walk"
        /\ oldest # Null
        /\ node' = [node EXCEPT ![expected[t].head].tail = oldest]
        /\ tail' = [tail EXCEPT ![t] = oldest]
        /\ Goto(t, "wake")
        /\ UNCHANGED <<state, should_park, expected, spins, current>>

\* A CAS failed: walk again from the new head.
WalkAgain(t) ==
    /\ Load(t)
    /\ current' = [current EXCEPT ![t] = state.head]
    /\ Goto(t, "walk")

\* Mutant: give up the queue lock although the lock has been released since.
LeaveAnyway(t) ==
    /\ pc[t] = "wake"
    /\ expected[t].lock
    /\ state' = [state EXCEPT !.queueing = FALSE]
    /\ Goto(t, "idle")
    /\ UNCHANGED <<expected, current, node, should_park, spins, tail>>

\* The lock has an owner again: leave the wake-up to it, unless it has unlocked
\* since.
LeaveToOwner(t) ==
    /\ pc[t] = "wake"
    /\ expected[t].lock
    /\ \/ /\ state = expected[t]
          /\ state' = [state EXCEPT !.queueing = FALSE]
          /\ Goto(t, "idle")
          /\ UNCHANGED <<expected, current>>
       \/ /\ state # expected[t]
          /\ WalkAgain(t)
          /\ UNCHANGED state
    /\ UNCHANGED <<node, should_park, spins, tail>>

\* The oldest thread is the only one: clear the word, unless it has changed.
TakeLast(t) ==
    /\ pc[t] = "wake"
    /\ ~expected[t].lock /\ node[tail[t]].prev = Null
    /\ \/ /\ state = expected[t]
          /\ state' = Zero
          /\ Goto(t, "unpark")
          /\ UNCHANGED <<expected, current>>
       \/ /\ state # expected[t]
          /\ WalkAgain(t)
          /\ UNCHANGED state
    /\ UNCHANGED <<node, should_park, spins, tail>>

\* Mutant: the tail stays the thread that is woken.
TakeTailOnly(t) ==
    /\ pc[t] = "wake"
    /\ ~expected[t].lock /\ node[tail[t]].prev # Null
    /\ state' = [state EXCEPT !.queueing = FALSE]
    /\ Goto(t, "unpark")
    /\ UNCHANGED <<node, should_park, expected, spins, walking>>

\* Others sleep behind the oldest: it leaves the queue, the queue is unlocked.
TakeTail(t) ==
    /\ pc[t] = "wake"
    /\ ~expected[t].lock /\ node[tail[t]].prev # Null
    /\ node' = [node EXCEPT ![expected[t].head].tail = node[tail[t]].prev]
    /\ state' = [state EXCEPT !.queueing = FALSE]
    /\ Goto(t, "unpark")
    /\ UNCHANGED <<should_park, expected, spins, walking>>

Unpark(t) ==
    /\ pc[t] = "unpark"
    /\ should_park' = [should_park EXCEPT ![tail[t]] = FALSE]
    /\ Goto(t, "idle")
    /\ UNCHANGED <<state, node, expected, spins, walking>>

\* What a thread does on its own once it has called lock, and the unlock it owes.
Internal(t) ==
    \/ LoadToLock(t) \/ Grab(t) \/ Spin(t) \/ Push(t) \/ WakeUp(t)
    \/ Unlock(t) \/ LoadToUnlock(t) \/ LockQueue(t) \/ Walk(t) \/ EndWalk(t)
    \/ LeaveToOwner(t) \/ TakeLast(t) \/ TakeTail(t) \/ Unpark(t)

Next == \E t \in Threads : Lock(t) \/ Internal(t)

Spec == Init /\ [][Next]_vars

\* Threads in the library keep running; nobody has to lock again.
FairSpec == Spec /\ \A t \in Threads : WF_vars(Internal(t))
----------------------------------------------------------------------------
(* Correctness *)

\* The lock bit is set exactly while a thread is between lock and unlock, and
\* there is one such thread, although unlock clears the bit with a fetch-and and
\* unlock_full compares with words it saw long ago.
MutualExclusion ==
    /\ state.lock <=> \E t \in Threads : pc[t] = "locked"
    /\ \A t, u \in Threads : pc[t] = "locked" /\ pc[u] = "locked" => t = u

\* The same of queue_lock_bit and the threads that walk the queue: prev and tail
\* are written by one thread at a time.  A thread that aborts never unlocks.
Queueing(t) == pc[t] \in {"walk", "wake", "aborted"}

QueueLock ==
    /\ state.queueing <=> \E t \in Threads : Queueing(t)
    /\ \A t, u \in Threads : Queueing(t) /\ Queueing(u) => t = u

\* A node is on the stack of a thread in park.  The nodes that unlock_full is about
\* to read or write belong to threads that nobody has woken, and its walk meets a
\* node that knows the tail before it runs out of nodes, as it asserts.
NoDanglingNode ==
    \A t \in Threads :
        /\ pc[t] # "aborted"
        /\ LET touched == CASE pc[t] = "walk" -> {expected[t].head, current[t]}
                            [] pc[t] = "wake" -> {expected[t].head, tail[t], node[tail[t]].prev}
                            [] pc[t] = "unpark" -> {tail[t]}
                            [] OTHER -> {}
           IN  \A u \in touched \ {Null} : pc[u] = "parked" /\ should_park[u]

\* The i-th newest node, as next tells it.
Nth == LET nth[i \in 0..Cardinality(Threads)] ==
               IF i = 0 THEN state.head
               ELSE IF nth[i - 1] = Null THEN Null ELSE node[nth[i - 1]].next
       IN  nth

Asleep == {t \in Threads : should_park[t]} \ {tail[t] : t \in {u \in Threads : pc[u] = "unpark"}}

\* From the newest node, next leads to a node that knows the tail and on to that
\* tail, through every sleeping thread once; prev leads back over the part that a
\* walk has processed.  No thread is lost by a push that races with the walk, with
\* the removal of the tail, or with the word being cleared.
QueueHoldsSleepers ==
    IF state.head = Null THEN Asleep = {}
    ELSE \E i, j \in 0..(Cardinality(Threads) - 1) :
            /\ i <= j
            /\ \A k \in 0..j : Nth[k] # Null
            /\ \A k \in 0..(i - 1) : node[Nth[k]].tail = Null
            /\ node[Nth[i]].tail = Nth[j]
            /\ {Nth[k] : k \in 0..j} = Asleep
            /\ Cardinality(Asleep) = j + 1
            /\ \A k \in i..(j - 1) : node[Nth[k + 1]].prev = Nth[k]

QueueExact == NoDanglingNode /\ QueueHoldsSleepers

\* A thread that wants the bucket does not sleep for ever beside a free lock: the
\* wake-up is passed from unlock to the queueing thread, or to the next owner, and
\* neither of them drops it.
Wanted   == \E t \in Threads : pc[t] \in {"load", "lock_full", "parked"}
Progress == Wanted ~> (\E t \in Threads : pc[t] = "locked")
=============================================================================
