----------------------------- MODULE ParkingLot -----------------------------
(***************************************************************************)
(* fast_mutex and fast_cond of src/src/runtime/synchronization_common.h,   *)
(* with the parking_control they share: a global hash table of buckets,    *)
(* each a FIFO list of parked threads behind a word_lock.                  *)
(*                                                                         *)
(* Grain of atomicity.  A bucket's list is only touched with the bucket    *)
(* locked, so a critical section that makes at most one access to a word   *)
(* which others change without the bucket (fast_mutex::state) is one       *)
(* action, enabled while the bucket is free.  A broadcast makes two such   *)
(* accesses and takes two buckets, so it is cut into its steps and the     *)
(* buckets it holds are recorded.  The list of a bucket is kept as one     *)
(* queue per sleep_address: every operation takes the first, or all, of    *)
(* the threads with one address and appends at the end, so what it does    *)
(* to one address never depends on the others (BucketList.tla has the      *)
(* pointers).  A loop that loads a word, decides and retries a failed CAS  *)
(* is the action of its last, successful round; spinning and spurious CAS  *)
(* failures are stuttering steps.                                          *)
(***************************************************************************)
EXTENDS Naturals, Sequences

CONSTANTS Threads, Mutexes, Conds,
          BucketOf,     \* addr_hash: the bucket of each mutex and condition
          Program,      \* the calls each thread may make
          NoThread, NoMutex, NoCond

Addrs   == Mutexes \cup Conds
Buckets == {BucketOf[a] : a \in Addrs}

ASSUME SentinelAssumption ==
    /\ NoThread \notin Threads
    /\ NoMutex \notin Mutexes
    /\ NoCond \notin Conds
    /\ Mutexes \cap Conds = {}

ASSUME BucketAssumption == BucketOf \in [Addrs -> Nat]

Calls == ({"lock"} \X Mutexes) \cup ({"wait"} \X Conds \X Mutexes)
            \cup ({"signal", "broadcast"} \X Conds)

ASSUME ProgramAssumption == Program \in [Threads -> SUBSET Calls]

VARIABLES
    state,      \* fast_mutex::state as the set of its bits, "lock" and "parked"
    cond,       \* fast_cond::state, the mutex of the waiters or NoMutex
    queue,      \* the threads parked on each sleep_address, in list order
    bucket,     \* the broadcaster that holds hash_bucket::mutex, or NoThread
    should_park,\* thread_parker::should_park of each thread
    pc,         \* where each thread is in the library
    ret,        \* the pc the current call returns to
    mx, cv,     \* the mutex and the condition the thread works on
    val,        \* the mutex a broadcast read from the condition
    one,        \* validate_action::unpark_one of a broadcast
    unparkee    \* the thread a caller has dequeued and is about to unpark

vars == <<state, cond, queue, bucket, should_park, pc, ret, mx, cv, val,
          one, unparkee>>

Labels == {"idle", "held", "lock", "park", "parked", "unlock", "unlock_full",
           "wait", "unpark", "signal", "signal_one", "broadcast", "lock_first",
           "lock_second", "validate", "mark", "requeue"}

TypeOK ==
    /\ state \in [Mutexes -> SUBSET {"lock", "parked"}]
    /\ cond \in [Conds -> Mutexes \cup {NoMutex}]
    /\ queue \in [Addrs -> Seq(Threads)]
    /\ bucket \in [Buckets -> Threads \cup {NoThread}]
    /\ should_park \in [Threads -> BOOLEAN]
    /\ pc \in [Threads -> Labels]
    /\ ret \in [Threads -> {"idle", "held", "parked"}]
    /\ mx \in [Threads -> Mutexes \cup {NoMutex}]
    /\ cv \in [Threads -> Conds \cup {NoCond}]
    /\ val \in [Threads -> Mutexes \cup {NoMutex}]
    /\ one \in [Threads -> BOOLEAN]
    /\ unparkee \in [Threads -> Threads \cup {NoThread}]

Init ==
    /\ state = [m \in Mutexes |-> {}]
    /\ cond = [c \in Conds |-> NoMutex]
    /\ queue = [a \in Addrs |-> <<>>]
    /\ bucket = [b \in Buckets |-> NoThread]
    /\ should_park = [t \in Threads |-> FALSE]
    /\ pc = [t \in Threads |-> "idle"]
    /\ ret = [t \in Threads |-> "idle"]
    /\ mx = [t \in Threads |-> NoMutex]
    /\ cv = [t \in Threads |-> NoCond]
    /\ val = [t \in Threads |-> NoMutex]
    /\ one = [t \in Threads |-> FALSE]
    /\ unparkee = [t \in Threads |-> NoThread]
----------------------------------------------------------------------------
(* The queues of parked threads *)

words   == <<state, cond>>
parking == <<queue, bucket, should_park>>
args    == <<mx, cv, val, one>>

Goto(t, l)    == pc' = [pc EXCEPT ![t] = l]
BucketFree(a) == bucket[BucketOf[a]] = NoThread

\* Mutant: the hash is recorded in place of the address.
EnqueueHash(t, a) ==
    /\ queue' = [queue EXCEPT ![a] = Append(@, BucketOf[a])]
    /\ should_park' = [should_park EXCEPT ![t] = TRUE]

\* The tail of parking_control::park once validate has agreed: append this
\* thread to the bucket's list.
Enqueue(t, a) ==
    /\ queue' = [queue EXCEPT ![a] = Append(@, t)]
    /\ should_park' = [should_park EXCEPT ![t] = TRUE]

\* Mutant: the thread to unpark stays linked.
DequeueNothing(t, a) ==
    \/ /\ queue[a] = <<>>
       /\ UNCHANGED <<queue, unparkee>>
       /\ Goto(t, ret[t])
    \/ /\ queue[a] # <<>>
       /\ unparkee' = [unparkee EXCEPT ![t] = Head(queue[a])]
       /\ Goto(t, "unpark")
       /\ UNCHANGED queue

\* parking_control::unpark_one up to the unlock of the bucket: unlink the
\* first thread that sleeps on a, which t will unpark.
DequeueOne(t, a) ==
    \/ /\ queue[a] = <<>>
       /\ UNCHANGED <<queue, unparkee>>
       /\ Goto(t, ret[t])
    \/ /\ queue[a] # <<>>
       /\ queue' = [queue EXCEPT ![a] = Tail(@)]
       /\ unparkee' = [unparkee EXCEPT ![t] = Head(queue[a])]
       /\ Goto(t, "unpark")

\* Mutant: off by one.
MoreThanTwoWaiters(a) == Len(queue[a]) > 2

\* The more_waiters argument of parking_control::unpark.
MoreWaiters(a) == Len(queue[a]) > 1

\* thread_parker::unpark, after the bucket has been unlocked.
Unpark(t) ==
    /\ pc[t] = "unpark"
    /\ should_park' = [should_park EXCEPT ![unparkee[t]] = FALSE]
    /\ unparkee' = [unparkee EXCEPT ![t] = NoThread]
    /\ Goto(t, ret[t])
    /\ UNCHANGED <<words, queue, bucket, ret, args>>
----------------------------------------------------------------------------
(* fast_mutex *)

CallLock(t, m) ==
    /\ pc[t] = "idle"
    /\ <<"lock", m>> \in Program[t]
    /\ mx' = [mx EXCEPT ![t] = m]
    /\ Goto(t, "lock")
    /\ UNCHANGED <<words, parking, ret, cv, val, one, unparkee>>

\* lock and lock_full: the CAS that sets the lock bit and keeps the parked bit.
Acquire(t) ==
    /\ pc[t] = "lock"
    /\ "lock" \notin state[mx[t]]
    /\ state' = [state EXCEPT ![mx[t]] = @ \cup {"lock"}]
    /\ Goto(t, "held")
    /\ UNCHANGED <<cond, parking, ret, args, unparkee>>

\* lock_full: tired of spinning on a locked mutex, set the parked bit.
MarkParked(t) ==
    /\ pc[t] = "lock"
    /\ "lock" \in state[mx[t]]
    /\ state' = [state EXCEPT ![mx[t]] = @ \cup {"parked"}]
    /\ Goto(t, "park")
    /\ UNCHANGED <<cond, parking, ret, args, unparkee>>

\* Mutant: park without validate.
ParkUnvalidated(t) ==
    /\ pc[t] = "park"
    /\ BucketFree(mx[t])
    /\ Enqueue(t, mx[t])
    /\ Goto(t, "parked")
    /\ UNCHANGED <<words, bucket, ret, args, unparkee>>

\* park on the mutex: validate looks at the state again, with the bucket locked.
ParkOnMutex(t) ==
    /\ pc[t] = "park"
    /\ BucketFree(mx[t])
    /\ \/ /\ state[mx[t]] = {"lock", "parked"}
          /\ Enqueue(t, mx[t])
          /\ Goto(t, "parked")
       \/ /\ state[mx[t]] # {"lock", "parked"}
          /\ UNCHANGED <<queue, should_park>>
          /\ Goto(t, "lock")
    /\ UNCHANGED <<words, bucket, ret, args, unparkee>>

\* Mutant: a spurious wake-up of pthread_cond_wait ends the park.
WakeUpSpuriously(t) ==
    /\ pc[t] = "parked"
    /\ Goto(t, "lock")
    /\ UNCHANGED <<words, parking, ret, args, unparkee>>

\* Return from park: lock_full goes round its loop, fast_cond::wait calls lock.
WakeUp(t) ==
    /\ pc[t] = "parked"
    /\ ~should_park[t]
    /\ Goto(t, "lock")
    /\ UNCHANGED <<words, parking, ret, args, unparkee>>

CallUnlock(t) ==
    /\ pc[t] = "held"
    /\ ret' = [ret EXCEPT ![t] = "idle"]
    /\ Goto(t, "unlock")
    /\ UNCHANGED <<words, parking, args, unparkee>>

\* unlock, and the first lines of unlock_full: the CAS from locked with nobody
\* parked to free, or its failure.
UnlockFast(t) ==
    /\ pc[t] = "unlock"
    /\ \/ /\ state[mx[t]] = {"lock"}
          /\ state' = [state EXCEPT ![mx[t]] = {}]
          /\ Goto(t, ret[t])
       \/ /\ state[mx[t]] # {"lock"}
          /\ Goto(t, "unlock_full")
          /\ UNCHANGED state
    /\ UNCHANGED <<cond, parking, ret, args, unparkee>>

\* unlock_full: dequeue a parked thread and store the new state under the bucket.
UnlockFull(t) ==
    /\ pc[t] = "unlock_full"
    /\ BucketFree(mx[t])
    /\ DequeueOne(t, mx[t])
    /\ state' = [state EXCEPT ![mx[t]] = IF MoreWaiters(mx[t]) THEN {"parked"} ELSE {}]
    /\ UNCHANGED <<cond, bucket, should_park, ret, args>>
----------------------------------------------------------------------------
(* fast_cond: wait and signal *)

CallWait(t, c) ==
    /\ pc[t] = "held"
    /\ <<"wait", c, mx[t]>> \in Program[t]
    /\ cv' = [cv EXCEPT ![t] = c]
    /\ Goto(t, "wait")
    /\ UNCHANGED <<words, parking, ret, mx, val, one, unparkee>>

\* park on the condition; before_sleep then unlocks the mutex.  A condition that
\* belongs to another mutex makes wait return at once with the mutex still held.
ParkOnCond(t) ==
    /\ pc[t] = "wait"
    /\ BucketFree(cv[t])
    /\ \/ /\ cond[cv[t]] \in {NoMutex, mx[t]}
          /\ cond' = [cond EXCEPT ![cv[t]] = mx[t]]
          /\ Enqueue(t, cv[t])
          /\ ret' = [ret EXCEPT ![t] = "parked"]
          /\ Goto(t, "unlock")
       \/ /\ cond[cv[t]] \notin {NoMutex, mx[t]}
          /\ Goto(t, "held")
          /\ UNCHANGED <<cond, queue, should_park, ret>>
    /\ UNCHANGED <<state, bucket, args, unparkee>>

\* A signal or a broadcast (l), with or without the mutex held.
CallNotify(t, l, c) ==
    /\ pc[t] \in {"idle", "held"}
    /\ <<l, c>> \in Program[t]
    /\ cv' = [cv EXCEPT ![t] = c]
    /\ ret' = [ret EXCEPT ![t] = pc[t]]
    /\ Goto(t, l)
    /\ UNCHANGED <<words, parking, mx, val, one, unparkee>>

\* signal returns at once when no mutex is associated with the condition.
SignalLoad(t) ==
    /\ pc[t] = "signal"
    /\ Goto(t, IF cond[cv[t]] = NoMutex THEN ret[t] ELSE "signal_one")
    /\ UNCHANGED <<words, parking, ret, args, unparkee>>

SignalOne(t) ==
    /\ pc[t] = "signal_one"
    /\ BucketFree(cv[t])
    /\ DequeueOne(t, cv[t])
    /\ cond' = [cond EXCEPT ![cv[t]] = IF MoreWaiters(cv[t]) THEN @ ELSE NoMutex]
    /\ UNCHANGED <<state, bucket, should_park, ret, args>>
----------------------------------------------------------------------------
(* fast_cond::broadcast and parking_control::unpark_requeue *)

FromBucket(t) == BucketOf[cv[t]]
ToBucket(t)   == BucketOf[val[t]]

\* Mutant: the bucket of the condition first.
FromThenTo(t) == <<FromBucket(t), ToBucket(t)>>

\* lock_bucket_pair locks the bucket with the smaller hash first.
LockOrder(t) == IF FromBucket(t) < ToBucket(t) THEN <<FromBucket(t), ToBucket(t)>>
                                               ELSE <<ToBucket(t), FromBucket(t)>>

UnlockBucketPair(t) ==
    bucket' = [b \in Buckets |-> IF bucket[b] = t THEN NoThread ELSE bucket[b]]

BroadcastLoad(t) ==
    /\ pc[t] = "broadcast"
    /\ val' = [val EXCEPT ![t] = cond[cv[t]]]
    /\ Goto(t, IF cond[cv[t]] = NoMutex THEN ret[t] ELSE "lock_first")
    /\ UNCHANGED <<words, parking, ret, mx, cv, one, unparkee>>

LockFirst(t) ==
    /\ pc[t] = "lock_first"
    /\ bucket[LockOrder(t)[1]] = NoThread
    /\ bucket' = [bucket EXCEPT ![LockOrder(t)[1]] = t]
    /\ Goto(t, IF FromBucket(t) = ToBucket(t) THEN "validate" ELSE "lock_second")
    /\ UNCHANGED <<words, queue, should_park, ret, args, unparkee>>

LockSecond(t) ==
    /\ pc[t] = "lock_second"
    /\ bucket[LockOrder(t)[2]] = NoThread
    /\ bucket' = [bucket EXCEPT ![LockOrder(t)[2]] = t]
    /\ Goto(t, "validate")
    /\ UNCHANGED <<words, queue, should_park, ret, args, unparkee>>

\* Mutant: a broadcast that finds the condition on another mutex goes on.
ValidateAny(t) ==
    /\ pc[t] = "validate"
    /\ cond' = [cond EXCEPT ![cv[t]] = NoMutex]
    /\ Goto(t, "mark")
    /\ UNCHANGED <<state, parking, ret, args, unparkee>>

\* broadcast_parking_control::validate: give up if the condition has moved on to
\* another mutex, else cut its connection to this one ...
Validate(t) ==
    /\ pc[t] = "validate"
    /\ \/ /\ cond[cv[t]] # val[t]
          /\ UnlockBucketPair(t)
          /\ Goto(t, ret[t])
          /\ UNCHANGED cond
       \/ /\ cond[cv[t]] = val[t]
          /\ cond' = [cond EXCEPT ![cv[t]] = NoMutex]
          /\ Goto(t, "mark")
          /\ UNCHANGED bucket
    /\ UNCHANGED <<state, queue, should_park, ret, args, unparkee>>

\* Mutant: the parked bit is stored over the lock bit.
MarkStored(t) ==
    /\ pc[t] = "mark"
    /\ one' = [one EXCEPT ![t] = "lock" \notin state[val[t]]]
    /\ state' = [state EXCEPT ![val[t]] = IF "lock" \in @ THEN {"parked"} ELSE @]
    /\ Goto(t, "requeue")
    /\ UNCHANGED <<cond, parking, ret, mx, cv, val, unparkee>>

\* ... and make_parked_if_locked: a waiter is woken only if nobody holds the mutex.
Mark(t) ==
    /\ pc[t] = "mark"
    /\ one' = [one EXCEPT ![t] = "lock" \notin state[val[t]]]
    /\ state' = [state EXCEPT ![val[t]] = IF "lock" \in @ THEN @ \cup {"parked"} ELSE @]
    /\ Goto(t, "requeue")
    /\ UNCHANGED <<cond, parking, ret, mx, cv, val, unparkee>>

\* The threads a broadcast moves to the mutex: all its waiters, or all but the one
\* it wakes.
Requeued(t) ==
    IF one[t] /\ queue[cv[t]] # <<>> THEN Tail(queue[cv[t]]) ELSE queue[cv[t]]

\* The loop of unpark_requeue, requeue_callback and the unlock of the buckets.
Requeue(t) ==
    /\ pc[t] = "requeue"
    /\ queue' = [queue EXCEPT ![cv[t]] = <<>>, ![val[t]] = queue[val[t]] \o Requeued(t)]
    /\ state' = [state EXCEPT ![val[t]] =
                    IF one[t] /\ Requeued(t) # <<>> THEN @ \cup {"parked"} ELSE @]
    /\ UnlockBucketPair(t)
    /\ \/ /\ one[t] /\ queue[cv[t]] # <<>>
          /\ unparkee' = [unparkee EXCEPT ![t] = Head(queue[cv[t]])]
          /\ Goto(t, "unpark")
       \/ /\ ~(one[t] /\ queue[cv[t]] # <<>>)
          /\ Goto(t, ret[t])
          /\ UNCHANGED unparkee
    /\ UNCHANGED <<cond, should_park, ret, args>>
----------------------------------------------------------------------------
\* What a thread does on its own once it has entered the library, and the unlock
\* that every caller owes.
Internal(t) ==
    \/ Acquire(t) \/ MarkParked(t) \/ ParkOnMutex(t) \/ WakeUp(t)
    \/ CallUnlock(t) \/ UnlockFast(t) \/ UnlockFull(t) \/ Unpark(t)
    \/ ParkOnCond(t) \/ SignalLoad(t) \/ SignalOne(t)
    \/ BroadcastLoad(t) \/ LockFirst(t) \/ LockSecond(t)
    \/ Validate(t) \/ Mark(t) \/ Requeue(t)

Call(t) ==
    \/ \E m \in Mutexes : CallLock(t, m)
    \/ \E c \in Conds :
          CallWait(t, c) \/ CallNotify(t, "signal", c) \/ CallNotify(t, "broadcast", c)

Next == \E t \in Threads : Internal(t) \/ Call(t)

Spec == Init /\ [][Next]_vars

\* A thread inside the library keeps running and a holder eventually unlocks;
\* nobody has to make another call.
FairSpec == Spec /\ \A t \in Threads : WF_vars(Internal(t))
----------------------------------------------------------------------------
(* Correctness *)

Notifying == {"signal", "signal_one", "broadcast", "lock_first", "lock_second",
              "validate", "mark", "requeue", "unpark"}

Owns(t) ==
    \/ pc[t] \in {"held", "wait", "unlock", "unlock_full"}
    \/ pc[t] \in Notifying /\ ret[t] = "held"

Queued(a, u) == \E i \in 1..Len(queue[a]) : queue[a][i] = u

\* Two threads never own the same mutex (halide_mutex_lock/unlock, and the mutex
\* halide_cond_wait gives back).
MutualExclusion ==
    \A t, u \in Threads : Owns(t) /\ Owns(u) /\ mx[t] = mx[u] => t = u

\* The lock bit of fast_mutex::state is set exactly while a thread owns the mutex,
\* although unlock_full stores a whole new state over it and broadcasts set the
\* parked bit of mutexes they do not own.
LockBit ==
    \A m \in Mutexes : "lock" \in state[m] <=> \E t \in Threads : Owns(t) /\ mx[t] = m

\* A mutex with threads in its queue has its parked bit set, so that no unlock takes
\* the fast path past them.
ParkedBit ==
    \A m \in Mutexes : BucketFree(m) /\ queue[m] # <<>> => "parked" \in state[m]

\* A free mutex that threads sleep on has a thread awake, or about to be unparked,
\* that will lock and unlock it: the wake-up is never lost between the dequeue by
\* unlock_full or unpark_requeue and the lock.
Heading(u, m) ==
    /\ mx[u] = m
    /\ \/ pc[u] \in {"lock", "park"}
       \/ pc[u] = "parked" /\ ~should_park[u]
       \/ \E t \in Threads : unparkee[t] = u

NoStrandedWaiter ==
    \A m \in Mutexes :
        BucketFree(m) /\ queue[m] # <<>> /\ "lock" \notin state[m]
            => \E u \in Threads : Heading(u, m)

\* fast_cond::state names the mutex of the threads asleep on the condition, and is
\* zero when there are none: the early returns of signal and broadcast lose nobody
\* and a broadcast moves its waiters to the mutex they released.
CondState ==
    \A c \in Conds :
        BucketFree(c) =>
            /\ cond[c] = NoMutex <=> queue[c] = <<>>
            /\ \A u \in Threads : Queued(c, u) => mx[u] = cond[c]

\* The words say what the queues and the callers know, in every interleaving of the
\* accesses that are made with a bucket and of those that are made without.
WordsExact == LockBit /\ ParkedBit /\ CondState

\* queue_data lives on the parked thread's stack: a linked thread is still inside
\* park, a thread to be unparked is no longer linked, and no thread is linked twice.
NoDanglingQueueData ==
    /\ \A a \in Addrs : \A i \in 1..Len(queue[a]) :
          /\ should_park[queue[a][i]]
          /\ pc[queue[a][i]] = "parked" \/ ret[queue[a][i]] = "parked"
          /\ \A b \in Addrs : \A j \in 1..Len(queue[b]) :
                queue[a][i] = queue[b][j] => a = b /\ i = j
    /\ \A t \in Threads : pc[t] = "unpark" =>
          /\ should_park[unparkee[t]]
          /\ \A a \in Addrs : ~Queued(a, unparkee[t])
          /\ \A u \in Threads : unparkee[u] = unparkee[t] => u = t

\* Two broadcasts never wait for each other's bucket, whatever the hashes of their
\* conditions and mutexes (the ordering in lock_bucket_pair).
NoBucketDeadlock ==
    \A t, u \in Threads :
        ~ /\ pc[t] = "lock_second" /\ pc[u] = "lock_second"
          /\ bucket[LockOrder(t)[2]] = u /\ bucket[LockOrder(u)[2]] = t

\* No lost wake-up: while threads want a mutex, it keeps being acquired.
Wanted(m) ==
    \E t \in Threads :
        /\ mx[t] = m
        /\ pc[t] \in {"lock", "park"} \/ (pc[t] = "parked" /\ (Queued(m, t) \/ ~should_park[t]))
Held(m)   == \E t \in Threads : Owns(t) /\ mx[t] = m
Progress  == \A m \in Mutexes : Wanted(m) ~> Held(m)
============================================================================
