-------------------------- MODULE ParkingLotProofs --------------------------
(***************************************************************************)
(* Proofs about ParkingLot for any number of threads, mutexes and          *)
(* conditions, any hash and any program of calls.                          *)
(***************************************************************************)
EXTENDS ParkingLotMonitor, SequenceTheorems, TLAPS

Broadcasting == {"lock_first", "lock_second", "validate", "mark", "requeue"}

\* What the locals of a call hold, by the place in the call: every action indexes
\* the mutexes, conditions and buckets with them.
CallInv ==
    \A t \in Threads :
        /\ pc[t] \in {"lock", "park", "parked", "held", "wait", "unlock", "unlock_full"}
              => mx[t] \in Mutexes
        /\ pc[t] \in Notifying /\ ret[t] \in {"held", "parked"} => mx[t] \in Mutexes
        /\ pc[t] \in {"wait"} \cup (Notifying \ {"unpark"}) => cv[t] \in Conds
        /\ pc[t] \in Broadcasting => val[t] \in Mutexes
        /\ pc[t] \in Notifying \ {"unpark"} => ret[t] \in {"idle", "held"}
        /\ pc[t] \in {"unlock", "unlock_full"} => ret[t] \in {"idle", "parked"}
        /\ pc[t] = "unpark" => unparkee[t] \in Threads

\* The buckets a broadcaster holds: one of the pair while it waits for the other.
BucketInv ==
    \A b \in Buckets, t \in Threads : bucket[b] = t =>
        \/ pc[t] = "lock_second" /\ b = LockOrder(t)[1] /\ FromBucket(t) # ToBucket(t)
        \/ pc[t] \in {"validate", "mark", "requeue"}

OwnInv == LockBit /\ MutualExclusion

USE DEF Goto, words, parking, args

\* No thread has called anything yet.
LEMMA TypeInit == Init => TypeOK /\ CallInv
  <1>1. Init => TypeOK
    BY DEF Init, TypeOK, Labels
  <1>2. Init => CallInv
    BY DEF Init, CallInv, Notifying, Broadcasting
  <1> QED
    BY <1>1, <1>2

\* The types after a thread has joined a queue.
LEMMA EnqueueType ==
  ASSUME TypeOK, NEW t \in Threads, NEW a \in Addrs, Enqueue(t, a)
  PROVE  /\ queue' \in [Addrs -> Seq(Threads)]
         /\ should_park' \in [Threads -> BOOLEAN]
  <1>1. Append(queue[a], t) \in Seq(Threads)
    BY AppendProperties DEF TypeOK
  <1> QED
    BY <1>1 DEF TypeOK, Enqueue

\* The types after a thread has been taken out of a queue.
LEMMA DequeueType ==
  ASSUME TypeOK, NEW t \in Threads, NEW a \in Addrs, DequeueOne(t, a)
  PROVE  /\ queue' \in [Addrs -> Seq(Threads)]
         /\ unparkee' \in [Threads -> Threads \cup {NoThread}]
         /\ pc' \in [Threads -> Labels]
  <1>1. CASE queue[a] = <<>>
    <2>1. UNCHANGED <<queue, unparkee>> /\ Goto(t, ret[t])
      BY <1>1 DEF DequeueOne
    <2>2. pc' \in [Threads -> Labels]
      BY <2>1 DEF TypeOK, Labels
    <2> QED
      BY <2>1, <2>2 DEF TypeOK
  <1>2. CASE queue[a] # <<>>
    <2>1. Tail(queue[a]) \in Seq(Threads) /\ Head(queue[a]) \in Threads
      BY <1>2, HeadTailProperties DEF TypeOK
    <2>2. /\ queue' = [queue EXCEPT ![a] = Tail(queue[a])]
          /\ unparkee' = [unparkee EXCEPT ![t] = Head(queue[a])]
          /\ pc' = [pc EXCEPT ![t] = "unpark"]
      BY <1>2 DEF DequeueOne
    <2>3. queue' \in [Addrs -> Seq(Threads)]
      BY <2>1, <2>2 DEF TypeOK
    <2>4. unparkee' \in [Threads -> Threads \cup {NoThread}]
      BY <2>1, <2>2 DEF TypeOK
    <2>5. pc' \in [Threads -> Labels]
      BY <2>2 DEF TypeOK, Labels
    <2> QED
      BY <2>3, <2>4, <2>5
  <1> QED
    BY <1>1, <1>2

\* The types after the waiters of a condition have moved to the mutex.
LEMMA RequeueType ==
  ASSUME TypeOK, NEW t \in Threads, cv[t] \in Conds, val[t] \in Mutexes, Requeue(t)
  PROVE  queue' \in [Addrs -> Seq(Threads)]
  <1>1. queue[cv[t]] \in Seq(Threads) /\ queue[val[t]] \in Seq(Threads)
    BY DEF TypeOK, Addrs
  <1>2. Requeued(t) \in Seq(Threads)
    BY <1>1, HeadTailProperties DEF Requeued
  <1>3. <<>> \in Seq(Threads)
    OBVIOUS
  <1>4. queue[val[t]] \o Requeued(t) \in Seq(Threads)
    BY <1>1, <1>2, ConcatProperties
  <1>5. [queue EXCEPT ![cv[t]] = <<>>] \in [Addrs -> Seq(Threads)]
    BY <1>3 DEF TypeOK
  <1>6. queue' = [[queue EXCEPT ![cv[t]] = <<>>]
                    EXCEPT ![val[t]] = queue[val[t]] \o Requeued(t)]
    BY DEF Requeue
  <1> QED
    BY <1>4, <1>5, <1>6

\* Every step keeps the types.
LEMMA TypeStep ==
  ASSUME TypeOK, CallInv, NEW t \in Threads, Internal(t) \/ Call(t)
  PROVE  TypeOK'
  <1> USE DEF TypeOK, Labels, CallInv, Notifying, Broadcasting
  <1>1. CASE Acquire(t)
    BY <1>1 DEF Acquire
  <1>2. CASE MarkParked(t)
    BY <1>2 DEF MarkParked
  <1>3. CASE ParkOnMutex(t)
    <2>1. CASE Enqueue(t, mx[t]) /\ Goto(t, "parked")
      BY <1>3, <2>1, EnqueueType DEF ParkOnMutex, Addrs
    <2>2. CASE UNCHANGED <<queue, should_park>> /\ Goto(t, "lock")
      BY <1>3, <2>2 DEF ParkOnMutex
    <2> QED
      BY <1>3, <2>1, <2>2 DEF ParkOnMutex
  <1>4. CASE WakeUp(t)
    BY <1>4 DEF WakeUp
  <1>5. CASE CallUnlock(t)
    BY <1>5 DEF CallUnlock
  <1>6. CASE UnlockFast(t)
    <2>1. CASE state[mx[t]] = {"lock"}
      <3>1. /\ state' = [state EXCEPT ![mx[t]] = {}]
            /\ Goto(t, ret[t])
            /\ UNCHANGED <<cond, parking, ret, args, unparkee>>
        BY <1>6, <2>1 DEF UnlockFast
      <3>2. state' \in [Mutexes -> SUBSET {"lock", "parked"}]
        BY <3>1
      <3>3. pc' \in [Threads -> Labels]
        BY <3>1
      <3> QED
        BY <3>1, <3>2, <3>3
    <2>2. CASE state[mx[t]] # {"lock"}
      <3>1. Goto(t, "unlock_full") /\ UNCHANGED <<words, parking, ret, args, unparkee>>
        BY <1>6, <2>2 DEF UnlockFast
      <3> QED
        BY <3>1
    <2> QED
      BY <2>1, <2>2
  <1>7. CASE UnlockFull(t)
    <2>1. /\ queue' \in [Addrs -> Seq(Threads)]
          /\ unparkee' \in [Threads -> Threads \cup {NoThread}]
          /\ pc' \in [Threads -> Labels]
      BY <1>7, DequeueType DEF UnlockFull, Addrs
    <2>2. state' \in [Mutexes -> SUBSET {"lock", "parked"}]
      BY <1>7 DEF UnlockFull
    <2> QED
      BY <1>7, <2>1, <2>2 DEF UnlockFull
  <1>8. CASE Unpark(t)
    BY <1>8 DEF Unpark
  <1>9. CASE ParkOnCond(t)
    <2>1. CASE cond[cv[t]] \in {NoMutex, mx[t]}
      <3>1. /\ cond' = [cond EXCEPT ![cv[t]] = mx[t]]
            /\ Enqueue(t, cv[t])
            /\ ret' = [ret EXCEPT ![t] = "parked"]
            /\ Goto(t, "unlock")
            /\ cv[t] \in Conds /\ mx[t] \in Mutexes
            /\ UNCHANGED <<state, bucket, args, unparkee>>
        BY <1>9, <2>1 DEF ParkOnCond
      <3>2. queue' \in [Addrs -> Seq(Threads)] /\ should_park' \in [Threads -> BOOLEAN]
        BY <3>1, EnqueueType DEF Addrs
      <3>3. cond' \in [Conds -> Mutexes \cup {NoMutex}]
        BY <3>1
      <3>4. ret' \in [Threads -> {"idle", "held", "parked"}] /\ pc' \in [Threads -> Labels]
        BY <3>1
      <3>5. UNCHANGED <<state, bucket, mx, cv, val, one, unparkee>>
        BY <3>1
      <3> QED
        BY <3>2, <3>3, <3>4, <3>5
    <2>2. CASE cond[cv[t]] \notin {NoMutex, mx[t]}
      BY <1>9, <2>2 DEF ParkOnCond
    <2> QED
      BY <2>1, <2>2
  <1>10. CASE SignalLoad(t)
    BY <1>10 DEF SignalLoad
  <1>11. CASE SignalOne(t)
    <2>1. /\ queue' \in [Addrs -> Seq(Threads)]
          /\ unparkee' \in [Threads -> Threads \cup {NoThread}]
          /\ pc' \in [Threads -> Labels]
      BY <1>11, DequeueType DEF SignalOne, Addrs
    <2>2. cond' \in [Conds -> Mutexes \cup {NoMutex}]
      BY <1>11 DEF SignalOne
    <2> QED
      BY <1>11, <2>1, <2>2 DEF SignalOne
  <1>12. CASE BroadcastLoad(t)
    BY <1>12 DEF BroadcastLoad
  <1>13. CASE LockFirst(t)
    BY <1>13 DEF LockFirst
  <1>14. CASE LockSecond(t)
    BY <1>14 DEF LockSecond
  <1>15. CASE Validate(t)
    <2>1. CASE cond[cv[t]] # val[t]
      <3>1. /\ bucket' \in [Buckets -> Threads \cup {NoThread}]
            /\ Goto(t, ret[t])
            /\ UNCHANGED <<cond, state, queue, should_park, ret, args, unparkee>>
        BY <1>15, <2>1 DEF Validate, UnlockBucketPair
      <3>2. pc' \in [Threads -> Labels]
        BY <3>1
      <3> QED
        BY <3>1, <3>2
    <2>2. CASE cond[cv[t]] = val[t]
      <3>1. /\ cond' = [cond EXCEPT ![cv[t]] = NoMutex]
            /\ Goto(t, "mark")
            /\ UNCHANGED <<bucket, state, queue, should_park, ret, args, unparkee>>
        BY <1>15, <2>2 DEF Validate
      <3>2. cond' \in [Conds -> Mutexes \cup {NoMutex}] /\ pc' \in [Threads -> Labels]
        BY <3>1
      <3> QED
        BY <3>1, <3>2
    <2> QED
      BY <2>1, <2>2
  <1>16. CASE Mark(t)
    BY <1>16 DEF Mark
  <1>17. CASE Requeue(t)
    <2>1. queue' \in [Addrs -> Seq(Threads)]
      BY <1>17, RequeueType DEF Requeue
    <2>2. state' \in [Mutexes -> SUBSET {"lock", "parked"}]
      BY <1>17 DEF Requeue
    <2>3. bucket' \in [Buckets -> Threads \cup {NoThread}]
      BY <1>17 DEF Requeue, UnlockBucketPair
    <2>4. unparkee' \in [Threads -> Threads \cup {NoThread}] /\ pc' \in [Threads -> Labels]
      <3>1. CASE one[t] /\ queue[cv[t]] # <<>>
        <4>1. Head(queue[cv[t]]) \in Threads
          BY <1>17, <3>1, HeadTailProperties DEF Requeue, Addrs
        <4>2. unparkee' = [unparkee EXCEPT ![t] = Head(queue[cv[t]])] /\ Goto(t, "unpark")
          BY <1>17, <3>1 DEF Requeue
        <4> QED
          BY <4>1, <4>2
      <3>2. CASE ~(one[t] /\ queue[cv[t]] # <<>>)
        <4>1. UNCHANGED unparkee /\ Goto(t, ret[t])
          BY <1>17, <3>2 DEF Requeue
        <4> QED
          BY <4>1
      <3> QED
        BY <3>1, <3>2
    <2> QED
      BY <1>17, <2>1, <2>2, <2>3, <2>4 DEF Requeue
  <1>18. CASE Call(t)
    <2>1. ASSUME NEW m \in Mutexes, CallLock(t, m) PROVE TypeOK'
      BY <2>1 DEF CallLock
    <2>2. ASSUME NEW c \in Conds, CallWait(t, c) PROVE TypeOK'
      BY <2>2 DEF CallWait
    <2>3. ASSUME NEW c \in Conds, NEW l \in {"signal", "broadcast"}, CallNotify(t, l, c)
          PROVE  TypeOK'
      BY <2>3 DEF CallNotify
    <2> QED
      BY <1>18, <2>1, <2>2, <2>3 DEF Call
  <1> QED
    BY <1>1, <1>2, <1>3, <1>4, <1>5, <1>6, <1>7, <1>8, <1>9, <1>10, <1>11,
       <1>12, <1>13, <1>14, <1>15, <1>16, <1>17, <1>18 DEF Internal

\* Every step keeps the arguments of a call and its registers in their types.
LEMMA CallStep ==
  ASSUME TypeOK, CallInv, NEW t \in Threads, Internal(t) \/ Call(t)
  PROVE  CallInv'
  <1> USE SentinelAssumption DEF TypeOK, Labels, CallInv, Notifying, Broadcasting
  <1>1. CASE Acquire(t)
    BY <1>1 DEF Acquire
  <1>2. CASE MarkParked(t)
    BY <1>2 DEF MarkParked
  <1>3. CASE ParkOnMutex(t)
    BY <1>3 DEF ParkOnMutex, Enqueue
  <1>4. CASE WakeUp(t)
    BY <1>4 DEF WakeUp
  <1>5. CASE CallUnlock(t)
    BY <1>5 DEF CallUnlock
  <1>6. CASE UnlockFast(t)
    BY <1>6 DEF UnlockFast
  <1>7. CASE UnlockFull(t)
    <2>1. CASE queue[mx[t]] = <<>>
      BY <1>7, <2>1 DEF UnlockFull, DequeueOne
    <2>2. CASE queue[mx[t]] # <<>>
      <3>1. Head(queue[mx[t]]) \in Threads
        BY <1>7, <2>2, HeadTailProperties DEF UnlockFull, Addrs
      <3> QED
        BY <1>7, <2>2, <3>1 DEF UnlockFull, DequeueOne
    <2> QED
      BY <2>1, <2>2
  <1>8. CASE Unpark(t)
    BY <1>8 DEF Unpark
  <1>9. CASE ParkOnCond(t)
    BY <1>9 DEF ParkOnCond, Enqueue
  <1>10. CASE SignalLoad(t)
    BY <1>10 DEF SignalLoad
  <1>11. CASE SignalOne(t)
    <2>1. CASE queue[cv[t]] = <<>>
      BY <1>11, <2>1 DEF SignalOne, DequeueOne
    <2>2. CASE queue[cv[t]] # <<>>
      <3>1. Head(queue[cv[t]]) \in Threads
        BY <1>11, <2>2, HeadTailProperties DEF SignalOne, Addrs
      <3> QED
        BY <1>11, <2>2, <3>1 DEF SignalOne, DequeueOne
    <2> QED
      BY <2>1, <2>2
  <1>12. CASE BroadcastLoad(t)
    BY <1>12 DEF BroadcastLoad
  <1>13. CASE LockFirst(t)
    BY <1>13 DEF LockFirst
  <1>14. CASE LockSecond(t)
    BY <1>14 DEF LockSecond
  <1>15. CASE Validate(t)
    BY <1>15 DEF Validate
  <1>16. CASE Mark(t)
    BY <1>16 DEF Mark
  <1>17. CASE Requeue(t)
    <2>1. CASE one[t] /\ queue[cv[t]] # <<>>
      <3>1. Head(queue[cv[t]]) \in Threads
        BY <1>17, <2>1, HeadTailProperties DEF Requeue, Addrs
      <3> QED
        BY <1>17, <2>1, <3>1 DEF Requeue
    <2>2. CASE ~(one[t] /\ queue[cv[t]] # <<>>)
      BY <1>17, <2>2 DEF Requeue
    <2> QED
      BY <2>1, <2>2
  <1>18. CASE Call(t)
    <2>1. ASSUME NEW m \in Mutexes, CallLock(t, m) PROVE CallInv'
      BY <2>1 DEF CallLock
    <2>2. ASSUME NEW c \in Conds, CallWait(t, c) PROVE CallInv'
      BY <2>2 DEF CallWait
    <2>3. ASSUME NEW c \in Conds, NEW l \in {"signal", "broadcast"}, CallNotify(t, l, c)
          PROVE  CallInv'
      BY <2>3 DEF CallNotify
    <2> QED
      BY <1>18, <2>1, <2>2, <2>3 DEF Call
  <1> QED
    BY <1>1, <1>2, <1>3, <1>4, <1>5, <1>6, <1>7, <1>8, <1>9, <1>10, <1>11,
       <1>12, <1>13, <1>14, <1>15, <1>16, <1>17, <1>18 DEF Internal

\* A step that neither sets nor clears a lock bit, nor makes or unmakes an owner.
LEMMA OwnFrame ==
  ASSUME OwnInv,
         \A m \in Mutexes : "lock" \in state'[m] <=> "lock" \in state[m],
         \A u \in Threads : (Owns(u)' <=> Owns(u)) /\ (Owns(u) => mx'[u] = mx[u])
  PROVE  OwnInv'
  BY DEF OwnInv, LockBit, MutualExclusion

\* A step by which t gives up its mutex and clears the lock bit.
LEMMA OwnRelease ==
  ASSUME TypeOK, OwnInv, NEW t \in Threads, Owns(t), ~Owns(t)', mx[t] \in Mutexes,
         NEW s \in SUBSET {"lock", "parked"}, "lock" \notin s,
         state' = [state EXCEPT ![mx[t]] = s], mx' = mx,
         \A u \in Threads \ {t} : Owns(u)' <=> Owns(u)
  PROVE  OwnInv'
  <1>1. MutualExclusion'
    BY DEF OwnInv, MutualExclusion
  <1>2. ASSUME NEW m \in Mutexes
        PROVE  "lock" \in state'[m] <=> \E u \in Threads : Owns(u)' /\ mx'[u] = m
    <2>1. CASE m = mx[t]
      <3>1. ~ \E u \in Threads : Owns(u)' /\ mx'[u] = m
        BY <2>1 DEF OwnInv, MutualExclusion
      <3>2. state'[m] = s
        BY <2>1 DEF TypeOK
      <3> QED
        BY <3>1, <3>2
    <2>2. CASE m # mx[t]
      <3>1. state'[m] = state[m]
        BY <2>2 DEF TypeOK
      <3>2. \A u \in Threads : Owns(u)' /\ mx'[u] = m <=> Owns(u) /\ mx[u] = m
        BY <2>2
      <3> QED
        BY <3>1, <3>2 DEF OwnInv, LockBit
    <2> QED
      BY <2>1, <2>2
  <1> QED
    BY <1>1, <1>2 DEF OwnInv, LockBit

\* Every step keeps the lock bits exact.
LEMMA OwnStep ==
  ASSUME TypeOK, CallInv, OwnInv, NEW t \in Threads, Internal(t) \/ Call(t)
  PROVE  OwnInv'
  <1> USE DEF TypeOK, CallInv, Owns, Notifying, Broadcasting
  <1>1. CASE Acquire(t)
    BY <1>1 DEF Acquire, OwnInv, LockBit, MutualExclusion
  <1>2. CASE MarkParked(t)
    BY <1>2, OwnFrame DEF MarkParked
  <1>3. CASE ParkOnMutex(t)
    BY <1>3, OwnFrame DEF ParkOnMutex
  <1>4. CASE WakeUp(t)
    BY <1>4, OwnFrame DEF WakeUp
  <1>5. CASE CallUnlock(t)
    BY <1>5, OwnFrame DEF CallUnlock
  <1>6. CASE UnlockFast(t)
    <2>1. CASE state[mx[t]] = {"lock"}
      BY <1>6, <2>1, OwnRelease, SMTT(60) DEF UnlockFast
    <2>2. CASE state[mx[t]] # {"lock"}
      BY <1>6, <2>2, OwnFrame DEF UnlockFast
    <2> QED
      BY <2>1, <2>2
  <1>7. CASE UnlockFull(t)
    <2>1. PICK s \in {{"parked"}, {}} : state' = [state EXCEPT ![mx[t]] = s]
      BY <1>7 DEF UnlockFull
    <2>2. Owns(t) /\ ~Owns(t)' /\ mx[t] \in Mutexes /\ mx' = mx
      BY <1>7 DEF UnlockFull, DequeueOne
    <2>3. \A u \in Threads \ {t} : Owns(u)' <=> Owns(u)
      BY <1>7 DEF UnlockFull, DequeueOne
    <2> HIDE DEF TypeOK, CallInv, Owns
    <2> QED
      BY <2>1, <2>2, <2>3, OwnRelease
  <1>8. CASE Unpark(t)
    BY <1>8, OwnFrame DEF Unpark
  <1>9. CASE ParkOnCond(t)
    BY <1>9, OwnFrame DEF ParkOnCond
  <1>10. CASE SignalLoad(t)
    BY <1>10, OwnFrame DEF SignalLoad
  <1>11. CASE SignalOne(t)
    BY <1>11, OwnFrame DEF SignalOne, DequeueOne
  <1>12. CASE BroadcastLoad(t)
    BY <1>12, OwnFrame DEF BroadcastLoad
  <1>13. CASE LockFirst(t)
    BY <1>13, OwnFrame DEF LockFirst
  <1>14. CASE LockSecond(t)
    BY <1>14, OwnFrame DEF LockSecond
  <1>15. CASE Validate(t)
    BY <1>15, OwnFrame DEF Validate
  <1>16. CASE Mark(t)
    BY <1>16, OwnFrame DEF Mark
  <1>17. CASE Requeue(t)
    BY <1>17, OwnFrame DEF Requeue
  <1>18. CASE Call(t)
    <2>1. ASSUME NEW m \in Mutexes, CallLock(t, m) PROVE OwnInv'
      BY <2>1, OwnFrame DEF CallLock
    <2>2. ASSUME NEW c \in Conds, CallWait(t, c) PROVE OwnInv'
      BY <2>2, OwnFrame DEF CallWait
    <2>3. ASSUME NEW c \in Conds, NEW l \in {"signal", "broadcast"}, CallNotify(t, l, c)
          PROVE  OwnInv'
      BY <2>3, OwnFrame DEF CallNotify
    <2> QED
      BY <1>18, <2>1, <2>2, <2>3 DEF Call
  <1> QED
    BY <1>1, <1>2, <1>3, <1>4, <1>5, <1>6, <1>7, <1>8, <1>9, <1>10, <1>11,
       <1>12, <1>13, <1>14, <1>15, <1>16, <1>17, <1>18 DEF Internal

\* The buckets of other threads and the pairs they order do not change under t.
LEMMA BucketStep ==
  ASSUME TypeOK, CallInv, BucketInv, NEW t \in Threads, Internal(t) \/ Call(t)
  PROVE  BucketInv'
  <1> USE SentinelAssumption DEF TypeOK, BucketInv, Notifying, Broadcasting,
          LockOrder, FromBucket, ToBucket
  <1>1. CASE Acquire(t)
    BY <1>1 DEF Acquire
  <1>2. CASE MarkParked(t)
    BY <1>2 DEF MarkParked
  <1>3. CASE ParkOnMutex(t)
    BY <1>3 DEF ParkOnMutex, Enqueue
  <1>4. CASE WakeUp(t)
    BY <1>4 DEF WakeUp
  <1>5. CASE CallUnlock(t)
    BY <1>5 DEF CallUnlock
  <1>6. CASE UnlockFast(t)
    BY <1>6 DEF UnlockFast
  <1>7. CASE UnlockFull(t)
    BY <1>7 DEF UnlockFull, DequeueOne
  <1>8. CASE Unpark(t)
    BY <1>8 DEF Unpark
  <1>9. CASE ParkOnCond(t)
    BY <1>9 DEF ParkOnCond, Enqueue
  <1>10. CASE SignalLoad(t)
    BY <1>10 DEF SignalLoad
  <1>11. CASE SignalOne(t)
    BY <1>11 DEF SignalOne, DequeueOne
  <1>12. CASE BroadcastLoad(t)
    BY <1>12 DEF BroadcastLoad
  <1>13. CASE LockFirst(t)
    BY <1>13 DEF LockFirst
  <1>14. CASE LockSecond(t)
    BY <1>14 DEF LockSecond
  <1>15. CASE Validate(t)
    BY <1>15 DEF Validate, UnlockBucketPair
  <1>16. CASE Mark(t)
    BY <1>16 DEF Mark
  <1>17. CASE Requeue(t)
    BY <1>17 DEF Requeue, UnlockBucketPair
  <1>18. CASE Call(t)
    <2>1. ASSUME NEW m \in Mutexes, CallLock(t, m) PROVE BucketInv'
      BY <2>1 DEF CallLock
    <2>2. ASSUME NEW c \in Conds, CallWait(t, c) PROVE BucketInv'
      BY <2>2 DEF CallWait
    <2>3. ASSUME NEW c \in Conds, NEW l \in {"signal", "broadcast"}, CallNotify(t, l, c)
          PROVE  BucketInv'
      BY <2>3 DEF CallNotify
    <2> QED
      BY <1>18, <2>1, <2>2, <2>3 DEF Call
  <1> QED
    BY <1>1, <1>2, <1>3, <1>4, <1>5, <1>6, <1>7, <1>8, <1>9, <1>10, <1>11,
       <1>12, <1>13, <1>14, <1>15, <1>16, <1>17, <1>18 DEF Internal

----------------------------------------------------------------------------
IInv == TypeOK /\ CallInv /\ OwnInv /\ BucketInv

\* Types, arguments and lock bits in every reachable state.
THEOREM Invariance == Spec => []IInv
  <1>1. Init => IInv
    <2>1. Init => OwnInv
      BY DEF Init, OwnInv, LockBit, MutualExclusion, Owns, Notifying
    <2>2. Init => BucketInv
      BY SentinelAssumption DEF Init, BucketInv
    <2> QED
      BY <2>1, <2>2, TypeInit DEF IInv
  <1>2. IInv /\ [Next]_vars => IInv'
    <2> SUFFICES ASSUME IInv, [Next]_vars PROVE IInv'
      OBVIOUS
    <2>1. ASSUME NEW t \in Threads, Internal(t) \/ Call(t) PROVE IInv'
      BY <2>1, TypeStep, CallStep, OwnStep, BucketStep DEF IInv
    <2>2. CASE UNCHANGED vars
      BY <2>2 DEF vars, IInv, TypeOK, CallInv, OwnInv, LockBit, MutualExclusion, Owns,
                  BucketInv, LockOrder, FromBucket, ToBucket
    <2> QED
      BY <2>1, <2>2 DEF Next
  <1> QED
    BY <1>1, <1>2, PTL DEF Spec

\* Every word, queue and local keeps its type.
THEOREM TypeCorrect == Spec => []TypeOK
  BY Invariance, PTL DEF IInv

\* fast_mutex excludes: two threads never own one mutex, although a broadcast sets the
\* parked bit of a mutex it does not own and unlock_full overwrites the whole word.
THEOREM Exclusion == Spec => []MutualExclusion
  BY Invariance, PTL DEF IInv, OwnInv

\* The lock bit is set exactly while the mutex has an owner.
THEOREM LockBitExact == Spec => []LockBit
  BY Invariance, PTL DEF IInv, OwnInv

\* lock_bucket_pair orders the buckets: no two broadcasts wait for each other.
THEOREM BroadcastsDoNotDeadlock == Spec => []NoBucketDeadlock
  <1>1. IInv => NoBucketDeadlock
    <2> SUFFICES ASSUME IInv, NEW t \in Threads, NEW u \in Threads,
                        pc[t] = "lock_second", pc[u] = "lock_second",
                        bucket[LockOrder(t)[2]] = u, bucket[LockOrder(u)[2]] = t
                 PROVE  FALSE
      BY DEF NoBucketDeadlock
    <2>1. /\ FromBucket(t) \in Buckets /\ ToBucket(t) \in Buckets
          /\ FromBucket(u) \in Buckets /\ ToBucket(u) \in Buckets
          /\ Buckets \subseteq Nat
      BY BucketAssumption DEF IInv, CallInv, Notifying, Broadcasting, FromBucket, ToBucket,
                              Buckets, Addrs
    <2>2. LockOrder(t)[2] = LockOrder(u)[1] /\ FromBucket(u) # ToBucket(u)
      BY <2>1 DEF IInv, BucketInv, LockOrder
    <2>3. LockOrder(u)[2] = LockOrder(t)[1] /\ FromBucket(t) # ToBucket(t)
      BY <2>1 DEF IInv, BucketInv, LockOrder
    <2>4. ASSUME NEW w \in {t, u}
          PROVE  /\ LockOrder(w)[1] \in Nat /\ LockOrder(w)[2] \in Nat
                 /\ LockOrder(w)[1] < LockOrder(w)[2]
      <3> DEFINE f == FromBucket(w)
                 g == ToBucket(w)
      <3>1. f \in Nat /\ g \in Nat /\ f # g
        BY <2>1, <2>2, <2>3
      <3>2. LockOrder(w) = IF f < g THEN <<f, g>> ELSE <<g, f>>
        BY DEF LockOrder
      <3> HIDE DEF f, g
      <3>3. CASE f < g
        BY <3>1, <3>2, <3>3
      <3>4. CASE ~(f < g)
        <4>1. LockOrder(w)[1] = g /\ LockOrder(w)[2] = f
          BY <3>2, <3>4
        <4> QED
          BY <3>1, <3>4, <4>1
      <3> QED
        BY <3>3, <3>4
    <2> QED
      BY <2>2, <2>3, <2>4
  <1> QED
    BY <1>1, Invariance, PTL
-----------------------------------------------------------------------------
(***************************************************************************)
(* What the words of ParkingLot say of the queues of sleeping threads, for *)
(* any number of threads, mutexes and conditions, any hash and any program *)
(* of calls.  The invariants that are proved (WordsExact,                  *)
(* NoDanglingQueueData, NoStrandedWaiter) speak of buckets that are free;  *)
(* they become inductive with what holds while a broadcast has a bucket,   *)
(* and with which threads may be asleep at all.                            *)
(***************************************************************************)

USE DEF Goto, words, parking, args

Sleeps(u) == \E a \in Addrs : Queued(a, u)

\* No thread is linked twice, in one queue or in two.
Distinct ==
    \A a, b \in Addrs : \A i \in 1..Len(queue[a]), j \in 1..Len(queue[b]) :
        queue[a][i] = queue[b][j] => a = b /\ i = j

\* The calls during which a thread's queue_data is alive: parked, or in the unlock
\* that fast_cond::wait does before it sleeps.
InPark(u) ==
    \/ pc[u] = "parked"
    \/ pc[u] \in {"unlock", "unlock_full", "unpark"} /\ ret[u] = "parked"

\* A thread that is linked, or dequeued and not yet unparked, is inside park and waits
\* for should_park to be cleared; it is one or the other, and for one thread only.
SleepInv ==
    /\ \A u \in Threads : Sleeps(u) => should_park[u] /\ InPark(u)
    /\ \A t \in Threads : pc[t] # "unpark" => unparkee[t] = NoThread
    /\ \A t, v \in Threads : unparkee[t] = v =>
          /\ should_park[v] /\ InPark(v) /\ ~Sleeps(v)
          /\ \A u \in Threads : unparkee[u] = v => u = t

\* A broadcaster has the buckets it has locked (BucketInv is the converse).
HoldInv ==
    \A t \in Threads :
        /\ pc[t] = "lock_second" => bucket[LockOrder(t)[1]] = t
        /\ pc[t] \in {"validate", "mark", "requeue"} =>
              bucket[FromBucket(t)] = t /\ bucket[ToBucket(t)] = t

\* The threads asleep on a mutex want that mutex, and its parked bit is set even while
\* a broadcast has the bucket.  A broadcast that found the mutex locked has marked it,
\* and unlock_full cannot release it before the bucket is free again.
MutexInv ==
    /\ \A m \in Mutexes : queue[m] # <<>> => "parked" \in state[m]
    /\ \A m \in Mutexes, u \in Threads : Queued(m, u) => mx[u] = m
    /\ \A t \in Threads : pc[t] = "requeue" /\ ~one[t] => state[val[t]] = {"lock", "parked"}

\* Between its validate and its requeue a broadcast owns the sleepers of the condition.
Requeueing(t, c) == pc[t] \in {"mark", "requeue"} /\ cv[t] = c

CondInv ==
    \A c \in Conds :
        /\ \A t \in Threads : Requeueing(t, c) =>
              /\ queue[c] # <<>> /\ cond[c] = NoMutex
              /\ \A u \in Threads : Queued(c, u) => mx[u] = val[t]
        /\ (\A t \in Threads : ~Requeueing(t, c)) =>
              /\ cond[c] = NoMutex <=> queue[c] = <<>>
              /\ \A u \in Threads : Queued(c, u) => mx[u] = cond[c]

\* A free mutex with sleepers has a thread on its way, even while a broadcast has the
\* bucket.  A waiter that unlocks the mutex wakes a thread that wants the same one.
HeadInv ==
    /\ \A t, v \in Threads :
          pc[t] = "unpark" /\ ret[t] = "parked" /\ unparkee[t] = v => mx[v] = mx[t]
    /\ \A m \in Mutexes : queue[m] # <<>> /\ "lock" \notin state[m] =>
          \E u \in Threads : Heading(u, m)

----------------------------------------------------------------------------
(* The operations on the queues, by who is in them *)

\* A queue is empty exactly if nobody is in it.
LEMMA EmptyQueue ==
  ASSUME TypeOK, NEW a \in Addrs
  PROVE  queue[a] = <<>> <=> \A u \in Threads : ~Queued(a, u)
  <1>1. queue[a] \in Seq(Threads)
    BY DEF TypeOK
  <1>2. ASSUME queue[a] # <<>> PROVE \E u \in Threads : Queued(a, u)
    <2>1. Len(queue[a]) \in Nat \ {0}
      BY <1>1, <1>2, EmptySeq
    <2>2. 1 \in 1..Len(queue[a])
      BY <2>1
    <2>3. queue[a][1] \in Threads
      BY <1>1, <2>2, ElementOfSeq
    <2> QED
      BY <2>2, <2>3 DEF Queued
  <1>3. ASSUME queue[a] = <<>> PROVE \A u \in Threads : ~Queued(a, u)
    BY <1>3, EmptySeq DEF Queued
  <1> QED
    BY <1>2, <1>3

\* park appends a thread that is in no queue.
LEMMA EnqueueQueued ==
  ASSUME TypeOK, Distinct, NEW t \in Threads, NEW a \in Addrs, Enqueue(t, a), ~Sleeps(t)
  PROVE  /\ Distinct'
         /\ \A b \in Addrs, u \in Threads :
               Queued(b, u)' <=> Queued(b, u) \/ (b = a /\ u = t)
  <1> DEFINE q == queue[a]
             r == Append(queue[a], t)
  <1>1. queue \in [Addrs -> Seq(Threads)] /\ queue' = [queue EXCEPT ![a] = r]
    BY DEF TypeOK, Enqueue
  <1>2. \A b \in Addrs : queue'[b] = IF b = a THEN r ELSE queue[b]
    BY <1>1
  <1>3. q \in Seq(Threads) /\ Len(q) \in Nat
    BY <1>1
  <1>4. /\ Len(r) = Len(q) + 1
        /\ \A i \in 1..Len(q) : r[i] = q[i]
        /\ r[Len(q) + 1] = t
    BY <1>3, AppendProperties
  <1>5. \A b \in Addrs : Len(queue[b]) \in Nat
    BY <1>1
  <1>6. \A b \in Addrs : \A i \in 1..Len(queue[b]) : queue[b][i] # t
    BY DEF Sleeps, Queued
  <1>7. \A i \in 1..Len(r) : (i \in 1..Len(q) /\ r[i] = q[i]) \/ (i = Len(q) + 1 /\ r[i] = t)
    BY <1>3, <1>4
  <1> HIDE DEF q, r
  <1>8. Distinct'
    <2> SUFFICES ASSUME NEW b \in Addrs, NEW c \in Addrs,
                        NEW i \in 1..Len(queue'[b]), NEW j \in 1..Len(queue'[c]),
                        queue'[b][i] = queue'[c][j]
                 PROVE  b = c /\ i = j
      BY DEF Distinct
    <2>1. CASE b = a /\ c = a
      BY <2>1, <1>2, <1>6, <1>7 DEF Distinct, q
    <2>2. CASE b = a /\ c # a
      BY <2>2, <1>2, <1>6, <1>7 DEF Distinct, q
    <2>3. CASE b # a /\ c = a
      BY <2>3, <1>2, <1>6, <1>7 DEF Distinct, q
    <2>4. CASE b # a /\ c # a
      BY <2>4, <1>2 DEF Distinct
    <2> QED
      BY <2>1, <2>2, <2>3, <2>4
  <1>9. ASSUME NEW b \in Addrs, NEW u \in Threads
        PROVE  Queued(b, u)' <=> Queued(b, u) \/ (b = a /\ u = t)
    <2>1. CASE b = a
      <3>1. Queued(b, u)' <=> \E i \in 1..Len(r) : r[i] = u
        BY <2>1, <1>2 DEF Queued
      <3>2. Queued(b, u) <=> \E i \in 1..Len(q) : q[i] = u
        BY <2>1 DEF Queued, q
      <3>3. \A i \in 1..Len(q) : i \in 1..Len(r)
        BY <1>3, <1>4
      <3>4. Len(q) + 1 \in 1..Len(r)
        BY <1>3, <1>4
      <3> QED
        BY <2>1, <3>1, <3>2, <3>3, <3>4, <1>4, <1>7
    <2>2. CASE b # a
      BY <2>2, <1>2 DEF Queued
    <2> QED
      BY <2>1, <2>2
  <1> QED
    BY <1>8, <1>9

\* unpark_one takes the first sleeper of a; the others stay linked, in order.
LEMMA DequeueQueued ==
  ASSUME TypeOK, Distinct, NEW a \in Addrs, queue[a] # <<>>,
         queue' = [queue EXCEPT ![a] = Tail(queue[a])]
  PROVE  /\ Distinct'
         /\ Head(queue[a]) \in Threads /\ Queued(a, Head(queue[a]))
         /\ \A b \in Addrs, u \in Threads :
               Queued(b, u)' <=> Queued(b, u) /\ u # Head(queue[a])
         /\ MoreWaiters(a) <=> queue'[a] # <<>>
  <1> DEFINE q == queue[a]
             r == Tail(queue[a])
             h == Head(queue[a])
  <1>1. queue \in [Addrs -> Seq(Threads)]
    BY DEF TypeOK
  <1>2. \A b \in Addrs : queue'[b] = IF b = a THEN r ELSE queue[b]
    BY <1>1
  <1>3. q \in Seq(Threads) /\ Len(q) \in Nat \ {0} /\ h \in Threads /\ h = q[1]
    BY <1>1, EmptySeq, HeadTailProperties
  <1>4. /\ r \in Seq(Threads)
        /\ Len(r) = Len(q) - 1
        /\ \A i \in 1..Len(r) : r[i] = q[i + 1]
    BY <1>1, HeadTailProperties
  <1>5. MoreWaiters(a) <=> r # <<>>
    BY <1>3, <1>4, EmptySeq DEF MoreWaiters
  <1>6. \A i \in 1..Len(r) : i + 1 \in 1..Len(q)
    BY <1>3, <1>4
  <1>7. \A i \in 1..Len(q) : i # 1 => \E j \in 1..Len(r) : i = j + 1
    <2> SUFFICES ASSUME NEW i \in 1..Len(q), i # 1 PROVE i - 1 \in 1..Len(r) /\ i = (i - 1) + 1
      OBVIOUS
    <2> QED
      BY <1>3, <1>4
  <1>8. Queued(a, h)
    BY <1>3 DEF Queued
  <1>9. \A b \in Addrs : \A i \in 1..Len(queue[b]) : queue[b][i] = h => b = a /\ i = 1
    <2> 1 \in 1..Len(q)
      BY <1>3
    <2> QED
      BY <1>3 DEF Distinct
  <1> HIDE DEF q, r, h
  <1>10. Distinct'
    <2> SUFFICES ASSUME NEW b \in Addrs, NEW c \in Addrs,
                        NEW i \in 1..Len(queue'[b]), NEW j \in 1..Len(queue'[c]),
                        queue'[b][i] = queue'[c][j]
                 PROVE  b = c /\ i = j
      BY DEF Distinct
    <2>1. CASE b = a /\ c = a
      <3>1. i + 1 \in 1..Len(queue[a]) /\ j + 1 \in 1..Len(queue[a])
        BY <2>1, <1>2, <1>6 DEF q
      <3>2. queue[a][i + 1] = queue[a][j + 1]
        BY <2>1, <1>2, <1>4 DEF q
      <3>3. i + 1 = j + 1
        BY <3>1, <3>2 DEF Distinct
      <3>4. i \in Int /\ j \in Int
        OBVIOUS
      <3> QED
        BY <2>1, <3>3, <3>4
    <2>2. CASE b = a /\ c # a
      BY <2>2, <1>2, <1>4, <1>6 DEF Distinct, q
    <2>3. CASE b # a /\ c = a
      BY <2>3, <1>2, <1>4, <1>6 DEF Distinct, q
    <2>4. CASE b # a /\ c # a
      BY <2>4, <1>2 DEF Distinct
    <2> QED
      BY <2>1, <2>2, <2>3, <2>4
  <1>11. ASSUME NEW b \in Addrs, NEW u \in Threads
         PROVE  Queued(b, u)' <=> Queued(b, u) /\ u # h
    <2>1. CASE b = a
      <3>1. Queued(b, u)' <=> \E i \in 1..Len(r) : r[i] = u
        BY <2>1, <1>2 DEF Queued
      <3>2. Queued(b, u) <=> \E i \in 1..Len(q) : q[i] = u
        BY <2>1 DEF Queued, q
      <3>3. \A i \in 1..Len(r) : i + 1 # 1
        BY <1>4
      <3>4. \A i \in 1..Len(q) : q[i] = h <=> i = 1
        BY <1>3, <1>9 DEF q
      <3>5. ASSUME NEW i \in 1..Len(r), r[i] = u PROVE Queued(b, u) /\ u # h
        <4>1. i + 1 \in 1..Len(q) /\ q[i + 1] = u /\ i + 1 # 1
          BY <3>5, <3>3, <1>4, <1>6
        <4> QED
          BY <4>1, <3>2, <3>4
      <3>6. ASSUME NEW i \in 1..Len(q), q[i] = u, u # h PROVE \E j \in 1..Len(r) : r[j] = u
        <4>1. i # 1
          BY <3>6, <3>4
        <4>2. PICK j \in 1..Len(r) : i = j + 1
          BY <4>1, <1>7
        <4> QED
          BY <4>2, <3>6, <1>4
      <3> QED
        BY <3>1, <3>2, <3>5, <3>6
    <2>2. CASE b # a
      <3>1. Queued(b, u)' <=> Queued(b, u)
        BY <2>2, <1>2 DEF Queued
      <3>2. ~Queued(b, h)
        BY <2>2, <1>9 DEF Queued
      <3> QED
        BY <3>1, <3>2
    <2> QED
      BY <2>1, <2>2
  <1> QED
    BY <1>2, <1>3, <1>5, <1>8, <1>10, <1>11 DEF h

\* unpark_requeue moves the sleepers of the condition, but the one it wakes, behind the
\* sleepers of the mutex.
LEMMA RequeueQueued ==
  ASSUME TypeOK, Distinct, NEW t \in Threads, cv[t] \in Conds, val[t] \in Mutexes,
         queue[cv[t]] # <<>>, Requeue(t)
  PROVE  /\ Distinct'
         /\ Head(queue[cv[t]]) \in Threads /\ Queued(cv[t], Head(queue[cv[t]]))
         /\ \A b \in Addrs, u \in Threads :
               Queued(b, u)' <=>
                  /\ b # cv[t]
                  /\ \/ Queued(b, u)
                     \/ /\ b = val[t] /\ Queued(cv[t], u)
                        /\ ~(one[t] /\ u = Head(queue[cv[t]]))
         /\ queue'[val[t]] # <<>> => queue[val[t]] # <<>> \/ Requeued(t) # <<>>
  <1> DEFINE c == cv[t]
             m == val[t]
             q == queue[c]
             p == queue[m]
             h == Head(q)
             k == IF one[t] THEN 1 ELSE 0
             r == Requeued(t)
             w == p \o r
  <1>1. /\ queue \in [Addrs -> Seq(Threads)] /\ c \in Addrs /\ m \in Addrs /\ c # m
        /\ q # <<>>
    BY SentinelAssumption DEF TypeOK, Addrs
  <1>2. \A b \in Addrs : queue'[b] = IF b = m THEN w ELSE IF b = c THEN <<>> ELSE queue[b]
    BY <1>1 DEF Requeue
  <1>3. /\ q \in Seq(Threads) /\ Len(q) \in Nat \ {0} /\ h \in Threads /\ h = q[1]
        /\ p \in Seq(Threads) /\ Len(p) \in Nat
    BY <1>1, EmptySeq, HeadTailProperties
  <1>5. k \in {0, 1} /\ (k = 1 <=> one[t])
    OBVIOUS
  <1>16. r = IF one[t] THEN Tail(q) ELSE q
    BY <1>1 DEF Requeued
  <1>17. w = p \o r /\ Requeued(t) = r
    OBVIOUS
  <1> HIDE DEF k, r, w
  <1>4. /\ r \in Seq(Threads)
        /\ Len(r) = Len(q) - k
        /\ \A i \in 1..Len(r) : r[i] = q[i + k]
    <2>1. CASE one[t]
      <3>1. r = Tail(q) /\ k = 1
        BY <2>1, <1>5, <1>16
      <3> QED
        BY <3>1, <1>1, HeadTailProperties
    <2>2. CASE ~one[t]
      <3>1. r = q /\ k = 0
        BY <2>2, <1>5, <1>16
      <3>2. Len(q) - 0 = Len(q) /\ \A i \in 1..Len(q) : i + 0 = i
        BY <1>3
      <3> QED
        BY <3>1, <3>2, <1>3
    <2> QED
      BY <2>1, <2>2
  <1>7. w # <<>> => p # <<>> \/ r # <<>>
    BY <1>3, <1>4, <1>17, ConcatEmptySeq
  <1>8. Queued(c, h)
    BY <1>3 DEF Queued
  <1>9. \A b \in Addrs : \A i \in 1..Len(queue[b]) : queue[b][i] = h => b = c /\ i = 1
    <2> 1 \in 1..Len(q)
      BY <1>3
    <2> QED
      BY <1>1, <1>3 DEF Distinct
  <1>10. /\ \A i \in 1..Len(w) :
               \/ i \in 1..Len(p) /\ w[i] = p[i]
               \/ /\ i \notin 1..Len(p)
                  /\ i - Len(p) + k \in (k + 1)..Len(q)
                  /\ w[i] = q[i - Len(p) + k]
         /\ \A i \in 1..Len(p) : i \in 1..Len(w) /\ w[i] = p[i]
         /\ \A j \in (k + 1)..Len(q) :
               j - k + Len(p) \in 1..Len(w) /\ w[j - k + Len(p)] = q[j]
    <2>1. k \in Nat
      BY <1>5
    <2> HIDE DEF c, m, q, p, h
    <2>2. /\ p \in Seq(Threads) /\ q \in Seq(Threads) /\ r \in Seq(Threads)
          /\ Len(r) = Len(q) - k /\ \A i \in 1..Len(r) : r[i] = q[i + k]
      BY <1>3, <1>4
    <2>3. Len(w) = Len(p) + Len(r)
          /\ \A i \in 1..Len(p) + Len(r) : w[i] = IF i <= Len(p) THEN p[i] ELSE r[i - Len(p)]
      BY <2>2, <1>17, ConcatProperties
    <2> DEFINE np == Len(p)
               nq == Len(q)
               nr == Len(r)
               nw == Len(w)
    <2>4. np \in Nat /\ nq \in Nat /\ nr \in Nat /\ nr = nq - k
      BY <2>2, LenProperties
    <2>5. nw = np + nr /\ \A i \in 1..np + nr : w[i] = IF i <= np THEN p[i] ELSE r[i - np]
      BY <2>3
    <2>6. \A i \in 1..nr : r[i] = q[i + k]
      BY <2>2
    <2> HIDE DEF np, nq, nr, nw
    <2>7. ASSUME NEW i \in 1..nw
          PROVE  \/ i \in 1..np /\ w[i] = p[i]
                 \/ /\ i \notin 1..np
                    /\ i - np + k \in (k + 1)..nq
                    /\ w[i] = q[i - np + k]
      <3>1. CASE i <= np
        BY <3>1, <2>4, <2>5
      <3>2. CASE ~(i <= np)
        <4>1. i - np \in 1..nr /\ i \notin 1..np /\ i - np + k \in (k + 1)..nq
          BY <3>2, <2>1, <2>4, <2>5
        <4>2. w[i] = r[i - np]
          BY <3>2, <2>1, <2>4, <2>5
        <4> QED
          BY <4>1, <4>2, <2>6
      <3> QED
        BY <3>1, <3>2
    <2>8. ASSUME NEW i \in 1..np PROVE i \in 1..nw /\ w[i] = p[i]
      BY <2>1, <2>4, <2>5
    <2>9. ASSUME NEW j \in (k + 1)..nq PROVE j - k + np \in 1..nw /\ w[j - k + np] = q[j]
      <3> DEFINE i == j - k + np
      <3>1. /\ i \in 1..nw /\ ~(i <= np) /\ i - np = j - k
            /\ j - k \in 1..nr /\ (j - k) + k = j /\ i \in 1..np + nr
        BY <2>1, <2>4, <2>5
      <3> HIDE DEF i
      <3>2. w[i] = r[i - np]
        BY <3>1, <2>5
      <3>3. r[j - k] = q[j]
        BY <3>1, <2>6
      <3>4. i \in 1..nw /\ w[i] = q[j]
        BY <3>1, <3>2, <3>3
      <3> QED
        BY <3>4 DEF i
    <2> QED
      BY <2>7, <2>8, <2>9 DEF np, nq, nr, nw
  <1>11. \A j \in (k + 1)..Len(q) : j \in 1..Len(q)
    BY <1>5
  <1>13. DOMAIN <<>> = {} /\ Len(<<>>) = 0
    OBVIOUS
  <1> HIDE DEF c, m, q, p, h
  <1>18. /\ \A i, j \in 1..Len(p) : p[i] = p[j] => i = j
         /\ \A i, j \in 1..Len(q) : q[i] = q[j] => i = j
         /\ \A i \in 1..Len(p), j \in 1..Len(q) : p[i] # q[j]
         /\ \A b \in Addrs : b # m => \A i \in 1..Len(queue[b]), j \in 1..Len(p) :
               queue[b][i] # p[j]
         /\ \A b \in Addrs : b # c => \A i \in 1..Len(queue[b]), j \in 1..Len(q) :
               queue[b][i] # q[j]
    BY <1>1 DEF Distinct, p, q
  <1>14. Distinct'
    <2>1. ASSUME NEW i \in 1..Len(w), NEW j \in 1..Len(w), w[i] = w[j] PROVE i = j
      <3> DEFINE x == i - Len(p) + k
                 y == j - Len(p) + k
      <3>1. i \in Int /\ j \in Int /\ (x = y => i = j)
        BY <1>3, <1>5
      <3>2. \/ i \in 1..Len(p) /\ w[i] = p[i]
            \/ x \in 1..Len(q) /\ w[i] = q[x]
        BY <1>10, <1>11
      <3>3. \/ j \in 1..Len(p) /\ w[j] = p[j]
            \/ y \in 1..Len(q) /\ w[j] = q[y]
        BY <1>10, <1>11
      <3> HIDE DEF x, y
      <3> QED
        BY <2>1, <3>1, <3>2, <3>3, <1>18
    <2>2. ASSUME NEW b \in Addrs, b # c, b # m, NEW i \in 1..Len(queue[b]), NEW j \in 1..Len(w)
          PROVE  queue[b][i] # w[j]
      <3> DEFINE y == j - Len(p) + k
      <3>1. \/ j \in 1..Len(p) /\ w[j] = p[j]
            \/ y \in 1..Len(q) /\ w[j] = q[y]
        BY <1>10, <1>11
      <3> HIDE DEF y
      <3> QED
        BY <2>2, <3>1, <1>18
    <2> SUFFICES ASSUME NEW b \in Addrs, NEW d \in Addrs,
                        NEW i \in 1..Len(queue'[b]), NEW j \in 1..Len(queue'[d]),
                        queue'[b][i] = queue'[d][j]
                 PROVE  b = d /\ i = j
      BY DEF Distinct
    <2>3. b # c /\ d # c
      BY <1>1, <1>2, <1>13
    <2>4. CASE b = m /\ d = m
      BY <2>1, <2>4, <1>2
    <2>5. CASE b = m /\ d # m
      BY <2>2, <2>3, <2>5, <1>2
    <2>6. CASE b # m /\ d = m
      BY <2>2, <2>3, <2>6, <1>2
    <2>7. CASE b # m /\ d # m
      BY <2>3, <2>7, <1>2 DEF Distinct
    <2> QED
      BY <2>4, <2>5, <2>6, <2>7
  <1>15. ASSUME NEW b \in Addrs, NEW u \in Threads
         PROVE  Queued(b, u)' <=>
                   b # c /\ (Queued(b, u) \/ (b = m /\ Queued(c, u) /\ ~(one[t] /\ u = h)))
    <2>1. Queued(m, u) <=> \E i \in 1..Len(p) : p[i] = u
      BY DEF Queued, p
    <2>2. Queued(c, u) <=> \E i \in 1..Len(q) : q[i] = u
      BY DEF Queued, q
    <2>3. 1 \in 1..Len(q) /\ \A i \in 1..Len(q) : q[i] = h <=> i = 1
      BY <1>3, <1>18
    <2>4. CASE b = m
      <3>1. Queued(b, u)' <=> \E i \in 1..Len(w) : w[i] = u
        BY <2>4, <1>1, <1>2 DEF Queued
      <3>2. ASSUME NEW i \in 1..Len(w), w[i] = u
            PROVE  Queued(m, u) \/ (Queued(c, u) /\ ~(one[t] /\ u = h))
        <4> DEFINE x == i - Len(p) + k
        <4>1. CASE i \in 1..Len(p) /\ w[i] = p[i]
          BY <3>2, <4>1, <2>1
        <4>2. CASE x \in (k + 1)..Len(q) /\ w[i] = q[x]
          <5> HIDE DEF x
          <5>1. x \in 1..Len(q) /\ (k = 1 => x # 1)
            BY <4>2, <1>11
          <5> QED
            BY <3>2, <4>2, <5>1, <2>2, <2>3, <1>5
        <4> QED
          BY <4>1, <4>2, <1>10
      <3>3. ASSUME Queued(m, u) PROVE \E i \in 1..Len(w) : w[i] = u
        BY <3>3, <2>1, <1>10
      <3>4. ASSUME Queued(c, u), ~(one[t] /\ u = h) PROVE \E i \in 1..Len(w) : w[i] = u
        <4>1. PICK j \in 1..Len(q) : q[j] = u
          BY <3>4, <2>2
        <4>2. j \in (k + 1)..Len(q)
          <5>1. k = 1 => j # 1
            BY <3>4, <4>1, <2>3, <1>5
          <5> QED
            BY <5>1, <1>3, <1>5
        <4> QED
          BY <4>1, <4>2, <1>10
      <3> QED
        BY <3>1, <3>2, <3>3, <3>4, <2>4, <1>1
    <2>5. CASE b = c
      BY <2>5, <1>1, <1>2, <1>13 DEF Queued
    <2>6. CASE b # m /\ b # c
      BY <2>6, <1>1, <1>2 DEF Queued
    <2> QED
      BY <2>4, <2>5, <2>6
  <1> QED
    BY <1>1, <1>2, <1>3, <1>7, <1>8, <1>14, <1>15, <1>17 DEF c, m, q, p, h

----------------------------------------------------------------------------
(* The steps *)

Holding == {"validate", "mark", "requeue"}

\* A step that takes and releases no bucket.
LEMMA HoldFrame ==
  ASSUME HoldInv, UNCHANGED bucket,
         \A u \in Threads :
            /\ pc'[u] = "lock_second" => pc[u] = "lock_second"
            /\ pc'[u] \in Holding => pc[u] \in Holding
            /\ pc'[u] \in Holding \cup {"lock_second"} => cv'[u] = cv[u] /\ val'[u] = val[u]
  PROVE  HoldInv'
  <1> SUFFICES ASSUME NEW u \in Threads
               PROVE  /\ pc'[u] = "lock_second" => bucket'[LockOrder(u)'[1]] = u
                      /\ pc'[u] \in {"validate", "mark", "requeue"} =>
                            bucket'[FromBucket(u)'] = u /\ bucket'[ToBucket(u)'] = u
    BY DEF HoldInv
  <1>1. CASE pc'[u] \in Holding \cup {"lock_second"}
    <2>1. FromBucket(u)' = FromBucket(u) /\ ToBucket(u)' = ToBucket(u)
      BY <1>1 DEF FromBucket, ToBucket
    <2>2. LockOrder(u)' = LockOrder(u)
      BY <2>1 DEF LockOrder
    <2> QED
      BY <2>1, <2>2 DEF HoldInv, Holding
  <1>2. CASE pc'[u] \notin Holding \cup {"lock_second"}
    BY <1>2 DEF Holding
  <1> QED
    BY <1>1, <1>2

\* A broadcast t that takes or releases buckets leaves those of the others alone.
LEMMA HoldOthers ==
  ASSUME TypeOK, CallInv, HoldInv, NEW t \in Threads, NEW l, pc' = [pc EXCEPT ![t] = l],
         UNCHANGED <<cv, val>>,
         \A b \in Buckets : bucket[b] \in Threads \ {t} => bucket'[b] = bucket[b],
         l \in Holding => bucket'[FromBucket(t)] = t /\ bucket'[ToBucket(t)] = t,
         l = "lock_second" => bucket'[LockOrder(t)[1]] = t
  PROVE  HoldInv'
  <1>1. \A u \in Threads : FromBucket(u)' = FromBucket(u) /\ ToBucket(u)' = ToBucket(u)
    BY DEF FromBucket, ToBucket
  <1>2. \A u \in Threads : LockOrder(u)' = LockOrder(u)
    BY <1>1 DEF LockOrder
  <1>3. \A u \in Threads : pc[u] \in Holding \cup {"lock_second"} =>
           FromBucket(u) \in Buckets /\ ToBucket(u) \in Buckets
    BY DEF CallInv, Notifying, Broadcasting, Holding, FromBucket, ToBucket, Buckets, Addrs
  <1>4. \A u \in Threads : pc[u] = "lock_second" => LockOrder(u)[1] \in Buckets
    BY <1>3 DEF LockOrder
  <1>5. \A u \in Threads \ {t} : pc'[u] = pc[u]
    BY DEF TypeOK
  <1>6. pc'[t] = l
    BY DEF TypeOK
  <1> SUFFICES ASSUME NEW u \in Threads
               PROVE  /\ pc'[u] = "lock_second" => bucket'[LockOrder(u)[1]] = u
                      /\ pc'[u] \in Holding =>
                            bucket'[FromBucket(u)] = u /\ bucket'[ToBucket(u)] = u
    BY <1>1, <1>2 DEF HoldInv, Holding
  <1>7. CASE u = t
    BY <1>6, <1>7
  <1>8. CASE u # t
    BY <1>3, <1>4, <1>5, <1>8 DEF HoldInv, Holding
  <1> QED
    BY <1>7, <1>8

\* Every step keeps what is known of the thread that holds a bucket.
LEMMA HoldStep ==
  ASSUME TypeOK, CallInv, HoldInv, NEW t \in Threads, Internal(t) \/ Call(t)
  PROVE  HoldInv'
  <1> USE DEF TypeOK
  <1>1. CASE Acquire(t)
    BY <1>1, HoldFrame DEF Acquire, Holding
  <1>2. CASE MarkParked(t)
    BY <1>2, HoldFrame DEF MarkParked, Holding
  <1>3. CASE ParkOnMutex(t)
    BY <1>3, HoldFrame DEF ParkOnMutex, Holding
  <1>4. CASE WakeUp(t)
    BY <1>4, HoldFrame DEF WakeUp, Holding
  <1>5. CASE CallUnlock(t)
    BY <1>5, HoldFrame DEF CallUnlock, Holding
  <1>6. CASE UnlockFast(t)
    BY <1>6, HoldFrame DEF UnlockFast, Holding
  <1>7. CASE UnlockFull(t)
    BY <1>7, HoldFrame DEF UnlockFull, DequeueOne, Holding
  <1>8. CASE Unpark(t)
    BY <1>8, HoldFrame DEF Unpark, Holding
  <1>9. CASE ParkOnCond(t)
    BY <1>9, HoldFrame DEF ParkOnCond, Holding
  <1>10. CASE SignalLoad(t)
    BY <1>10, HoldFrame DEF SignalLoad, Holding
  <1>11. CASE SignalOne(t)
    BY <1>11, HoldFrame DEF SignalOne, DequeueOne, Holding
  <1>12. CASE BroadcastLoad(t)
    BY <1>12, HoldFrame DEF BroadcastLoad, Holding
  <1> HIDE DEF TypeOK
  <1>13. CASE LockFirst(t)
    <2>1. FromBucket(t) \in Buckets /\ ToBucket(t) \in Buckets
      BY <1>13 DEF LockFirst, CallInv, Notifying, Broadcasting, FromBucket, ToBucket,
                   Buckets, Addrs
    <2>2. LockOrder(t)[1] \in {FromBucket(t), ToBucket(t)}
      BY DEF LockOrder
    <2> DEFINE b == LockOrder(t)[1]
    <2>3. bucket[b] = NoThread /\ bucket' = [bucket EXCEPT ![b] = t]
      BY <1>13 DEF LockFirst
    <2>4. CASE FromBucket(t) = ToBucket(t)
      <3>1. pc' = [pc EXCEPT ![t] = "validate"] /\ UNCHANGED <<cv, val>>
        BY <1>13, <2>4 DEF LockFirst
      <3> HIDE DEF b
      <3>2. b = FromBucket(t) /\ b = ToBucket(t) /\ bucket'[b] = t
        BY <2>1, <2>2, <2>3, <2>4 DEF TypeOK, b
      <3> QED
        BY SentinelAssumption, <2>3, <3>1, <3>2, HoldOthers DEF TypeOK
    <2>5. CASE FromBucket(t) # ToBucket(t)
      <3>1. pc' = [pc EXCEPT ![t] = "lock_second"] /\ UNCHANGED <<cv, val>>
        BY <1>13, <2>5 DEF LockFirst
      <3> HIDE DEF b
      <3>2. b = LockOrder(t)[1] /\ bucket'[b] = t
        BY <2>1, <2>2, <2>3 DEF TypeOK, b
      <3> QED
        BY SentinelAssumption, <2>3, <3>1, <3>2, HoldOthers DEF TypeOK, Holding
    <2> QED
      BY <2>4, <2>5
  <1>14. CASE LockSecond(t)
    <2>1. FromBucket(t) \in Buckets /\ ToBucket(t) \in Buckets
      BY <1>14 DEF LockSecond, CallInv, Notifying, Broadcasting, FromBucket, ToBucket,
                   Buckets, Addrs
    <2>2. \/ LockOrder(t)[1] = FromBucket(t) /\ LockOrder(t)[2] = ToBucket(t)
          \/ LockOrder(t)[2] = FromBucket(t) /\ LockOrder(t)[1] = ToBucket(t)
      BY DEF LockOrder
    <2> DEFINE b == LockOrder(t)[2]
    <2>3. bucket[b] = NoThread /\ bucket' = [bucket EXCEPT ![b] = t]
      BY <1>14 DEF LockSecond
    <2>4. pc' = [pc EXCEPT ![t] = "validate"] /\ UNCHANGED <<cv, val>>
      BY <1>14 DEF LockSecond
    <2>5. bucket[LockOrder(t)[1]] = t
      BY <1>14 DEF LockSecond, HoldInv
    <2> HIDE DEF b
    <2>6. bucket'[FromBucket(t)] = t /\ bucket'[ToBucket(t)] = t
      BY <2>1, <2>2, <2>3, <2>5 DEF TypeOK, b
    <2> QED
      BY SentinelAssumption, <2>3, <2>4, <2>6, HoldOthers DEF TypeOK
  <1>15. CASE Validate(t)
    <2>1. CASE cond[cv[t]] # val[t]
      <3>1. UnlockBucketPair(t) /\ pc' = [pc EXCEPT ![t] = ret[t]] /\ UNCHANGED <<cv, val>>
        BY <1>15, <2>1 DEF Validate
      <3>2. ret[t] \notin Holding \cup {"lock_second"}
        BY DEF TypeOK, Holding
      <3> QED
        BY <3>1, <3>2, HoldOthers DEF UnlockBucketPair
    <2>2. CASE cond[cv[t]] = val[t]
      BY <1>15, <2>2, HoldFrame DEF Validate, Holding, TypeOK
    <2> QED
      BY <2>1, <2>2
  <1>16. CASE Mark(t)
    BY <1>16, HoldFrame DEF Mark, Holding, TypeOK
  <1>17. CASE Requeue(t)
    <2>1. PICK l \in {"unpark", ret[t]} : pc' = [pc EXCEPT ![t] = l]
      BY <1>17 DEF Requeue
    <2>2. l \notin Holding \cup {"lock_second"}
      BY DEF TypeOK, Holding
    <2>3. UnlockBucketPair(t) /\ UNCHANGED <<cv, val>>
      BY <1>17 DEF Requeue
    <2> QED
      BY <2>1, <2>2, <2>3, HoldOthers DEF UnlockBucketPair
  <1>18. CASE Call(t)
    <2>1. ASSUME NEW m \in Mutexes, CallLock(t, m) PROVE HoldInv'
      BY <2>1, HoldFrame DEF CallLock, Holding, TypeOK
    <2>2. ASSUME NEW c \in Conds, CallWait(t, c) PROVE HoldInv'
      BY <2>2, HoldFrame DEF CallWait, Holding, TypeOK
    <2>3. ASSUME NEW c \in Conds, NEW l \in {"signal", "broadcast"}, CallNotify(t, l, c)
          PROVE  HoldInv'
      BY <2>3, HoldFrame DEF CallNotify, Holding, TypeOK
    <2> QED
      BY <1>18, <2>1, <2>2, <2>3 DEF Call
  <1> QED
    BY <1>1, <1>2, <1>3, <1>4, <1>5, <1>6, <1>7, <1>8, <1>9, <1>10, <1>11,
       <1>12, <1>13, <1>14, <1>15, <1>16, <1>17, <1>18 DEF Internal

\* A step that neither links nor unlinks a thread, nor takes one out of park.
LEMMA SleepFrame ==
  ASSUME Distinct, SleepInv, UNCHANGED <<queue, should_park, unparkee>>,
         \A u \in Threads : (InPark(u) => InPark(u)') /\ (pc'[u] = "unpark" <=> pc[u] = "unpark")
  PROVE  Distinct' /\ SleepInv'
  <1>1. Distinct'
    BY DEF Distinct
  <1>2. \A u \in Threads : Sleeps(u)' <=> Sleeps(u)
    BY DEF Sleeps, Queued
  <1> QED
    BY <1>1, <1>2 DEF SleepInv

\* park links a thread that is about to sleep.
LEMMA SleepEnqueue ==
  ASSUME TypeOK, Distinct, SleepInv, NEW t \in Threads, NEW a \in Addrs,
         Enqueue(t, a), UNCHANGED unparkee, pc[t] \in {"park", "wait"}, InPark(t)',
         \A u \in Threads \ {t} : (InPark(u) => InPark(u)') /\ pc'[u] = pc[u],
         pc'[t] # "unpark"
  PROVE  Distinct' /\ SleepInv'
  <1>1. ~InPark(t) /\ ~Sleeps(t)
    BY DEF SleepInv, InPark
  <1>2. /\ Distinct'
        /\ \A b \in Addrs, u \in Threads :
              Queued(b, u)' <=> Queued(b, u) \/ (b = a /\ u = t)
    BY <1>1, EnqueueQueued
  <1>3. \A u \in Threads : Sleeps(u)' <=> Sleeps(u) \/ u = t
    BY <1>2 DEF Sleeps
  <1>4. /\ should_park'[t]
        /\ \A u \in Threads \ {t} : should_park'[u] = should_park[u]
    BY DEF Enqueue, TypeOK
  <1>5. \A u \in Threads : unparkee[u] # t
    BY <1>1 DEF SleepInv
  <1> QED
    BY <1>2, <1>3, <1>4, <1>5 DEF SleepInv

\* unpark_one, by unlock_full and signal: the thread it unlinks is now t's to unpark.
LEMMA SleepDequeue ==
  ASSUME TypeOK, Distinct, SleepInv, NEW t \in Threads, NEW a \in Addrs,
         pc[t] \in {"unlock_full", "signal_one"}, DequeueOne(t, a), UNCHANGED <<should_park, ret>>
  PROVE  Distinct' /\ SleepInv'
  <1>1. unparkee[t] = NoThread
    BY DEF SleepInv
  <1>2. \A u \in Threads : InPark(u) => InPark(u)'
    BY DEF DequeueOne, InPark, TypeOK
  <1>3. CASE queue[a] = <<>>
    <2>1. UNCHANGED <<queue, unparkee>> /\ pc' = [pc EXCEPT ![t] = ret[t]]
      BY <1>3 DEF DequeueOne
    <2>2. \A u \in Threads : pc'[u] = "unpark" <=> pc[u] = "unpark"
      BY <2>1 DEF TypeOK
    <2> QED
      BY <2>1, <2>2, <1>2, SleepFrame
  <1>4. CASE queue[a] # <<>>
    <2> DEFINE h == Head(queue[a])
    <2>1. /\ queue' = [queue EXCEPT ![a] = Tail(queue[a])]
          /\ unparkee' = [unparkee EXCEPT ![t] = h]
          /\ pc' = [pc EXCEPT ![t] = "unpark"]
      BY <1>4 DEF DequeueOne
    <2>2. /\ Distinct'
          /\ h \in Threads /\ Queued(a, h)
          /\ \A b \in Addrs, u \in Threads : Queued(b, u)' <=> Queued(b, u) /\ u # h
      BY <1>4, <2>1, DequeueQueued
    <2> HIDE DEF h
    <2>3. Sleeps(h) /\ \A u \in Threads : Sleeps(u)' <=> Sleeps(u) /\ u # h
      BY <2>2 DEF Sleeps
    <2>4. \A u \in Threads : unparkee[u] # h
      BY <2>2, <2>3 DEF SleepInv
    <2>5. \A u \in Threads : unparkee'[u] = IF u = t THEN h ELSE unparkee[u]
      BY <2>1 DEF TypeOK
    <2>6. \A u \in Threads : pc'[u] = IF u = t THEN "unpark" ELSE pc[u]
      BY <2>1 DEF TypeOK
    <2> QED
      BY <1>2, <2>2, <2>3, <2>4, <2>5, <2>6 DEF SleepInv
  <1> QED
    BY <1>3, <1>4

\* Every step keeps each sleeper in one queue or in one waker's hands.
LEMMA SleepStep ==
  ASSUME TypeOK, CallInv, Distinct, SleepInv, CondInv, NEW t \in Threads, Internal(t) \/ Call(t)
  PROVE  Distinct' /\ SleepInv'
  <1> USE DEF TypeOK
  <1>1. CASE Acquire(t)
    BY <1>1, SleepFrame DEF Acquire, InPark
  <1>2. CASE MarkParked(t)
    BY <1>2, SleepFrame DEF MarkParked, InPark
  <1>3. CASE ParkOnMutex(t)
    <2>1. CASE Enqueue(t, mx[t]) /\ Goto(t, "parked")
      <3>1. mx[t] \in Addrs /\ pc[t] = "park" /\ UNCHANGED unparkee
        BY <1>3 DEF ParkOnMutex, CallInv, Addrs
      <3>2. /\ InPark(t)' /\ pc'[t] # "unpark"
            /\ \A u \in Threads \ {t} : (InPark(u) => InPark(u)') /\ pc'[u] = pc[u]
        BY <1>3, <2>1 DEF ParkOnMutex, InPark
      <3> HIDE DEF TypeOK
      <3> QED
        BY <2>1, <3>1, <3>2, SleepEnqueue
    <2>2. CASE UNCHANGED <<queue, should_park>> /\ Goto(t, "lock")
      BY <1>3, <2>2, SleepFrame DEF ParkOnMutex, InPark
    <2> QED
      BY <1>3, <2>1, <2>2 DEF ParkOnMutex
  <1>4. CASE WakeUp(t)
    <2>1. UNCHANGED <<queue, should_park, unparkee>> /\ ~should_park[t]
      BY <1>4 DEF WakeUp
    <2>2. Distinct' /\ \A u \in Threads : Sleeps(u)' <=> Sleeps(u)
      BY <2>1 DEF Distinct, Sleeps, Queued
    <2>3. ~Sleeps(t) /\ \A u \in Threads : unparkee[u] # t
      BY <2>1 DEF SleepInv
    <2>4. \A u \in Threads \ {t} : (InPark(u) => InPark(u)') /\ pc'[u] = pc[u]
      BY <1>4 DEF WakeUp, InPark
    <2>5. pc[t] # "unpark" /\ pc'[t] # "unpark"
      BY <1>4 DEF WakeUp
    <2> QED
      BY <2>1, <2>2, <2>3, <2>4, <2>5 DEF SleepInv
  <1>5. CASE CallUnlock(t)
    BY <1>5, SleepFrame DEF CallUnlock, InPark
  <1>6. CASE UnlockFast(t)
    BY <1>6, SleepFrame DEF UnlockFast, InPark, CallInv
  <1>7. CASE UnlockFull(t)
    <2>1. /\ mx[t] \in Addrs /\ pc[t] = "unlock_full" /\ DequeueOne(t, mx[t])
          /\ UNCHANGED <<should_park, ret>>
      BY <1>7 DEF UnlockFull, CallInv, Addrs
    <2> QED
      BY <2>1, SleepDequeue
  <1>8. CASE Unpark(t)
    <2> DEFINE v == unparkee[t]
    <2>1. v \in Threads
      BY <1>8 DEF Unpark, CallInv
    <2>2. UNCHANGED <<queue, ret>> /\ pc[t] = "unpark"
      BY <1>8 DEF Unpark
    <2>3. Distinct' /\ \A u \in Threads : Sleeps(u)' <=> Sleeps(u)
      BY <2>2 DEF Distinct, Sleeps, Queued
    <2>4. /\ \A u \in Threads : unparkee'[u] = IF u = t THEN NoThread ELSE unparkee[u]
          /\ \A u \in Threads : should_park'[u] = IF u = v THEN FALSE ELSE should_park[u]
          /\ \A u \in Threads \ {t} : pc'[u] = pc[u]
          /\ pc'[t] # "unpark"
      BY <1>8, <2>1 DEF Unpark
    <2>5. \A u \in Threads : InPark(u) => InPark(u)'
      BY <1>8 DEF Unpark, InPark
    <2>6. ~Sleeps(v) /\ \A u \in Threads \ {t} : unparkee[u] # v
      BY <2>1 DEF SleepInv
    <2> HIDE DEF v, TypeOK
    <2>7. \A u \in Threads : Sleeps(u)' => should_park'[u] /\ InPark(u)'
      BY <2>3, <2>4, <2>5, <2>6 DEF SleepInv
    <2>8. \A u \in Threads : pc'[u] # "unpark" => unparkee'[u] = NoThread
      BY <2>4 DEF SleepInv
    <2>9. ASSUME NEW x \in Threads, NEW w \in Threads, unparkee'[x] = w
          PROVE  /\ should_park'[w] /\ InPark(w)' /\ ~Sleeps(w)'
                 /\ \A u \in Threads : unparkee'[u] = w => u = x
      <3>1. x # t /\ unparkee[x] = w
        BY SentinelAssumption, <2>4, <2>9
      <3>2. w # v
        BY <3>1, <2>6
      <3>3. /\ should_park[w] /\ InPark(w) /\ ~Sleeps(w)
            /\ \A u \in Threads : unparkee[u] = w => u = x
        BY <3>1 DEF SleepInv
      <3>4. \A u \in Threads : unparkee'[u] = w => unparkee[u] = w
        BY SentinelAssumption, <2>4
      <3> QED
        BY <2>3, <2>4, <2>5, <3>2, <3>3, <3>4
    <2> QED
      BY <2>3, <2>7, <2>8, <2>9 DEF SleepInv
  <1>9. CASE ParkOnCond(t)
    <2>1. CASE cond[cv[t]] \in {NoMutex, mx[t]}
      <3>1. /\ cv[t] \in Addrs /\ pc[t] = "wait" /\ UNCHANGED unparkee
            /\ Enqueue(t, cv[t])
            /\ ret' = [ret EXCEPT ![t] = "parked"] /\ pc' = [pc EXCEPT ![t] = "unlock"]
        BY <1>9, <2>1 DEF ParkOnCond, CallInv, Addrs
      <3>2. /\ InPark(t)' /\ pc'[t] # "unpark"
            /\ \A u \in Threads \ {t} : (InPark(u) => InPark(u)') /\ pc'[u] = pc[u]
        BY <3>1 DEF InPark
      <3> HIDE DEF TypeOK
      <3> QED
        BY <3>1, <3>2, SleepEnqueue
    <2>2. CASE cond[cv[t]] \notin {NoMutex, mx[t]}
      BY <1>9, <2>2, SleepFrame DEF ParkOnCond, InPark
    <2> QED
      BY <2>1, <2>2
  <1>10. CASE SignalLoad(t)
    BY <1>10, SleepFrame DEF SignalLoad, InPark
  <1>11. CASE SignalOne(t)
    <2>1. /\ cv[t] \in Addrs /\ pc[t] = "signal_one" /\ DequeueOne(t, cv[t])
          /\ UNCHANGED <<should_park, ret>>
      BY <1>11 DEF SignalOne, CallInv, Notifying, Addrs
    <2> QED
      BY <2>1, SleepDequeue
  <1>12. CASE BroadcastLoad(t)
    BY <1>12, SleepFrame DEF BroadcastLoad, InPark
  <1>13. CASE LockFirst(t)
    BY <1>13, SleepFrame DEF LockFirst, InPark
  <1>14. CASE LockSecond(t)
    BY <1>14, SleepFrame DEF LockSecond, InPark
  <1>15. CASE Validate(t)
    BY <1>15, SleepFrame DEF Validate, InPark
  <1>16. CASE Mark(t)
    BY <1>16, SleepFrame DEF Mark, InPark
  <1>17. CASE Requeue(t)
    <2>1. /\ pc[t] = "requeue" /\ cv[t] \in Conds /\ val[t] \in Mutexes
          /\ cv[t] \in Addrs /\ val[t] \in Addrs /\ cv[t] # val[t]
      BY <1>17, SentinelAssumption DEF Requeue, CallInv, Notifying, Broadcasting, Addrs
    <2>2. queue[cv[t]] # <<>>
      BY <2>1 DEF CondInv, Requeueing
    <2> DEFINE h == Head(queue[cv[t]])
    <2> HIDE DEF TypeOK
    <2>3. /\ Distinct'
          /\ h \in Threads /\ Queued(cv[t], h)
          /\ \A b \in Addrs, u \in Threads :
                Queued(b, u)' <=>
                   /\ b # cv[t]
                   /\ \/ Queued(b, u)
                      \/ b = val[t] /\ Queued(cv[t], u) /\ ~(one[t] /\ u = h)
      BY <1>17, <2>1, <2>2, RequeueQueued
    <2> USE DEF TypeOK
    <2>4. Sleeps(h) /\ \A u \in Threads : Sleeps(u)' => Sleeps(u)
      BY <2>1, <2>3 DEF Sleeps
    <2>5. UNCHANGED should_park
      BY <1>17 DEF Requeue
    <2>6. \A u \in Threads : InPark(u) => InPark(u)'
      BY <1>17 DEF Requeue, InPark
    <2>7. CASE one[t]
      <3>1. /\ \A u \in Threads : unparkee'[u] = IF u = t THEN h ELSE unparkee[u]
            /\ \A u \in Threads : pc'[u] = IF u = t THEN "unpark" ELSE pc[u]
        BY <1>17, <2>2, <2>3, <2>7 DEF Requeue
      <3>2. \A u \in Threads : Sleeps(u)' => u # h
        <4>1. \A b \in Addrs : Queued(b, h) => b = cv[t]
          BY <2>1, <2>3 DEF Distinct, Queued
        <4> HIDE DEF h, TypeOK
        <4> QED
          BY <4>1, <2>3, <2>7 DEF Sleeps
      <3>3. \A u \in Threads : unparkee[u] # h
        BY <2>3, <2>4 DEF SleepInv
      <3> HIDE DEF h, TypeOK
      <3> QED
        BY <2>3, <2>4, <2>5, <2>6, <3>1, <3>2, <3>3 DEF SleepInv
    <2>8. CASE ~one[t]
      <3>1. UNCHANGED unparkee /\ \A u \in Threads : pc'[u] = "unpark" <=> pc[u] = "unpark"
        BY <1>17, <2>8 DEF Requeue
      <3> HIDE DEF h, TypeOK
      <3> QED
        BY <2>3, <2>4, <2>5, <2>6, <3>1 DEF SleepInv
    <2> QED
      BY <2>7, <2>8
  <1>18. CASE Call(t)
    <2>1. ASSUME NEW m \in Mutexes, CallLock(t, m) PROVE Distinct' /\ SleepInv'
      BY <2>1, SleepFrame DEF CallLock, InPark
    <2>2. ASSUME NEW c \in Conds, CallWait(t, c) PROVE Distinct' /\ SleepInv'
      BY <2>2, SleepFrame DEF CallWait, InPark
    <2>3. ASSUME NEW c \in Conds, NEW l \in {"signal", "broadcast"}, CallNotify(t, l, c)
          PROVE  Distinct' /\ SleepInv'
      BY <2>3, SleepFrame DEF CallNotify, InPark
    <2> QED
      BY <1>18, <2>1, <2>2, <2>3 DEF Call
  <1> QED
    BY <1>1, <1>2, <1>3, <1>4, <1>5, <1>6, <1>7, <1>8, <1>9, <1>10, <1>11,
       <1>12, <1>13, <1>14, <1>15, <1>16, <1>17, <1>18 DEF Internal

\* Nobody requeues from or to a bucket that is free.
LEMMA FreeBucket ==
  ASSUME HoldInv, NEW a \in Addrs, BucketFree(a)
  PROVE  \A u \in Threads : pc[u] \in Holding => cv[u] # a /\ val[u] # a
  BY SentinelAssumption DEF HoldInv, Holding, BucketFree, FromBucket, ToBucket

\* A step that leaves the queues and the parked bits of their mutexes.
LEMMA MutexFrame ==
  ASSUME MutexInv, UNCHANGED queue,
         \A u \in Threads : Sleeps(u) => mx'[u] = mx[u],
         \A m \in Mutexes : queue[m] # <<>> /\ "parked" \in state[m] => "parked" \in state'[m],
         \A u \in Threads : pc'[u] = "requeue" /\ ~one'[u] => state'[val'[u]] = {"lock", "parked"}
  PROVE  MutexInv'
  <1>1. \A m \in Mutexes, u \in Threads : Queued(m, u)' => Queued(m, u) /\ mx'[u] = mx[u]
    BY DEF Queued, Sleeps, Addrs
  <1> QED
    BY <1>1 DEF MutexInv

\* A step of t that changes neither a queue, a word nor a broadcast under way.
LEMMA MutexKept ==
  ASSUME MutexInv, UNCHANGED <<queue, state, mx, val, one>>,
         \A u \in Threads : pc'[u] = "requeue" => pc[u] = "requeue"
  PROVE  MutexInv'
  BY MutexFrame DEF MutexInv

\* Every step keeps the parked bit of a mutex with sleepers.
LEMMA MutexStep ==
  ASSUME TypeOK, CallInv, Distinct, SleepInv, HoldInv, MutexInv, CondInv,
         NEW t \in Threads, Internal(t) \/ Call(t)
  PROVE  MutexInv'
  <1> USE DEF TypeOK
  <1>1. CASE Acquire(t)
    <2>1. mx[t] \in Mutexes /\ "lock" \notin state[mx[t]]
      BY <1>1 DEF Acquire, CallInv
    <2>2. state' = [state EXCEPT ![mx[t]] = @ \cup {"lock"}] /\ UNCHANGED <<queue, mx, val, one>>
      BY <1>1 DEF Acquire
    <2>3. \A u \in Threads : pc'[u] = "requeue" => pc[u] = "requeue"
      BY <1>1 DEF Acquire
    <2>4. \A m \in Mutexes : "parked" \in state[m] => "parked" \in state'[m]
      BY <2>1, <2>2
    <2>5. \A u \in Threads : pc'[u] = "requeue" /\ ~one'[u] => state'[val'[u]] = {"lock", "parked"}
      BY <2>1, <2>2, <2>3 DEF MutexInv
    <2> HIDE DEF TypeOK
    <2> QED
      BY <2>2, <2>4, <2>5, MutexFrame
  <1>2. CASE MarkParked(t)
    <2>1. mx[t] \in Mutexes
      BY <1>2 DEF MarkParked, CallInv
    <2>2. state' = [state EXCEPT ![mx[t]] = @ \cup {"parked"}] /\ UNCHANGED <<queue, mx, val, one>>
      BY <1>2 DEF MarkParked
    <2>3. \A u \in Threads : pc'[u] = "requeue" => pc[u] = "requeue"
      BY <1>2 DEF MarkParked
    <2>4. \A m \in Mutexes : "parked" \in state[m] => "parked" \in state'[m]
      BY <2>1, <2>2
    <2>5. \A u \in Threads : pc'[u] = "requeue" /\ ~one'[u] => state'[val'[u]] = {"lock", "parked"}
      BY <2>1, <2>2, <2>3 DEF MutexInv
    <2> HIDE DEF TypeOK
    <2> QED
      BY <2>2, <2>4, <2>5, MutexFrame
  <1>3. CASE ParkOnMutex(t)
    <2>1. /\ pc[t] = "park" /\ mx[t] \in Mutexes /\ mx[t] \in Addrs
          /\ UNCHANGED <<state, mx, val, one>>
          /\ \A u \in Threads : pc'[u] = "requeue" => pc[u] = "requeue"
      BY <1>3 DEF ParkOnMutex, CallInv, Addrs
    <2>2. CASE state[mx[t]] = {"lock", "parked"} /\ Enqueue(t, mx[t])
      <3>1. ~Sleeps(t)
        BY <2>1 DEF SleepInv, InPark
      <3> HIDE DEF TypeOK
      <3>2. \A b \in Addrs, u \in Threads :
               Queued(b, u)' <=> Queued(b, u) \/ (b = mx[t] /\ u = t)
        BY <2>1, <2>2, <3>1, EnqueueQueued
      <3>3. \A m \in Mutexes : m # mx[t] => queue'[m] = queue[m]
        BY <2>1, <2>2 DEF Enqueue, TypeOK, Addrs
      <3>4. Mutexes \subseteq Addrs
        BY DEF Addrs
      <3> QED
        BY <2>1, <2>2, <3>2, <3>3, <3>4 DEF MutexInv
    <2>3. CASE UNCHANGED queue
      BY <2>1, <2>3, MutexKept
    <2> QED
      BY <1>3, <2>2, <2>3 DEF ParkOnMutex
  <1>4. CASE WakeUp(t)
    BY <1>4, MutexKept DEF WakeUp
  <1>5. CASE CallUnlock(t)
    BY <1>5, MutexKept DEF CallUnlock
  <1>6. CASE UnlockFast(t)
    <2>1. /\ mx[t] \in Mutexes /\ UNCHANGED <<queue, mx, val, one>>
          /\ \A u \in Threads : pc'[u] = "requeue" => pc[u] = "requeue"
      BY <1>6 DEF UnlockFast, CallInv
    <2>2. CASE state[mx[t]] = {"lock"}
      <3>1. state' = [state EXCEPT ![mx[t]] = {}]
        BY <1>6, <2>2 DEF UnlockFast
      <3>2. \A m \in Mutexes : "parked" \in state[m] => "parked" \in state'[m]
        BY <2>1, <2>2, <3>1
      <3>3. ASSUME NEW u \in Threads, pc'[u] = "requeue", ~one'[u]
            PROVE  state'[val'[u]] = {"lock", "parked"}
        <4>1. state[val[u]] = {"lock", "parked"} /\ val[u] \in Mutexes
          BY <2>1, <3>3 DEF MutexInv, CallInv, Broadcasting
        <4>2. val[u] # mx[t]
          BY <2>2, <4>1
        <4> QED
          BY <2>1, <3>1, <4>1, <4>2
      <3> HIDE DEF TypeOK
      <3> QED
        BY <2>1, <3>2, <3>3, MutexFrame
    <2>3. CASE state[mx[t]] # {"lock"}
      BY <1>6, <2>1, <2>3, MutexKept DEF UnlockFast
    <2> QED
      BY <2>2, <2>3
  <1>7. CASE UnlockFull(t)
    <2> DEFINE m == mx[t]
    <2>1. /\ m \in Mutexes /\ m \in Addrs /\ BucketFree(m) /\ UNCHANGED <<mx, val, one>>
          /\ state' = [state EXCEPT ![m] = IF MoreWaiters(m) THEN {"parked"} ELSE {}]
          /\ \A u \in Threads : pc'[u] = "requeue" => pc[u] = "requeue"
      BY <1>7 DEF UnlockFull, DequeueOne, CallInv, Addrs
    <2>2. \A u \in Threads : pc[u] = "requeue" => val[u] # m
      BY <2>1, FreeBucket DEF Holding
    <2>3. \A u \in Threads : pc[u] = "requeue" => val[u] \in Mutexes
      BY DEF CallInv, Broadcasting
    <2>4. \A u \in Threads : pc'[u] = "requeue" /\ ~one'[u] => state'[val'[u]] = {"lock", "parked"}
      BY <2>1, <2>2, <2>3 DEF MutexInv
    <2>5. CASE queue[m] = <<>>
      <3>1. UNCHANGED queue
        BY <1>7, <2>5 DEF UnlockFull, DequeueOne
      <3>2. \A n \in Mutexes : queue[n] # <<>> /\ "parked" \in state[n] => "parked" \in state'[n]
        BY <2>1, <2>5
      <3> HIDE DEF TypeOK, m
      <3> QED
        BY <2>1, <2>4, <3>1, <3>2, MutexFrame
    <2>6. CASE queue[m] # <<>>
      <3>1. queue' = [queue EXCEPT ![m] = Tail(queue[m])]
        BY <1>7, <2>6 DEF UnlockFull, DequeueOne
      <3> HIDE DEF TypeOK, m
      <3>2. /\ \A b \in Addrs, u \in Threads : Queued(b, u)' => Queued(b, u)
            /\ MoreWaiters(m) <=> queue'[m] # <<>>
        BY <2>1, <2>6, <3>1, DequeueQueued
      <3>3. \A n \in Mutexes : n # m => queue'[n] = queue[n]
        BY <3>1 DEF TypeOK, Addrs
      <3>4. \A n \in Mutexes : state'[n] = IF n # m THEN state[n]
                                           ELSE IF MoreWaiters(m) THEN {"parked"} ELSE {}
        BY <2>1 DEF TypeOK
      <3>5. Mutexes \subseteq Addrs
        BY DEF Addrs
      <3> QED
        BY <2>1, <2>4, <3>2, <3>3, <3>4, <3>5 DEF MutexInv
    <2> QED
      BY <2>5, <2>6
  <1>8. CASE Unpark(t)
    BY <1>8, MutexKept DEF Unpark
  <1>9. CASE ParkOnCond(t)
    <2>1. /\ UNCHANGED <<state, mx, val, one>> /\ pc[t] = "wait"
          /\ cv[t] \in Conds /\ cv[t] \in Addrs
          /\ \A u \in Threads : pc'[u] = "requeue" => pc[u] = "requeue"
      BY <1>9 DEF ParkOnCond, CallInv, Addrs
    <2>2. CASE Enqueue(t, cv[t])
      <3>1. \A m \in Mutexes : queue'[m] = queue[m]
        BY <2>1, <2>2, SentinelAssumption DEF Enqueue, Addrs
      <3>2. \A m \in Mutexes, u \in Threads : Queued(m, u)' <=> Queued(m, u)
        BY <3>1 DEF Queued
      <3> QED
        BY <2>1, <3>1, <3>2 DEF MutexInv
    <2>3. CASE UNCHANGED queue
      BY <2>1, <2>3, MutexKept
    <2> QED
      BY <1>9, <2>2, <2>3 DEF ParkOnCond
  <1>10. CASE SignalLoad(t)
    BY <1>10, MutexKept DEF SignalLoad
  <1>11. CASE SignalOne(t)
    <2>1. /\ UNCHANGED <<state, mx, val, one>>
          /\ cv[t] \in Conds /\ cv[t] \in Addrs
          /\ \A u \in Threads : pc'[u] = "requeue" => pc[u] = "requeue"
      BY <1>11 DEF SignalOne, DequeueOne, CallInv, Notifying, Addrs
    <2>2. \A m \in Mutexes : queue'[m] = queue[m]
      BY <1>11, <2>1, SentinelAssumption DEF SignalOne, DequeueOne, Addrs
    <2>3. \A m \in Mutexes, u \in Threads : Queued(m, u)' <=> Queued(m, u)
      BY <2>2 DEF Queued
    <2> QED
      BY <2>1, <2>2, <2>3 DEF MutexInv
  <1>12. CASE BroadcastLoad(t)
    BY <1>12, MutexFrame DEF BroadcastLoad, MutexInv
  <1>13. CASE LockFirst(t)
    BY <1>13, MutexKept DEF LockFirst
  <1>14. CASE LockSecond(t)
    BY <1>14, MutexKept DEF LockSecond
  <1>15. CASE Validate(t)
    BY <1>15, MutexKept DEF Validate
  <1>16. CASE Mark(t)
    <2>1. val[t] \in Mutexes /\ UNCHANGED <<queue, mx, val>>
      BY <1>16 DEF Mark, CallInv, Broadcasting
    <2>2. state' = [state EXCEPT ![val[t]] =
                       IF "lock" \in state[val[t]] THEN state[val[t]] \cup {"parked"}
                                                   ELSE state[val[t]]]
      BY <1>16 DEF Mark
    <2>3. \A m \in Mutexes : "parked" \in state[m] => "parked" \in state'[m]
      BY <2>1, <2>2
    <2>4. ASSUME NEW u \in Threads, pc'[u] = "requeue", ~one'[u]
          PROVE  state'[val[u]] = {"lock", "parked"}
      <3>1. CASE u = t
        <4>1. "lock" \in state[val[t]]
          BY <1>16, <2>4, <3>1 DEF Mark
        <4> QED
          BY <2>1, <2>2, <3>1, <4>1
      <3>2. CASE u # t
        <4>1. pc[u] = "requeue" /\ ~one[u]
          BY <1>16, <2>4, <3>2 DEF Mark
        <4>2. state[val[u]] = {"lock", "parked"} /\ val[u] \in Mutexes
          BY <4>1 DEF MutexInv, CallInv, Broadcasting
        <4> QED
          BY <2>1, <2>2, <4>2
      <3> QED
        BY <3>1, <3>2
    <2> HIDE DEF TypeOK
    <2> QED
      BY <2>1, <2>3, <2>4, MutexFrame
  <1>17. CASE Requeue(t)
    <2> DEFINE c == cv[t]
               n == val[t]
    <2>1. /\ pc[t] = "requeue" /\ c \in Conds /\ n \in Mutexes
          /\ Mutexes \subseteq Addrs /\ c \in Addrs /\ c # n /\ c \notin Mutexes
          /\ UNCHANGED <<mx, val, one>>
          /\ \A u \in Threads : pc'[u] = "requeue" => pc[u] = "requeue"
      BY <1>17, SentinelAssumption DEF Requeue, CallInv, Notifying, Broadcasting, Addrs
    <2>2. queue[c] # <<>> /\ \A u \in Threads : Queued(c, u) => mx[u] = n
      BY <2>1 DEF CondInv, Requeueing
    <2>3. /\ \A m \in Mutexes : m # n => queue'[m] = queue[m]
          /\ \A m \in Mutexes : m # n => state'[m] = state[m]
          /\ state'[n] = IF one[t] /\ Requeued(t) # <<>> THEN state[n] \cup {"parked"}
                                                         ELSE state[n]
      BY <1>17, <2>1 DEF Requeue
    <2> HIDE DEF TypeOK
    <2>4. /\ \A b \in Addrs, u \in Threads :
                Queued(b, u)' => Queued(b, u) \/ (b = n /\ Queued(c, u))
          /\ queue'[n] # <<>> => queue[n] # <<>> \/ Requeued(t) # <<>>
      BY <1>17, <2>1, <2>2, RequeueQueued
    <2>5. ~one[t] => state[n] = {"lock", "parked"}
      BY <2>1 DEF MutexInv
    <2> HIDE DEF c, n
    <2>6. \A m \in Mutexes : queue'[m] # <<>> => "parked" \in state'[m]
      BY <2>1, <2>3, <2>4, <2>5 DEF MutexInv
    <2>7. \A m \in Mutexes, u \in Threads : Queued(m, u)' => mx'[u] = m
      BY <2>1, <2>2, <2>4 DEF MutexInv
    <2>8. \A u \in Threads : pc'[u] = "requeue" /\ ~one'[u] => state'[val'[u]] = {"lock", "parked"}
      BY <2>1, <2>3 DEF MutexInv, CallInv, Broadcasting
    <2> QED
      BY <2>6, <2>7, <2>8 DEF MutexInv
  <1>18. CASE Call(t)
    <2>1. ASSUME NEW m \in Mutexes, CallLock(t, m) PROVE MutexInv'
      <3>1. ~Sleeps(t)
        BY <2>1 DEF CallLock, SleepInv, InPark
      <3> QED
        BY <2>1, <3>1, MutexFrame DEF CallLock, MutexInv
    <2>2. ASSUME NEW c \in Conds, CallWait(t, c) PROVE MutexInv'
      BY <2>2, MutexKept DEF CallWait
    <2>3. ASSUME NEW c \in Conds, NEW l \in {"signal", "broadcast"}, CallNotify(t, l, c)
          PROVE  MutexInv'
      BY <2>3, MutexKept DEF CallNotify
    <2> QED
      BY <1>18, <2>1, <2>2, <2>3 DEF Call
  <1> QED
    BY <1>1, <1>2, <1>3, <1>4, <1>5, <1>6, <1>7, <1>8, <1>9, <1>10, <1>11,
       <1>12, <1>13, <1>14, <1>15, <1>16, <1>17, <1>18 DEF Internal

\* A step that leaves the conditions, their queues and the requeues under way.
LEMMA CondFrame ==
  ASSUME CondInv, UNCHANGED cond, \A c \in Conds : queue'[c] = queue[c],
         \A u \in Threads : Sleeps(u) => mx'[u] = mx[u],
         \A u \in Threads :
            /\ pc'[u] \in {"mark", "requeue"} <=> pc[u] \in {"mark", "requeue"}
            /\ pc[u] \in {"mark", "requeue"} => cv'[u] = cv[u] /\ val'[u] = val[u]
  PROVE  CondInv'
  <1>1. \A c \in Conds, u \in Threads : Queued(c, u)' <=> Queued(c, u)
    BY DEF Queued
  <1>2. \A c \in Conds, u \in Threads : Queued(c, u) => mx'[u] = mx[u]
    BY DEF Sleeps, Addrs
  <1>3. \A c \in Conds, u \in Threads : Requeueing(u, c)' <=> Requeueing(u, c)
    BY DEF Requeueing
  <1>4. \A c \in Conds, u \in Threads : Requeueing(u, c) => val'[u] = val[u]
    BY DEF Requeueing
  <1> QED
    BY <1>1, <1>2, <1>3, <1>4 DEF CondInv

\* A step of t on the condition c, which nobody requeues before or after it.
LEMMA CondOne ==
  ASSUME CondInv, NEW c \in Conds, UNCHANGED <<mx, val>>,
         \A d \in Conds : d # c =>
            /\ cond'[d] = cond[d]
            /\ \A u \in Threads : Queued(d, u)' <=> Queued(d, u)
            /\ queue'[d] = queue[d]
            /\ \A u \in Threads : Requeueing(u, d)' <=> Requeueing(u, d),
         \A u \in Threads : ~Requeueing(u, c)',
         cond'[c] = NoMutex <=> queue'[c] = <<>>,
         \A u \in Threads : Queued(c, u)' => mx[u] = cond'[c]
  PROVE  CondInv'
  BY DEF CondInv

\* Every step keeps the queues of conditions and their words exact.
LEMMA CondStep ==
  ASSUME TypeOK, CallInv, Distinct, SleepInv, HoldInv, CondInv,
         NEW t \in Threads, Internal(t) \/ Call(t)
  PROVE  CondInv'
  <1> USE DEF TypeOK
  <1>0. /\ Conds \subseteq Addrs /\ Mutexes \subseteq Addrs /\ NoMutex \notin Mutexes
        /\ \A c \in Conds : c \notin Mutexes
    BY SentinelAssumption DEF Addrs
  <1>1. CASE Acquire(t)
    BY <1>1, CondFrame DEF Acquire
  <1>2. CASE MarkParked(t)
    BY <1>2, CondFrame DEF MarkParked
  <1>3. CASE ParkOnMutex(t)
    <2>1. mx[t] \in Mutexes
      BY <1>3 DEF ParkOnMutex, CallInv
    <2>2. \A c \in Conds : queue'[c] = queue[c]
      BY <1>0, <1>3, <2>1 DEF ParkOnMutex, Enqueue
    <2> QED
      BY <1>3, <2>2, CondFrame DEF ParkOnMutex
  <1>4. CASE WakeUp(t)
    BY <1>4, CondFrame DEF WakeUp
  <1>5. CASE CallUnlock(t)
    BY <1>5, CondFrame DEF CallUnlock
  <1>6. CASE UnlockFast(t)
    BY <1>6, CondFrame DEF UnlockFast
  <1>7. CASE UnlockFull(t)
    <2>1. mx[t] \in Mutexes
      BY <1>7 DEF UnlockFull, CallInv
    <2>2. \A c \in Conds : queue'[c] = queue[c]
      BY <1>0, <1>7, <2>1 DEF UnlockFull, DequeueOne
    <2> QED
      BY <1>7, <2>2, CondFrame DEF UnlockFull, DequeueOne
  <1>8. CASE Unpark(t)
    BY <1>8, CondFrame DEF Unpark
  <1>9. CASE ParkOnCond(t)
    <2>1. CASE cond[cv[t]] \in {NoMutex, mx[t]}
      <3>1. PICK c \in Conds : c = cv[t]
        BY <1>9 DEF ParkOnCond, CallInv
      <3>2. /\ pc[t] = "wait" /\ BucketFree(c) /\ Enqueue(t, c) /\ mx[t] \in Mutexes
            /\ cond' = [cond EXCEPT ![c] = mx[t]]
            /\ pc' = [pc EXCEPT ![t] = "unlock"]
            /\ UNCHANGED <<mx, val, cv>>
        BY <1>9, <2>1, <3>1 DEF ParkOnCond, CallInv
      <3>3. ~Sleeps(t)
        BY <3>2 DEF SleepInv, InPark
      <3>4. \A u \in Threads : ~Requeueing(u, c)
        BY <1>0, <3>2, FreeBucket DEF Requeueing, Holding
      <3>5. \A u \in Threads, d \in Conds : Requeueing(u, d)' <=> Requeueing(u, d)
        BY <3>2 DEF Requeueing
      <3> HIDE DEF TypeOK
      <3>6. \A d \in Conds, u \in Threads :
               Queued(d, u)' <=> Queued(d, u) \/ (d = c /\ u = t)
        BY <1>0, <3>2, <3>3, EnqueueQueued
      <3>7. \A d \in Conds : d # c => cond'[d] = cond[d] /\ queue'[d] = queue[d]
        BY <1>0, <3>2 DEF Enqueue, TypeOK
      <3>8. cond'[c] = mx[t] /\ cond'[c] # NoMutex
        BY <1>0, <3>2 DEF TypeOK
      <3>9. queue'[c] # <<>>
        <4>1. queue'[c] = Append(queue[c], t) /\ queue[c] \in Seq(Threads)
          BY <1>0, <3>2 DEF Enqueue, TypeOK
        <4> QED
          BY <4>1, AppendProperties
      <3>10. \A u \in Threads : Queued(c, u) => mx[u] = mx[t]
        <4>1. /\ cond[c] = NoMutex <=> queue[c] = <<>>
              /\ \A u \in Threads : Queued(c, u) => mx[u] = cond[c]
          BY <3>4 DEF CondInv
        <4>2. CASE cond[c] = NoMutex
          BY <1>0, <4>1, <4>2, EmptyQueue
        <4>3. CASE cond[c] = mx[t]
          BY <4>1, <4>3
        <4> QED
          BY <2>1, <3>1, <4>2, <4>3
      <3> QED
        BY <3>2, <3>4, <3>5, <3>6, <3>7, <3>8, <3>9, <3>10, CondOne
    <2>2. CASE cond[cv[t]] \notin {NoMutex, mx[t]}
      BY <1>9, <2>2, CondFrame DEF ParkOnCond
    <2> QED
      BY <2>1, <2>2
  <1>10. CASE SignalLoad(t)
    BY <1>10, CondFrame DEF SignalLoad
  <1>11. CASE SignalOne(t)
    <2>1. PICK c \in Conds : c = cv[t]
      BY <1>11 DEF SignalOne, CallInv, Notifying
    <2>2. /\ pc[t] = "signal_one" /\ BucketFree(c) /\ DequeueOne(t, c)
          /\ cond' = [cond EXCEPT ![c] = IF MoreWaiters(c) THEN cond[c] ELSE NoMutex]
          /\ UNCHANGED <<mx, val, cv>>
      BY <1>11, <2>1 DEF SignalOne
    <2>3. \A u \in Threads : ~Requeueing(u, c)
      BY <1>0, <2>2, FreeBucket DEF Requeueing, Holding
    <2>4. \A u \in Threads, d \in Conds : Requeueing(u, d)' <=> Requeueing(u, d)
      BY <2>2 DEF Requeueing, DequeueOne
    <2>5. /\ cond[c] = NoMutex <=> queue[c] = <<>>
          /\ \A u \in Threads : Queued(c, u) => mx[u] = cond[c]
      BY <2>3 DEF CondInv
    <2>6. CASE queue[c] = <<>>
      <3>1. UNCHANGED queue
        BY <2>2, <2>6 DEF DequeueOne
      <3>2. UNCHANGED cond
        BY <2>2, <2>5, <2>6
      <3> QED
        BY <2>2, <3>1, <3>2, CondFrame DEF DequeueOne
    <2>7. CASE queue[c] # <<>>
      <3>1. queue' = [queue EXCEPT ![c] = Tail(queue[c])]
        BY <2>2, <2>7 DEF DequeueOne
      <3> HIDE DEF TypeOK
      <3>2. /\ \A d \in Addrs, u \in Threads :
                  Queued(d, u)' <=> Queued(d, u) /\ u # Head(queue[c])
            /\ Queued(c, Head(queue[c]))
            /\ MoreWaiters(c) <=> queue'[c] # <<>>
        BY <1>0, <2>7, <3>1, DequeueQueued
      <3>3. \A d \in Conds : d # c => cond'[d] = cond[d] /\ queue'[d] = queue[d]
        BY <1>0, <2>2, <3>1 DEF TypeOK
      <3>4. cond'[c] = IF MoreWaiters(c) THEN cond[c] ELSE NoMutex
        BY <2>2 DEF TypeOK
      <3>5. cond[c] # NoMutex
        BY <2>5, <2>7
      <3>6. \A u \in Threads : Queued(c, u)' => Queued(c, u) /\ queue'[c] # <<>>
        <4>1. \A u \in Threads : Queued(c, u)' => Queued(c, u)
          BY <1>0, <3>2
        <4>2. ASSUME NEW u \in Threads, queue'[c] = <<>> PROVE ~Queued(c, u)'
          BY <4>2, EmptySeq DEF Queued
        <4> QED
          BY <4>1, <4>2
      <3>7. \A d \in Conds, u \in Threads : d # c => (Queued(d, u)' <=> Queued(d, u))
        BY <3>3 DEF Queued
      <3>8. \A u \in Threads : Queued(c, u)' => mx[u] = cond'[c]
        BY <2>5, <3>2, <3>4, <3>6
      <3>9. cond'[c] = NoMutex <=> queue'[c] = <<>>
        BY <3>2, <3>4, <3>5
      <3> QED
        BY <2>2, <2>3, <2>4, <3>3, <3>7, <3>8, <3>9, CondOne
    <2> QED
      BY <2>6, <2>7
  <1>12. CASE BroadcastLoad(t)
    BY <1>12, CondFrame DEF BroadcastLoad
  <1>13. CASE LockFirst(t)
    BY <1>13, CondFrame DEF LockFirst
  <1>14. CASE LockSecond(t)
    BY <1>14, CondFrame DEF LockSecond
  <1>15. CASE Validate(t)
    <2>1. CASE cond[cv[t]] # val[t]
      BY <1>15, <2>1, CondFrame DEF Validate
    <2>2. CASE cond[cv[t]] = val[t]
      <3>1. PICK c \in Conds : c = cv[t]
        BY <1>15 DEF Validate, CallInv, Notifying
      <3>2. /\ cond[c] = val[t] /\ val[t] \in Mutexes
            /\ cond' = [cond EXCEPT ![c] = NoMutex]
            /\ pc' = [pc EXCEPT ![t] = "mark"]
            /\ UNCHANGED <<queue, mx, val, cv>>
        BY <1>15, <2>2, <3>1 DEF Validate, CallInv, Broadcasting
      <3>3. \A u \in Threads : ~Requeueing(u, c)
        BY <1>0, <3>2 DEF CondInv
      <3>4. queue[c] # <<>> /\ \A u \in Threads : Queued(c, u) => mx[u] = val[t]
        BY <1>0, <3>2, <3>3 DEF CondInv
      <3>5. \A u \in Threads, d \in Conds :
               Requeueing(u, d)' <=> Requeueing(u, d) \/ (u = t /\ d = c)
        BY <1>15, <3>1, <3>2 DEF Requeueing, Validate
      <3>6. \A d \in Conds, u \in Threads : Queued(d, u)' <=> Queued(d, u)
        BY <3>2 DEF Queued
      <3>7. /\ cond'[c] = NoMutex
            /\ \A d \in Conds : d # c => cond'[d] = cond[d]
        BY <3>2
      <3> HIDE DEF TypeOK
      <3> QED
        BY <3>2, <3>3, <3>4, <3>5, <3>6, <3>7 DEF CondInv
    <2> QED
      BY <2>1, <2>2
  <1>16. CASE Mark(t)
    BY <1>16, CondFrame DEF Mark
  <1>17. CASE Requeue(t)
    <2>1. PICK c \in Conds : c = cv[t]
      BY <1>17 DEF Requeue, CallInv, Notifying
    <2>2. /\ pc[t] = "requeue" /\ val[t] \in Mutexes
          /\ UNCHANGED <<cond, mx, val, cv>>
          /\ pc'[t] \notin {"mark", "requeue"} /\ \A u \in Threads \ {t} : pc'[u] = pc[u]
      BY <1>17 DEF Requeue, CallInv, Broadcasting
    <2>3. /\ queue'[c] = <<>>
          /\ \A d \in Conds : d # c => queue'[d] = queue[d]
      BY <1>0, <1>17, <2>1, <2>2 DEF Requeue
    <2>4. Requeueing(t, c)
      BY <2>1, <2>2 DEF Requeueing
    <2>5. \A u \in Threads : Requeueing(u, c) => u = t
      BY <2>1, <2>4 DEF Requeueing, HoldInv, FromBucket
    <2>6. cond'[c] = NoMutex
      BY <2>2, <2>4 DEF CondInv
    <2>7. \A u \in Threads : ~Queued(c, u)'
      BY <2>3, EmptySeq DEF Queued
    <2>8. \A d \in Conds, u \in Threads : d # c => (Queued(d, u)' <=> Queued(d, u))
      BY <2>3 DEF Queued
    <2>9. \A u \in Threads : ~Requeueing(u, c)'
      BY <2>2, <2>5 DEF Requeueing
    <2>10. \A d \in Conds, u \in Threads : d # c => (Requeueing(u, d)' <=> Requeueing(u, d))
      BY <2>1, <2>2 DEF Requeueing
    <2> HIDE DEF TypeOK
    <2> QED
      BY <2>2, <2>3, <2>6, <2>7, <2>8, <2>9, <2>10, CondOne
  <1>18. CASE Call(t)
    <2>1. ASSUME NEW m \in Mutexes, CallLock(t, m) PROVE CondInv'
      <3>1. ~Sleeps(t)
        BY <2>1 DEF CallLock, SleepInv, InPark
      <3> QED
        BY <2>1, <3>1, CondFrame DEF CallLock
    <2>2. ASSUME NEW c \in Conds, CallWait(t, c) PROVE CondInv'
      BY <2>2, CondFrame DEF CallWait
    <2>3. ASSUME NEW c \in Conds, NEW l \in {"signal", "broadcast"}, CallNotify(t, l, c)
          PROVE  CondInv'
      BY <2>3, CondFrame DEF CallNotify
    <2> QED
      BY <1>18, <2>1, <2>2, <2>3 DEF Call
  <1> QED
    BY <1>1, <1>2, <1>3, <1>4, <1>5, <1>6, <1>7, <1>8, <1>9, <1>10, <1>11,
       <1>12, <1>13, <1>14, <1>15, <1>16, <1>17, <1>18 DEF Internal

\* A step that unparks nobody and leaves no mutex free, with sleepers, that was not so.
LEMMA HeadFrame ==
  ASSUME SleepInv, HeadInv, UNCHANGED unparkee,
         \A u \in Threads : InPark(u) => mx'[u] = mx[u],
         \A u \in Threads : pc'[u] = "unpark" /\ ret'[u] = "parked" =>
                            pc[u] = "unpark" /\ ret[u] = "parked",
         \A m \in Mutexes : queue'[m] # <<>> /\ "lock" \notin state'[m] =>
                            queue[m] # <<>> /\ "lock" \notin state[m],
         \A m \in Mutexes, u \in Threads :
            Heading(u, m) => Heading(u, m)' \/ "lock" \in state'[m]
  PROVE  HeadInv'
  <1>1. ASSUME NEW x \in Threads, NEW v \in Threads,
               pc'[x] = "unpark", ret'[x] = "parked", unparkee'[x] = v
        PROVE  mx'[v] = mx'[x]
    <2>1. pc[x] = "unpark" /\ ret[x] = "parked" /\ unparkee[x] = v
      BY <1>1
    <2>2. InPark(x) /\ InPark(v)
      BY <2>1 DEF SleepInv, InPark
    <2> QED
      BY <2>1, <2>2 DEF HeadInv
  <1>2. ASSUME NEW m \in Mutexes, queue'[m] # <<>>, "lock" \notin state'[m]
        PROVE  \E u \in Threads : Heading(u, m)'
    <2>1. PICK u \in Threads : Heading(u, m)
      BY <1>2 DEF HeadInv
    <2> QED
      BY <2>1, <1>2
  <1> QED
    BY <1>1, <1>2 DEF HeadInv

\* A thread on its way stays on its way while it keeps its place, or locks its mutex.
LEMMA HeadingKept ==
  ASSUME NEW t \in Threads, NEW m \in Mutexes, NEW u \in Threads, Heading(u, m),
         UNCHANGED <<mx, should_park, unparkee>>,
         \A x \in Threads \ {t} : pc'[x] = pc[x],
         pc[t] \in {"lock", "park", "parked"} => pc'[t] \in {"lock", "park"}
  PROVE  Heading(u, m)'
  BY DEF Heading

\* Every step keeps a thread on its way to a free mutex with sleepers.
LEMMA HeadStep ==
  ASSUME TypeOK, CallInv, OwnInv, Distinct, SleepInv, MutexInv, CondInv, HeadInv,
         NEW t \in Threads, Internal(t) \/ Call(t)
  PROVE  HeadInv'
  <1> USE DEF TypeOK
  <1>1. CASE Acquire(t)
    <2>1. /\ UNCHANGED <<queue, mx, unparkee, ret, should_park>> /\ mx[t] \in Mutexes
          /\ pc[t] = "lock" /\ pc'[t] = "held" /\ \A x \in Threads \ {t} : pc'[x] = pc[x]
          /\ \A m \in Mutexes : "lock" \in state[m] => "lock" \in state'[m]
          /\ "lock" \in state'[mx[t]]
      BY <1>1 DEF Acquire, CallInv
    <2>2. \A m \in Mutexes, u \in Threads :
             Heading(u, m) => Heading(u, m)' \/ "lock" \in state'[m]
      BY <2>1 DEF Heading
    <2> HIDE DEF TypeOK
    <2> QED
      BY <2>1, <2>2, HeadFrame
  <1>2. CASE MarkParked(t)
    <2>1. /\ UNCHANGED <<queue, mx, unparkee, ret, should_park>> /\ mx[t] \in Mutexes
          /\ pc'[t] = "park" /\ \A x \in Threads \ {t} : pc'[x] = pc[x]
          /\ \A m \in Mutexes : "lock" \in state[m] => "lock" \in state'[m]
      BY <1>2 DEF MarkParked, CallInv
    <2> HIDE DEF TypeOK
    <2> QED
      BY <2>1, HeadingKept, HeadFrame
  <1>3. CASE ParkOnMutex(t)
    <2>1. /\ UNCHANGED <<state, mx, unparkee, ret>> /\ mx[t] \in Mutexes /\ pc[t] = "park"
          /\ pc'[t] # "unpark" /\ \A x \in Threads \ {t} : pc'[x] = pc[x]
      BY <1>3 DEF ParkOnMutex, CallInv
    <2>2. CASE /\ state[mx[t]] = {"lock", "parked"}
               /\ queue' = [queue EXCEPT ![mx[t]] = Append(queue[mx[t]], t)]
               /\ should_park' = [should_park EXCEPT ![t] = TRUE]
      <3>1. /\ "lock" \in state'[mx[t]]
            /\ \A m \in Mutexes : m # mx[t] => queue'[m] = queue[m]
        BY <2>1, <2>2 DEF Addrs
      <3>2. \A x \in Threads \ {t} : should_park'[x] = should_park[x]
        BY <2>2
      <3>3. \A m \in Mutexes, u \in Threads :
               Heading(u, m) => Heading(u, m)' \/ "lock" \in state'[m]
        BY <2>1, <3>1, <3>2 DEF Heading
      <3> HIDE DEF TypeOK
      <3> QED
        BY <2>1, <3>1, <3>3, HeadFrame
    <2>3. CASE UNCHANGED <<queue, should_park>> /\ pc'[t] = "lock"
      <3> HIDE DEF TypeOK
      <3> QED
        BY <2>1, <2>3, HeadingKept, HeadFrame
    <2> QED
      BY <1>3, <2>2, <2>3 DEF ParkOnMutex, Enqueue
  <1>4. CASE WakeUp(t)
    <2>1. /\ UNCHANGED <<queue, state, mx, unparkee, ret, should_park>>
          /\ pc'[t] = "lock" /\ \A x \in Threads \ {t} : pc'[x] = pc[x]
      BY <1>4 DEF WakeUp
    <2> HIDE DEF TypeOK
    <2> QED
      BY <2>1, HeadingKept, HeadFrame
  <1>5. CASE CallUnlock(t)
    <2>1. /\ UNCHANGED <<queue, state, mx, unparkee, should_park>> /\ pc[t] = "held"
          /\ pc'[t] = "unlock" /\ \A x \in Threads \ {t} : pc'[x] = pc[x] /\ ret'[x] = ret[x]
      BY <1>5 DEF CallUnlock
    <2> HIDE DEF TypeOK
    <2> QED
      BY <2>1, HeadingKept, HeadFrame
  <1>6. CASE UnlockFast(t)
    <2>1. /\ UNCHANGED <<queue, mx, unparkee, ret, should_park>> /\ mx[t] \in Mutexes
          /\ pc[t] = "unlock" /\ pc'[t] # "unpark" /\ \A x \in Threads \ {t} : pc'[x] = pc[x]
      BY <1>6 DEF UnlockFast, CallInv
    <2>2. \A m \in Mutexes : queue'[m] # <<>> /\ "lock" \notin state'[m] =>
                             queue[m] # <<>> /\ "lock" \notin state[m]
      <3>1. CASE state[mx[t]] = {"lock"}
        <4>1. state' = [state EXCEPT ![mx[t]] = {}]
          BY <1>6, <3>1 DEF UnlockFast
        <4>2. queue[mx[t]] = <<>>
          BY <2>1, <3>1 DEF MutexInv
        <4> QED
          BY <2>1, <4>1, <4>2
      <3>2. CASE state[mx[t]] # {"lock"}
        BY <1>6, <3>2 DEF UnlockFast
      <3> QED
        BY <3>1, <3>2
    <2> HIDE DEF TypeOK
    <2> QED
      BY <2>1, <2>2, HeadingKept, HeadFrame
  <1>7. CASE UnlockFull(t)
    <2>0. PICK n \in Mutexes : n = mx[t]
      BY <1>7 DEF UnlockFull, CallInv
    <2>1. /\ n \in Addrs /\ UNCHANGED <<mx, ret, should_park>>
          /\ pc[t] = "unlock_full" /\ \A x \in Threads \ {t} : pc'[x] = pc[x]
          /\ \A m \in Mutexes : m # n => state'[m] = state[m] /\ queue'[m] = queue[m]
      BY <1>7, <2>0 DEF UnlockFull, DequeueOne, Addrs
    <2>2. CASE queue[n] = <<>>
      <3>1. UNCHANGED <<queue, unparkee>> /\ pc'[t] # "unpark"
        BY <1>7, <2>0, <2>2 DEF UnlockFull, DequeueOne
      <3>2. \A m \in Mutexes : queue'[m] # <<>> /\ "lock" \notin state'[m] =>
                               queue[m] # <<>> /\ "lock" \notin state[m]
        BY <2>1, <2>2, <3>1
      <3> HIDE DEF TypeOK
      <3> QED
        BY <2>1, <3>1, <3>2, HeadingKept, HeadFrame
    <2>3. CASE queue[n] # <<>>
      <3>1. PICK h \in Threads : h = Head(queue[n])
        BY <2>1, <2>3, HeadTailProperties
      <3>2. /\ queue' = [queue EXCEPT ![n] = Tail(queue[n])]
            /\ unparkee' = [unparkee EXCEPT ![t] = h]
            /\ unparkee[t] = NoThread
        BY <1>7, <2>0, <2>1, <2>3, <3>1 DEF UnlockFull, DequeueOne, SleepInv
      <3>3. Queued(n, h)
        <4> HIDE DEF TypeOK
        <4> QED
          BY <2>1, <2>3, <3>1, <3>2, DequeueQueued
      <3>4. mx[h] = n
        BY <2>1, <3>3 DEF MutexInv
      <3>5. Heading(h, n)'
        BY <2>1, <3>2, <3>4 DEF Heading
      <3>6. \A x \in Threads : unparkee'[x] = IF x = t THEN h ELSE unparkee[x]
        BY <3>2
      <3> HIDE DEF TypeOK
      <3>7. ASSUME NEW m \in Mutexes, NEW u \in Threads, Heading(u, m) PROVE Heading(u, m)'
        <4>1. NoThread # u
          BY SentinelAssumption
        <4> QED
          BY <2>1, <3>2, <3>6, <3>7, <4>1 DEF Heading
      <3>8. ASSUME NEW m \in Mutexes, queue'[m] # <<>>, "lock" \notin state'[m]
            PROVE  \E u \in Threads : Heading(u, m)'
        <4>1. CASE m = n
          BY <3>5, <4>1
        <4>2. CASE m # n
          BY <2>1, <3>7, <3>8, <4>2 DEF HeadInv
        <4> QED
          BY <4>1, <4>2
      <3>9. ASSUME NEW x \in Threads, NEW v \in Threads,
                   pc'[x] = "unpark", ret'[x] = "parked", unparkee'[x] = v
            PROVE  mx'[v] = mx'[x]
        <4>1. CASE x = t
          BY <2>0, <2>1, <3>4, <3>6, <3>9, <4>1
        <4>2. CASE x # t
          BY <2>1, <3>6, <3>9, <4>2 DEF HeadInv
        <4> QED
          BY <4>1, <4>2
      <3> QED
        BY <3>8, <3>9 DEF HeadInv
    <2> QED
      BY <2>2, <2>3
  <1>8. CASE Unpark(t)
    <2>1. PICK v \in Threads : v = unparkee[t]
      BY <1>8 DEF Unpark, CallInv
    <2>2. /\ UNCHANGED <<queue, state, mx, ret>> /\ pc[t] = "unpark" /\ pc'[t] = ret[t]
          /\ \A x \in Threads \ {t} : pc'[x] = pc[x]
          /\ \A x \in Threads : unparkee'[x] = IF x = t THEN NoThread ELSE unparkee[x]
          /\ \A x \in Threads : should_park'[x] = IF x = v THEN FALSE ELSE should_park[x]
      BY <1>8, <2>1 DEF Unpark
    <2>3. InPark(v) /\ \A x \in Threads \ {t} : unparkee[x] # v
      BY <2>1 DEF SleepInv
    <2> HIDE DEF TypeOK
    <2>4. ASSUME NEW m \in Mutexes, queue'[m] # <<>>, "lock" \notin state'[m]
          PROVE  \E u \in Threads : Heading(u, m)'
      <3>1. PICK u \in Threads : Heading(u, m)
        BY <2>2, <2>4 DEF HeadInv
      <3>2. CASE u # v
        <4>1. \A x \in Threads : unparkee[x] = u => unparkee'[x] = u
          BY <2>1, <2>2, <3>2
        <4>2. should_park'[u] = should_park[u]
          BY <2>2, <3>2
        <4>3. Heading(u, m)'
          BY <2>2, <3>1, <4>1, <4>2 DEF Heading
        <4> QED
          BY <4>3
      <3>3. CASE u = v
        <4>1. mx[v] = m /\ mx'[v] = m /\ should_park'[v] = FALSE
          BY <2>2, <3>1, <3>3 DEF Heading
        <4>2. CASE pc'[v] = "parked"
          BY <4>1, <4>2 DEF Heading
        <4>3. CASE pc[v] \in {"unlock", "unlock_full"}
          <5>1. Owns(v)
            BY <4>3 DEF Owns
          <5>2. "lock" \in state[m]
            BY <4>1, <5>1 DEF OwnInv, LockBit
          <5> QED
            BY <2>2, <2>4, <5>2
        <4>4. CASE pc[v] = "unpark" /\ ret[v] = "parked" /\ v # t
          <5>1. PICK w \in Threads : unparkee[v] = w
            BY <4>4 DEF CallInv
          <5>2. mx[w] = m /\ unparkee'[v] = w
            BY <2>2, <4>1, <4>4, <5>1 DEF HeadInv
          <5>3. Heading(w, m)'
            BY <2>2, <5>2 DEF Heading
          <5> QED
            BY <5>3
        <4>5. pc[v] = "parked" => v # t
          BY <2>2
        <4> QED
          BY <2>2, <2>3, <4>2, <4>3, <4>4, <4>5 DEF InPark
      <3> QED
        BY <3>2, <3>3
    <2>5. ASSUME NEW x \in Threads, NEW w \in Threads,
                 pc'[x] = "unpark", ret'[x] = "parked", unparkee'[x] = w
          PROVE  mx'[w] = mx'[x]
      BY SentinelAssumption, <2>2, <2>5 DEF HeadInv
    <2> QED
      BY <2>4, <2>5 DEF HeadInv
  <1>9. CASE ParkOnCond(t)
    <2>1. /\ UNCHANGED <<state, mx, unparkee>> /\ cv[t] \in Conds /\ pc[t] = "wait"
          /\ pc'[t] \in {"unlock", "held"}
          /\ \A x \in Threads \ {t} : pc'[x] = pc[x] /\ ret'[x] = ret[x]
                                      /\ should_park'[x] = should_park[x]
      BY <1>9 DEF ParkOnCond, Enqueue, CallInv
    <2>2. \A m \in Mutexes : queue'[m] = queue[m]
      BY <1>9, <2>1, SentinelAssumption DEF ParkOnCond, Enqueue, Addrs
    <2> HIDE DEF TypeOK
    <2>3. \A m \in Mutexes, u \in Threads : Heading(u, m) => Heading(u, m)'
      BY <2>1 DEF Heading
    <2> QED
      BY <2>1, <2>2, <2>3, HeadFrame
  <1>10. CASE SignalLoad(t)
    <2>1. /\ UNCHANGED <<queue, state, mx, unparkee, ret, should_park>> /\ pc[t] = "signal"
          /\ pc'[t] # "unpark" /\ \A x \in Threads \ {t} : pc'[x] = pc[x]
      BY <1>10 DEF SignalLoad
    <2> HIDE DEF TypeOK
    <2> QED
      BY <2>1, HeadingKept, HeadFrame
  <1>11. CASE SignalOne(t)
    <2>1. /\ UNCHANGED <<state, mx, ret, should_park>> /\ cv[t] \in Conds
          /\ pc[t] = "signal_one" /\ ret[t] # "parked"
          /\ \A x \in Threads \ {t} : pc'[x] = pc[x] /\ unparkee'[x] = unparkee[x]
          /\ unparkee[t] = NoThread
      <3>1. pc[t] = "signal_one" /\ DequeueOne(t, cv[t]) /\ UNCHANGED <<state, mx, ret, should_park>>
        BY <1>11 DEF SignalOne
      <3>2. cv[t] \in Conds /\ ret[t] # "parked"
        BY <3>1 DEF CallInv, Notifying
      <3>3. unparkee[t] = NoThread
        BY <3>1 DEF SleepInv
      <3>4. \A x \in Threads \ {t} : pc'[x] = pc[x] /\ unparkee'[x] = unparkee[x]
        BY <3>1 DEF DequeueOne
      <3> QED
        BY <3>1, <3>2, <3>3, <3>4
    <2>2. \A m \in Mutexes : queue'[m] = queue[m]
      BY <1>11, <2>1, SentinelAssumption DEF SignalOne, DequeueOne, Addrs
    <2> HIDE DEF TypeOK
    <2>3. ASSUME NEW m \in Mutexes, NEW u \in Threads, Heading(u, m) PROVE Heading(u, m)'
      <3>1. \A x \in Threads : unparkee[x] = u => unparkee'[x] = u
        BY <2>1, SentinelAssumption
      <3> QED
        BY <2>1, <2>3, <3>1 DEF Heading
    <2> QED
      BY <2>1, <2>2, <2>3 DEF HeadInv
  <1>12. CASE BroadcastLoad(t)
    <2>1. /\ UNCHANGED <<queue, state, mx, unparkee, ret, should_park>> /\ pc[t] = "broadcast"
          /\ pc'[t] # "unpark" /\ \A x \in Threads \ {t} : pc'[x] = pc[x]
      BY <1>12 DEF BroadcastLoad
    <2> HIDE DEF TypeOK
    <2> QED
      BY <2>1, HeadingKept, HeadFrame
  <1>13. CASE LockFirst(t)
    <2>1. /\ UNCHANGED <<queue, state, mx, unparkee, ret, should_park>> /\ pc[t] = "lock_first"
          /\ pc'[t] # "unpark" /\ \A x \in Threads \ {t} : pc'[x] = pc[x]
      BY <1>13 DEF LockFirst
    <2> HIDE DEF TypeOK
    <2> QED
      BY <2>1, HeadingKept, HeadFrame
  <1>14. CASE LockSecond(t)
    <2>1. /\ UNCHANGED <<queue, state, mx, unparkee, ret, should_park>> /\ pc[t] = "lock_second"
          /\ pc'[t] # "unpark" /\ \A x \in Threads \ {t} : pc'[x] = pc[x]
      BY <1>14 DEF LockSecond
    <2> HIDE DEF TypeOK
    <2> QED
      BY <2>1, HeadingKept, HeadFrame
  <1>15. CASE Validate(t)
    <2>1. /\ UNCHANGED <<queue, state, mx, unparkee, ret, should_park>> /\ pc[t] = "validate"
          /\ pc'[t] # "unpark" /\ \A x \in Threads \ {t} : pc'[x] = pc[x]
      BY <1>15 DEF Validate
    <2> HIDE DEF TypeOK
    <2> QED
      BY <2>1, HeadingKept, HeadFrame
  <1>16. CASE Mark(t)
    <2>1. /\ UNCHANGED <<queue, mx, unparkee, ret, should_park>> /\ pc[t] = "mark"
          /\ pc'[t] # "unpark" /\ \A x \in Threads \ {t} : pc'[x] = pc[x]
          /\ \A m \in Mutexes : "lock" \in state[m] => "lock" \in state'[m]
      BY <1>16 DEF Mark, CallInv, Broadcasting
    <2> HIDE DEF TypeOK
    <2> QED
      BY <2>1, HeadingKept, HeadFrame
  <1>17. CASE Requeue(t)
    <2>0. PICK n \in Mutexes : n = val[t]
      BY <1>17 DEF Requeue, CallInv, Broadcasting
    <2>1. /\ pc[t] = "requeue" /\ cv[t] \in Conds /\ cv[t] \in Addrs
          /\ cv[t] # n /\ cv[t] \notin Mutexes
          /\ ret[t] # "parked" /\ UNCHANGED <<mx, ret, should_park>>
          /\ \A x \in Threads \ {t} : pc'[x] = pc[x] /\ unparkee'[x] = unparkee[x]
          /\ unparkee[t] = NoThread
      <3>1. pc[t] = "requeue" /\ UNCHANGED <<mx, ret, should_park>>
        BY <1>17 DEF Requeue
      <3>2. cv[t] \in Conds /\ ret[t] # "parked"
        BY <3>1 DEF CallInv, Notifying
      <3>3. cv[t] \in Addrs /\ cv[t] # n /\ cv[t] \notin Mutexes
        BY <3>2, SentinelAssumption DEF Addrs
      <3>4. unparkee[t] = NoThread
        BY <3>1 DEF SleepInv
      <3>5. \A x \in Threads \ {t} : pc'[x] = pc[x] /\ unparkee'[x] = unparkee[x]
        BY <1>17 DEF Requeue
      <3> QED
        BY <3>1, <3>2, <3>3, <3>4, <3>5
    <2>2. queue[cv[t]] # <<>> /\ \A u \in Threads : Queued(cv[t], u) => mx[u] = n
      BY <2>0, <2>1 DEF CondInv, Requeueing
    <2>3. /\ \A m \in Mutexes : m # n => queue'[m] = queue[m] /\ state'[m] = state[m]
          /\ "lock" \in state[n] => "lock" \in state'[n]
      BY <1>17, <2>0, <2>1 DEF Requeue, Addrs
    <2>4. ASSUME NEW m \in Mutexes, NEW u \in Threads, Heading(u, m) PROVE Heading(u, m)'
      <3> HIDE DEF TypeOK
      <3>1. \A x \in Threads : unparkee[x] = u => unparkee'[x] = u
        BY <2>1, SentinelAssumption
      <3> QED
        BY <2>1, <2>4, <3>1 DEF Heading
    <2>5. ASSUME "lock" \notin state'[n] PROVE \E u \in Threads : Heading(u, n)'
      <3>1. one[t]
        BY <2>0, <2>1, <2>3, <2>5 DEF MutexInv
      <3>2. PICK h \in Threads : h = Head(queue[cv[t]])
        BY <2>1, <2>2, HeadTailProperties
      <3>3. unparkee'[t] = h
        BY <1>17, <2>2, <3>1, <3>2 DEF Requeue
      <3>4. Queued(cv[t], h)
        <4> HIDE DEF TypeOK
        <4> QED
          BY <1>17, <2>0, <2>1, <2>2, <3>2, RequeueQueued
      <3>5. mx'[h] = n
        BY <2>1, <2>2, <3>4
      <3>6. Heading(h, n)'
        <4> HIDE DEF TypeOK
        <4> QED
          BY <3>3, <3>5 DEF Heading
      <3> QED
        BY <3>6
    <2> HIDE DEF TypeOK
    <2>6. ASSUME NEW m \in Mutexes, queue'[m] # <<>>, "lock" \notin state'[m]
          PROVE  \E u \in Threads : Heading(u, m)'
      <3>1. CASE m = n
        BY <2>5, <2>6, <3>1
      <3>2. CASE m # n
        BY <2>3, <2>4, <2>6, <3>2 DEF HeadInv
      <3> QED
        BY <3>1, <3>2
    <2>7. ASSUME NEW x \in Threads, NEW v \in Threads,
                 pc'[x] = "unpark", ret'[x] = "parked", unparkee'[x] = v
          PROVE  mx'[v] = mx'[x]
      BY <2>1, <2>7 DEF HeadInv
    <2> QED
      BY <2>6, <2>7 DEF HeadInv
  <1>18. CASE Call(t)
    <2>1. ASSUME NEW m \in Mutexes, CallLock(t, m) PROVE HeadInv'
      <3>1. /\ UNCHANGED <<queue, state, unparkee, ret, should_park>> /\ pc[t] = "idle"
            /\ pc'[t] # "unpark" /\ \A x \in Threads \ {t} : pc'[x] = pc[x] /\ mx'[x] = mx[x]
        BY <2>1 DEF CallLock
      <3>2. ~InPark(t) /\ \A x \in Threads : unparkee[x] # t
        BY <3>1 DEF InPark, SleepInv
      <3> HIDE DEF TypeOK
      <3>3. \A n \in Mutexes, u \in Threads : Heading(u, n) => Heading(u, n)'
        BY <3>1, <3>2 DEF Heading
      <3> QED
        BY <3>1, <3>2, <3>3, HeadFrame
    <2>2. ASSUME NEW c \in Conds, CallWait(t, c) PROVE HeadInv'
      <3>1. /\ UNCHANGED <<queue, state, mx, unparkee, ret, should_park>> /\ pc[t] = "held"
            /\ pc'[t] # "unpark" /\ \A x \in Threads \ {t} : pc'[x] = pc[x]
        BY <2>2 DEF CallWait
      <3> HIDE DEF TypeOK
      <3> QED
        BY <3>1, HeadingKept, HeadFrame
    <2>3. ASSUME NEW c \in Conds, NEW l \in {"signal", "broadcast"}, CallNotify(t, l, c)
          PROVE  HeadInv'
      <3>1. /\ UNCHANGED <<queue, state, mx, unparkee, should_park>> /\ pc[t] \in {"idle", "held"}
            /\ pc'[t] # "unpark" /\ \A x \in Threads \ {t} : pc'[x] = pc[x] /\ ret'[x] = ret[x]
        BY <2>3 DEF CallNotify
      <3> HIDE DEF TypeOK
      <3> QED
        BY <3>1, HeadingKept, HeadFrame
    <2> QED
      BY <1>18, <2>1, <2>2, <2>3 DEF Call
  <1> QED
    BY <1>1, <1>2, <1>3, <1>4, <1>5, <1>6, <1>7, <1>8, <1>9, <1>10, <1>11,
       <1>12, <1>13, <1>14, <1>15, <1>16, <1>17, <1>18 DEF Internal

----------------------------------------------------------------------------
QueueInv == HoldInv /\ Distinct /\ SleepInv /\ MutexInv /\ CondInv /\ HeadInv

\* All queues start empty.
LEMMA QueueInit == Init => QueueInv
  <1> SUFFICES ASSUME Init PROVE QueueInv
    OBVIOUS
  <1>1. \A a \in Addrs : queue[a] = <<>> /\ Len(queue[a]) = 0
    BY DEF Init
  <1>2. \A a \in Addrs, u \in Threads : ~Queued(a, u)
    BY <1>1 DEF Queued
  <1>3. \A u \in Threads : ~Sleeps(u)
    BY <1>2 DEF Sleeps
  <1>4. HoldInv
    BY DEF Init, HoldInv
  <1>5. Distinct
    BY <1>1 DEF Distinct
  <1>6. SleepInv
    BY <1>3, SentinelAssumption DEF Init, SleepInv
  <1>7. MutexInv
    BY <1>1, <1>2 DEF Init, MutexInv, Addrs
  <1>8. CondInv
    BY <1>1, <1>2 DEF Init, CondInv, Requeueing, Addrs
  <1>9. HeadInv
    BY <1>1 DEF Init, HeadInv, Addrs
  <1> QED
    BY <1>4, <1>5, <1>6, <1>7, <1>8, <1>9 DEF QueueInv

\* Every step keeps the queue invariant.
LEMMA QueueStep ==
  ASSUME IInv, QueueInv, [Next]_vars
  PROVE  QueueInv'
  <1>1. ASSUME NEW t \in Threads, Internal(t) \/ Call(t) PROVE QueueInv'
    BY <1>1, HoldStep, SleepStep, MutexStep, CondStep, HeadStep DEF IInv, QueueInv
  <1>2. CASE UNCHANGED vars
    <2> USE <1>2 DEF vars
    <2>1. /\ \A a \in Addrs, u \in Threads : Queued(a, u)' <=> Queued(a, u)
          /\ \A u \in Threads : (Sleeps(u)' <=> Sleeps(u)) /\ (InPark(u)' <=> InPark(u))
      BY DEF Queued, Sleeps, InPark
    <2>2. HoldInv'
      BY DEF QueueInv, HoldInv, LockOrder, FromBucket, ToBucket
    <2>3. Distinct'
      BY DEF QueueInv, Distinct
    <2>4. SleepInv'
      BY <2>1 DEF QueueInv, SleepInv
    <2>5. MutexInv' /\ CondInv'
      BY <2>1 DEF QueueInv, MutexInv, CondInv, Requeueing, Addrs
    <2>6. HeadInv'
      BY DEF QueueInv, HeadInv, Heading
    <2> QED
      BY <2>2, <2>3, <2>4, <2>5, <2>6 DEF QueueInv
  <1> QED
    BY <1>1, <1>2 DEF Next

\* Queues, words and sleepers agree in every reachable state, for any number of
\* threads, mutexes and conditions.
THEOREM QueueInvariance == Spec => [](IInv /\ QueueInv)
  <1>1. Spec => []IInv
    BY Invariance
  <1>2. IInv /\ QueueInv /\ [Next]_vars => QueueInv'
    BY QueueStep
  <1> QED
    BY <1>1, <1>2, QueueInit, PTL DEF Spec

\* The words of every mutex and condition say what its queue and its owner are: lock
\* bits, parked bits and the mutex of the waiters, whatever broadcasts are under way.
THEOREM WordsAreExact == Spec => []WordsExact
  <1>1. IInv /\ QueueInv => WordsExact
    <2> SUFFICES ASSUME IInv, QueueInv PROVE WordsExact
      OBVIOUS
    <2>1. LockBit
      BY DEF IInv, OwnInv
    <2>2. ParkedBit
      BY DEF QueueInv, MutexInv, ParkedBit
    <2>3. CondState
      <3> SUFFICES ASSUME NEW c \in Conds, BucketFree(c)
                   PROVE  /\ cond[c] = NoMutex <=> queue[c] = <<>>
                          /\ \A u \in Threads : Queued(c, u) => mx[u] = cond[c]
        BY DEF CondState
      <3>1. \A t \in Threads : ~Requeueing(t, c)
        BY FreeBucket DEF QueueInv, Requeueing, Holding, Addrs
      <3> QED
        BY <3>1 DEF QueueInv, CondInv
    <2> QED
      BY <2>1, <2>2, <2>3 DEF WordsExact
  <1> QED
    BY <1>1, QueueInvariance, PTL

\* queue_data, which lives on the stack of a parked thread, is linked or about to be
\* unparked only while that thread is inside park, and never twice.
THEOREM QueueDataAlive == Spec => []NoDanglingQueueData
  <1>1. IInv /\ QueueInv => NoDanglingQueueData
    <2> SUFFICES ASSUME IInv, QueueInv PROVE NoDanglingQueueData
      OBVIOUS
    <2>1. ASSUME NEW a \in Addrs, NEW i \in 1..Len(queue[a])
          PROVE  /\ should_park[queue[a][i]]
                 /\ pc[queue[a][i]] = "parked" \/ ret[queue[a][i]] = "parked"
                 /\ \A b \in Addrs : \A j \in 1..Len(queue[b]) :
                       queue[a][i] = queue[b][j] => a = b /\ i = j
      <3>1. queue[a][i] \in Threads
        BY ElementOfSeq DEF IInv, TypeOK
      <3>2. Sleeps(queue[a][i])
        BY DEF Sleeps, Queued
      <3>3. should_park[queue[a][i]] /\ InPark(queue[a][i])
        BY <3>1, <3>2 DEF QueueInv, SleepInv
      <3> QED
        BY <3>3 DEF InPark, QueueInv, Distinct
    <2>2. ASSUME NEW t \in Threads, pc[t] = "unpark"
          PROVE  /\ should_park[unparkee[t]]
                 /\ \A a \in Addrs : ~Queued(a, unparkee[t])
                 /\ \A u \in Threads : unparkee[u] = unparkee[t] => u = t
      <3>1. unparkee[t] \in Threads
        BY <2>2 DEF IInv, CallInv
      <3> QED
        BY <3>1 DEF QueueInv, SleepInv, Sleeps
    <2> QED
      BY <2>1, <2>2 DEF NoDanglingQueueData
  <1> QED
    BY <1>1, QueueInvariance, PTL

\* A free mutex with sleepers always has a thread awake, or about to be, that will lock
\* it and unlock it again: no interleaving of unlock_full, park and requeue loses it.
THEOREM NobodyStranded == Spec => []NoStrandedWaiter
  <1>1. IInv /\ QueueInv => NoStrandedWaiter
    BY DEF QueueInv, HeadInv, NoStrandedWaiter
  <1> QED
    BY <1>1, QueueInvariance, PTL
-----------------------------------------------------------------------------
(***************************************************************************)
(* ParkingLot implements Monitor, for any number of threads, mutexes and   *)
(* conditions, any hash and any program of calls.  The mapping is the one  *)
(* of ParkingLotMonitor; each part of it, the holders, the waiters and the *)
(* calls in progress, gets the lemmas that say what a step does to it, and *)
(* then every action is a step of Monitor or leaves all three alone.       *)
(***************************************************************************)
Inv == IInv /\ QueueInv

----------------------------------------------------------------------------
(* The holders *)

\* A thread holds a mutex in Monitor if and only if it owns it in ParkingLot.
HolderExact ==
    \A m \in Mutexes :
        /\ HolderOf(m) \in Threads \cup {NoThread}
        /\ \A t \in Threads : HolderOf(m) = t <=> Owns(t) /\ mx[t] = m

\* The holder of a mutex is the thread that owns it, if the lock bit is exact.
LEMMA HolderIsOwner == MutualExclusion => HolderExact
  <1> SUFFICES ASSUME MutualExclusion, NEW m \in Mutexes
               PROVE  /\ HolderOf(m) \in Threads \cup {NoThread}
                      /\ \A t \in Threads : HolderOf(m) = t <=> Owns(t) /\ mx[t] = m
    BY DEF HolderExact
  <1>1. CASE Held(m)
    <2>1. HolderOf(m) \in Threads /\ Owns(HolderOf(m)) /\ mx[HolderOf(m)] = m
      BY <1>1 DEF Held, HolderOf
    <2> QED
      BY <2>1 DEF MutualExclusion
  <1>2. CASE ~Held(m)
    <2>1. HolderOf(m) = NoThread
      BY <1>2 DEF HolderOf
    <2> QED
      BY <2>1, <1>2, SentinelAssumption DEF Held
  <1> QED
    BY <1>1, <1>2

\* The same after a step.
LEMMA HolderIsOwnerAfter == MutualExclusion' => HolderExact'
  BY HolderIsOwner, PTL

\* A step after which every thread owns what it owned.
LEMMA HoldersKept ==
  ASSUME HolderExact, HolderExact',
         \A u \in Threads : (Owns(u)' <=> Owns(u)) /\ (Owns(u) => mx'[u] = mx[u])
  PROVE  \A m \in Mutexes : HolderOf(m)' = HolderOf(m)
  <1> SUFFICES ASSUME NEW m \in Mutexes PROVE HolderOf(m)' = HolderOf(m)
    OBVIOUS
  <1>1. \A u \in Threads : HolderOf(m)' = u <=> HolderOf(m) = u
    BY DEF HolderExact
  <1> QED
    BY <1>1 DEF HolderExact

\* A step by which t takes its mutex.
LEMMA HolderEnters ==
  ASSUME HolderExact, HolderExact', NEW t \in Threads, mx[t] \in Mutexes,
         ~Held(mx[t]), Owns(t)', mx' = mx,
         \A u \in Threads \ {t} : Owns(u)' <=> Owns(u)
  PROVE  /\ HolderOf(mx[t]) = NoThread
         /\ \A m \in Mutexes : HolderOf(m)' = IF m = mx[t] THEN t ELSE HolderOf(m)
  <1>1. HolderOf(mx[t]) = NoThread
    BY DEF HolderOf
  <1>2. HolderOf(mx[t])' = t
    BY DEF HolderExact
  <1>3. ASSUME NEW m \in Mutexes, m # mx[t] PROVE HolderOf(m)' = HolderOf(m)
    <2>1. \A u \in Threads : HolderOf(m)' = u <=> HolderOf(m) = u
      BY <1>3 DEF HolderExact
    <2> QED
      BY <2>1 DEF HolderExact
  <1> QED
    BY <1>1, <1>2, <1>3

\* A step by which t gives its mutex up.
LEMMA HolderLeaves ==
  ASSUME HolderExact, HolderExact', NEW t \in Threads, mx[t] \in Mutexes,
         Owns(t), ~Owns(t)', mx' = mx,
         \A u \in Threads \ {t} : Owns(u)' <=> Owns(u)
  PROVE  /\ HolderOf(mx[t]) = t
         /\ \A m \in Mutexes : HolderOf(m)' = IF m = mx[t] THEN NoThread ELSE HolderOf(m)
  <1>1. HolderOf(mx[t]) = t
    BY DEF HolderExact
  <1>2. \A u \in Threads : HolderOf(mx[t])' # u
    BY <1>1 DEF HolderExact
  <1>3. HolderOf(mx[t])' = NoThread
    BY <1>2 DEF HolderExact
  <1>4. ASSUME NEW m \in Mutexes, m # mx[t] PROVE HolderOf(m)' = HolderOf(m)
    <2>1. \A u \in Threads : HolderOf(m)' = u <=> HolderOf(m) = u
      BY <1>4, <1>1 DEF HolderExact
    <2> QED
      BY <2>1 DEF HolderExact
  <1> QED
    BY <1>1, <1>3, <1>4

----------------------------------------------------------------------------
(* The waiters *)

\* Who is registered with a condition, as a set of threads and the mutex of each.
LEMMA WaitingMembers ==
  ASSUME NEW c \in Conds
  PROVE  /\ WaitingOn(c) \subseteq {<<u, mx[u]>> : u \in Threads}
         /\ \A u \in Threads : <<u, mx[u]>> \in WaitingOn(c) <=> ~Taken(c) /\ Queued(c, u)
  BY DEF WaitingOn

\* A step that leaves the sleepers of c and their mutexes to it, or to the broadcast
\* that has taken them.
LEMMA WaitersKept ==
  ASSUME NEW c \in Conds, Taken(c)' <=> Taken(c),
         ~Taken(c) => \A u \in Threads :
            (Queued(c, u)' <=> Queued(c, u)) /\ (Queued(c, u) => mx'[u] = mx[u])
  PROVE  WaitingOn(c)' = WaitingOn(c)
  <1>1. CASE Taken(c)
    BY <1>1 DEF WaitingOn
  <1>2. CASE ~Taken(c)
    <2>1. WaitingOn(c) = {<<u, mx[u]>> : u \in {u \in Threads : Queued(c, u)}}
      BY <1>2 DEF WaitingOn
    <2>2. WaitingOn(c)' = {<<u, mx'[u]>> : u \in {u \in Threads : Queued(c, u)'}}
      BY <1>2 DEF WaitingOn
    <2> QED
      BY <2>1, <2>2, <1>2
  <1> QED
    BY <1>1, <1>2

\* Nobody waits where nobody sleeps, nor with a condition a broadcast has taken.
LEMMA NobodyWaits ==
  ASSUME NEW c \in Conds, Taken(c) \/ \A u \in Threads : ~Queued(c, u)
  PROVE  WaitingOn(c) = {}
  BY DEF WaitingOn

\* Nobody is registered on a condition that has been taken or that nobody queues on.
LEMMA NobodyWaitsAfter ==
  ASSUME NEW c \in Conds, Taken(c)' \/ \A u \in Threads : ~Queued(c, u)'
  PROVE  WaitingOn(c)' = {}
  BY DEF WaitingOn

----------------------------------------------------------------------------
(* The steps of Monitor, in terms of the three parts of the mapping *)

SameHolders == \A m \in Mutexes : HolderOf(m)' = HolderOf(m)
SameWaiters == \A c \in Conds : WaitingOn(c)' = WaitingOn(c)
SameCalls   == \A t \in Threads : CallInProgress(t)' = CallInProgress(t)

\* A step that changes no part of the monitor is a stutter of it.
LEMMA Stutters ==
  ASSUME SameHolders, SameWaiters, SameCalls
  PROVE  UNCHANGED M!monitorVars
  BY DEF SameHolders, SameWaiters, SameCalls, M!monitorVars

\* A thread that does not sleep is registered on no condition.
LEMMA AwakeIsUnregistered ==
  ASSUME NEW t \in Threads, ~Sleeps(t)
  PROVE  ~M!Registered(t)
  <1>1. \A c \in Conds, m \in Mutexes : <<t, m>> \notin WaitingOn(c)
    BY DEF WaitingOn, Sleeps, Addrs
  <1> QED
    BY <1>1 DEF M!Registered

\* When a step is the monitor's Enter: a free mutex gets a holder.
LEMMA ToEnter ==
  ASSUME NEW t \in Threads, NEW m \in Mutexes, HolderOf(m) = NoThread, ~Sleeps(t),
         \A n \in Mutexes : HolderOf(n)' = IF n = m THEN t ELSE HolderOf(n),
         SameWaiters, SameCalls
  PROVE  M!Enter(t, m)
  BY AwakeIsUnregistered DEF M!Enter, SameWaiters, SameCalls

\* When a step is the monitor's Leave: the holder gives the mutex up.
LEMMA ToLeave ==
  ASSUME NEW t \in Threads, NEW m \in Mutexes, HolderOf(m) = t,
         \A n \in Mutexes : HolderOf(n)' = IF n = m THEN NoThread ELSE HolderOf(n),
         SameWaiters, SameCalls
  PROVE  M!Leave(t, m)
  BY DEF M!Leave, SameWaiters, SameCalls

\* When a step is the monitor's Register: the holder of the mutex joins the waiters.
LEMMA ToRegister ==
  ASSUME NEW t \in Threads, NEW c \in Conds, NEW m \in Mutexes, HolderOf(m) = t,
         ~Sleeps(t), WaitingOn(c) \subseteq Threads \X {m},
         \A d \in Conds : WaitingOn(d)' =
            IF d = c THEN WaitingOn(d) \cup {<<t, m>>} ELSE WaitingOn(d),
         SameHolders, SameCalls
  PROVE  M!Register(t, c, m)
  BY AwakeIsUnregistered DEF M!Register, M!WaitsWith, SameHolders, SameCalls

\* When a step is the monitor's CallNotify: signal or broadcast is called.
LEMMA ToCallNotify ==
  ASSUME NEW t \in Threads, NEW c \in Conds, NEW op, CallInProgress(t) = <<"no">>,
         \A u \in Threads : CallInProgress(u)' =
            IF u = t THEN <<op, c>> ELSE CallInProgress(u),
         SameHolders, SameWaiters
  PROVE  M!CallNotify(t, op, c)
  BY DEF M!CallNotify, SameHolders, SameWaiters

Returns(t) ==
    \A u \in Threads : CallInProgress(u)' = IF u = t THEN <<"no">> ELSE CallInProgress(u)

\* When a step is the monitor's Signal: one waiter, if there is one, leaves.
LEMMA ToSignal ==
  ASSUME NEW t \in Threads, NEW c \in Conds, CallInProgress(t) = <<"signal", c>>,
         Returns(t), SameHolders,
         \/ WaitingOn(c) = {} /\ SameWaiters
         \/ \E w \in WaitingOn(c) : \A d \in Conds :
               WaitingOn(d)' = IF d = c THEN WaitingOn(d) \ {w} ELSE WaitingOn(d)
  PROVE  M!Signal(t, c)
  BY DEF M!Signal, M!Return, Returns, SameHolders, SameWaiters

\* When a step is the monitor's Look: broadcast sees the mutex of a waiter.
LEMMA ToLook ==
  ASSUME NEW t \in Threads, NEW c \in Conds, NEW w \in WaitingOn(c),
         CallInProgress(t) = <<"broadcast", c>>,
         \A u \in Threads : CallInProgress(u)' =
            IF u = t THEN <<"broadcast", c, w[2]>> ELSE CallInProgress(u),
         SameHolders, SameWaiters
  PROVE  M!Look(t, c)
  BY DEF M!Look, SameHolders, SameWaiters

\* When a step is the monitor's Broadcast that finds nobody.
LEMMA ToBroadcastAtOnce ==
  ASSUME NEW t \in Threads, NEW c \in Conds, CallInProgress(t) = <<"broadcast", c>>,
         WaitingOn(c) = {}, Returns(t), SameHolders, SameWaiters
  PROVE  M!Broadcast(t, c)
  BY DEF M!Broadcast, M!Return, Returns, SameHolders, SameWaiters

\* When a step is the monitor's Broadcast: all waiters of the mutex it saw leave.
LEMMA ToBroadcast ==
  ASSUME NEW t \in Threads, NEW c \in Conds, NEW m \in Mutexes,
         CallInProgress(t) = <<"broadcast", c, m>>,
         Returns(t), SameHolders,
         WaitingOn(c)' = IF WaitingOn(c) \subseteq Threads \X {m} THEN {} ELSE WaitingOn(c),
         \A d \in Conds \ {c} : WaitingOn(d)' = WaitingOn(d)
  PROVE  M!Broadcast(t, c)
  BY DEF M!Broadcast, M!WaitsWith, M!Return, Returns, SameHolders

----------------------------------------------------------------------------
(* What the other threads keep while t takes a step *)

\* A thread's step leaves the control state of the others alone.
LEMMA OthersKeep ==
  ASSUME TypeOK, NEW t \in Threads, Internal(t) \/ Call(t),
         NEW u \in Threads, u # t
  PROVE  /\ pc'[u] = pc[u] /\ ret'[u] = ret[u] /\ mx'[u] = mx[u]
         /\ cv'[u] = cv[u] /\ val'[u] = val[u]
  <1> USE DEF TypeOK
  <1>1. CASE Acquire(t) \/ MarkParked(t) \/ WakeUp(t) \/ CallUnlock(t)
    BY <1>1 DEF Acquire, MarkParked, WakeUp, CallUnlock
  <1>2. CASE ParkOnMutex(t) \/ UnlockFast(t) \/ ParkOnCond(t)
    BY <1>2 DEF ParkOnMutex, UnlockFast, ParkOnCond
  <1>3. CASE UnlockFull(t) \/ SignalOne(t)
    BY <1>3 DEF UnlockFull, SignalOne, DequeueOne
  <1>4. CASE Unpark(t) \/ SignalLoad(t) \/ BroadcastLoad(t)
    BY <1>4 DEF Unpark, SignalLoad, BroadcastLoad
  <1>5. CASE LockFirst(t) \/ LockSecond(t) \/ Validate(t)
    BY <1>5 DEF LockFirst, LockSecond, Validate
  <1>6. CASE Mark(t) \/ Requeue(t)
    BY <1>6 DEF Mark, Requeue
  <1>7. CASE Call(t)
    BY <1>7 DEF Call, CallLock, CallWait, CallNotify
  <1> QED
    BY <1>1, <1>2, <1>3, <1>4, <1>5, <1>6, <1>7 DEF Internal

\* A thread's step leaves what the others own alone.
LEMMA OthersOwn ==
  ASSUME TypeOK, NEW t \in Threads, Internal(t) \/ Call(t)
  PROVE  \A u \in Threads \ {t} : (Owns(u)' <=> Owns(u)) /\ mx'[u] = mx[u]
  BY OthersKeep DEF Owns

\* A thread's step changes no other thread's call of signal or broadcast.
LEMMA OthersCall ==
  ASSUME TypeOK, NEW t \in Threads, Internal(t) \/ Call(t)
  PROVE  \A u \in Threads \ {t} : CallInProgress(u)' = CallInProgress(u)
  BY OthersKeep DEF CallInProgress

\* The invariant makes holders exact before and after a step.
LEMMA ExactHolders ==
  ASSUME Inv, Inv'
  PROVE  HolderExact /\ HolderExact'
  BY HolderIsOwner, HolderIsOwnerAfter DEF Inv, IInv, OwnInv

\* A step of a thread that owns what it owned keeps all holders.
LEMMA HoldersOfStep ==
  ASSUME Inv, Inv', NEW t \in Threads, Internal(t) \/ Call(t),
         Owns(t)' <=> Owns(t), Owns(t) => mx'[t] = mx[t]
  PROVE  SameHolders
  <1>1. \A u \in Threads : (Owns(u)' <=> Owns(u)) /\ (Owns(u) => mx'[u] = mx[u])
    BY OthersOwn DEF Inv, IInv
  <1> QED
    BY <1>1, ExactHolders, HoldersKept DEF SameHolders

\* A step of a thread that is in the call it was in keeps all calls.
LEMMA CallsOfStep ==
  ASSUME Inv, NEW t \in Threads, Internal(t) \/ Call(t),
         CallInProgress(t)' = CallInProgress(t)
  PROVE  SameCalls
  BY OthersCall DEF SameCalls, Inv, IInv

\* A step that leaves signal or broadcast is a return in the monitor.
LEMMA ReturnsOfStep ==
  ASSUME Inv, NEW t \in Threads, Internal(t) \/ Call(t),
         CallInProgress(t)' = <<"no">>
  PROVE  Returns(t)
  BY OthersCall DEF Returns, Inv, IInv

\* A step of t that changes no queue of c and neither begins nor ends a requeue of c.
LEMMA WaitersOfStep ==
  ASSUME Inv, NEW t \in Threads, Internal(t) \/ Call(t), NEW c \in Conds,
         \A u \in Threads : Queued(c, u)' <=> Queued(c, u),
         Sleeps(t) => mx'[t] = mx[t],
         pc'[t] \in {"mark", "requeue"} /\ cv'[t] = c <=>
            pc[t] \in {"mark", "requeue"} /\ cv[t] = c
  PROVE  WaitingOn(c)' = WaitingOn(c)
  <1>1. Taken(c)' <=> Taken(c)
    BY OthersKeep DEF Taken, Inv, IInv
  <1>2. \A u \in Threads : Queued(c, u) => mx'[u] = mx[u]
    BY OthersKeep DEF Sleeps, Addrs, Inv, IInv
  <1> QED
    BY <1>1, <1>2, WaitersKept

----------------------------------------------------------------------------
(* The actions of fast_mutex *)

\* The CAS that sets the lock bit is the monitor's Enter.
LEMMA AcquireEnters ==
  ASSUME Inv, Inv', NEW t \in Threads, Acquire(t)
  PROVE  \E m \in Mutexes : M!Enter(t, m)
  <1> USE DEF Inv, IInv, TypeOK
  <1>0. Internal(t)
    BY DEF Internal
  <1>1. mx[t] \in Mutexes /\ ~Held(mx[t])
    BY DEF Acquire, CallInv, OwnInv, LockBit, Held
  <1>2. Owns(t)' /\ mx' = mx
    BY DEF Acquire, Owns
  <1>3. /\ HolderOf(mx[t]) = NoThread
        /\ \A m \in Mutexes : HolderOf(m)' = IF m = mx[t] THEN t ELSE HolderOf(m)
    BY <1>0, <1>1, <1>2, ExactHolders, OthersOwn, HolderEnters
  <1>4. ~Sleeps(t)
    BY DEF Acquire, QueueInv, SleepInv, InPark
  <1>5. SameWaiters
    BY <1>0, WaitersOfStep DEF Acquire, SameWaiters, Queued
  <1>6. SameCalls
    BY <1>0, CallsOfStep DEF Acquire, CallInProgress
  <1> QED
    BY <1>1, <1>3, <1>4, <1>5, <1>6, ToEnter

\* An unlock, by unlock's CAS or by unlock_full's store.
LEMMA ReleaseLeaves ==
  ASSUME Inv, Inv', NEW t \in Threads, UnlockFast(t) \/ UnlockFull(t), ~Owns(t)'
  PROVE  \E m \in Mutexes : M!Leave(t, m)
  <1> USE DEF Inv, IInv
  <1>0. Internal(t)
    BY DEF Internal
  <1>1. mx[t] \in Mutexes /\ Owns(t) /\ mx' = mx /\ pc[t] \in {"unlock", "unlock_full"}
    BY DEF UnlockFast, UnlockFull, CallInv, Owns
  <1>2. /\ HolderOf(mx[t]) = t
        /\ \A m \in Mutexes : HolderOf(m)' = IF m = mx[t] THEN NoThread ELSE HolderOf(m)
    BY <1>0, <1>1, ExactHolders, OthersOwn, HolderLeaves
  <1>3. pc'[t] \notin {"mark", "requeue"} /\ CallInProgress(t)' = <<"no">>
    <2>1. pc'[t] \in {"idle", "held", "parked", "unpark", "unlock_full"}
      BY DEF UnlockFast, UnlockFull, DequeueOne, TypeOK
    <2> QED
      BY <2>1 DEF CallInProgress
  <1>4. \A c \in Conds, u \in Threads : Queued(c, u)' <=> Queued(c, u)
    <2>1. \A c \in Conds : queue'[c] = queue[c]
      BY <1>1, SentinelAssumption DEF UnlockFast, UnlockFull, DequeueOne, TypeOK, Addrs
    <2> QED
      BY <2>1 DEF Queued
  <1>5. SameWaiters
    BY <1>0, <1>1, <1>3, <1>4, WaitersOfStep DEF SameWaiters
  <1>6. SameCalls
    BY <1>0, <1>1, <1>3, CallsOfStep DEF CallInProgress
  <1> QED
    BY <1>1, <1>2, <1>5, <1>6, ToLeave

\* A step of t that leaves the sleepers of every condition, what t owns, and the call
\* t is in, is invisible in Monitor.
LEMMA Invisible ==
  ASSUME Inv, Inv', NEW t \in Threads, Internal(t) \/ Call(t),
         Owns(t)' <=> Owns(t), Owns(t) \/ Sleeps(t) => mx'[t] = mx[t],
         CallInProgress(t)' = CallInProgress(t),
         \A c \in Conds, u \in Threads : Queued(c, u)' <=> Queued(c, u),
         \A c \in Conds : pc'[t] \in {"mark", "requeue"} /\ cv'[t] = c <=>
                          pc[t] \in {"mark", "requeue"} /\ cv[t] = c
  PROVE  UNCHANGED M!monitorVars
  <1>1. SameWaiters
    BY WaitersOfStep DEF SameWaiters
  <1>2. SameHolders
    BY HoldersOfStep
  <1>3. SameCalls
    BY CallsOfStep
  <1> QED
    BY <1>1, <1>2, <1>3, Stutters

\* Marking, parking on the mutex and unparking do not show in the monitor.
LEMMA MutexStutters ==
  ASSUME Inv, Inv', NEW t \in Threads,
         \/ MarkParked(t) \/ ParkOnMutex(t) \/ WakeUp(t) \/ CallUnlock(t) \/ Unpark(t)
         \/ (UnlockFast(t) /\ pc'[t] = "unlock_full")
         \/ \E m \in Mutexes : CallLock(t, m)
  PROVE  UNCHANGED M!monitorVars
  <1> USE DEF Inv, IInv
  <1>0. Internal(t) \/ Call(t)
    BY DEF Internal, Call
  <1>1. \A c \in Conds : queue'[c] = queue[c]
    <2>1. CASE ParkOnMutex(t)
      <3>1. mx[t] \in Mutexes /\ (queue' = queue \/ Enqueue(t, mx[t]))
        BY <2>1 DEF ParkOnMutex, CallInv
      <3> QED
        BY <3>1, SentinelAssumption DEF Enqueue, TypeOK, Addrs
    <2>2. CASE ~ParkOnMutex(t)
      BY <2>2 DEF MarkParked, WakeUp, CallUnlock, Unpark, UnlockFast, CallLock
    <2> QED
      BY <2>1, <2>2
  <1>2. \A c \in Conds, u \in Threads : Queued(c, u)' <=> Queued(c, u)
    BY <1>1 DEF Queued
  <1>3. CASE MarkParked(t) \/ ParkOnMutex(t) \/ WakeUp(t)
    <2>1. /\ pc[t] \in {"lock", "park", "parked"} /\ pc'[t] \in {"lock", "park", "parked"}
          /\ mx' = mx
      BY <1>3 DEF MarkParked, ParkOnMutex, WakeUp, TypeOK
    <2> QED
      BY <1>0, <1>2, <2>1, Invisible DEF Owns, Notifying, CallInProgress
  <1>4. CASE CallUnlock(t) \/ (UnlockFast(t) /\ pc'[t] = "unlock_full")
    <2>1. /\ pc[t] \in {"held", "unlock"} /\ pc'[t] \in {"unlock", "unlock_full"}
          /\ mx' = mx
      BY <1>4 DEF CallUnlock, UnlockFast, TypeOK
    <2> QED
      BY <1>0, <1>2, <2>1, Invisible DEF Owns, Notifying, CallInProgress
  <1>5. CASE Unpark(t)
    <2>1. pc[t] = "unpark" /\ pc'[t] = ret[t] /\ UNCHANGED <<mx, ret>>
      BY <1>5 DEF Unpark, TypeOK
    <2>2. ret[t] \in {"idle", "held", "parked"}
      BY DEF TypeOK
    <2> QED
      BY <1>0, <1>2, <2>1, <2>2, Invisible DEF Owns, Notifying, CallInProgress
  <1>6. CASE \E m \in Mutexes : CallLock(t, m)
    <2>1. pc[t] = "idle" /\ pc'[t] = "lock"
      BY <1>6 DEF CallLock, TypeOK
    <2>2. ~Sleeps(t)
      BY <2>1 DEF QueueInv, SleepInv, InPark
    <2> QED
      BY <1>0, <1>2, <2>1, <2>2, Invisible DEF Owns, Notifying, CallInProgress
  <1> QED
    BY <1>3, <1>4, <1>5, <1>6

----------------------------------------------------------------------------
(* wait and signal *)

\* With its bucket free, no broadcast has taken the sleepers of a condition.
LEMMA FreeIsNotTaken ==
  ASSUME Inv, NEW c \in Conds, BucketFree(c)
  PROVE  ~Taken(c) /\ \A t \in Threads : ~Requeueing(t, c)
  BY FreeBucket DEF Inv, QueueInv, Holding, Addrs, Taken, Requeueing

\* Everybody registered with a condition waits with the mutex it is associated with.
LEMMA CondIsMutexOfWaiters ==
  ASSUME Inv, NEW c \in Conds, ~Taken(c)
  PROVE  /\ cond[c] = NoMutex <=> WaitingOn(c) = {}
         /\ WaitingOn(c) \subseteq Threads \X {cond[c]}
  <1> USE DEF Inv, IInv
  <1>1. /\ cond[c] = NoMutex <=> queue[c] = <<>>
        /\ \A u \in Threads : Queued(c, u) => mx[u] = cond[c]
    BY DEF QueueInv, CondInv, Taken, Requeueing
  <1>2. queue[c] = <<>> <=> \A u \in Threads : ~Queued(c, u)
    BY EmptyQueue DEF Addrs
  <1>3. WaitingOn(c) = {<<u, mx[u]>> : u \in {u \in Threads : Queued(c, u)}}
    BY DEF WaitingOn
  <1>4. WaitingOn(c) = {} <=> \A u \in Threads : ~Queued(c, u)
    BY <1>3
  <1>5. WaitingOn(c) \subseteq Threads \X {cond[c]}
    BY <1>1, <1>3
  <1> QED
    BY <1>1, <1>2, <1>4, <1>5

\* Parking on a condition, under the bucket lock, is the monitor's Register.
LEMMA ParkRegisters ==
  ASSUME Inv, Inv', NEW t \in Threads, ParkOnCond(t), pc'[t] = "unlock"
  PROVE  \E c \in Conds, m \in Mutexes : M!Register(t, c, m)
  <1> USE DEF Inv, IInv
  <1>0. Internal(t)
    BY DEF Internal
  <1>1. /\ pc[t] = "wait" /\ cv[t] \in Conds /\ mx[t] \in Mutexes /\ BucketFree(cv[t])
        /\ cond[cv[t]] \in {NoMutex, mx[t]} /\ Enqueue(t, cv[t])
        /\ UNCHANGED <<mx, cv>>
    BY DEF ParkOnCond, CallInv, TypeOK
  <1>2. ~Sleeps(t)
    BY <1>1 DEF QueueInv, SleepInv, InPark
  <1>3. \A c \in Conds, u \in Threads :
           Queued(c, u)' <=> Queued(c, u) \/ (c = cv[t] /\ u = t)
    BY <1>1, <1>2, EnqueueQueued DEF QueueInv, Addrs
  <1>4. ~Taken(cv[t]) /\ WaitingOn(cv[t]) \subseteq Threads \X {mx[t]}
    BY <1>1, FreeIsNotTaken, CondIsMutexOfWaiters
  <1>5. \A c \in Conds : c # cv[t] => WaitingOn(c)' = WaitingOn(c)
    BY <1>0, <1>1, <1>3, WaitersOfStep
  <1>6. WaitingOn(cv[t])' = WaitingOn(cv[t]) \cup {<<t, mx[t]>>}
    <2>1. ~Taken(cv[t])' /\ cv[t]' = cv[t]
      BY <1>0, <1>1, <1>4, OthersKeep DEF Taken
    <2>2. WaitingOn(cv[t])' = {<<u, mx[u]>> : u \in {u \in Threads : Queued(cv[t], u)'}}
      BY <1>1, <2>1 DEF WaitingOn
    <2>3. WaitingOn(cv[t]) = {<<u, mx[u]>> : u \in {u \in Threads : Queued(cv[t], u)}}
      BY <1>4 DEF WaitingOn
    <2> QED
      BY <1>1, <1>3, <2>2, <2>3
  <1>7. HolderOf(mx[t]) = t
    BY <1>1, ExactHolders DEF HolderExact, Owns
  <1>8. SameHolders
    BY <1>0, <1>1, HoldersOfStep DEF Owns
  <1>9. SameCalls
    BY <1>0, <1>1, CallsOfStep DEF CallInProgress
  <1> QED
    BY <1>1, <1>2, <1>4, <1>5, <1>6, <1>7, <1>8, <1>9, ToRegister

\* signal's early return: nobody waits with a condition that has no mutex.
LEMMA LoadSignals ==
  ASSUME Inv, Inv', NEW t \in Threads, SignalLoad(t), cond[cv[t]] = NoMutex
  PROVE  \E c \in Conds : M!Signal(t, c)
  <1> USE DEF Inv, IInv
  <1>0. Internal(t)
    BY DEF Internal
  <1>1. /\ pc[t] = "signal" /\ pc'[t] = ret[t] /\ ret[t] \in {"idle", "held"}
        /\ cv[t] \in Conds /\ UNCHANGED <<queue, mx, cv, ret>>
    BY DEF SignalLoad, CallInv, Notifying, TypeOK
  <1>2. WaitingOn(cv[t]) = {}
    BY <1>1, CondIsMutexOfWaiters, NobodyWaits
  <1>3. SameHolders
    BY <1>0, <1>1, HoldersOfStep DEF Owns, Notifying
  <1>4. SameWaiters
    BY <1>0, <1>1, WaitersOfStep DEF SameWaiters, Queued
  <1>5. Returns(t)
    BY <1>0, <1>1, ReturnsOfStep DEF CallInProgress
  <1>6. CallInProgress(t) = <<"signal", cv[t]>>
    BY <1>1 DEF CallInProgress
  <1> QED
    BY <1>1, <1>2, <1>3, <1>4, <1>5, <1>6, ToSignal

\* unpark_one is the monitor's Signal.
LEMMA OneSignals ==
  ASSUME Inv, Inv', NEW t \in Threads, SignalOne(t)
  PROVE  \E c \in Conds : M!Signal(t, c)
  <1> USE DEF Inv, IInv
  <1>0. Internal(t)
    BY DEF Internal
  <1>1. /\ pc[t] = "signal_one" /\ ret[t] \in {"idle", "held"} /\ cv[t] \in Conds
        /\ UNCHANGED <<mx, cv, ret>> /\ BucketFree(cv[t]) /\ DequeueOne(t, cv[t])
    BY DEF SignalOne, CallInv, Notifying
  <1>2. pc'[t] \in {"idle", "held", "unpark"} /\ (pc'[t] # "unpark" => pc'[t] = ret[t])
    BY <1>1 DEF DequeueOne, TypeOK
  <1>3. SameHolders
    BY <1>0, <1>1, <1>2, HoldersOfStep DEF Owns, Notifying
  <1>4. Returns(t)
    BY <1>0, <1>2, ReturnsOfStep DEF CallInProgress
  <1>5. CallInProgress(t) = <<"signal", cv[t]>>
    BY <1>1 DEF CallInProgress
  <1>6. ~Taken(cv[t])
    BY <1>1, FreeIsNotTaken
  <1>7. \/ WaitingOn(cv[t]) = {} /\ SameWaiters
        \/ \E w \in WaitingOn(cv[t]) : \A d \in Conds :
              WaitingOn(d)' = IF d = cv[t] THEN WaitingOn(d) \ {w} ELSE WaitingOn(d)
    <2>1. CASE queue[cv[t]] = <<>>
      <3>1. UNCHANGED queue
        BY <1>1, <2>1 DEF DequeueOne
      <3>2. SameWaiters
        BY <1>0, <1>1, <1>2, <3>1, WaitersOfStep DEF SameWaiters, Queued
      <3>3. \A u \in Threads : ~Queued(cv[t], u)
        BY <1>1, <2>1, EmptyQueue DEF Addrs
      <3> QED
        BY <1>1, <3>2, <3>3, NobodyWaits
    <2>2. CASE queue[cv[t]] # <<>>
      <3>0. queue' = [queue EXCEPT ![cv[t]] = Tail(queue[cv[t]])] /\ cv[t] \in Addrs
        BY <1>1, <2>2 DEF DequeueOne, Addrs
      <3>1. PICK h \in Threads :
               /\ Queued(cv[t], h)
               /\ \A b \in Addrs, u \in Threads : Queued(b, u)' <=> Queued(b, u) /\ u # h
        BY <2>2, <3>0, DequeueQueued DEF QueueInv
      <3>2. \A d \in Conds \ {cv[t]} : ~Queued(d, h)
        BY <1>1, <3>1 DEF QueueInv, Distinct, Queued, Addrs
      <3>3. \A d \in Conds \ {cv[t]} : WaitingOn(d)' = WaitingOn(d)
        BY <1>0, <1>1, <1>2, <3>1, <3>2, WaitersOfStep DEF Addrs
      <3>4. ~Taken(cv[t])' /\ cv[t]' = cv[t]
        BY <1>0, <1>1, <1>2, <1>6, OthersKeep DEF Taken
      <3>5. WaitingOn(cv[t])' = {<<u, mx[u]>> : u \in {u \in Threads : Queued(cv[t], u)'}}
        BY <1>1, <3>4 DEF WaitingOn
      <3>6. WaitingOn(cv[t]) = {<<u, mx[u]>> : u \in {u \in Threads : Queued(cv[t], u)}}
        BY <1>6 DEF WaitingOn
      <3>7. /\ <<h, mx[h]>> \in WaitingOn(cv[t])
            /\ WaitingOn(cv[t])' = WaitingOn(cv[t]) \ {<<h, mx[h]>>}
        BY <1>1, <3>1, <3>5, <3>6 DEF Addrs
      <3>8. \A d \in Conds : WaitingOn(d)' =
               IF d = cv[t] THEN WaitingOn(d) \ {<<h, mx[h]>>} ELSE WaitingOn(d)
        BY <3>3, <3>4, <3>7
      <3> QED
        BY <3>7, <3>8
    <2> QED
      BY <2>1, <2>2
  <1> QED
    BY <1>1, <1>3, <1>4, <1>5, <1>7, ToSignal

----------------------------------------------------------------------------
(* broadcast *)

\* A broadcast that finds no mutex returns, else it has seen the mutex of the waiters.
LEMMA LoadLooks ==
  ASSUME Inv, Inv', NEW t \in Threads, BroadcastLoad(t)
  PROVE  \E c \in Conds : M!Look(t, c) \/ M!Broadcast(t, c)
  <1> USE DEF Inv, IInv
  <1>0. Internal(t)
    BY DEF Internal
  <1>1. /\ pc[t] = "broadcast" /\ ret[t] \in {"idle", "held"} /\ cv[t] \in Conds
        /\ pc'[t] = (IF cond[cv[t]] = NoMutex THEN ret[t] ELSE "lock_first")
        /\ val'[t] = cond[cv[t]] /\ UNCHANGED <<queue, mx, cv, ret>>
    BY DEF BroadcastLoad, CallInv, Notifying, TypeOK
  <1>2. SameHolders
    BY <1>0, <1>1, HoldersOfStep DEF Owns, Notifying
  <1>3. SameWaiters
    BY <1>0, <1>1, WaitersOfStep DEF SameWaiters, Queued
  <1>4. CallInProgress(t) = <<"broadcast", cv[t]>>
    BY <1>1 DEF CallInProgress
  <1>5. CASE cond[cv[t]] = NoMutex
    <2>1. WaitingOn(cv[t]) = {}
      BY <1>1, <1>5, CondIsMutexOfWaiters, NobodyWaits
    <2>2. Returns(t)
      BY <1>0, <1>1, <1>5, ReturnsOfStep DEF CallInProgress
    <2> QED
      BY <1>1, <1>2, <1>3, <1>4, <2>1, <2>2, ToBroadcastAtOnce
  <1>6. CASE cond[cv[t]] # NoMutex
    <2>1. ~Taken(cv[t])
      BY <1>1, <1>6 DEF QueueInv, CondInv, Taken, Requeueing
    <2>2. PICK w \in WaitingOn(cv[t]) : w[2] = cond[cv[t]]
      BY <1>1, <1>6, <2>1, CondIsMutexOfWaiters
    <2>3. CallInProgress(t)' = <<"broadcast", cv[t], w[2]>>
      BY <1>1, <1>6, <2>2 DEF CallInProgress
    <2>4. \A u \in Threads : CallInProgress(u)' =
             IF u = t THEN <<"broadcast", cv[t], w[2]>> ELSE CallInProgress(u)
      BY <1>0, <2>3, OthersCall
    <2> QED
      BY <1>1, <1>2, <1>3, <1>4, <2>4, ToLook
  <1> QED
    BY <1>5, <1>6

\* validate, under both buckets: all the waiters are taken, unless they wait with
\* another mutex than the broadcast has read.
LEMMA ValidateBroadcasts ==
  ASSUME Inv, Inv', NEW t \in Threads, Validate(t)
  PROVE  \E c \in Conds : M!Broadcast(t, c)
  <1> USE DEF Inv, IInv
  <1>0. Internal(t)
    BY DEF Internal
  <1>1. /\ pc[t] = "validate" /\ ret[t] \in {"idle", "held"}
        /\ cv[t] \in Conds /\ val[t] \in Mutexes /\ UNCHANGED <<queue, mx, cv, ret>>
        /\ pc'[t] = (IF cond[cv[t]] = val[t] THEN "mark" ELSE ret[t])
    BY DEF Validate, CallInv, Notifying, Broadcasting, TypeOK
  <1>2. SameHolders
    BY <1>0, <1>1, HoldersOfStep DEF Owns, Notifying
  <1>3. Returns(t)
    BY <1>0, <1>1, ReturnsOfStep DEF CallInProgress
  <1>4. CallInProgress(t) = <<"broadcast", cv[t], val[t]>>
    BY <1>1 DEF CallInProgress
  <1>5. \A d \in Conds \ {cv[t]} : WaitingOn(d)' = WaitingOn(d)
    BY <1>0, <1>1, WaitersOfStep DEF Queued
  <1>6. ~Taken(cv[t])
    BY <1>1 DEF Taken, QueueInv, HoldInv, FromBucket
  <1>7. /\ cond[cv[t]] = NoMutex <=> WaitingOn(cv[t]) = {}
        /\ WaitingOn(cv[t]) \subseteq Threads \X {cond[cv[t]]}
    BY <1>1, <1>6, CondIsMutexOfWaiters
  <1> DEFINE taken == WaitingOn(cv[t]) \subseteq Threads \X {val[t]}
  <1>8. WaitingOn(cv[t])' = IF taken THEN {} ELSE WaitingOn(cv[t])
    <2>1. CASE cond[cv[t]] = val[t]
      <3>1. Taken(cv[t])'
        BY <1>1, <2>1 DEF Taken
      <3>2. WaitingOn(cv[t])' = {}
        BY <3>1 DEF WaitingOn
      <3> QED
        BY <1>7, <2>1, <3>2
    <2>2. CASE cond[cv[t]] # val[t]
      <3>1. WaitingOn(cv[t])' = WaitingOn(cv[t])
        <4>1. \A c \in Conds : c = cv[t] => WaitingOn(c)' = WaitingOn(c)
          BY <1>0, <1>1, <2>2, WaitersOfStep DEF Queued
        <4> QED
          BY <1>1, <4>1
      <3>2. taken => WaitingOn(cv[t]) = {}
        <4>1. \A w \in WaitingOn(cv[t]) : w[2] = cond[cv[t]]
          BY <1>7
        <4>2. taken => \A w \in WaitingOn(cv[t]) : w[2] = val[t]
          OBVIOUS
        <4> QED
          BY <2>2, <4>1, <4>2
      <3> QED
        BY <3>1, <3>2
    <2> QED
      BY <2>1, <2>2
  <1>9. \A c \in Conds : c = cv[t] =>
           WaitingOn(c)' = IF WaitingOn(c) \subseteq Threads \X {val[t]} THEN {}
                                                                         ELSE WaitingOn(c)
    BY <1>1, <1>8
  <1> QED
    BY <1>1, <1>2, <1>3, <1>4, <1>5, <1>9, ToBroadcast

\* The requeue moves sleepers whom its validate has taken off the condition before.
LEMMA RequeueStutters ==
  ASSUME Inv, Inv', NEW t \in Threads, Requeue(t)
  PROVE  UNCHANGED M!monitorVars
  <1> USE DEF Inv, IInv
  <1>0. Internal(t)
    BY DEF Internal
  <1>1. /\ pc[t] = "requeue" /\ ret[t] \in {"idle", "held"}
        /\ cv[t] \in Conds /\ val[t] \in Mutexes /\ UNCHANGED <<mx, cv, ret>>
        /\ pc'[t] \in {"unpark", ret[t]} /\ queue[cv[t]] # <<>>
    BY DEF Requeue, CallInv, Notifying, Broadcasting, TypeOK, QueueInv, CondInv, Requeueing
  <1>2. SameHolders
    BY <1>0, <1>1, HoldersOfStep DEF Owns, Notifying
  <1>3. SameCalls
    BY <1>0, <1>1, CallsOfStep DEF CallInProgress
  <1>4. \A b \in Addrs, u \in Threads :
           Queued(b, u)' <=>
              /\ b # cv[t]
              /\ \/ Queued(b, u)
                 \/ /\ b = val[t] /\ Queued(cv[t], u)
                    /\ ~(one[t] /\ u = Head(queue[cv[t]]))
    BY <1>1, RequeueQueued DEF QueueInv
  <1>5. ASSUME NEW c \in Conds PROVE WaitingOn(c)' = WaitingOn(c)
    <2>1. CASE c = cv[t]
      <3>1. Taken(c)
        BY <1>1, <2>1 DEF Taken
      <3>2. \A u \in Threads : ~Queued(c, u)'
        BY <1>4, <2>1 DEF Addrs
      <3> QED
        BY <3>1, <3>2, NobodyWaits, NobodyWaitsAfter
    <2>2. CASE c # cv[t]
      <3>1. \A u \in Threads : Queued(c, u)' <=> Queued(c, u)
        BY <1>1, <1>4, <2>2, SentinelAssumption DEF Addrs
      <3> QED
        BY <1>0, <1>1, <2>2, <3>1, WaitersOfStep
    <2> QED
      BY <2>1, <2>2
  <1> QED
    BY <1>2, <1>3, <1>5, Stutters DEF SameWaiters

\* The other steps of wait, signal and broadcast: the callers cannot tell them.
LEMMA CondStutters ==
  ASSUME Inv, Inv', NEW t \in Threads,
         \/ (SignalLoad(t) /\ pc'[t] = "signal_one")
         \/ (ParkOnCond(t) /\ pc'[t] = "held")
         \/ LockFirst(t) \/ LockSecond(t) \/ Mark(t)
         \/ \E c \in Conds : CallWait(t, c)
  PROVE  UNCHANGED M!monitorVars
  <1> USE DEF Inv, IInv
  <1>0. Internal(t) \/ Call(t)
    BY DEF Internal, Call
  <1>1. UNCHANGED <<queue, mx>>
    BY DEF SignalLoad, ParkOnCond, LockFirst, LockSecond, Mark, CallWait, TypeOK
  <1>2. \A c \in Conds, u \in Threads : Queued(c, u)' <=> Queued(c, u)
    BY <1>1 DEF Queued
  <1>3. CASE SignalLoad(t) /\ pc'[t] = "signal_one"
    <2>1. pc[t] = "signal" /\ UNCHANGED <<cv, ret>>
      BY <1>3 DEF SignalLoad
    <2> QED
      BY <1>0, <1>1, <1>2, <1>3, <2>1, Invisible DEF Owns, Notifying, CallInProgress
  <1>4. CASE (ParkOnCond(t) /\ pc'[t] = "held") \/ \E c \in Conds : CallWait(t, c)
    <2>1. pc[t] \in {"wait", "held"} /\ pc'[t] \in {"wait", "held"}
      BY <1>4 DEF ParkOnCond, CallWait, TypeOK
    <2> QED
      BY <1>0, <1>1, <1>2, <2>1, Invisible DEF Owns, Notifying, CallInProgress
  <1>5. CASE LockFirst(t) \/ LockSecond(t)
    <2>1. /\ pc[t] \in {"lock_first", "lock_second"} /\ pc'[t] \in {"lock_second", "validate"}
          /\ UNCHANGED <<cv, val, ret>>
      BY <1>5 DEF LockFirst, LockSecond, TypeOK
    <2> QED
      BY <1>0, <1>1, <1>2, <2>1, Invisible DEF Owns, Notifying, CallInProgress
  <1>6. CASE Mark(t)
    <2>1. pc[t] = "mark" /\ pc'[t] = "requeue" /\ UNCHANGED <<cv, ret>>
      BY <1>6 DEF Mark, TypeOK
    <2> QED
      BY <1>0, <1>1, <1>2, <2>1, Invisible DEF Owns, Notifying, CallInProgress
  <1> QED
    BY <1>3, <1>4, <1>5, <1>6

\* The calls of signal and broadcast are the monitor's.
LEMMA CallNotifies ==
  ASSUME Inv, Inv', NEW t \in Threads, NEW c \in Conds,
         NEW op \in {"signal", "broadcast"}, CallNotify(t, op, c)
  PROVE  M!CallNotify(t, op, c)
  <1> USE DEF Inv, IInv
  <1>0. Call(t)
    BY DEF Call
  <1>1. /\ pc[t] \in {"idle", "held"} /\ pc'[t] = op /\ cv'[t] = c /\ ret'[t] = pc[t]
        /\ UNCHANGED <<queue, mx>>
    BY DEF CallNotify, TypeOK
  <1>2. SameHolders
    BY <1>0, <1>1, HoldersOfStep DEF Owns, Notifying
  <1>3. SameWaiters
    BY <1>0, <1>1, WaitersOfStep DEF SameWaiters, Queued
  <1>4. CallInProgress(t) = <<"no">> /\ CallInProgress(t)' = <<op, c>>
    BY <1>1 DEF CallInProgress
  <1>5. \A u \in Threads : CallInProgress(u)' = IF u = t THEN <<op, c>> ELSE CallInProgress(u)
    BY <1>0, <1>4, OthersCall
  <1> QED
    BY <1>2, <1>3, <1>4, <1>5, ToCallNotify

----------------------------------------------------------------------------
(* The refinement *)

\* The library starts as the monitor does.
LEMMA MonitorStart == Init => M!MonitorInit
  <1> SUFFICES ASSUME Init PROVE M!MonitorInit
    OBVIOUS
  <1>1. \A t \in Threads : pc[t] = "idle"
    BY DEF Init
  <1>2. \A m \in Mutexes : HolderOf(m) = NoThread
    BY <1>1 DEF HolderOf, Held, Owns, Notifying
  <1>3. \A c \in Conds, u \in Threads : ~Queued(c, u)
    BY EmptySeq DEF Init, Queued, Addrs
  <1>4. \A c \in Conds : WaitingOn(c) = {}
    BY <1>3, NobodyWaits
  <1>5. \A t \in Threads : CallInProgress(t) = <<"no">>
    BY <1>1 DEF CallInProgress
  <1> QED
    BY <1>2, <1>4, <1>5 DEF M!MonitorInit

\* Every step of a thread is a step of the monitor or a stutter of it.
LEMMA MonitorStep ==
  ASSUME Inv, Inv', [Next]_vars
  PROVE  [M!MonitorNext]_M!monitorVars
  <1>1. ASSUME NEW t \in Threads, Internal(t) \/ Call(t)
        PROVE  M!MonitorNext \/ UNCHANGED M!monitorVars
    <2>1. CASE Acquire(t)
      BY <2>1, AcquireEnters DEF M!MonitorNext
    <2>2. CASE MarkParked(t) \/ ParkOnMutex(t) \/ WakeUp(t) \/ CallUnlock(t) \/ Unpark(t)
      BY <2>2, MutexStutters
    <2>3. CASE UnlockFast(t) \/ UnlockFull(t)
      <3>1. /\ pc[t] \in {"unlock", "unlock_full"} /\ ret[t] \in {"idle", "parked"}
            /\ pc'[t] \in {"unlock_full", "unpark", ret[t]} /\ ret' = ret
            /\ pc'[t] = "unlock_full" => UnlockFast(t)
        BY <2>3 DEF UnlockFast, UnlockFull, DequeueOne, Inv, IInv, CallInv, TypeOK
      <3>2. CASE pc'[t] = "unlock_full"
        BY <3>1, <3>2, MutexStutters
      <3>3. CASE pc'[t] # "unlock_full"
        <4>1. ~Owns(t)'
          BY <3>1, <3>3 DEF Owns, Notifying
        <4> QED
          BY <2>3, <4>1, ReleaseLeaves DEF M!MonitorNext
      <3> QED
        BY <3>2, <3>3
    <2>4. CASE ParkOnCond(t)
      <3>1. pc'[t] \in {"unlock", "held"}
        BY <2>4 DEF ParkOnCond, Inv, IInv, TypeOK
      <3> QED
        BY <2>4, <3>1, ParkRegisters, CondStutters DEF M!MonitorNext
    <2>5. CASE SignalLoad(t)
      <3>1. cond[cv[t]] # NoMutex => pc'[t] = "signal_one"
        BY <2>5 DEF SignalLoad, Inv, IInv, TypeOK
      <3> QED
        BY <2>5, <3>1, LoadSignals, CondStutters DEF M!MonitorNext
    <2>6. CASE SignalOne(t)
      BY <2>6, OneSignals DEF M!MonitorNext
    <2>7. CASE BroadcastLoad(t)
      BY <2>7, LoadLooks DEF M!MonitorNext
    <2>8. CASE LockFirst(t) \/ LockSecond(t) \/ Mark(t)
      BY <2>8, CondStutters
    <2>9. CASE Validate(t)
      BY <2>9, ValidateBroadcasts DEF M!MonitorNext
    <2>10. CASE Requeue(t)
      BY <2>10, RequeueStutters
    <2>11. CASE Call(t)
      <3>1. CASE \E m \in Mutexes : CallLock(t, m)
        BY <3>1, MutexStutters
      <3>2. CASE \E c \in Conds : CallWait(t, c)
        BY <3>2, CondStutters
      <3>3. CASE \E c \in Conds : CallNotify(t, "signal", c) \/ CallNotify(t, "broadcast", c)
        BY <3>3, CallNotifies DEF M!MonitorNext
      <3> QED
        BY <2>11, <3>1, <3>2, <3>3 DEF Call
    <2> QED
      BY <1>1, <2>1, <2>2, <2>3, <2>4, <2>5, <2>6, <2>7, <2>8, <2>9, <2>10, <2>11
         DEF Internal
  <1>2. CASE UNCHANGED vars
    BY <1>2 DEF vars, M!monitorVars, HolderOf, Held, Owns, WaitingOn, Taken, Queued,
       CallInProgress
  <1> QED
    BY <1>1, <1>2 DEF Next

\* halide_mutex and halide_cond are a monitor: every step of the lock words, the queues
\* and the buckets is a step of Monitor or changes nothing a caller can tell.  No waiter
\* owns the mutex again before it was taken off the condition, a signal takes a waiter
\* if there is one, a broadcast takes all those that wait with the mutex it has read.
THEOREM Refinement == Spec => MonitorSpec
  <1>1. Spec => []Inv
    BY QueueInvariance DEF Inv
  <1>2. Inv /\ Inv' /\ [Next]_vars => [M!MonitorNext]_M!monitorVars
    BY MonitorStep
  <1> QED
    BY <1>1, <1>2, MonitorStart, PTL DEF Spec, MonitorSpec, M!MonitorSpec
-----------------------------------------------------------------------------
(***************************************************************************)
(* halide_cond_with_spinning, the third user of a mutex and a condition,   *)
(* for any number of threads and of looks at the counter: nobody sleeps    *)
(* through a broadcast, and whether a waiter spins or sleeps cannot be     *)
(* told from outside: it is a Monitor, as the mutex and condition are.     *)
(***************************************************************************)
CONSTANTS Spins, MaxBroadcasts
VARIABLES holder, counter, asleep, place, initial, spin

S == INSTANCE SpinningCond WITH pc <- place

SpinPlaces == {"outside", "inside", "begin", "spin", "give_up", "relock", "sleep", "asleep",
           "broadcast", "broadcast_cond"}

SpinTypes ==
    /\ holder \in Threads \cup {NoThread}
    /\ counter \in Nat
    /\ asleep \subseteq Threads
    /\ place \in [Threads -> SpinPlaces]
    /\ initial \in [Threads -> Nat]

\* The mutex is held by whoever is between its lock and its unlock.
HolderInv ==
    \A t \in Threads :
        holder = t <=> place[t] \in {"inside", "begin", "sleep", "broadcast", "broadcast_cond"}

\* The counter only grows, and not while somebody holds the mutex to wait.
CounterInv ==
    \A t \in Threads :
        /\ initial[t] <= counter
        /\ place[t] \in {"begin", "sleep"} => initial[t] = counter

\* Between the two halves of a broadcast nobody has seen the new counter, and whoever is
\* asleep no longer has been woken by one that came after its last look.
SpinSleepInv ==
    \A t \in Threads :
        /\ place[t] = "broadcast_cond" => \A u \in Threads : initial[u] < counter
        /\ t \in asleep => place[t] = "asleep"
        /\ place[t] = "asleep" /\ t \notin asleep => initial[t] < counter

SpinInv == SpinTypes /\ HolderInv /\ CounterInv /\ SpinSleepInv /\ S!NoSleeperMissed

\* Nobody waits yet.
LEMMA InitSpinInv == ASSUME NoThread \notin Threads PROVE S!Init => SpinInv
  BY DEF S!Init, SpinInv, SpinTypes, HolderInv, CounterInv, SpinSleepInv, S!NoSleeperMissed,
         SpinPlaces

\* A step of any thread keeps the invariant: whatever changes the counter or wakes sleepers
\* holds the mutex, and so does who decides to sleep.
LEMMA SpinInductive ==
  ASSUME NoThread \notin Threads
  PROVE  SpinInv /\ [S!Next]_(S!vars) => SpinInv'
  <1> SUFFICES ASSUME SpinInv, [S!Next]_(S!vars) PROVE SpinInv'
    OBVIOUS
  <1> USE DEF SpinInv, SpinTypes, HolderInv, CounterInv, SpinSleepInv, S!NoSleeperMissed,
              SpinPlaces, S!Go
  <1>1. CASE UNCHANGED S!vars
    BY <1>1 DEF S!vars
  <1>2. ASSUME NEW t \in Threads, S!Lock(t) PROVE SpinInv'
    BY <1>2 DEF S!Lock
  <1>3. ASSUME NEW t \in Threads, S!Unlock(t) PROVE SpinInv'
    BY <1>3 DEF S!Unlock
  <1>4. ASSUME NEW t \in Threads, S!BeginWait(t) PROVE SpinInv'
    BY <1>4 DEF S!BeginWait
  <1>5. ASSUME NEW t \in Threads, S!StartSpinning(t) PROVE SpinInv'
    BY <1>5 DEF S!StartSpinning
  <1>6. ASSUME NEW t \in Threads, S!Spin(t) PROVE SpinInv'
    BY <1>6 DEF S!Spin
  <1>7. ASSUME NEW t \in Threads, S!Return(t) PROVE SpinInv'
    BY <1>7 DEF S!Return
  <1>8. ASSUME NEW t \in Threads, S!Recheck(t) PROVE SpinInv'
    BY <1>8 DEF S!Recheck
  <1>9. ASSUME NEW t \in Threads, S!Sleep(t) PROVE SpinInv'
    BY <1>9 DEF S!Sleep
  <1>10. ASSUME NEW t \in Threads, S!Awake(t) PROVE SpinInv'
    BY <1>10 DEF S!Awake
  <1>11. ASSUME NEW t \in Threads, S!CallBroadcast(t) PROVE SpinInv'
    BY <1>11 DEF S!CallBroadcast
  <1>12. ASSUME NEW t \in Threads, S!ReleaseSpinning(t) PROVE SpinInv'
    BY <1>12 DEF S!ReleaseSpinning
  <1>13. ASSUME NEW t \in Threads, S!ReleaseSleeping(t) PROVE SpinInv'
    BY <1>13 DEF S!ReleaseSleeping
  <1> QED
    BY <1>1, <1>2, <1>3, <1>4, <1>5, <1>6, <1>7, <1>8, <1>9, <1>10, <1>11, <1>12, <1>13
       DEF S!Next, S!Waiting, S!Broadcasting

\* The invariant of spinning waiters holds of every behaviour.
THEOREM SpinInvariance == ASSUME NoThread \notin Threads PROVE S!Spec => []SpinInv
  BY InitSpinInv, SpinInductive, PTL DEF S!Spec

\* The last look at the counter is made with the mutex held, so that no broadcast comes
\* between it and the sleep: nobody sleeps through one.
THEOREM NobodyMissed == ASSUME NoThread \notin Threads PROVE S!Spec => []S!NoSleeperMissed
  <1>1. SpinInv => S!NoSleeperMissed
    BY DEF SpinInv
  <1> QED
    BY <1>1, SpinInvariance, PTL
-----------------------------------------------------------------------------
(* The mapping of SpinningCond: who has the monitor, and who is registered *)

Holds == IF \E t \in Threads : place[t] = "sleep" THEN NoThread ELSE holder
Notifies(t) == IF place[t] = "broadcast" THEN <<"broadcast", "cond">> ELSE <<"no">>

\* The mapped variables, by name, for one mutex and one condition.
LEMMA Mapped ==
    /\ S!M!MonitorInit <=>
         /\ [x \in {"mutex"} |-> Holds] = [x \in {"mutex"} |-> NoThread]
         /\ [x \in {"cond"} |-> S!WaitersNow \X {"mutex"}] = [x \in {"cond"} |-> {}]
         /\ [t \in Threads |-> Notifies(t)] = [t \in Threads |-> <<"no">>]
    /\ \A t \in Threads :
         (\E x \in {"cond"}, y \in {"mutex"} :
              <<t, y>> \in [z \in {"cond"} |-> S!WaitersNow \X {"mutex"}][x]) <=> t \in S!WaitersNow
  BY DEF S!M!MonitorInit, Holds, Notifies

\* What a step leaves of the mapped variables.
SameHolder   == Holds' = Holds
SameSleepers  == S!WaitersNow' = S!WaitersNow
SameNotifies == \A t \in Threads : Notifies(t)' = Notifies(t)

\* A step that changes none of them is a stutter of the monitor.
LEMMA Stutter ==
  ASSUME SameHolder, SameSleepers, SameNotifies
  PROVE  UNCHANGED S!M!monitorVars
  BY DEF S!M!monitorVars, SameHolder, SameSleepers, SameNotifies, Holds, Notifies

\* A step that gives the mutex to a thread that no longer waits enters the monitor.
LEMMA Enters ==
  ASSUME NEW t \in Threads, Holds = NoThread, t \notin S!WaitersNow, Holds' = t,
         SameSleepers, SameNotifies
  PROVE  S!M!Enter(t, "mutex")
  BY DEF S!M!Enter, S!M!Registered, SameSleepers, SameNotifies, Holds, Notifies

\* A step that takes it away leaves the monitor.
LEMMA Leaves ==
  ASSUME NEW t \in Threads, Holds = t, Holds' = NoThread, SameSleepers, SameNotifies
  PROVE  S!M!Leave(t, "mutex")
  BY DEF S!M!Leave, SameSleepers, SameNotifies, Holds, Notifies

\* A step of its holder that makes it a waiter is the first half of a wait.
LEMMA Registers ==
  ASSUME NEW t \in Threads, Holds = t, t \notin S!WaitersNow, S!WaitersNow' = S!WaitersNow \cup {t},
         SameHolder, SameNotifies
  PROVE  S!M!Register(t, "cond", "mutex")
  <1>1. (S!WaitersNow \X {"mutex"})' = (S!WaitersNow \X {"mutex"}) \cup {<<t, "mutex">>}
    OBVIOUS
  <1>2. S!WaitersNow \subseteq Threads
    BY DEF S!WaitersNow
  <1> HIDE DEF S!WaitersNow
  <1>3. [x \in {"cond"} |-> S!WaitersNow \X {"mutex"}]'
          = [[x \in {"cond"} |-> S!WaitersNow \X {"mutex"}]
               EXCEPT !["cond"] = @ \cup {<<t, "mutex">>}]
    BY <1>1
  <1> QED
    BY <1>2, <1>3
       DEF S!M!Register, S!M!Registered, S!M!WaitsWith, SameHolder, SameNotifies, Holds, Notifies

\* A holder calls a broadcast.
LEMMA CallsNotify ==
  ASSUME NEW t \in Threads, Notifies(t) = <<"no">>, Notifies(t)' = <<"broadcast", "cond">>,
         \A u \in Threads : u # t => Notifies(u)' = Notifies(u), SameHolder, SameSleepers
  PROVE  S!M!CallNotify(t, "broadcast", "cond")
  BY DEF S!M!CallNotify, SameHolder, SameSleepers, Holds, Notifies

\* The counter that is released takes all waiters.
LEMMA Broadcasts ==
  ASSUME NEW t \in Threads, Notifies(t) = <<"broadcast", "cond">>, Notifies(t)' = <<"no">>,
         \A u \in Threads : u # t => Notifies(u)' = Notifies(u), SameHolder, S!WaitersNow' = {}
  PROVE  S!M!Broadcast(t, "cond")
  BY DEF S!M!Broadcast, S!M!Return, SameHolder, Holds, Notifies

\* The monitor starts with nobody in it.
LEMMA InitMaps == ASSUME NoThread \notin Threads PROVE S!Init => S!M!MonitorInit
  <1> SUFFICES ASSUME S!Init PROVE S!M!MonitorInit
    OBVIOUS
  <1>1. Holds = NoThread /\ S!WaitersNow = {} /\ \A t \in Threads : Notifies(t) = <<"no">>
    BY DEF S!Init, Holds, S!WaitersNow, Notifies
  <1> QED
    BY <1>1, Mapped

\* Every step of a thread is one of the monitor, or cannot be told from outside.
LEMMA StepMaps ==
  ASSUME NoThread \notin Threads
  PROVE  SpinInv /\ [S!Next]_(S!vars) => [S!M!MonitorNext]_(S!M!monitorVars)
  <1> SUFFICES ASSUME SpinInv, [S!Next]_(S!vars)
               PROVE  S!M!MonitorNext \/ UNCHANGED S!M!monitorVars
    OBVIOUS
  <1> USE DEF SpinInv, SpinTypes, HolderInv, CounterInv, SpinSleepInv, SpinPlaces, S!Go
  <1>1. CASE UNCHANGED S!vars
    BY <1>1, Stutter
       DEF S!vars, SameHolder, SameSleepers, SameNotifies, Holds, Notifies, S!WaitersNow
  <1>2. ASSUME NEW t \in Threads, S!Lock(t) PROVE S!M!Enter(t, "mutex")
    <2>1. Holds = NoThread /\ Holds' = t /\ t \notin S!WaitersNow
      BY <1>2 DEF S!Lock, Holds, S!WaitersNow
    <2>2. SameSleepers /\ SameNotifies
      BY <1>2 DEF S!Lock, SameSleepers, SameNotifies, S!WaitersNow, Notifies
    <2> QED
      BY <2>1, <2>2, Enters
  <1>3. ASSUME NEW t \in Threads, S!Unlock(t) PROVE S!M!Leave(t, "mutex")
    <2>1. Holds = t /\ Holds' = NoThread
      BY <1>3 DEF S!Unlock, Holds
    <2>2. SameSleepers /\ SameNotifies
      BY <1>3 DEF S!Unlock, SameSleepers, SameNotifies, S!WaitersNow, Notifies
    <2> QED
      BY <2>1, <2>2, Leaves
  <1>4. ASSUME NEW t \in Threads, S!BeginWait(t) PROVE S!M!Register(t, "cond", "mutex")
    <2>1. Holds = t /\ SameHolder /\ t \notin S!WaitersNow
      BY <1>4 DEF S!BeginWait, SameHolder, Holds, S!WaitersNow
    <2>2. S!WaitersNow' = S!WaitersNow \cup {t} /\ SameNotifies
      BY <1>4 DEF S!BeginWait, SameNotifies, S!WaitersNow, Notifies
    <2> QED
      BY <2>1, <2>2, Registers
  <1>5. ASSUME NEW t \in Threads, S!StartSpinning(t) PROVE S!M!Leave(t, "mutex")
    <2>1. Holds = t /\ Holds' = NoThread
      BY <1>5 DEF S!StartSpinning, Holds
    <2>2. SameSleepers /\ SameNotifies
      BY <1>5 DEF S!StartSpinning, SameSleepers, SameNotifies, S!WaitersNow, Notifies
    <2> QED
      BY <2>1, <2>2, Leaves
  <1>6. ASSUME NEW t \in Threads, S!Spin(t) PROVE UNCHANGED S!M!monitorVars
    <2>1. SameHolder /\ SameSleepers /\ SameNotifies
      BY <1>6 DEF S!Spin, SameHolder, SameSleepers, SameNotifies, Holds, S!WaitersNow, Notifies
    <2> QED
      BY <2>1, Stutter
  <1>7. ASSUME NEW t \in Threads, S!Return(t) PROVE S!M!Enter(t, "mutex")
    <2>1. Holds = NoThread /\ Holds' = t /\ t \notin S!WaitersNow
      BY <1>7 DEF S!Return, Holds, S!WaitersNow
    <2>2. SameSleepers /\ SameNotifies
      BY <1>7 DEF S!Return, SameSleepers, SameNotifies, S!WaitersNow, Notifies
    <2> QED
      BY <2>1, <2>2, Enters
  <1>8. ASSUME NEW t \in Threads, S!Recheck(t)
        PROVE  S!M!Enter(t, "mutex") \/ UNCHANGED S!M!monitorVars
    <2>1. SameSleepers /\ SameNotifies
      BY <1>8 DEF S!Recheck, SameSleepers, SameNotifies, S!WaitersNow, Notifies
    <2>2. CASE counter # initial[t]
      <3>1. Holds = NoThread /\ Holds' = t /\ t \notin S!WaitersNow
        BY <1>8, <2>2 DEF S!Recheck, Holds, S!WaitersNow
      <3> QED
        BY <2>1, <3>1, Enters
    <2>3. CASE counter = initial[t]
      <3>1. SameHolder
        BY <1>8, <2>3 DEF S!Recheck, SameHolder, Holds
      <3> QED
        BY <2>1, <3>1, Stutter
    <2> QED
      BY <2>2, <2>3
  <1>9. ASSUME NEW t \in Threads, S!Sleep(t) PROVE UNCHANGED S!M!monitorVars
    <2>1. SameHolder
      BY <1>9 DEF S!Sleep, SameHolder, Holds
    <2>2. SameSleepers /\ SameNotifies
      BY <1>9 DEF S!Sleep, SameSleepers, SameNotifies, S!WaitersNow, Notifies
    <2> QED
      BY <2>1, <2>2, Stutter
  <1>10. ASSUME NEW t \in Threads, S!Awake(t) PROVE S!M!Enter(t, "mutex")
    <2>1. Holds = NoThread /\ Holds' = t /\ t \notin S!WaitersNow
      BY <1>10 DEF S!Awake, Holds, S!WaitersNow
    <2>2. SameSleepers /\ SameNotifies
      BY <1>10 DEF S!Awake, SameSleepers, SameNotifies, S!WaitersNow, Notifies
    <2> QED
      BY <2>1, <2>2, Enters
  <1>11. ASSUME NEW t \in Threads, S!CallBroadcast(t)
         PROVE  S!M!CallNotify(t, "broadcast", "cond")
    <2>1. SameHolder /\ SameSleepers
      BY <1>11 DEF S!CallBroadcast, SameHolder, Holds, SameSleepers, S!WaitersNow
    <2>2. /\ Notifies(t) = <<"no">> /\ Notifies(t)' = <<"broadcast", "cond">>
          /\ \A u \in Threads : u # t => Notifies(u)' = Notifies(u)
      BY <1>11 DEF S!CallBroadcast, Notifies
    <2> QED
      BY <2>1, <2>2, CallsNotify
  <1>12. ASSUME NEW t \in Threads, S!ReleaseSpinning(t) PROVE S!M!Broadcast(t, "cond")
    <2>1. SameHolder /\ S!WaitersNow' = {}
      BY <1>12 DEF S!ReleaseSpinning, SameHolder, Holds, S!WaitersNow
    <2>2. /\ Notifies(t) = <<"broadcast", "cond">> /\ Notifies(t)' = <<"no">>
          /\ \A u \in Threads : u # t => Notifies(u)' = Notifies(u)
      BY <1>12 DEF S!ReleaseSpinning, Notifies
    <2> QED
      BY <2>1, <2>2, Broadcasts
  <1>13. ASSUME NEW t \in Threads, S!ReleaseSleeping(t) PROVE UNCHANGED S!M!monitorVars
    <2>1. SameHolder
      BY <1>13 DEF S!ReleaseSleeping, SameHolder, Holds
    <2>2. SameSleepers /\ SameNotifies
      BY <1>13 DEF S!ReleaseSleeping, SameSleepers, SameNotifies, S!WaitersNow, Notifies
    <2> QED
      BY <2>1, <2>2, Stutter
  <1> HIDE DEF SpinInv
  <1> QED
    BY <1>1, <1>2, <1>3, <1>4, <1>5, <1>6, <1>7, <1>8, <1>9, <1>10, <1>11, <1>12, <1>13
       DEF S!Next, S!Waiting, S!Broadcasting, S!M!MonitorNext

\* The spinning variant is a condition variable as the others are: every step of a thread
\* that spins, sleeps or broadcasts is a step of Monitor or a stutter.
THEOREM SpinningIsMonitor == ASSUME NoThread \notin Threads PROVE S!Spec => S!MonitorSpec
  BY InitMaps, StepMaps, SpinInvariance, PTL DEF S!Spec, S!MonitorSpec, S!M!MonitorSpec
=============================================================================
