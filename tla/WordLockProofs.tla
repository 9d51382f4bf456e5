--------------------------- MODULE WordLockProofs ---------------------------
(***************************************************************************)
(* word_lock for any number of threads and any spin count: the word keeps  *)
(* its type, each of its two bits is held by at most one thread and is set *)
(* exactly while it is held.                                               *)
(***************************************************************************)
EXTENDS WordLock, FiniteSetTheorems, FunctionTheorems, WellFoundedInduction, TLAPS

\* The queue is not empty while it is locked, so the walk starts at a node and
\* finds a node.  TypeOK alone is not inductive: a walk from null would write
\* anywhere.
WalkInv ==
    /\ state.queueing => state.head # Null
    /\ \A t \in Threads : pc[t] = "walk" => current[t] # Null
    /\ \A t \in Threads : pc[t] = "wake" => tail[t] # Null

IInv == TypeOK /\ WalkInv /\ MutualExclusion /\ QueueLock

\* The word starts at zero and no thread is in the library.
LEMMA InitIInv == Init => IInv
BY NullAssumption, SpinsAssumption
   DEF Init, IInv, TypeOK, WalkInv, MutualExclusion, QueueLock, Queueing, Word,
       Zero, Pointer, Labels

Nodes == [next : Pointer, prev : Pointer, tail : Pointer]

\* The parts of a word, and the words that a change of one part makes.
LEMMA WordParts ==
    /\ Zero \in Word
    /\ \A w \in Word : /\ w.lock \in BOOLEAN /\ w.queueing \in BOOLEAN
                       /\ w.head \in Pointer
    /\ \A w \in Word, b \in BOOLEAN : [w EXCEPT !.lock = b] \in Word
    /\ \A w \in Word, b \in BOOLEAN : [w EXCEPT !.queueing = b] \in Word
    /\ \A w \in Word, p \in Pointer : [w EXCEPT !.head = p] \in Word
BY DEF Word, Zero, Pointer

\* The same of a node.
LEMMA NodeParts ==
    /\ \A n \in Nodes : n.next \in Pointer /\ n.prev \in Pointer /\ n.tail \in Pointer
    /\ \A n \in Nodes, p \in Pointer : [n EXCEPT !.prev = p] \in Nodes
    /\ \A n \in Nodes, p \in Pointer : [n EXCEPT !.tail = p] \in Nodes
    /\ \A t \in Threads, p \in Pointer : NewNode(t, p) \in Nodes
BY NullAssumption DEF Nodes, Pointer, NewNode

\* The types, with the node's record named.
LEMMA TypeOKNodes ==
    TypeOK <=> /\ state \in Word
               /\ node \in [Threads -> Nodes]
               /\ should_park \in [Threads -> BOOLEAN]
               /\ pc \in [Threads -> Labels]
               /\ expected \in [Threads -> Word]
               /\ spins \in [Threads -> 0..Spins]
               /\ current \in [Threads -> Pointer]
               /\ tail \in [Threads -> Pointer]
BY DEF TypeOK, Nodes

\* Every access to the word, in lock and in unlock, keeps the types.
LEMMA TypeStep ==
    ASSUME IInv, NEW t \in Threads, Lock(t) \/ Internal(t)
    PROVE  TypeOK'
<1> USE NullAssumption, SpinsAssumption
        DEF Labels, walking, Goto, Load
<1>0. TypeOK /\ WalkInv
    BY DEF IInv
<1>a. /\ state \in Word
      /\ node \in [Threads -> Nodes]
      /\ should_park \in [Threads -> BOOLEAN]
      /\ pc \in [Threads -> Labels]
      /\ expected \in [Threads -> Word]
      /\ spins \in [Threads -> 0..Spins]
      /\ current \in [Threads -> Pointer]
      /\ tail \in [Threads -> Pointer]
    BY <1>0, TypeOKNodes
<1> DEFINE T == /\ state' \in Word
                /\ node' \in [Threads -> Nodes]
                /\ should_park' \in [Threads -> BOOLEAN]
                /\ pc' \in [Threads -> Labels]
                /\ expected' \in [Threads -> Word]
                /\ spins' \in [Threads -> 0..Spins]
                /\ current' \in [Threads -> Pointer]
                /\ tail' \in [Threads -> Pointer]
<1>b. SUFFICES T
    BY DEF TypeOK, Nodes
<1>c. /\ Zero \in Word /\ [Zero EXCEPT !.lock = TRUE] \in Word
      /\ [state EXCEPT !.lock = TRUE] \in Word
      /\ [state EXCEPT !.lock = FALSE] \in Word
      /\ [state EXCEPT !.queueing = TRUE] \in Word
      /\ [state EXCEPT !.queueing = FALSE] \in Word
      /\ [state EXCEPT !.head = t] \in Word
      /\ state.head \in Pointer /\ expected[t].head \in Pointer
    BY <1>a, WordParts DEF Pointer
<1>1. CASE Lock(t)
  <2>1. state' \in Word
      BY <1>a, <1>c, <1>1 DEF Lock
  <2>2. pc' \in [Threads -> Labels] /\ spins' \in [Threads -> 0..Spins]
      BY <1>a, <1>1 DEF Lock
  <2>3. QED
      BY <1>a, <2>1, <2>2, <1>1 DEF Lock
<1>2. CASE LoadToLock(t)
    BY <1>a, <1>2 DEF LoadToLock
<1>3. CASE Grab(t)
  <2>1. state' \in Word
      BY <1>a, <1>c, <1>3 DEF Grab
  <2>2. QED
      BY <1>a, <2>1, <1>3 DEF Grab
<1>4. CASE Spin(t)
    BY <1>a, <1>4 DEF Spin
<1>5. CASE Push(t)
  <2>1. state' \in Word
      BY <1>a, <1>c, <1>5 DEF Push
  <2>2. NewNode(t, state.head) \in Nodes
      BY <1>c, NodeParts
  <2>3. CASE state = expected[t]
    <3>1. /\ node' = [node EXCEPT ![t] = NewNode(t, state.head)]
          /\ should_park' = [should_park EXCEPT ![t] = TRUE]
          /\ pc' = [pc EXCEPT ![t] = "parked"]
          /\ UNCHANGED <<expected, spins, current, tail>>
        BY <1>5, <2>3 DEF Push
    <3>2. QED
        BY <1>a, <2>1, <2>2, <3>1
  <2>4. CASE state # expected[t]
      BY <1>a, <1>5, <2>4 DEF Push
  <2>5. QED
      BY <2>3, <2>4
<1>6. CASE WakeUp(t)
    BY <1>a, <1>6 DEF WakeUp
<1>7. CASE Unlock(t)
    BY <1>a, <1>c, <1>7 DEF Unlock
<1>8. CASE LoadToUnlock(t)
    BY <1>a, <1>8 DEF LoadToUnlock
<1>9. CASE LockQueue(t)
    BY <1>a, <1>c, <1>9 DEF LockQueue
<1>10. CASE Walk(t)
  <2> DEFINE next == node[current[t]].next
  <2>1. current[t] \in Threads
      BY <1>0, <1>a, <1>10 DEF WalkInv, Walk, Pointer
  <2>2. next \in Pointer
      BY <1>a, <2>1, NodeParts
  <2>3. CASE next # Null
    <3>1. next \in Threads
        BY <2>2, <2>3 DEF Pointer
    <3>2. /\ node' = [node EXCEPT ![next].prev = current[t]]
          /\ current' = [current EXCEPT ![t] = next]
          /\ pc' = pc
        BY <1>10, <2>3 DEF Walk
    <3>3. node' \in [Threads -> Nodes]
        BY <1>a, <3>1, <3>2, NodeParts
    <3>4. QED
        BY <1>a, <1>10, <2>2, <3>2, <3>3 DEF Walk
  <2>4. CASE next = Null
      BY <1>a, <1>10, <2>4 DEF Walk
  <2>5. QED
      BY <2>3, <2>4
<1>11. CASE EndWalk(t)
  <2>1. node[current[t]].tail \in Pointer
      BY <1>0, <1>a, <1>11, NodeParts DEF WalkInv, EndWalk, Pointer
  <2>2. node' \in [Threads -> Nodes]
      BY <1>a, <1>11, <2>1, NodeParts DEF EndWalk
  <2>3. QED
      BY <1>a, <1>11, <2>1, <2>2 DEF EndWalk
<1>12. CASE LeaveToOwner(t)
  <2>1. CASE state = expected[t]
      BY <1>a, <1>c, <1>12, <2>1 DEF LeaveToOwner
  <2>2. CASE state # expected[t]
      BY <1>a, <1>c, <1>12, <2>2 DEF LeaveToOwner, WalkAgain
  <2>3. QED
      BY <2>1, <2>2
<1>13. CASE TakeLast(t)
  <2>1. CASE state = expected[t]
    <3>1. state' = Zero /\ pc' = [pc EXCEPT ![t] = "unpark"]
        BY <1>13, <2>1 DEF TakeLast
    <3>2. UNCHANGED <<node, should_park, expected, spins, current, tail>>
        BY <1>13, <2>1 DEF TakeLast
    <3>3. QED
        BY <1>a, <1>c, <3>1, <3>2
  <2>2. CASE state # expected[t]
      BY <1>a, <1>c, <1>13, <2>2 DEF TakeLast, WalkAgain
  <2>3. QED
      BY <2>1, <2>2
<1>14. CASE TakeTail(t)
  <2>1. node[tail[t]].prev \in Pointer
      BY <1>0, <1>a, <1>14, NodeParts DEF WalkInv, TakeTail, Pointer
  <2>2. node' \in [Threads -> Nodes]
      BY <1>a, <1>14, <2>1, NodeParts DEF TakeTail
  <2>3. QED
      BY <1>a, <1>c, <1>14, <2>2 DEF TakeTail
<1>15. CASE Unpark(t)
    BY <1>a, <1>15 DEF Unpark
<1>16. QED
    BY <1>1, <1>2, <1>3, <1>4, <1>5, <1>6, <1>7, <1>8, <1>9, <1>10, <1>11,
       <1>12, <1>13, <1>14, <1>15 DEF Internal

\* No access gives a bit to a second thread or clears the bit of a thread that
\* has it; pushes leave the bits alone and only the queue lock empties the queue.
LEMMA BitsStep ==
    ASSUME IInv, NEW t \in Threads, Lock(t) \/ Internal(t)
    PROVE  (WalkInv /\ MutualExclusion /\ QueueLock)'
<1> USE NullAssumption DEF Goto, Load, walking
<1>a. /\ pc \in [Threads -> Labels]
      /\ current \in [Threads -> Pointer]
      /\ tail \in [Threads -> Pointer]
      /\ state \in Word
    BY DEF IInv, TypeOK
<1>b. WalkInv /\ MutualExclusion /\ QueueLock
    BY DEF IInv
<1>c. /\ ~Zero.lock /\ ~Zero.queueing /\ Zero.head = Null
      /\ LET w == [Zero EXCEPT !.lock = TRUE]
         IN  w.lock /\ ~w.queueing /\ w.head = Null
    BY DEF Zero
<1>d. /\ LET w == [state EXCEPT !.lock = TRUE]
         IN  w.lock /\ w.queueing = state.queueing /\ w.head = state.head
      /\ LET w == [state EXCEPT !.lock = FALSE]
         IN  ~w.lock /\ w.queueing = state.queueing /\ w.head = state.head
    BY <1>a DEF Word
<1>e. /\ LET w == [state EXCEPT !.queueing = TRUE]
         IN  w.lock = state.lock /\ w.queueing /\ w.head = state.head
      /\ LET w == [state EXCEPT !.queueing = FALSE]
         IN  w.lock = state.lock /\ ~w.queueing /\ w.head = state.head
    BY <1>a DEF Word
<1>f. LET w == [state EXCEPT !.head = t]
      IN  w.lock = state.lock /\ w.queueing = state.queueing /\ w.head = t
    BY <1>a DEF Word
<1>1. CASE Lock(t)
  <2>1. WalkInv'
      BY <1>a, <1>b, <1>c, <1>1 DEF WalkInv, QueueLock, Queueing, Lock
  <2>2. MutualExclusion'
      BY <1>a, <1>b, <1>c, <1>1 DEF MutualExclusion, Lock
  <2>3. QueueLock'
      BY <1>a, <1>b, <1>c, <1>1 DEF QueueLock, Queueing, Lock
  <2>4. QED
      BY <2>1, <2>2, <2>3
<1>2. CASE LoadToLock(t)
  <2>1. WalkInv'
      BY <1>a, <1>b, <1>2 DEF WalkInv, QueueLock, Queueing, LoadToLock
  <2>2. MutualExclusion'
      BY <1>a, <1>b, <1>2 DEF MutualExclusion, LoadToLock
  <2>3. QueueLock'
      BY <1>a, <1>b, <1>2 DEF QueueLock, Queueing, LoadToLock
  <2>4. QED
      BY <2>1, <2>2, <2>3
<1>3. CASE Grab(t)
  <2>1. CASE state = expected[t]
    <3>1. /\ pc[t] = "lock_full" /\ ~state.lock
          /\ state' = [state EXCEPT !.lock = TRUE]
          /\ pc' = [pc EXCEPT ![t] = "locked"]
          /\ UNCHANGED <<current, tail>>
      BY <1>3, <2>1 DEF Grab
    <3>2. state'.lock /\ state'.queueing = state.queueing /\ state'.head = state.head
      BY <1>d, <3>1
    <3>3. \A u \in Threads : pc'[u] = IF u = t THEN "locked" ELSE pc[u]
      BY <1>a, <3>1
    <3>4. WalkInv'
      BY <1>b, <3>1, <3>2, <3>3 DEF WalkInv
    <3>5. MutualExclusion'
      BY <1>b, <3>1, <3>2, <3>3 DEF MutualExclusion
    <3>6. \A u \in Threads : Queueing(u)' <=> Queueing(u)
      BY <3>1, <3>3 DEF Queueing
    <3>7. QueueLock'
      BY <1>b, <3>2, <3>6 DEF QueueLock
    <3>8. QED
      BY <3>4, <3>5, <3>7
  <2>2. CASE state # expected[t]
    <3>1. UNCHANGED <<state, pc, current, tail>>
      BY <1>3, <2>2 DEF Grab
    <3>2. QED
      BY <1>b, <3>1 DEF WalkInv, MutualExclusion, QueueLock, Queueing
  <2>3. QED
      BY <2>1, <2>2
<1>4. CASE Spin(t)
  <2>1. WalkInv'
      BY <1>a, <1>b, <1>4 DEF WalkInv, QueueLock, Queueing, Spin
  <2>2. MutualExclusion'
      BY <1>a, <1>b, <1>4 DEF MutualExclusion, Spin
  <2>3. QueueLock'
      BY <1>a, <1>b, <1>4 DEF QueueLock, Queueing, Spin
  <2>4. QED
      BY <2>1, <2>2, <2>3
<1>5. CASE Push(t)
  <2>1. WalkInv'
      BY <1>a, <1>b, <1>f, <1>5 DEF WalkInv, QueueLock, Queueing, Push
  <2>2. MutualExclusion'
    <3>1. state'.lock = state.lock
        BY <1>f, <1>5 DEF Push
    <3>2. \A u \in Threads : pc'[u] = "locked" <=> pc[u] = "locked"
        BY <1>a, <1>5 DEF Push
    <3>3. QED
        BY <1>b, <3>1, <3>2 DEF MutualExclusion
  <2>3. QueueLock'
      BY <1>a, <1>b, <1>f, <1>5 DEF QueueLock, Queueing, Push
  <2>4. QED
      BY <2>1, <2>2, <2>3
<1>6. CASE WakeUp(t)
  <2>1. WalkInv'
      BY <1>a, <1>b, <1>6 DEF WalkInv, QueueLock, Queueing, WakeUp
  <2>2. MutualExclusion'
      BY <1>a, <1>b, <1>6 DEF MutualExclusion, WakeUp
  <2>3. QueueLock'
      BY <1>a, <1>b, <1>6 DEF QueueLock, Queueing, WakeUp
  <2>4. QED
      BY <2>1, <2>2, <2>3
<1>7. CASE Unlock(t)
  <2>1. WalkInv'
      BY <1>a, <1>b, <1>d, <1>7 DEF WalkInv, QueueLock, Queueing, Unlock
  <2>2. MutualExclusion'
      BY <1>a, <1>b, <1>d, <1>7 DEF MutualExclusion, Unlock
  <2>3. QueueLock'
      BY <1>a, <1>b, <1>d, <1>7 DEF QueueLock, Queueing, Unlock
  <2>4. QED
      BY <2>1, <2>2, <2>3
<1>8. CASE LoadToUnlock(t)
  <2>1. WalkInv'
      BY <1>a, <1>b, <1>8 DEF WalkInv, QueueLock, Queueing, LoadToUnlock
  <2>2. MutualExclusion'
      BY <1>a, <1>b, <1>8 DEF MutualExclusion, LoadToUnlock
  <2>3. QueueLock'
      BY <1>a, <1>b, <1>8 DEF QueueLock, Queueing, LoadToUnlock
  <2>4. QED
      BY <2>1, <2>2, <2>3
<1>9. CASE LockQueue(t)
  <2>1. CASE Lockable(expected[t]) /\ state = expected[t]
    <3>1. /\ pc[t] = "unlock_full" /\ ~state.queueing /\ state.head # Null
          /\ state' = [state EXCEPT !.queueing = TRUE]
          /\ current' = [current EXCEPT ![t] = state.head]
          /\ pc' = [pc EXCEPT ![t] = "walk"]
          /\ tail' = tail
      BY <1>9, <2>1 DEF LockQueue, Lockable
    <3>2. state'.lock = state.lock /\ state'.queueing /\ state'.head = state.head
      BY <1>e, <3>1
    <3>3. \A u \in Threads : pc'[u] = IF u = t THEN "walk" ELSE pc[u]
      BY <1>a, <3>1
    <3>4. WalkInv'
      BY <1>a, <1>b, <3>1, <3>2, <3>3 DEF WalkInv
    <3>5. MutualExclusion'
      BY <1>b, <3>1, <3>2, <3>3 DEF MutualExclusion
    <3>6. \A u \in Threads : ~Queueing(u)
      BY <1>b, <3>1 DEF QueueLock
    <3>7. \A u \in Threads : Queueing(u)' <=> u = t
      BY <3>3, <3>6 DEF Queueing
    <3>8. QueueLock'
      BY <3>2, <3>7 DEF QueueLock
    <3>9. QED
      BY <3>4, <3>5, <3>8
  <2>2. CASE ~(Lockable(expected[t]) /\ state = expected[t])
    <3>1. /\ pc[t] = "unlock_full"
          /\ pc' = pc \/ pc' = [pc EXCEPT ![t] = "idle"]
          /\ UNCHANGED <<state, current, tail>>
      BY <1>9, <2>2 DEF LockQueue
    <3>2. \A u \in Threads : pc'[u] = pc[u] \/ (u = t /\ pc'[u] = "idle")
      BY <1>a, <3>1
    <3>3. WalkInv'
      BY <1>b, <3>1, <3>2 DEF WalkInv
    <3>4. MutualExclusion'
      BY <1>b, <3>1, <3>2 DEF MutualExclusion
    <3>5. \A u \in Threads : Queueing(u)' <=> Queueing(u)
      BY <3>1, <3>2 DEF Queueing
    <3>6. QueueLock'
      BY <1>b, <3>1, <3>5 DEF QueueLock
    <3>7. QED
      BY <3>3, <3>4, <3>6
  <2>3. QED
      BY <2>1, <2>2
<1>10. CASE Walk(t)
  <2>1. WalkInv'
      BY <1>a, <1>b, <1>10 DEF WalkInv, QueueLock, Queueing, Walk
  <2>2. MutualExclusion'
      BY <1>a, <1>b, <1>10 DEF MutualExclusion, Walk
  <2>3. QueueLock'
      BY <1>a, <1>b, <1>10 DEF QueueLock, Queueing, Walk
  <2>4. QED
      BY <2>1, <2>2, <2>3
<1>11. CASE EndWalk(t)
  <2>1. WalkInv'
      BY <1>a, <1>b, <1>11 DEF WalkInv, QueueLock, Queueing, EndWalk
  <2>2. MutualExclusion'
      BY <1>a, <1>b, <1>11 DEF MutualExclusion, EndWalk
  <2>3. QueueLock'
      BY <1>a, <1>b, <1>11 DEF QueueLock, Queueing, EndWalk
  <2>4. QED
      BY <2>1, <2>2, <2>3
<1>12. CASE LeaveToOwner(t)
  <2>1. WalkInv'
      BY <1>a, <1>b, <1>e, <1>12 DEF WalkInv, QueueLock, Queueing, LeaveToOwner, WalkAgain
  <2>2. MutualExclusion'
    <3>1. state'.lock = state.lock
        BY <1>e, <1>12 DEF LeaveToOwner
    <3>2. \A u \in Threads : pc'[u] = "locked" <=> pc[u] = "locked"
        BY <1>a, <1>12 DEF LeaveToOwner, WalkAgain
    <3>3. QED
        BY <1>b, <3>1, <3>2 DEF MutualExclusion
  <2>3. QueueLock'
    <3>1. CASE state # expected[t]
      <4>1. UNCHANGED state /\ pc[t] = "wake" /\ pc' = [pc EXCEPT ![t] = "walk"]
        BY <1>12, <3>1 DEF LeaveToOwner, WalkAgain
      <4>2. \A u \in Threads : Queueing(u)' <=> Queueing(u)
        BY <1>a, <4>1 DEF Queueing
      <4>3. QED
        BY <1>b, <4>1, <4>2 DEF QueueLock
    <3>2. CASE state = expected[t]
      <4>1. state' = [state EXCEPT !.queueing = FALSE] /\ pc[t] = "wake" /\ pc' = [pc EXCEPT ![t] = "idle"]
        BY <1>12, <3>2 DEF LeaveToOwner, WalkAgain
      <4>2. ~state'.queueing
        BY <1>e, <4>1
      <4>3. \A u \in Threads : ~Queueing(u)'
        BY <1>a, <1>b, <4>1 DEF QueueLock, Queueing
      <4>4. QED
        BY <4>2, <4>3 DEF QueueLock
    <3>3. QED
      BY <3>1, <3>2
  <2>4. QED
      BY <2>1, <2>2, <2>3
<1>13. CASE TakeLast(t)
  <2>1. WalkInv'
      BY <1>a, <1>b, <1>c, <1>13 DEF WalkInv, QueueLock, Queueing, TakeLast, WalkAgain
  <2>2. MutualExclusion'
      BY <1>a, <1>b, <1>c, <1>13 DEF MutualExclusion, TakeLast, WalkAgain
  <2>3. QueueLock'
      BY <1>a, <1>b, <1>c, <1>13 DEF QueueLock, Queueing, TakeLast, WalkAgain
  <2>4. QED
      BY <2>1, <2>2, <2>3
<1>14. CASE TakeTail(t)
  <2>1. WalkInv'
      BY <1>a, <1>b, <1>e, <1>14 DEF WalkInv, QueueLock, Queueing, TakeTail
  <2>2. MutualExclusion'
      BY <1>a, <1>b, <1>e, <1>14 DEF MutualExclusion, TakeTail
  <2>3. QueueLock'
      BY <1>a, <1>b, <1>e, <1>14 DEF QueueLock, Queueing, TakeTail
  <2>4. QED
      BY <2>1, <2>2, <2>3
<1>15. CASE Unpark(t)
  <2>1. WalkInv'
      BY <1>a, <1>b, <1>15 DEF WalkInv, QueueLock, Queueing, Unpark
  <2>2. MutualExclusion'
      BY <1>a, <1>b, <1>15 DEF MutualExclusion, Unpark
  <2>3. QueueLock'
      BY <1>a, <1>b, <1>15 DEF QueueLock, Queueing, Unpark
  <2>4. QED
      BY <2>1, <2>2, <2>3
<1>16. QED
    BY <1>1, <1>2, <1>3, <1>4, <1>5, <1>6, <1>7, <1>8,
       <1>9, <1>10, <1>11, <1>12, <1>13, <1>14, <1>15 DEF Internal

\* The strengthened invariant is inductive.
LEMMA Inductive == IInv /\ [Next]_vars => IInv'
<1>1. ASSUME IInv, NEW t \in Threads, Lock(t) \/ Internal(t)
      PROVE  IInv'
    BY <1>1, TypeStep, BitsStep DEF IInv
<1>2. ASSUME IInv, UNCHANGED vars
      PROVE  IInv'
    BY <1>2 DEF vars, IInv, TypeOK, WalkInv, MutualExclusion, QueueLock, Queueing
<1>3. QED
    BY <1>1, <1>2 DEF Next

\* Whatever the interleaving, word_lock's word and nodes keep their types.
THEOREM TypeCorrect == Spec => []TypeOK
<1>1. IInv => TypeOK
    BY DEF IInv
<1>2. QED
    BY <1>1, InitIInv, Inductive, PTL DEF Spec

\* word_lock excludes: at most one thread is between lock and unlock of a bucket,
\* exactly while the lock bit is set.
THEOREM BucketExclusion == Spec => []MutualExclusion
<1>1. IInv => MutualExclusion
    BY DEF IInv
<1>2. QED
    BY <1>1, InitIInv, Inductive, PTL DEF Spec

\* At most one thread walks and changes the queue, exactly while queue_lock_bit is
\* set.
THEOREM QueueExclusion == Spec => []QueueLock
<1>1. IInv => QueueLock
    BY DEF IInv
<1>2. QED
    BY <1>1, InitIInv, Inductive, PTL DEF Spec
-----------------------------------------------------------------------------
(***************************************************************************)
(* The queue of sleeping threads, when there are finitely many: whatever   *)
(* pushes, walks, removals and clears of the word interleave, it holds     *)
(* every thread asleep exactly once, the walk never runs out of it, and no *)
(* node is used that has left its stack.                                   *)
(*                                                                         *)
(* The inductive invariant names the queue: q[1], the newest, to q[n], the *)
(* oldest.  Its newest node that knows a tail is q[i].  The walk began at  *)
(* q[h] and is at q[c]; it has filled in prev between the two.             *)
(***************************************************************************)

\* The sleepers, once each, as state and next tell them.
Links(n, q) ==
    /\ \A j, k \in 1..n : q[j] = q[k] => j = k
    /\ \A u \in Threads : u \in Asleep <=> \E k \in 1..n : q[k] = u
    /\ n = 0 <=> state.head = Null
    /\ n > 0 => q[1] = state.head
    /\ \A k \in 1..n : k < n => node[q[k]].next = q[k + 1]

\* What is known of the tail and of prev.
Marks(n, q, i, h, c) ==
    /\ 1 <= h /\ h <= c /\ c <= i /\ i <= n
    /\ node[q[i]].tail = q[n]
    /\ \A k \in 1..n :
          /\ k < i => node[q[k]].tail = Null
          /\ i < k => node[q[k]].prev = q[k - 1]
          /\ h < k /\ k <= c => node[q[k]].prev = q[k - 1]
          /\ k <= h \/ (c < k /\ k <= i) => node[q[k]].prev = Null

\* Where the thread with the queue lock is.
Walkers(n, q, i, h, c) ==
    /\ \A t \in Threads :
          /\ pc[t] = "walk" => expected[t].head = q[h] /\ current[t] = q[c]
          /\ pc[t] = "wake" => expected[t].head = q[i] /\ tail[t] = q[n]
    /\ (\A t \in Threads : pc[t] # "walk") => h = c

Shape(n, q, i, h, c) ==
    /\ Links(n, q)
    /\ n > 0 => Marks(n, q, i, h, c) /\ Walkers(n, q, i, h, c)

QueueInv ==
    \E n \in Nat : \E q \in [1..n -> Threads] :
        \E i \in Nat, h \in Nat, c \in Nat : Shape(n, q, i, h, c)

\* Only threads in park sleep, and each is unparked by one thread.
SleepInv ==
    /\ \A u \in Threads : pc[u] # "aborted"
    /\ \A u \in Threads : should_park[u] => pc[u] = "parked"
    /\ \A t \in Threads : pc[t] = "unpark" => tail[t] \in Threads /\ should_park[tail[t]]
    /\ \A t, u \in Threads : pc[t] = "unpark" /\ pc[u] = "unpark" /\ tail[t] = tail[u] => t = u

----------------------------------------------------------------------------
(* The sleepers *)

\* A thread that is asleep is no other thread's to unpark.
LEMMA AsleepMeans ==
  ASSUME NEW u
  PROVE  u \in Asleep <=> /\ u \in Threads /\ should_park[u]
                          /\ \A t \in Threads : pc[t] = "unpark" => tail[t] # u
  BY DEF Asleep

\* The same after a step.
LEMMA AsleepMeansAfter ==
  ASSUME NEW u
  PROVE  u \in Asleep' <=> /\ u \in Threads /\ should_park'[u]
                           /\ \A t \in Threads : pc'[t] = "unpark" => tail'[t] # u
  BY DEF Asleep

\* The queue is not empty while a thread walks it or is about to take its tail.
LEMMA QueueingHasNodes ==
  ASSUME IInv, NEW t \in Threads, pc[t] \in {"walk", "wake"},
         NEW n \in Nat, NEW q, Links(n, q)
  PROVE  n > 0
  BY DEF IInv, QueueLock, Queueing, WalkInv, Links

\* The oldest thread, once the walk has found it, is asleep.
LEMMA TailIsAsleep ==
  ASSUME IInv, QueueInv, NEW t \in Threads, pc[t] = "wake"
  PROVE  tail[t] \in Asleep
  <1>1. PICK n \in Nat : \E q \in [1..n -> Threads] :
           \E i \in Nat, h \in Nat, c \in Nat : Shape(n, q, i, h, c)
    BY DEF QueueInv
  <1>2. PICK q \in [1..n -> Threads] :
           \E i \in Nat, h \in Nat, c \in Nat : Shape(n, q, i, h, c)
    BY <1>1
  <1>3. Links(n, q) /\ n > 0
    BY <1>2, QueueingHasNodes DEF Shape
  <1>4. tail[t] = q[n] /\ n \in 1..n
    BY <1>2, <1>3 DEF Shape, Walkers
  <1> QED
    BY <1>3, <1>4 DEF Links

\* Who sleeps, and who unparks whom, after each step.
LEMMA SleepStep ==
  ASSUME IInv, QueueInv, SleepInv, NEW t \in Threads, Lock(t) \/ Internal(t),
         pc'[t] # "aborted"
  PROVE  SleepInv'
  <1> USE NullAssumption DEF Goto, Load, walking, Labels
  <1>1. /\ pc \in [Threads -> Labels] /\ should_park \in [Threads -> BOOLEAN]
        /\ tail \in [Threads -> Pointer]
    BY DEF IInv, TypeOK
  <1>2. CASE UNCHANGED <<should_park, tail>> /\ pc[t] # "parked" /\ pc'[t] # "unpark"
             /\ \A u \in Threads \ {t} : pc'[u] = pc[u]
    BY <1>1, <1>2 DEF SleepInv
  <1>3. CASE Push(t)
    BY <1>1, <1>3 DEF Push, SleepInv
  <1>4. CASE WakeUp(t)
    BY <1>1, <1>4 DEF WakeUp, SleepInv
  <1>5. CASE TakeLast(t) \/ TakeTail(t)
    <2>1. tail[t] \in Asleep /\ UNCHANGED <<should_park, tail>>
      BY <1>5, TailIsAsleep DEF TakeLast, TakeTail
    <2>2. pc[t] = "wake" /\ \A u \in Threads \ {t} : pc'[u] = pc[u]
      BY <1>1, <1>5 DEF TakeLast, TakeTail, WalkAgain
    <2> QED
      BY <2>1, <2>2, AsleepMeans DEF SleepInv
  <1>6. CASE Unpark(t)
    BY <1>1, <1>6 DEF Unpark, SleepInv
  <1>7. CASE EndWalk(t)
    BY <1>1, <1>7 DEF EndWalk, SleepInv
  <1>8. CASE Lock(t) \/ LoadToLock(t) \/ Grab(t) \/ Spin(t) \/ Unlock(t) \/ LoadToUnlock(t)
             \/ LockQueue(t) \/ Walk(t) \/ LeaveToOwner(t)
    <2>1. UNCHANGED <<should_park, tail>>
      BY <1>8 DEF Lock, LoadToLock, Grab, Spin, Unlock, LoadToUnlock, LockQueue, Walk,
         LeaveToOwner
    <2>2. pc[t] # "parked" /\ pc'[t] # "unpark" /\ \A u \in Threads \ {t} : pc'[u] = pc[u]
      BY <1>1, <1>8 DEF Lock, LoadToLock, Grab, Spin, Unlock, LoadToUnlock, LockQueue, Walk,
         LeaveToOwner, WalkAgain
    <2> QED
      BY <1>2, <2>1, <2>2
  <1> QED
    BY <1>3, <1>4, <1>5, <1>6, <1>7, <1>8 DEF Internal

----------------------------------------------------------------------------
(* The queue *)

\* The queue that the invariant promises, its numbers first.
LEMMA GetQueue ==
  ASSUME QueueInv
  PROVE  \E n \in Nat, i \in Nat, h \in Nat, c \in Nat : \E q \in [1..n -> Threads] :
            Shape(n, q, i, h, c)
  BY DEF QueueInv

\* To show the invariant after a step, name the queue.
LEMMA PutQueue ==
  ASSUME NEW n \in Nat, NEW i \in Nat, NEW h \in Nat, NEW c \in Nat,
         NEW q \in [1..n -> Threads],
         Links(n, q)', n > 0 => Marks(n, q, i, h, c)' /\ Walkers(n, q, i, h, c)'
  PROVE  QueueInv'
  <1>1. Shape(n, q, i, h, c)'
    BY DEF Shape
  <1> QED
    BY <1>1 DEF QueueInv

\* A step that leaves the sleepers, the nodes, the newest node and the walk alone.
LEMMA QueueFrame ==
  ASSUME QueueInv, state'.head = state.head, node' = node,
         \A u \in Threads : u \in Asleep' <=> u \in Asleep,
         \A u \in Threads : pc'[u] \in {"walk", "wake"} =>
            /\ pc'[u] = pc[u] /\ expected'[u] = expected[u]
            /\ current'[u] = current[u] /\ tail'[u] = tail[u],
         \A u \in Threads : pc[u] = "walk" => pc'[u] = "walk"
  PROVE  QueueInv'
  <1>1. PICK n \in Nat, i \in Nat, h \in Nat, c \in Nat : \E q \in [1..n -> Threads] :
           Shape(n, q, i, h, c)
    BY GetQueue
  <1>2. PICK q \in [1..n -> Threads] : Shape(n, q, i, h, c)
    BY <1>1
  <1>3. Links(n, q)'
    BY <1>2 DEF Shape, Links
  <1>4. n > 0 => Marks(n, q, i, h, c)'
    BY <1>2 DEF Shape, Marks
  <1>5. n > 0 => Walkers(n, q, i, h, c)'
    BY <1>2 DEF Shape, Walkers
  <1> QED
    BY <1>3, <1>4, <1>5, PutQueue

\* The actions of lock and unlock that do not touch the queue.
LEMMA QueueKept ==
  ASSUME IInv, SleepInv, QueueInv, NEW t \in Threads,
         \/ Lock(t) \/ LoadToLock(t) \/ Grab(t) \/ Spin(t) \/ WakeUp(t)
         \/ Unlock(t) \/ LoadToUnlock(t) \/ Unpark(t)
         \/ (Push(t) /\ pc'[t] # "parked") \/ (LockQueue(t) /\ pc'[t] # "walk")
         \/ (LeaveToOwner(t) /\ pc'[t] # "walk")
  PROVE  QueueInv'
  <1> USE DEF Goto, Load, walking, Labels
  <1>1. /\ pc \in [Threads -> Labels] /\ should_park \in [Threads -> BOOLEAN]
        /\ tail \in [Threads -> Pointer] /\ state \in Word
    BY DEF IInv, TypeOK
  <1>2. state'.head = state.head /\ node' = node /\ UNCHANGED tail
    BY <1>1, WordParts DEF Lock, LoadToLock, Grab, Spin, WakeUp, Unlock, LoadToUnlock, Unpark, Push,
       LockQueue, LeaveToOwner, WalkAgain, Zero, Word
  <1>3. pc'[t] \notin {"walk", "wake"} /\ pc[t] # "walk"
    BY <1>1 DEF Lock, LoadToLock, Grab, Spin, WakeUp, Unlock, LoadToUnlock, Unpark, Push,
       LockQueue, LeaveToOwner, WalkAgain
  <1>4. \A u \in Threads \ {t} :
           pc'[u] = pc[u] /\ expected'[u] = expected[u] /\ current'[u] = current[u]
    BY <1>1 DEF IInv, TypeOK, Lock, LoadToLock, Grab, Spin, WakeUp, Unlock, LoadToUnlock, Unpark,
       Push, LockQueue, LeaveToOwner, WalkAgain
  <1>5. \A u \in Threads : u \in Asleep' <=> u \in Asleep
    <2>1. CASE Unpark(t)
      BY <1>1, <1>4, <2>1, AsleepMeans, AsleepMeansAfter DEF Unpark, SleepInv
    <2>2. CASE ~Unpark(t)
      <3>1. UNCHANGED should_park /\ pc[t] # "unpark" /\ pc'[t] # "unpark"
        BY <1>1, <2>2 DEF Lock, LoadToLock, Grab, Spin, WakeUp, Unlock, LoadToUnlock, Push,
           LockQueue, LeaveToOwner, WalkAgain
      <3> QED
        BY <1>2, <1>4, <3>1, AsleepMeans, AsleepMeansAfter
    <2> QED
      BY <2>1, <2>2
  <1> QED
    BY <1>2, <1>3, <1>4, <1>5, QueueFrame

\* A walk that begins, or begins again, at the newest node.
LEMMA WalkBegins ==
  ASSUME IInv, QueueInv, NEW t \in Threads,
         pc'[t] = "walk", state'.head = state.head, state.head # Null, node' = node,
         expected'[t].head = state.head, current'[t] = state.head,
         \A u \in Threads : u \in Asleep' <=> u \in Asleep,
         \A u \in Threads \ {t} : pc'[u] \notin {"walk", "wake"},
         pc[t] = "wake" \/ \A u \in Threads : pc[u] \notin {"walk", "wake"}
  PROVE  QueueInv'
  <1>1. PICK n \in Nat, i \in Nat, h \in Nat, c \in Nat : \E q \in [1..n -> Threads] :
           Shape(n, q, i, h, c)
    BY GetQueue
  <1>2. PICK q \in [1..n -> Threads] : Shape(n, q, i, h, c)
    BY <1>1
  <1>3. n > 0 /\ q[1] = state.head /\ h = c
    <2>1. n > 0 /\ q[1] = state.head
      BY <1>2 DEF Shape, Links
    <2>2. \A u \in Threads : pc[u] # "walk"
      BY DEF IInv, QueueLock, Queueing
    <2> QED
      BY <1>2, <2>1, <2>2 DEF Shape, Walkers
  <1>4. Links(n, q)'
    BY <1>2 DEF Shape, Links
  <1>5. Marks(n, q, i, 1, 1)'
    <2>1. Marks(n, q, i, h, c)
      BY <1>2, <1>3 DEF Shape
    <2> QED
      BY <1>3, <2>1 DEF Marks
  <1>6. Walkers(n, q, i, 1, 1)'
    BY <1>3 DEF Walkers
  <1> QED
    BY <1>4, <1>5, <1>6, PutQueue

\* The queue lock is taken and the walk begins.
LEMMA LockQueueStep ==
  ASSUME IInv, QueueInv, NEW t \in Threads, LockQueue(t), pc'[t] = "walk"
  PROVE  QueueInv'
  <1> USE DEF Goto, Load, walking, Labels
  <1>1. /\ pc \in [Threads -> Labels] /\ current \in [Threads -> Pointer]
        /\ state \in Word
    BY DEF IInv, TypeOK
  <1>2. /\ pc[t] = "unlock_full" /\ state = expected[t] /\ Lockable(state)
        /\ state' = [state EXCEPT !.queueing = TRUE]
        /\ UNCHANGED <<node, should_park, expected, tail>>
    BY <1>1 DEF LockQueue
  <1>3. current'[t] = state.head /\ state'.head = state.head /\ state.head # Null
    BY <1>1, <1>2, WordParts DEF LockQueue, Lockable, Word
  <1>4. \A u \in Threads \ {t} : pc'[u] = pc[u]
    BY <1>1 DEF LockQueue
  <1>5. \A u \in Threads : pc[u] \notin {"walk", "wake"}
    BY <1>2 DEF Lockable, IInv, QueueLock, Queueing
  <1>6. \A u \in Threads : u \in Asleep' <=> u \in Asleep
    BY <1>2, <1>4, AsleepMeans, AsleepMeansAfter
  <1> QED
    BY <1>2, <1>3, <1>4, <1>5, <1>6, WalkBegins

\* A failed CAS of unlock_full walks again from the new head.
LEMMA WalkAgainStep ==
  ASSUME IInv, QueueInv, NEW t \in Threads, LeaveToOwner(t) \/ TakeLast(t), pc'[t] = "walk"
  PROVE  QueueInv'
  <1> USE DEF Goto, Load, walking, Labels
  <1>1. /\ pc \in [Threads -> Labels] /\ current \in [Threads -> Pointer]
        /\ expected \in [Threads -> Word]
    BY DEF IInv, TypeOK
  <1>2. /\ pc[t] = "wake" /\ WalkAgain(t)
        /\ UNCHANGED <<state, node, should_park, tail>>
    BY <1>1 DEF LeaveToOwner, TakeLast
  <1>3. /\ current'[t] = state.head /\ expected'[t] = state
        /\ \A u \in Threads \ {t} : pc'[u] = pc[u]
    BY <1>1, <1>2 DEF WalkAgain
  <1>4. state.head # Null /\ \A u \in Threads \ {t} : pc[u] \notin {"walk", "wake"}
    BY <1>2 DEF IInv, QueueLock, Queueing, WalkInv
  <1>5. \A u \in Threads : u \in Asleep' <=> u \in Asleep
    BY <1>2, <1>3, AsleepMeans, AsleepMeansAfter
  <1> QED
    BY <1>2, <1>3, <1>4, <1>5, WalkBegins

\* One turn of the walk: next is the queue's next node, prev of it is filled in.
LEMMA WalkStep ==
  ASSUME IInv, QueueInv, NEW t \in Threads, Walk(t)
  PROVE  pc'[t] # "aborted" /\ QueueInv'
  <1> USE DEF Goto, Load, walking, Labels
  <1>1. /\ pc \in [Threads -> Labels] /\ current \in [Threads -> Pointer]
        /\ node \in [Threads -> Nodes]
    BY TypeOKNodes DEF IInv
  <1>2. PICK n \in Nat, i \in Nat, h \in Nat, c \in Nat : \E q \in [1..n -> Threads] :
           Shape(n, q, i, h, c)
    BY GetQueue
  <1>3. PICK q \in [1..n -> Threads] : Shape(n, q, i, h, c)
    BY <1>2
  <1>4. /\ pc[t] = "walk" /\ node[current[t]].tail = Null
        /\ UNCHANGED <<state, should_park, expected, tail>>
        /\ \A u \in Threads \ {t} : pc'[u] = pc[u]
    BY <1>1 DEF Walk
  <1>5. /\ n > 0 /\ Links(n, q) /\ Marks(n, q, i, h, c) /\ Walkers(n, q, i, h, c)
        /\ current[t] = q[c] /\ expected[t].head = q[h]
    <2>1. Links(n, q) /\ n > 0
      BY <1>3, <1>4, QueueingHasNodes DEF Shape
    <2> QED
      BY <1>3, <1>4, <2>1 DEF Shape, Walkers
  <1>6. c < i /\ i \in 1..n /\ c \in 1..n /\ h \in 1..n /\ h <= c
    <2>1. q[n] \in Threads
      BY <1>5
    <2> QED
      BY <1>4, <1>5, <2>1, NullAssumption DEF Marks
  <1>7. node[current[t]].next = q[c + 1] /\ q[c + 1] \in Threads /\ q[c] \in Threads
    BY <1>5, <1>6 DEF Links
  <1>8. /\ node' = [node EXCEPT ![q[c + 1]].prev = q[c]]
        /\ current' = [current EXCEPT ![t] = q[c + 1]] /\ pc' = pc
    BY <1>4, <1>5, <1>7, NullAssumption DEF Walk
  <1>9. \A u \in Threads :
           /\ node'[u].next = node[u].next /\ node'[u].tail = node[u].tail
           /\ node'[u].prev = IF u = q[c + 1] THEN q[c] ELSE node[u].prev
    BY <1>1, <1>7, <1>8 DEF Nodes
  <1>10. \A k \in 1..n : q[k] \in Threads /\ (q[k] = q[c + 1] <=> k = c + 1)
    BY <1>5, <1>6 DEF Links
  <1>11. Links(n, q)'
    <2>1. \A u \in Threads : u \in Asleep' <=> u \in Asleep
      BY <1>4, <1>8, AsleepMeans, AsleepMeansAfter
    <2> QED
      BY <1>4, <1>5, <1>9, <2>1 DEF Links
  <1>12. Marks(n, q, i, h, c + 1)'
    <2>1. \A k \in 1..n : node'[q[k]].tail = node[q[k]].tail
      BY <1>9, <1>10
    <2>2. \A k \in 1..n : node'[q[k]].prev = IF k = c + 1 THEN q[c] ELSE node[q[k]].prev
      BY <1>9, <1>10
    <2>3. 1 <= h /\ h <= c + 1 /\ c + 1 <= i /\ i <= n /\ node'[q[i]].tail = q[n]
      BY <1>5, <1>6, <2>1 DEF Marks
    <2>4. ASSUME NEW k \in 1..n, k # c + 1
          PROVE  /\ k < i => node'[q[k]].tail = Null
                 /\ i < k => node'[q[k]].prev = q[k - 1]
                 /\ h < k /\ k <= c + 1 => node'[q[k]].prev = q[k - 1]
                 /\ k <= h \/ (c + 1 < k /\ k <= i) => node'[q[k]].prev = Null
      BY <1>5, <1>6, <2>1, <2>2, <2>4 DEF Marks
    <2>5. ASSUME NEW k \in 1..n, k = c + 1
          PROVE  /\ k < i => node'[q[k]].tail = Null
                 /\ ~ (i < k) /\ node'[q[k]].prev = q[k - 1]
                 /\ ~ (k <= h \/ (c + 1 < k /\ k <= i))
      <3>1. node[q[k]].tail = Null \/ ~ (k < i)
        BY <1>5 DEF Marks
      <3>2. k - 1 = c
        BY <1>6, <2>5
      <3> QED
        BY <1>6, <2>1, <2>2, <2>5, <3>1, <3>2
    <2> QED
      BY <2>3, <2>4, <2>5 DEF Marks
  <1>13. Walkers(n, q, i, h, c + 1)'
    <2>1. \A u \in Threads : pc[u] \in {"walk", "wake"} => u = t
      BY <1>4 DEF IInv, QueueLock, Queueing
    <2> QED
      BY <1>1, <1>4, <1>5, <1>8, <2>1 DEF Walkers
  <1> QED
    BY <1>4, <1>8, <1>11, <1>12, <1>13, PutQueue

\* The walk ends at the newest node that knows the tail; now the head knows it too.
LEMMA EndWalkStep ==
  ASSUME IInv, QueueInv, NEW t \in Threads, EndWalk(t)
  PROVE  QueueInv'
  <1> USE DEF Goto, Load, walking, Labels
  <1>1. /\ pc \in [Threads -> Labels] /\ tail \in [Threads -> Pointer]
        /\ node \in [Threads -> Nodes]
    BY TypeOKNodes DEF IInv
  <1>2. PICK n \in Nat, i \in Nat, h \in Nat, c \in Nat : \E q \in [1..n -> Threads] :
           Shape(n, q, i, h, c)
    BY GetQueue
  <1>3. PICK q \in [1..n -> Threads] : Shape(n, q, i, h, c)
    BY <1>2
  <1>4. /\ pc[t] = "walk" /\ pc'[t] = "wake" /\ node[current[t]].tail # Null
        /\ UNCHANGED <<state, should_park, expected, current>>
        /\ \A u \in Threads \ {t} : pc'[u] = pc[u] /\ tail'[u] = tail[u]
    BY <1>1 DEF EndWalk
  <1>5. /\ n > 0 /\ Links(n, q) /\ Marks(n, q, i, h, c) /\ Walkers(n, q, i, h, c)
        /\ current[t] = q[c] /\ expected[t].head = q[h]
    <2>1. Links(n, q) /\ n > 0
      BY <1>3, <1>4, QueueingHasNodes DEF Shape
    <2> QED
      BY <1>3, <1>4, <2>1 DEF Shape, Walkers
  <1>6. c = i /\ i \in 1..n /\ h \in 1..n /\ h <= i /\ n \in 1..n
    BY <1>4, <1>5 DEF Marks
  <1>7. node[current[t]].tail = q[n]
    BY <1>5, <1>6 DEF Marks
  <1>8. node' = [node EXCEPT ![q[h]].tail = q[n]] /\ tail'[t] = q[n]
    BY <1>1, <1>5, <1>7 DEF EndWalk
  <1>9. \A u \in Threads :
           /\ node'[u].next = node[u].next /\ node'[u].prev = node[u].prev
           /\ node'[u].tail = IF u = q[h] THEN q[n] ELSE node[u].tail
    BY <1>1, <1>6, <1>8 DEF Nodes
  <1>10. \A k \in 1..n : q[k] \in Threads /\ (q[k] = q[h] <=> k = h)
    BY <1>5, <1>6 DEF Links
  <1>11. Links(n, q)'
    <2>1. \A u \in Threads : u \in Asleep' <=> u \in Asleep
      BY <1>4, AsleepMeans, AsleepMeansAfter
    <2> QED
      BY <1>4, <1>5, <1>9, <2>1 DEF Links
  <1>12. Marks(n, q, h, h, h)'
    <2>1. \A k \in 1..n : node'[q[k]].prev = node[q[k]].prev
      BY <1>9, <1>10
    <2>2. \A k \in 1..n : node'[q[k]].tail = IF k = h THEN q[n] ELSE node[q[k]].tail
      BY <1>9, <1>10
    <2>3. 1 <= h /\ h <= n /\ node'[q[h]].tail = q[n]
      BY <1>6, <2>2
    <2>4. ASSUME NEW k \in 1..n
          PROVE  /\ k < h => node'[q[k]].tail = Null
                 /\ h < k => node'[q[k]].prev = q[k - 1]
                 /\ k <= h => node'[q[k]].prev = Null
      <3>1. k < h => k < i /\ k # h
        BY <1>6
      <3>2. k <= i \/ i < k
        BY <1>6
      <3> QED
        BY <1>5, <1>6, <2>1, <2>2, <3>1, <3>2 DEF Marks
    <2>5. \A k \in 1..n : ~ (h < k /\ k <= h)
      BY <1>6
    <2> QED
      BY <1>6, <2>3, <2>4, <2>5 DEF Marks
  <1>13. Walkers(n, q, h, h, h)'
    <2>1. \A u \in Threads : pc[u] \in {"walk", "wake"} => u = t
      BY <1>4 DEF IInv, QueueLock, Queueing
    <2> QED
      BY <1>4, <1>5, <1>8, <2>1 DEF Walkers
  <1> QED
    BY <1>11, <1>12, <1>13, PutQueue

\* The word is cleared under the last sleeper only.
LEMMA TakeLastStep ==
  ASSUME IInv, SleepInv, QueueInv, NEW t \in Threads, TakeLast(t), pc'[t] = "unpark"
  PROVE  QueueInv'
  <1> USE DEF Goto, Load, walking, Labels
  <1>1. /\ pc \in [Threads -> Labels] /\ tail \in [Threads -> Pointer]
        /\ node \in [Threads -> Nodes]
    BY TypeOKNodes DEF IInv
  <1>2. PICK n \in Nat, i \in Nat, h \in Nat, c \in Nat : \E q \in [1..n -> Threads] :
           Shape(n, q, i, h, c)
    BY GetQueue
  <1>3. PICK q \in [1..n -> Threads] : Shape(n, q, i, h, c)
    BY <1>2
  <1>4. /\ pc[t] = "wake" /\ node[tail[t]].prev = Null /\ state = expected[t] /\ state' = Zero
        /\ UNCHANGED <<node, should_park, expected, walking>>
        /\ \A u \in Threads \ {t} : pc'[u] = pc[u]
    BY <1>1 DEF TakeLast, WalkAgain
  <1>5. /\ n > 0 /\ Links(n, q) /\ Marks(n, q, i, h, c)
        /\ expected[t].head = q[i] /\ tail[t] = q[n]
    <2>1. Links(n, q) /\ n > 0
      BY <1>3, <1>4, QueueingHasNodes DEF Shape
    <2> QED
      BY <1>3, <1>4, <2>1 DEF Shape, Walkers
  <1>6. i = 1
    <2>1. i \in 1..n /\ 1 \in 1..n /\ q[i] = q[1]
      BY <1>4, <1>5 DEF Links, Marks
    <2> QED
      BY <1>5, <2>1 DEF Links
  <1>7. n = 1
    <2>1. CASE n > 1
      <3>1. node[q[n]].prev = q[n - 1] /\ q[n - 1] \in Threads
        BY <1>5, <1>6, <2>1 DEF Marks
      <3> QED
        BY <1>4, <1>5, <3>1, NullAssumption
    <2> QED
      BY <1>5, <2>1
  <1>8. \A u \in Threads : u \in Asleep => u = tail[t]
    BY <1>5, <1>7 DEF Links
  <1>9. \A u \in Threads : u \notin Asleep'
    BY <1>4, <1>8, AsleepMeans, AsleepMeansAfter
  <1> DEFINE none == [k \in 1..0 |-> t]
  <1>10. none \in [1..0 -> Threads]
    OBVIOUS
  <1>11. Links(0, none)'
    BY <1>4, <1>9 DEF Links, Zero
  <1> HIDE DEF none
  <1>12. 0 \in Nat /\ ~ (0 > 0)
    OBVIOUS
  <1> QED
    BY <1>10, <1>11, <1>12, PutQueue

\* The oldest sleeper leaves a queue of several: the one before it is the tail now.
LEMMA TakeTailStep ==
  ASSUME IInv, SleepInv, QueueInv, NEW t \in Threads, TakeTail(t)
  PROVE  QueueInv'
  <1> USE DEF Goto, Load, walking, Labels
  <1>1. /\ pc \in [Threads -> Labels] /\ tail \in [Threads -> Pointer]
        /\ node \in [Threads -> Nodes] /\ state \in Word
    BY TypeOKNodes DEF IInv
  <1>2. PICK n \in Nat, i \in Nat, h \in Nat, c \in Nat : \E q \in [1..n -> Threads] :
           Shape(n, q, i, h, c)
    BY GetQueue
  <1>3. PICK q \in [1..n -> Threads] : Shape(n, q, i, h, c)
    BY <1>2
  <1>4. /\ pc[t] = "wake" /\ pc'[t] = "unpark" /\ node[tail[t]].prev # Null
        /\ state' = [state EXCEPT !.queueing = FALSE]
        /\ UNCHANGED <<should_park, expected, walking>>
        /\ \A u \in Threads \ {t} : pc'[u] = pc[u]
    BY <1>1 DEF TakeTail
  <1>5. /\ n > 0 /\ Links(n, q) /\ Marks(n, q, i, h, c) /\ Walkers(n, q, i, h, c)
        /\ expected[t].head = q[i] /\ tail[t] = q[n]
    <2>1. Links(n, q) /\ n > 0
      BY <1>3, <1>4, QueueingHasNodes DEF Shape
    <2> QED
      BY <1>3, <1>4, <2>1 DEF Shape, Walkers
  <1>6. \A u \in Threads : pc[u] \in {"walk", "wake"} => u = t
    BY <1>4 DEF IInv, QueueLock, Queueing
  <1>7. h = c
    BY <1>4, <1>5, <1>6 DEF Walkers
  <1>8. i \in 1..n /\ h \in 1..n /\ h <= i /\ i < n
    <2>1. CASE i = n
      BY <1>4, <1>5, <1>7, <2>1 DEF Marks
    <2> QED
      BY <1>5, <2>1 DEF Marks
  <1>9. node[tail[t]].prev = q[n - 1] /\ n \in 1..n /\ n - 1 \in 1..n
    BY <1>5, <1>8 DEF Marks
  <1>10. node' = [node EXCEPT ![q[i]].tail = q[n - 1]]
    BY <1>5, <1>9 DEF TakeTail
  <1>11. \A u \in Threads :
            /\ node'[u].next = node[u].next /\ node'[u].prev = node[u].prev
            /\ node'[u].tail = IF u = q[i] THEN q[n - 1] ELSE node[u].tail
    BY <1>1, <1>8, <1>10 DEF Nodes
  <1> DEFINE r == [k \in 1..(n - 1) |-> q[k]]
  <1>12. \A k \in 1..(n - 1) : r[k] = q[k] /\ k \in 1..n /\ q[k] \in Threads
    BY <1>8
  <1>13. r \in [1..(n - 1) -> Threads] /\ n - 1 \in Nat
    BY <1>8
  <1> HIDE DEF r
  <1>14. \A u \in Threads : u \in Asleep' <=> u \in Asleep /\ u # q[n]
    BY <1>4, <1>5, AsleepMeans, AsleepMeansAfter
  <1>15. Links(n - 1, r)'
    <2>1. \A j, k \in 1..(n - 1) : r[j] = r[k] => j = k
      BY <1>5, <1>12 DEF Links
    <2>2. ASSUME NEW u \in Threads
          PROVE  u \in Asleep' <=> \E k \in 1..(n - 1) : r[k] = u
      <3>1. u \in Asleep <=> \E k \in 1..n : q[k] = u
        BY <1>5 DEF Links
      <3>2. \A k \in 1..n : q[k] = q[n] => k = n
        BY <1>5, <1>9 DEF Links
      <3>3. \A k \in 1..n : k = n \/ k \in 1..(n - 1)
        BY <1>8
      <3>4. n \notin 1..(n - 1)
        BY <1>8
      <3> QED
        BY <1>12, <1>14, <3>1, <3>2, <3>3, <3>4
    <2>3. state'.head = state.head /\ state.head # Null /\ q[1] = state.head
      BY <1>1, <1>4, <1>5, <1>8 DEF Links, Word
    <2>4. n - 1 # 0 /\ r[1] = q[1]
      BY <1>8, <1>12
    <2>5. \A k \in 1..(n - 1) : k < n - 1 => node'[r[k]].next = r[k + 1]
      <3> SUFFICES ASSUME NEW k \in 1..(n - 1), k < n - 1
                   PROVE  node'[r[k]].next = r[k + 1]
        OBVIOUS
      <3>1. k \in 1..n /\ k < n /\ k + 1 \in 1..(n - 1)
        BY <1>8
      <3>2. node[q[k]].next = q[k + 1]
        BY <1>5, <3>1 DEF Links
      <3> QED
        BY <1>11, <1>12, <3>1, <3>2
    <2> QED
      BY <2>1, <2>2, <2>3, <2>4, <2>5 DEF Links
  <1>16. Marks(n - 1, r, i, h, h)'
    <2>1. 1 <= h /\ h <= i /\ i <= n - 1 /\ i \in 1..(n - 1) /\ n - 1 \in 1..(n - 1)
      BY <1>8
    <2>2. node'[r[i]].tail = r[n - 1]
      BY <1>11, <1>12, <2>1
    <2>3. ASSUME NEW k \in 1..(n - 1)
          PROVE  /\ k < i => node'[r[k]].tail = Null
                 /\ i < k => node'[r[k]].prev = r[k - 1]
                 /\ k <= h \/ (h < k /\ k <= i) => node'[r[k]].prev = Null
      <3>1. r[k] = q[k] /\ q[k] \in Threads /\ k \in 1..n /\ (k < i => q[k] # q[i])
        BY <1>5, <1>8, <1>12 DEF Links
      <3>2. i < k => k - 1 \in 1..(n - 1)
        BY <1>8
      <3>3. /\ k < i => node[q[k]].tail = Null
            /\ i < k => node[q[k]].prev = q[k - 1]
            /\ k <= h \/ (h < k /\ k <= i) => node[q[k]].prev = Null
        BY <1>5, <1>7, <3>1 DEF Marks
      <3> QED
        BY <1>11, <1>12, <3>1, <3>2, <3>3
    <2>4. \A k \in 1..(n - 1) : ~ (h < k /\ k <= h)
      BY <1>8
    <2> QED
      BY <1>8, <2>1, <2>2, <2>3, <2>4 DEF Marks
  <1>17. Walkers(n - 1, r, i, h, h)'
    BY <1>4, <1>6 DEF Walkers
  <1> QED
    BY <1>13, <1>15, <1>16, <1>17, PutQueue

\* A thread pushes itself: it is the newest now, and a queue of one knows its tail.
LEMMA PushStep ==
  ASSUME IInv, SleepInv, QueueInv, NEW t \in Threads, Push(t), pc'[t] = "parked"
  PROVE  QueueInv'
  <1> USE DEF Goto, Load, walking, Labels
  <1>1. /\ pc \in [Threads -> Labels] /\ should_park \in [Threads -> BOOLEAN]
        /\ node \in [Threads -> Nodes] /\ state \in Word
    BY TypeOKNodes DEF IInv
  <1>2. PICK n \in Nat, i \in Nat, h \in Nat, c \in Nat : \E q \in [1..n -> Threads] :
           Shape(n, q, i, h, c)
    BY GetQueue
  <1>3. PICK q \in [1..n -> Threads] : Shape(n, q, i, h, c)
    BY <1>2
  <1>4. /\ pc[t] = "lock_full" /\ state' = [state EXCEPT !.head = t]
        /\ node' = [node EXCEPT ![t] = NewNode(t, state.head)]
        /\ should_park' = [should_park EXCEPT ![t] = TRUE]
        /\ UNCHANGED <<expected, walking>>
        /\ \A u \in Threads \ {t} : pc'[u] = pc[u]
    BY <1>1 DEF Push
  <1>5. Links(n, q) /\ (n > 0 => Marks(n, q, i, h, c) /\ Walkers(n, q, i, h, c))
    BY <1>3 DEF Shape
  <1>6. /\ t \notin Asleep /\ \A u \in Threads : u \in Asleep' <=> u \in Asleep \/ u = t
    BY <1>1, <1>4, AsleepMeans, AsleepMeansAfter DEF SleepInv
  <1>7. \A k \in 1..n : q[k] \in Threads /\ q[k] # t
    BY <1>5, <1>6 DEF Links
  <1>8. /\ node'[t].next = state.head /\ node'[t].prev = Null
        /\ node'[t].tail = IF state.head = Null THEN t ELSE Null
        /\ \A u \in Threads \ {t} : node'[u] = node[u]
    BY <1>1, <1>4 DEF NewNode
  <1> DEFINE r == [k \in 1..(n + 1) |-> IF k = 1 THEN t ELSE q[k - 1]]
  <1>9. r \in [1..(n + 1) -> Threads] /\ n + 1 \in Nat
    <2>1. \A k \in 1..(n + 1) : k # 1 => k - 1 \in 1..n
      OBVIOUS
    <2> QED
      BY <2>1
  <1>10. r[1] = t /\ 1 \in 1..(n + 1)
    OBVIOUS
  <1>11. \A k \in 1..n : k + 1 \in 1..(n + 1) /\ r[k + 1] = q[k]
    OBVIOUS
  <1>12. \A k \in 1..(n + 1) : k = 1 \/ (k - 1 \in 1..n /\ r[k] = q[k - 1])
    OBVIOUS
  <1> HIDE DEF r
  <1>13. Links(n + 1, r)'
    <2>1. ASSUME NEW j \in 1..(n + 1), NEW k \in 1..(n + 1), r[j] = r[k] PROVE j = k
      <3>1. CASE j = 1 \/ k = 1
        BY <1>7, <1>10, <1>12, <2>1, <3>1
      <3>2. CASE j # 1 /\ k # 1
        <4>1. j - 1 \in 1..n /\ k - 1 \in 1..n /\ q[j - 1] = q[k - 1]
          BY <1>12, <2>1, <3>2
        <4>2. j - 1 = k - 1
          BY <1>5, <4>1 DEF Links
        <4> QED
          BY <4>2
      <3> QED
        BY <3>1, <3>2
    <2>2. ASSUME NEW u \in Threads
          PROVE  u \in Asleep' <=> \E k \in 1..(n + 1) : r[k] = u
      <3>1. u \in Asleep <=> \E k \in 1..n : q[k] = u
        BY <1>5 DEF Links
      <3>2. ASSUME u \in Asleep' PROVE \E k \in 1..(n + 1) : r[k] = u
        BY <1>6, <1>10, <1>11, <3>1, <3>2
      <3>3. ASSUME NEW k \in 1..(n + 1), r[k] = u PROVE u \in Asleep'
        BY <1>6, <1>10, <1>12, <3>1, <3>3
      <3> QED
        BY <3>2, <3>3
    <2>3. state'.head = t /\ t # Null /\ n + 1 # 0
      BY <1>1, <1>4, NullAssumption DEF Word
    <2>4. ASSUME NEW k \in 1..(n + 1), k < n + 1 PROVE node'[r[k]].next = r[k + 1]
      <3>1. CASE k = 1
        <4>1. n > 0 /\ 1 \in 1..n /\ q[1] = state.head /\ r[2] = q[1]
          BY <1>5, <1>11, <2>4, <3>1 DEF Links
        <4> QED
          BY <1>8, <1>10, <3>1, <4>1
      <3>2. CASE k # 1
        <4>1. k - 1 \in 1..n /\ k \in 1..n /\ k - 1 < n /\ r[k] = q[k - 1] /\ r[k + 1] = q[k]
          BY <1>11, <1>12, <2>4, <3>2
        <4>2. node[q[k - 1]].next = q[(k - 1) + 1]
          BY <1>5, <4>1 DEF Links
        <4>3. (k - 1) + 1 = k
          BY <4>1
        <4> QED
          BY <1>7, <1>8, <4>1, <4>2, <4>3
      <3> QED
        BY <3>1, <3>2
    <2> QED
      BY <1>10, <2>1, <2>2, <2>3, <2>4 DEF Links
  <1>14. CASE n = 0
    <2>1. state.head = Null /\ r[1] = t /\ node'[t].tail = t /\ node'[t].prev = Null
      BY <1>5, <1>8, <1>10, <1>14 DEF Links
    <2>2. Marks(1, r, 1, 1, 1)'
      BY <2>1 DEF Marks
    <2>3. \A u \in Threads : pc'[u] \notin {"walk", "wake"}
      BY <1>4, <2>1 DEF IInv, WalkInv, QueueLock, Queueing
    <2>4. Walkers(1, r, 1, 1, 1)'
      BY <2>3 DEF Walkers
    <2>5. n + 1 = 1
      BY <1>14
    <2> QED
      BY <1>9, <1>13, <2>2, <2>4, <2>5, PutQueue
  <1>15. CASE n # 0
    <2>1. /\ Marks(n, q, i, h, c) /\ Walkers(n, q, i, h, c) /\ state.head # Null
          /\ i \in 1..n /\ h \in 1..n /\ c \in 1..n /\ n \in 1..n /\ h <= c /\ c <= i
      BY <1>5, <1>15 DEF Links, Marks
    <2>2. Marks(n + 1, r, i + 1, h + 1, c + 1)'
      <3>1. node'[r[i + 1]].tail = r[n + 1]
        <4>1. r[i + 1] = q[i] /\ r[n + 1] = q[n] /\ node[q[i]].tail = q[n]
          BY <1>11, <2>1 DEF Marks
        <4> QED
          BY <1>7, <1>8, <2>1, <4>1
      <3>2. ASSUME NEW k \in 1..(n + 1)
            PROVE  /\ k < i + 1 => node'[r[k]].tail = Null
                   /\ i + 1 < k => node'[r[k]].prev = r[k - 1]
                   /\ h + 1 < k /\ k <= c + 1 => node'[r[k]].prev = r[k - 1]
                   /\ k <= h + 1 \/ (c + 1 < k /\ k <= i + 1) => node'[r[k]].prev = Null
        <4>1. CASE k = 1
          BY <1>8, <1>10, <2>1, <4>1
        <4>2. CASE k # 1
          <5> DEFINE j == k - 1
          <5>1. j \in 1..n /\ r[k] = q[j] /\ node'[q[j]] = node[q[j]] /\ k = j + 1
            BY <1>7, <1>8, <1>12, <4>2
          <5>2. i < j \/ h < j => j - 1 \in 1..n /\ r[k - 1] = q[j - 1]
            <6>1. i < j \/ h < j => j - 1 \in 1..n /\ (j - 1) + 1 = k - 1
              BY <2>1, <5>1
            <6> QED
              BY <1>11, <6>1
          <5> HIDE DEF j
          <5>3. /\ j < i => node[q[j]].tail = Null
                /\ i < j => node[q[j]].prev = q[j - 1]
                /\ h < j /\ j <= c => node[q[j]].prev = q[j - 1]
                /\ j <= h \/ (c < j /\ j <= i) => node[q[j]].prev = Null
            BY <2>1, <5>1 DEF Marks
          <5>4. /\ k < i + 1 <=> j < i
                /\ i + 1 < k <=> i < j
                /\ h + 1 < k <=> h < j
                /\ k <= c + 1 <=> j <= c
                /\ k <= h + 1 <=> j <= h
                /\ c + 1 < k <=> c < j
                /\ k <= i + 1 <=> j <= i
            BY <5>1
          <5> QED
            BY <5>1, <5>2, <5>3, <5>4
        <4> QED
          BY <4>1, <4>2
      <3>3. 1 <= h + 1 /\ h + 1 <= c + 1 /\ c + 1 <= i + 1 /\ i + 1 <= n + 1
        BY <2>1
      <3> QED
        BY <3>1, <3>2, <3>3 DEF Marks
    <2>3. Walkers(n + 1, r, i + 1, h + 1, c + 1)'
      <3>1. r[h + 1] = q[h] /\ r[c + 1] = q[c] /\ r[i + 1] = q[i] /\ r[n + 1] = q[n]
        BY <1>11, <2>1
      <3>2. ASSUME NEW u \in Threads
            PROVE  /\ pc'[u] = "walk" => expected'[u].head = q[h] /\ current'[u] = q[c]
                   /\ pc'[u] = "wake" => expected'[u].head = q[i] /\ tail'[u] = q[n]
        <4>1. pc'[u] \in {"walk", "wake"} => pc'[u] = pc[u]
          BY <1>4
        <4> QED
          BY <1>4, <2>1, <4>1 DEF Walkers
      <3>3. (\A u \in Threads : pc'[u] # "walk") => \A u \in Threads : pc[u] # "walk"
        BY <1>4
      <3>4. (\A u \in Threads : pc'[u] # "walk") => h + 1 = c + 1
        BY <2>1, <3>3 DEF Walkers
      <3> QED
        BY <3>1, <3>2, <3>4 DEF Walkers
    <2> QED
      BY <1>9, <1>13, <2>1, <2>2, <2>3, PutQueue
  <1> QED
    BY <1>14, <1>15

----------------------------------------------------------------------------
(* The inductive invariant *)

\* No step of any thread breaks the queue, and no walk runs out of it.
LEMMA QueueStep ==
  ASSUME IInv, SleepInv, QueueInv, NEW t \in Threads, Lock(t) \/ Internal(t)
  PROVE  pc'[t] # "aborted" /\ QueueInv'
  <1> USE DEF Goto, Load, Labels
  <1>1. pc \in [Threads -> Labels] /\ pc[t] # "aborted"
    BY DEF IInv, TypeOK, SleepInv
  <1>2. CASE Lock(t) \/ LoadToLock(t) \/ Grab(t) \/ Spin(t) \/ WakeUp(t)
             \/ Unlock(t) \/ LoadToUnlock(t) \/ Unpark(t)
    <2>1. pc'[t] # "aborted"
      BY <1>1, <1>2 DEF Lock, LoadToLock, Grab, Spin, WakeUp, Unlock, LoadToUnlock, Unpark
    <2> QED
      BY <1>2, <2>1, QueueKept
  <1>3. CASE Push(t)
    <2>1. pc'[t] # "aborted"
      BY <1>1, <1>3 DEF Push
    <2> QED
      BY <1>3, <2>1, QueueKept, PushStep
  <1>4. CASE LockQueue(t)
    <2>1. pc'[t] # "aborted"
      BY <1>1, <1>4 DEF LockQueue
    <2> QED
      BY <1>4, <2>1, QueueKept, LockQueueStep
  <1>5. CASE Walk(t)
    BY <1>5, WalkStep
  <1>6. CASE EndWalk(t)
    <2>1. pc'[t] # "aborted"
      BY <1>1, <1>6 DEF EndWalk
    <2> QED
      BY <1>6, <2>1, EndWalkStep
  <1>7. CASE LeaveToOwner(t)
    <2>1. pc'[t] # "aborted"
      BY <1>1, <1>7 DEF LeaveToOwner, WalkAgain
    <2> QED
      BY <1>7, <2>1, QueueKept, WalkAgainStep
  <1>8. CASE TakeLast(t)
    <2>1. pc'[t] \in {"unpark", "walk"}
      BY <1>1, <1>8 DEF TakeLast, WalkAgain
    <2> QED
      BY <1>8, <2>1, TakeLastStep, WalkAgainStep
  <1>9. CASE TakeTail(t)
    <2>1. pc'[t] # "aborted"
      BY <1>1, <1>9 DEF TakeTail
    <2> QED
      BY <1>9, <2>1, TakeTailStep
  <1> QED
    BY <1>2, <1>3, <1>4, <1>5, <1>6, <1>7, <1>8, <1>9 DEF Internal

\* The queue starts empty, with nobody asleep.
LEMMA QueueInit == Init => QueueInv /\ SleepInv
  <1> SUFFICES ASSUME Init
               PROVE  QueueInv /\ SleepInv
    OBVIOUS
  <1>1. \A u : u \notin Asleep
    BY AsleepMeans DEF Init
  <1>2. Links(0, [k \in 1..0 |-> Null])
    BY <1>1 DEF Links, Init, Zero
  <1>3. [k \in 1..0 |-> Null] \in [1..0 -> Threads]
    OBVIOUS
  <1>4. Shape(0, [k \in 1..0 |-> Null], 0, 0, 0)
    BY <1>2 DEF Shape
  <1>5. QueueInv
    BY <1>3, <1>4 DEF QueueInv
  <1>6. SleepInv
    BY DEF SleepInv, Init
  <1> QED
    BY <1>5, <1>6

\* A step that changes nothing keeps the queue.
LEMMA QueueStutter ==
  ASSUME SleepInv, QueueInv, UNCHANGED vars
  PROVE  SleepInv' /\ QueueInv'
  <1>1. \A u \in Threads : u \in Asleep' <=> u \in Asleep
    BY AsleepMeans, AsleepMeansAfter DEF vars
  <1>2. QueueInv'
    BY <1>1, QueueFrame DEF vars
  <1>3. SleepInv'
    BY DEF vars, SleepInv
  <1> QED
    BY <1>2, <1>3

\* The queue and its sleepers, in every reachable state, for any number of threads.
THEOREM QueueInvariance == Spec => [](IInv /\ SleepInv /\ QueueInv)
  <1>1. ASSUME IInv, SleepInv, QueueInv, NEW t \in Threads, Lock(t) \/ Internal(t)
        PROVE  SleepInv' /\ QueueInv'
    BY <1>1, QueueStep, SleepStep
  <1>2. IInv /\ SleepInv /\ QueueInv /\ [Next]_vars => SleepInv' /\ QueueInv'
    BY <1>1, QueueStutter DEF Next
  <1>3. IInv /\ SleepInv /\ QueueInv /\ [Next]_vars => (IInv /\ SleepInv /\ QueueInv)'
    BY <1>2, Inductive
  <1> QED
    BY <1>3, InitIInv, QueueInit, PTL DEF Spec

----------------------------------------------------------------------------
(* What the invariant says *)

\* The nodes that unlock_full is about to read or write are in the queue, and so
\* on the stacks of threads asleep in park.
LEMMA QueueNodesLive ==
  IInv /\ SleepInv /\ QueueInv => NoDanglingNode
  <1> SUFFICES ASSUME IInv, SleepInv, QueueInv, NEW t \in Threads
               PROVE  /\ pc[t] # "aborted"
                      /\ LET touched == CASE pc[t] = "walk" -> {expected[t].head, current[t]}
                            [] pc[t] = "wake" -> {expected[t].head, tail[t], node[tail[t]].prev}
                            [] pc[t] = "unpark" -> {tail[t]}
                            [] OTHER -> {}
                         IN  \A u \in touched \ {Null} : pc[u] = "parked" /\ should_park[u]
    BY DEF NoDanglingNode
  <1>1. PICK n \in Nat, i \in Nat, h \in Nat, c \in Nat : \E q \in [1..n -> Threads] :
           Shape(n, q, i, h, c)
    BY GetQueue
  <1>2. PICK q \in [1..n -> Threads] : Shape(n, q, i, h, c)
    BY <1>1
  <1>3. \A k \in 1..n : pc[q[k]] = "parked" /\ should_park[q[k]]
    BY <1>2, AsleepMeans DEF Shape, Links, SleepInv
  <1>4. CASE pc[t] \in {"walk", "wake"}
    <2>1. n > 0 /\ Marks(n, q, i, h, c) /\ Walkers(n, q, i, h, c)
      BY <1>2, <1>4, QueueingHasNodes DEF Shape
    <2>2. h \in 1..n /\ c \in 1..n /\ i \in 1..n /\ n \in 1..n
      BY <2>1 DEF Marks
    <2>3. CASE pc[t] = "walk"
      <3>1. expected[t].head = q[h] /\ current[t] = q[c]
        BY <2>1, <2>3 DEF Walkers
      <3> QED
        BY <1>3, <2>2, <2>3, <3>1
    <2>4. CASE pc[t] = "wake"
      <3>1. expected[t].head = q[i] /\ tail[t] = q[n]
        BY <2>1, <2>4 DEF Walkers
      <3>2. node[q[n]].prev = Null \/ (n - 1 \in 1..n /\ node[q[n]].prev = q[n - 1])
        <4>1. CASE n > h
          <5>1. \/ i < n
                \/ h < n /\ n <= c
                \/ c < n /\ n <= i
            BY <2>1, <2>2, <4>1 DEF Marks
          <5> QED
            BY <2>1, <2>2, <4>1, <5>1 DEF Marks
        <4>2. CASE n <= h
          BY <2>1, <2>2, <4>2 DEF Marks
        <4> QED
          BY <2>2, <4>1, <4>2
      <3> QED
        BY <1>3, <2>2, <2>4, <3>1, <3>2
    <2> QED
      BY <1>4, <2>3, <2>4
  <1>5. CASE pc[t] = "unpark"
    BY <1>5 DEF SleepInv
  <1>6. CASE pc[t] \notin {"walk", "wake", "unpark"}
    BY <1>6 DEF SleepInv
  <1> QED
    BY <1>4, <1>5, <1>6

\* Every set of numbers that is not empty has a least one.
LEMMA LeastNat ==
  ASSUME NEW T \in SUBSET Nat, T # {}
  PROVE  \E n \in T : \A m \in T : n <= m
  <1> DEFINE R == OpToRel(<, Nat)
  <1>1. IsWellFoundedOn(R, Nat)
    BY NatLessThanWellFounded, Zenon
  <1>2. \A x, y \in Nat : x < y => <<x, y>> \in R
    BY DEF OpToRel
  <1> HIDE DEF R
  <1>3. PICK n \in T : \A m \in T : ~ (<<m, n>> \in R)
    BY <1>1, WFMin
  <1>4. \A m \in T : m \in Nat /\ n \in Nat /\ ~ (m < n)
    BY <1>2, <1>3
  <1> QED
    BY <1>4

\* g is the walk along next from the newest node, up to the m-th.
Follows(g, m) ==
    g = [k \in 0..m |-> IF k = 0 THEN state.head
                        ELSE IF g[k - 1] = Null THEN Null ELSE node[g[k - 1]].next]

\* There is such a walk, however far it goes: the recursion of Nth is well founded.
LEMMA FollowsExists ==
  ASSUME NEW m \in Nat
  PROVE  \E g : Follows(g, m)
  <1> DEFINE T == {k \in Nat : ~ \E g : Follows(g, k)}
  <1>1. SUFFICES ASSUME T # {} PROVE FALSE
    OBVIOUS
  <1>2. PICK k \in T : \A j \in T : k <= j
    BY <1>1, LeastNat
  <1>3. CASE k = 0
    <2> DEFINE g == [j \in 0..0 |-> state.head]
    <2>1. Follows(g, 0)
      BY DEF Follows
    <2> QED
      BY <1>2, <1>3, <2>1
  <1>4. CASE k # 0
    <2>1. k - 1 \in Nat /\ k \in Nat /\ ~ (k - 1 \in T)
      BY <1>2, <1>4
    <2>2. PICK g : Follows(g, k - 1)
      BY <2>1
    <2> DEFINE next(j) == IF j = 0 THEN state.head
                          ELSE IF g[j - 1] = Null THEN Null ELSE node[g[j - 1]].next
               f == [j \in 0..k |-> next(j)]
    <2>3. \A j \in 0..(k - 1) : g[j] = next(j)
      BY <2>2 DEF Follows
    <2>4. \A j \in 0..(k - 1) : f[j] = g[j]
      BY <2>1, <2>3
    <2>5. ASSUME NEW j \in 0..k
          PROVE  next(j) = IF j = 0 THEN state.head
                           ELSE IF f[j - 1] = Null THEN Null ELSE node[f[j - 1]].next
      <3>1. CASE j = 0
        BY <3>1
      <3>2. CASE j # 0
        <4>1. j - 1 \in 0..(k - 1)
          BY <2>1, <3>2
        <4>2. f[j - 1] = g[j - 1]
          BY <2>4, <4>1
        <4> HIDE DEF f
        <4> QED
          BY <3>2, <4>2
      <3> QED
        BY <3>1, <3>2
    <2>6. f = [j \in 0..k |-> IF j = 0 THEN state.head
                              ELSE IF f[j - 1] = Null THEN Null ELSE node[f[j - 1]].next]
      <3>1. f = [j \in 0..k |-> next(j)]
        OBVIOUS
      <3> HIDE DEF f, next
      <3> QED
        BY <2>5, <3>1
    <2>7. Follows(f, k)
      BY <2>6 DEF Follows
    <2> QED
      BY <1>2, <2>7
  <1> QED
    BY <1>3, <1>4

\* Nth is such a walk as far as there are threads.
LEMMA NthFollows == Follows(Nth, Cardinality(Threads))
  <1> DEFINE N == Cardinality(Threads)
  <1>1. N \in Nat
    BY ThreadsAssumption, FS_CardinalityType
  <1>2. Nth = CHOOSE g : Follows(g, N)
    BY DEF Nth, Follows
  <1>3. \E g : Follows(g, N)
    BY <1>1, FollowsExists
  <1> QED
    BY <1>2, <1>3

\* Nth names the queue's nodes in their order.
LEMMA NthIsQueue ==
  ASSUME NEW n \in Nat, NEW q \in [1..n -> Threads], Links(n, q), n > 0,
         n <= Cardinality(Threads)
  PROVE  \A k \in 0..(n - 1) : Nth[k] = q[k + 1]
  <1> DEFINE N == Cardinality(Threads)
             T == {k \in Nat : k < n /\ Nth[k] # q[k + 1]}
  <1>1. N \in Nat
    BY ThreadsAssumption, FS_CardinalityType
  <1>2. \A k \in 0..N : Nth[k] = IF k = 0 THEN state.head
                                 ELSE IF Nth[k - 1] = Null THEN Null ELSE node[Nth[k - 1]].next
    <2>1. ASSUME NEW g, Follows(g, N)
          PROVE  \A k \in 0..N : g[k] = IF k = 0 THEN state.head
                                        ELSE IF g[k - 1] = Null THEN Null ELSE node[g[k - 1]].next
      BY <2>1 DEF Follows
    <2> QED
      BY <2>1, NthFollows
  <1> HIDE DEF N
  <1>3. SUFFICES ASSUME T # {} PROVE FALSE
    OBVIOUS
  <1>4. PICK k \in T : \A j \in T : k <= j
    BY <1>3, LeastNat
  <1>5. k \in Nat /\ k < n /\ Nth[k] # q[k + 1] /\ k \in 0..N
    BY <1>1, <1>4 DEF N
  <1>6. CASE k = 0
    BY <1>2, <1>5, <1>6 DEF Links
  <1>7. CASE k # 0
    <2>1. k - 1 \in Nat /\ ~ (k - 1 \in T)
      BY <1>4, <1>5, <1>7
    <2>2. Nth[k - 1] = q[k]
      BY <2>1, <1>5
    <2>3. k \in 1..n /\ q[k] \in Threads /\ node[q[k]].next = q[k + 1]
      BY <1>5, <1>7 DEF Links
    <2>4. Nth[k] = node[q[k]].next
      BY <1>2, <1>5, <1>7, <2>2, <2>3, NullAssumption
    <2> QED
      BY <1>5, <2>3, <2>4
  <1> QED
    BY <1>6, <1>7

\* The sleepers are as many as the queue is long, and no more than there are threads.
LEMMA CountSleepers ==
  ASSUME NEW n \in Nat, NEW q \in [1..n -> Threads], Links(n, q)
  PROVE  /\ Asleep = {q[k] : k \in 1..n}
         /\ Cardinality(Asleep) = n
         /\ n <= Cardinality(Threads)
  <1>1. Asleep = {q[k] : k \in 1..n}
    BY AsleepMeans DEF Links
  <1>2. Asleep \subseteq Threads
    BY AsleepMeans
  <1>3. q \in Bijection(1..n, Asleep)
    <2>1. q \in [1..n -> Asleep]
      BY <1>1
    <2>2. \A a, b \in 1..n : q[a] = q[b] => a = b
      BY DEF Links
    <2>3. \A u \in Asleep : \E k \in 1..n : q[k] = u
      BY <1>1
    <2> QED
      BY <2>1, <2>2, <2>3, Fun_IsBij
  <1>4. IsFiniteSet(1..n) /\ Cardinality(1..n) = n
    BY FS_Interval
  <1>5. ExistsBijection(1..n, Asleep)
    BY <1>3 DEF ExistsBijection
  <1>6. Cardinality(Asleep) = n
    BY <1>4, <1>5, FS_Bijection
  <1>7. Cardinality(Asleep) <= Cardinality(Threads)
    BY <1>2, ThreadsAssumption, FS_Subset
  <1> QED
    BY <1>1, <1>6, <1>7

\* The queue that the invariant names is the one that Nth, tail and prev tell.
LEMMA QueueFound ==
  IInv /\ QueueInv => QueueHoldsSleepers
  <1> SUFFICES ASSUME IInv, QueueInv
               PROVE  QueueHoldsSleepers
    OBVIOUS
  <1>1. PICK n \in Nat, i \in Nat, h \in Nat, c \in Nat : \E q \in [1..n -> Threads] :
           Shape(n, q, i, h, c)
    BY GetQueue
  <1>2. PICK q \in [1..n -> Threads] : Shape(n, q, i, h, c)
    BY <1>1
  <1>3. Links(n, q)
    BY <1>2 DEF Shape
  <1>4. CASE n = 0
    <2>1. state.head = Null /\ Asleep = {}
      BY <1>3, <1>4, AsleepMeans DEF Links
    <2> QED
      BY <2>1 DEF QueueHoldsSleepers
  <1>5. CASE n # 0
    <2> DEFINE N == Cardinality(Threads)
    <2>1. /\ Asleep = {q[k] : k \in 1..n} /\ Cardinality(Asleep) = n
          /\ n <= N /\ N \in Nat
      BY <1>3, CountSleepers, ThreadsAssumption, FS_CardinalityType
    <2>2. \A k \in 0..(n - 1) : Nth[k] = q[k + 1]
      BY <1>3, <1>5, <2>1, NthIsQueue
    <2> HIDE DEF N
    <2>3. Marks(n, q, i, h, c)
      BY <1>2, <1>5 DEF Shape
    <2>4. /\ 1 <= i /\ i <= n /\ node[q[i]].tail = q[n]
          /\ \A k \in 1..n : /\ k < i => node[q[k]].tail = Null
                             /\ i < k => node[q[k]].prev = q[k - 1]
      BY <2>3 DEF Marks
    <2> DEFINE a == i - 1
               b == n - 1
    <2>5. a \in 0..(N - 1) /\ b \in 0..(N - 1) /\ a <= b
      BY <2>1, <2>4, <1>5
    <2>6. \A k \in 0..b : Nth[k] = q[k + 1] /\ q[k + 1] \in Threads
      BY <2>2, <1>5
    <2>7. \A k \in 0..b : Nth[k] # Null
      BY <2>6, NullAssumption
    <2>8. \A k \in 0..(a - 1) : node[Nth[k]].tail = Null
      <3> SUFFICES ASSUME NEW k \in 0..(a - 1)
                   PROVE  node[Nth[k]].tail = Null
        OBVIOUS
      <3>1. k \in 0..b /\ k + 1 \in 1..n /\ k + 1 < i
        BY <2>4
      <3> QED
        BY <2>4, <2>6, <3>1
    <2>9. node[Nth[a]].tail = Nth[b]
      <3>1. a \in 0..b /\ b \in 0..b /\ a + 1 = i /\ b + 1 = n
        BY <2>4
      <3> QED
        BY <2>4, <2>6, <3>1
    <2>10. {Nth[k] : k \in 0..b} = Asleep
      <3>1. ASSUME NEW k \in 0..b PROVE Nth[k] \in {q[j] : j \in 1..n}
        BY <2>6, <3>1
      <3>2. ASSUME NEW j \in 1..n PROVE q[j] \in {Nth[k] : k \in 0..b}
        <4>1. j - 1 \in 0..b /\ (j - 1) + 1 = j
          BY <3>2
        <4> QED
          BY <2>6, <4>1
      <3> HIDE DEF b
      <3> QED
        BY <2>1, <3>1, <3>2
    <2>11. Cardinality(Asleep) = b + 1
      BY <2>1, <1>5
    <2>12. \A k \in a..(b - 1) : node[Nth[k + 1]].prev = Nth[k]
      <3> SUFFICES ASSUME NEW k \in a..(b - 1)
                   PROVE  node[Nth[k + 1]].prev = Nth[k]
        OBVIOUS
      <3>1. k \in 0..b /\ k + 1 \in 0..b /\ k + 2 \in 1..n /\ i < k + 2
            /\ (k + 1) + 1 = k + 2 /\ (k + 2) - 1 = k + 1
        BY <2>4
      <3>2. node[q[k + 2]].prev = q[(k + 2) - 1]
        BY <2>4, <3>1
      <3> QED
        BY <2>6, <3>1, <3>2
    <2>13. state.head # Null
      BY <1>3, <1>5 DEF Links
    <2> HIDE DEF a, b
    <2> QED
      BY <2>5, <2>7, <2>8, <2>9, <2>10, <2>11, <2>12, <2>13 DEF QueueHoldsSleepers, N
  <1> QED
    BY <1>4, <1>5

\* No sleeper is lost by a push that races with a walk, with the removal of the
\* tail, or with the word being cleared, and unlock_full touches only nodes on the
\* stacks of threads asleep, for any number of threads.
THEOREM QueueIsExact == Spec => []QueueExact
  <1>1. IInv /\ SleepInv /\ QueueInv => QueueExact
    BY QueueNodesLive, QueueFound DEF QueueExact
  <1> QED
    BY <1>1, QueueInvariance, PTL
=============================================================================
