------------------------- MODULE TraceBufferProofs -------------------------
(***************************************************************************)
(* The trace buffer for any number of threads, packets and sizes: the lock *)
(* keeps writers from those who fill, a flush writes the packets that were *)
(* claimed and nothing else, and the cursor stays within a bound.          *)
(***************************************************************************)
EXTENDS TraceBuffer, FiniteSetTheorems, FunctionTheorems, WellFoundedInduction, TLAPS

\* What the code is used for: a packet is not empty, and there is one buffer.
Packets ==
    /\ IsFiniteSet(Threads)
    /\ BufferSize \in Nat /\ MaxPackets \in Nat
    /\ Sizes \subseteq Nat \ {0}
-----------------------------------------------------------------------------
(* SharedExclusiveSpinLock *)

Labels == {"idle", "load", "enter", "claim", "over", "leave", "fill", "request", "take",
           "write", "reset", "unlock"}

\* The types of what the lock's proof looks at.
LockTypes ==
    /\ shared \in Nat
    /\ waiting \in BOOLEAN /\ exclusive \in BOOLEAN
    /\ pc \in [Threads -> Labels]

\* At most one thread writes; as TLC counts them.
OneWriter ==
    /\ \A t, u \in Writing : t = u
    /\ exclusive <=> Writing # {}

LockInv ==
    /\ LockTypes
    /\ OneWriter
    /\ shared = Cardinality(Sharing)
    /\ exclusive => shared = 0
    /\ waiting => \E t \in Threads : pc[t] \in {"request", "take"}

\* The lock is free at first.
LEMMA InitLock == Init => LockInv
  <1> SUFFICES ASSUME Init PROVE LockInv
    OBVIOUS
  <1>1. Sharing = {} /\ Writing = {}
    BY DEF Init, Sharing, Writing
  <1> QED
    BY <1>1, FS_EmptySet DEF Init, LockInv, LockTypes, OneWriter, Labels

\* One thread more that shares the buffer ...
LEMMA OneMore ==
  ASSUME NEW S, NEW T, NEW t, IsFiniteSet(S), t \notin S, T = S \cup {t}
  PROVE  Cardinality(T) = Cardinality(S) + 1 /\ Cardinality(S) \in Nat /\ IsFiniteSet(T)
  BY FS_AddElement, FS_CardinalityType

\* ... or one less.
LEMMA OneLess ==
  ASSUME NEW S, NEW T, NEW t, IsFiniteSet(S), t \in S, T = S \ {t}
  PROVE  Cardinality(T) = Cardinality(S) - 1 /\ Cardinality(T) \in Nat /\ Cardinality(S) \in Nat
  BY FS_RemoveElement, FS_CardinalityType

\* An access to the lock's word keeps them apart: a thread shares only when there is no
\* writer, and becomes one only when nobody shares.
LEMMA LockStep ==
  ASSUME Packets
  PROVE  LockInv /\ [Next]_vars => LockInv'
  <1> SUFFICES ASSUME LockInv, [Next]_vars PROVE LockInv'
    OBVIOUS
  <1> USE DEF Goto
  <1>f. IsFiniteSet(Sharing) /\ Cardinality(Sharing) \in Nat
    BY FS_Subset, FS_CardinalityType DEF Packets, Sharing
  <1>e. Cardinality(Sharing) = 0 => Sharing = {}
    BY <1>f, FS_EmptySet
  \* A step that is about neither side of the lock.
  <1>0. ASSUME Sharing' = Sharing, Writing' = Writing, LockTypes', UNCHANGED <<shared, exclusive>>,
               waiting' => \E t \in Threads : pc'[t] \in {"request", "take"}
        PROVE  LockInv'
    BY <1>0 DEF LockInv, OneWriter
  <1>1. CASE UNCHANGED vars
    BY <1>1 DEF vars, word, LockInv, LockTypes, OneWriter, Sharing, Writing
  <1>2. ASSUME NEW t \in Threads, CallTrace(t) PROVE LockInv'
    BY <1>0, <1>2 DEF CallTrace, word, LockInv, LockTypes, Labels, Sharing, Writing
  <1>3. ASSUME NEW t \in Threads, LoadShared(t) PROVE LockInv'
    BY <1>0, <1>3 DEF LoadShared, word, LockInv, LockTypes, Labels, Sharing, Writing
  <1>4. ASSUME NEW t \in Threads, AcquireShared(t) PROVE LockInv'
    <2>1. CASE WordIs(expected[t])
      <3>1. /\ t \notin Sharing /\ Sharing' = Sharing \cup {t} /\ Writing' = Writing
            /\ shared' = shared + 1 /\ waiting' = waiting /\ exclusive' = exclusive
            /\ ~exclusive /\ ~waiting
        BY <1>4, <2>1 DEF AcquireShared, WordIs, LockInv, LockTypes, Sharing, Writing
      <3>2. LockTypes'
        BY <1>4, <2>1, <3>1 DEF AcquireShared, LockInv, LockTypes, Labels
      <3>3. Cardinality(Sharing') = Cardinality(Sharing) + 1
        BY <1>f, <3>1, OneMore
      <3> QED
        BY <3>1, <3>2, <3>3 DEF LockInv, OneWriter
    <2>2. CASE ~WordIs(expected[t])
      BY <1>0, <1>4, <2>2 DEF AcquireShared, LockInv, LockTypes, Labels, Sharing, Writing
    <2> QED
      BY <2>1, <2>2
  <1>5. ASSUME NEW t \in Threads, Claim(t) PROVE LockInv'
    BY <1>0, <1>5 DEF Claim, word, LockInv, LockTypes, Labels, Sharing, Writing
  <1>6. ASSUME NEW t \in Threads, RecordOverage(t) PROVE LockInv'
    BY <1>0, <1>6 DEF RecordOverage, word, LockInv, LockTypes, Labels, Sharing, Writing
  <1>7. ASSUME NEW t \in Threads, GiveUp(t) \/ ReleasePacket(t) PROVE LockInv'
    <2>1. /\ t \in Sharing /\ Sharing' = Sharing \ {t} /\ Writing' = Writing
          /\ shared' = shared - 1 /\ waiting' = waiting /\ exclusive' = exclusive
      BY <1>7 DEF GiveUp, ReleasePacket, LockInv, LockTypes, Sharing, Writing
    <2>2. /\ Cardinality(Sharing') = Cardinality(Sharing) - 1
          /\ Cardinality(Sharing') \in Nat /\ Cardinality(Sharing) \in Nat
      BY <1>f, <2>1, OneLess
    <2>3. ~exclusive
      BY <1>e, <2>1 DEF LockInv
    <2>4. LockTypes'
      BY <1>7, <2>1, <2>2 DEF GiveUp, ReleasePacket, LockInv, LockTypes, Labels
    <2>5. waiting' => \E u \in Threads : pc'[u] \in {"request", "take"}
      BY <1>7, <2>1 DEF GiveUp, ReleasePacket, LockInv, LockTypes
    <2> QED
      BY <2>1, <2>2, <2>3, <2>4, <2>5 DEF LockInv, OneWriter
  <1>8. ASSUME NEW t \in Threads, Request(t) PROVE LockInv'
    BY <1>0, <1>8 DEF Request, LockInv, LockTypes, Labels, Sharing, Writing
  <1>9. ASSUME NEW t \in Threads, AcquireExclusive(t) PROVE LockInv'
    <2>1. CASE shared = 0 /\ waiting /\ ~exclusive
      <3>1. /\ Sharing' = Sharing /\ Writing = {} /\ Writing' = {t}
            /\ shared' = shared /\ ~waiting' /\ exclusive'
        BY <1>9, <2>1 DEF AcquireExclusive, LockInv, LockTypes, OneWriter, Sharing, Writing
      <3>2. LockTypes'
        BY <1>9, <2>1, <3>1 DEF AcquireExclusive, LockInv, LockTypes, Labels
      <3> QED
        BY <2>1, <3>1, <3>2 DEF LockInv, OneWriter
    <2>2. CASE ~ (shared = 0 /\ waiting /\ ~exclusive)
      BY <1>0, <1>9, <2>2
         DEF AcquireExclusive, Again, LockInv, LockTypes, Labels, Sharing, Writing
    <2> QED
      BY <2>1, <2>2
  <1>10. ASSUME NEW t \in Threads, WriteOut(t) PROVE LockInv'
    BY <1>0, <1>10 DEF WriteOut, word, LockInv, LockTypes, Labels, Sharing, Writing
  <1>11. ASSUME NEW t \in Threads, Reset(t) PROVE LockInv'
    BY <1>0, <1>11 DEF Reset, word, LockInv, LockTypes, Labels, Sharing, Writing
  <1>12. ASSUME NEW t \in Threads, ReleaseExclusive(t) PROVE LockInv'
    <2>1. /\ Sharing' = Sharing /\ Writing' = Writing \ {t} /\ t \in Writing
          /\ shared' = shared /\ waiting' = waiting /\ ~exclusive'
      BY <1>12 DEF ReleaseExclusive, LockInv, LockTypes, Sharing, Writing
    <2>2. LockTypes'
      BY <1>12, <2>1 DEF ReleaseExclusive, LockInv, LockTypes, Labels
    <2>3. waiting' => \E u \in Threads : pc'[u] \in {"request", "take"}
      BY <1>12, <2>1 DEF ReleaseExclusive, LockInv, LockTypes
    <2> QED
      BY <2>1, <2>2, <2>3 DEF LockInv, OneWriter
  <1> QED
    BY <1>1, <1>2, <1>3, <1>4, <1>5, <1>6, <1>7, <1>8, <1>9, <1>10, <1>11, <1>12
       DEF Next, Step

\* The lock's invariant holds of every behaviour.
THEOREM LockInvariance == ASSUME Packets PROVE Spec => []LockInv
  BY InitLock, LockStep, PTL DEF Spec

\* Nobody writes the buffer out while others fill it, the shared count is exact, and a
\* waiting bit belongs to a thread that will take the lock.
THEOREM LockExcludes == ASSUME Packets PROVE Spec => []Excludes
  <1>1. LockInv => Excludes
    <2> SUFFICES ASSUME LockInv PROVE Excludes
      OBVIOUS
    <2>1. CASE Writing = {}
      BY <2>1, FS_EmptySet DEF LockInv, OneWriter, LockTypes, Excludes
    <2>2. CASE Writing # {}
      <3>1. PICK t \in Writing : TRUE
        BY <2>2
      <3>2. Writing = {t}
        BY <3>1 DEF LockInv, OneWriter
      <3> QED
        BY <2>2, <3>2, FS_Singleton DEF LockInv, OneWriter, LockTypes, Excludes
    <2> QED
      BY <2>1, <2>2
  <1> QED
    BY <1>1, LockInvariance, PTL
-----------------------------------------------------------------------------
(* Spans *)

\* The spans lie one after the other from 0 to c.
Tiles(S, c) ==
    /\ c \in Nat
    /\ IsFiniteSet(S)
    /\ UNION S = 0..(c - 1)
    /\ \A a \in S : a # {}
    /\ \A a, b \in S : a # b => a \cap b = {}

\* A claim adds one to their end.
LEMMA TilesAdd ==
  ASSUME NEW S, NEW c, Tiles(S, c), NEW n \in Nat \ {0}
  PROVE  Tiles(S \cup {c..(c + n - 1)}, c + n)
  <1>1. PICK a, U : a = c..(c + n - 1) /\ U = UNION S
    OBVIOUS
  <1>2. a # {} /\ a \cap U = {} /\ U \cup a = 0..(c + n - 1) /\ c \in Nat
    <2>1. c \in Nat /\ U = 0..(c - 1)
      BY <1>1 DEF Tiles
    <2>2. a # {} /\ a \cap U = {}
      <3>1. c \in a
        BY <1>1, <2>1
      <3>2. ASSUME NEW x \in U, x \in a PROVE FALSE
        <4>1. x \in 0..(c - 1) /\ x \in c..(c + n - 1)
          BY <1>1, <2>1, <3>2, Zenon
        <4> QED
          BY <2>1, <4>1
      <3> QED
        BY <3>1, <3>2, Zenon
    <2>3. \A x : x \in U \cup a <=> x \in 0..(c + n - 1)
      BY <1>1, <2>1
    <2>4. U \cup a = 0..(c + n - 1)
      BY <2>3, Zenon
    <2> QED
      BY <2>1, <2>2, <2>4
  <1>3. IsFiniteSet(S \cup {a})
    BY FS_AddElement DEF Tiles
  <1>4. UNION (S \cup {a}) = 0..(c + n - 1)
    <2>1. \A x : x \in UNION (S \cup {a}) <=> x \in U \/ x \in a
      BY <1>1, Zenon
    <2>2. UNION (S \cup {a}) = U \cup a
      BY <2>1, Zenon
    <2> QED
      BY <1>2, <2>2
  <1>5. \A x \in S : x \cap a = {}
    <2>1. \A x \in S : \A y \in x : y \in U
      BY <1>1, Zenon
    <2>2. \A y \in a : y \notin U
      BY <1>2, Zenon
    <2> QED
      BY <2>1, <2>2, Zenon
  <1> QED
    BY <1>1, <1>2, <1>3, <1>4, <1>5 DEF Tiles

\* Every set of numbers that is not empty has a least one.
LEMMA LeastNat ==
  ASSUME NEW T \in SUBSET Nat, T # {}
  PROVE  \E n \in T : \A k \in T : n <= k
  <1> DEFINE R == OpToRel(<, Nat)
  <1>1. IsWellFoundedOn(R, Nat)
    BY NatLessThanWellFounded, Zenon
  <1>2. \A x, y \in Nat : x < y => <<x, y>> \in R
    BY DEF OpToRel
  <1> HIDE DEF R
  <1>3. PICK n \in T : \A k \in T : ~ (<<k, n>> \in R)
    BY <1>1, WFMin
  <1>4. \A k \in T : k \in Nat /\ n \in Nat /\ ~ (k < n)
    BY <1>2, <1>3
  <1> QED
    BY <1>4

\* Spans that do not overlap.
Apart(S) ==
    /\ IsFiniteSet(UNION S) /\ IsFiniteSet(S)
    /\ \A a, b \in S : a # b => a \cap b = {}

\* The recursion of MapThenSumSet.
Adds(S, it) ==
    it = [s \in SUBSET S |-> IF s = {} THEN 0
                             ELSE Cardinality(CHOOSE x \in s : TRUE)
                                    + it[s \ {CHOOSE x \in s : TRUE}]]

\* The numbers of one span and of the others.
LEMMA ApartSplit ==
  ASSUME NEW S, Apart(S), NEW s \in SUBSET S, NEW a \in s
  PROVE  /\ Cardinality(UNION s) = Cardinality(a) + Cardinality(UNION (s \ {a}))
         /\ Cardinality(a) \in Nat /\ Cardinality(UNION (s \ {a})) \in Nat
  <1>1. UNION s = a \cup UNION (s \ {a}) /\ a \cap UNION (s \ {a}) = {}
    BY DEF Apart
  <1>2. IsFiniteSet(a) /\ IsFiniteSet(UNION (s \ {a}))
    <2>1. a \subseteq UNION S /\ UNION (s \ {a}) \subseteq UNION S
      OBVIOUS
    <2> QED
      BY <2>1, FS_Subset DEF Apart
  <1>3. PICK b : b = UNION (s \ {a})
    OBVIOUS
  <1>4. Cardinality(a \cup b) = Cardinality(a) + Cardinality(b) - Cardinality(a \cap b)
    BY <1>2, <1>3, FS_Union
  <1>5. Cardinality(a \cap b) = 0
    BY <1>1, <1>3, FS_EmptySet
  <1>6. Cardinality(a) \in Nat /\ Cardinality(b) \in Nat
    BY <1>2, <1>3, FS_CardinalityType
  <1>7. UNION s = a \cup b
    BY <1>1, <1>3
  <1>8. Cardinality(UNION s) = Cardinality(a) + Cardinality(b)
    <2>1. PICK x, y : x = Cardinality(a) /\ y = Cardinality(b) /\ x \in Nat /\ y \in Nat
      BY <1>6
    <2>2. Cardinality(a \cup b) = x + y - 0
      BY <1>4, <1>5, <2>1, Zenon
    <2>3. x + y - 0 = x + y
      BY <2>1
    <2> QED
      BY <1>7, <2>1, <2>2, <2>3, Zenon
  <1> QED
    BY <1>3, <1>6, <1>8

\* It counts the numbers in the spans.
LEMMA SumIsSize ==
  ASSUME NEW S, Apart(S), NEW it, Adds(S, it)
  PROVE  it[S] = Cardinality(UNION S)
  <1> DEFINE T == {n \in Nat : \E s \in SUBSET S :
                                  Cardinality(s) = n /\ it[s] # Cardinality(UNION s)}
  <1>1. \A s \in SUBSET S : IsFiniteSet(s) /\ Cardinality(s) \in Nat
    BY FS_Subset, FS_CardinalityType DEF Apart
  <1> SUFFICES ASSUME T # {} PROVE FALSE
    BY <1>1
  <1>2. PICK n \in T : \A k \in T : n <= k
    BY LeastNat
  <1>3. PICK s \in SUBSET S : Cardinality(s) = n /\ it[s] # Cardinality(UNION s)
    BY <1>2
  <1>4. s # {}
    <2>1. it[{}] = 0 /\ UNION {} = {}
      BY DEF Adds
    <2> QED
      BY <1>3, <2>1, FS_EmptySet
  <1>5. PICK a : a = CHOOSE x \in s : TRUE
    OBVIOUS
  <1>6. a \in s
    BY <1>4, <1>5
  <1>7. s \ {a} \in SUBSET S /\ Cardinality(s \ {a}) = n - 1 /\ n - 1 \in Nat
    <2>1. IsFiniteSet(s) /\ Cardinality(s \ {a}) = n - 1
      BY <1>1, <1>3, <1>6, FS_RemoveElement
    <2>2. s \ {a} \in SUBSET S
      BY <1>3
    <2> QED
      BY <1>1, <2>1, <2>2
  <1>8. it[s \ {a}] = Cardinality(UNION (s \ {a}))
    <2>1. ~ (n - 1 \in T)
      <3> HIDE DEF T
      <3>1. n \in Nat
        BY <1>2 DEF T
      <3>2. n - 1 \in T => n <= n - 1
        BY <1>2
      <3> QED
        BY <3>1, <3>2
    <2> QED
      BY <1>7, <2>1
  <1>9. it[s] = Cardinality(a) + it[s \ {a}]
    BY <1>3, <1>4, <1>5 DEF Adds
  <1>10. Cardinality(UNION s) = Cardinality(a) + Cardinality(UNION (s \ {a}))
    BY <1>3, <1>6, ApartSplit
  <1> QED
    BY <1>3, <1>8, <1>9, <1>10

\* That recursion has a solution.
LEMMA SumExists ==
  ASSUME NEW S, Apart(S)
  PROVE  \E it : Adds(S, it)
  <1>1. PICK f : f = [s \in SUBSET S |-> Cardinality(UNION s)]
    OBVIOUS
  <1>2. ASSUME NEW s \in SUBSET S
        PROVE  Cardinality(UNION s) = IF s = {} THEN 0
                                      ELSE Cardinality(CHOOSE x \in s : TRUE)
                                             + f[s \ {CHOOSE x \in s : TRUE}]
    <2>1. CASE s = {}
      <3>1. UNION {} = {}
        OBVIOUS
      <3> QED
        BY <2>1, <3>1, FS_EmptySet
    <2>2. CASE s # {}
      <3>1. PICK a : a = CHOOSE x \in s : TRUE
        OBVIOUS
      <3>2. a \in s
        BY <2>2, <3>1
      <3>3. Cardinality(UNION s) = Cardinality(a) + Cardinality(UNION (s \ {a}))
        BY <3>2, ApartSplit
      <3>4. f[s \ {a}] = Cardinality(UNION (s \ {a}))
        BY <1>1
      <3> QED
        BY <2>2, <3>1, <3>3, <3>4
    <2> QED
      BY <2>1, <2>2
  <1>3. Adds(S, f)
    BY <1>1, <1>2 DEF Adds
  <1> QED
    BY <1>3

\* The sizes of the spans sum up to where the last one ends.
LEMMA TilesSum ==
  ASSUME NEW S, NEW c, Tiles(S, c)
  PROVE  MapThenSumSet(Cardinality, S) = c
  <1>1. PICK it : it = CHOOSE f : Adds(S, f)
    OBVIOUS
  <1>2. MapThenSumSet(Cardinality, S) = it[S]
    BY <1>1, Zenon DEF MapThenSumSet, MapThenFoldSet, Adds
  <1>3. IsFiniteSet(0..(c - 1)) /\ Cardinality(0..(c - 1)) = c
    <2>1. c \in Nat
      BY DEF Tiles
    <2> QED
      BY <2>1, FS_Interval
  <1>4. Apart(S)
    BY <1>3 DEF Apart, Tiles
  <1>5. it[S] = Cardinality(UNION S)
    BY <1>1, <1>4, SumExists, SumIsSize
  <1> QED
    BY <1>2, <1>3, <1>5 DEF Tiles
-----------------------------------------------------------------------------
(* The space of the buffer *)

\* Those over the end that have not recorded it, and what they will record, as a set of
\* so many bytes.
Over == {t \in Threads : pc[t] = "over"}
Room(sz, S) == UNION {{t} \X (1..sz[t]) : t \in S}
Missing == Cardinality(Room(size, Over))

\* What the cursor has gone beyond the spans, until it is set back to their end.
Resetting == \E t \in Threads : pc[t] = "reset"
Beyond == IF Resetting THEN 0 ELSE overage + Missing

\* Those that have been over the end and wait for a flush, and maybe others.
Late == {t \in Threads : pc[t] \in {"over", "leave", "request", "take", "write"}}

\* The longest packet.
Longest(n) == n \in Sizes /\ \A s \in Sizes : s <= n

SpaceTypes ==
    /\ cursor \in Nat /\ overage \in Nat
    /\ expected \in [Threads -> Nat]
    /\ left \in 0..MaxPackets
    /\ size \in [Threads -> Sizes \cup {0}]
    /\ \A t \in Threads : pc[t] \in {"load", "enter", "claim", "over", "leave"} => size[t] # 0

\* The spans end at c, p before the cursor; k threads are late.
Spaced(c, p, k, cur, sp) ==
    /\ Tiles(sp, c) /\ c <= BufferSize
    /\ cur = c + p
    /\ p > 0 => cur > BufferSize
    /\ \A n : Longest(n) => p <= k * n

SpaceInv ==
    /\ SpaceTypes
    /\ \E c \in Nat : Spaced(c, Beyond, Cardinality(Late), cursor, spans)

\* A packet adds its bytes to the room of others.
LEMMA RoomAdd ==
  ASSUME NEW sz, NEW S, NEW t, t \notin S, sz[t] \in Nat, IsFiniteSet(Room(sz, S))
  PROVE  /\ IsFiniteSet(Room(sz, S \cup {t}))
         /\ Cardinality(Room(sz, S \cup {t})) = Cardinality(Room(sz, S)) + sz[t]
         /\ Cardinality(Room(sz, S)) \in Nat
  <1>1. PICK w, B, R : w = sz[t] /\ B = {t} \X (1..w) /\ R = Room(sz, S)
    OBVIOUS
  <1>2. IsFiniteSet(B) /\ Cardinality(B) = w
    <2>1. IsFiniteSet({t}) /\ Cardinality({t}) = 1
      BY FS_Singleton
    <2>2. IsFiniteSet(1..w) /\ Cardinality(1..w) = w
      <3>1. w \in Nat
        BY <1>1
      <3> QED
        BY <3>1, FS_Interval
    <2>3. /\ IsFiniteSet({t} \X (1..w))
          /\ Cardinality({t} \X (1..w)) = Cardinality({t}) * Cardinality(1..w)
      BY <2>1, <2>2, FS_Product, Zenon
    <2>4. 1 * w = w
      BY <1>1
    <2> QED
      BY <1>1, <2>1, <2>2, <2>3, <2>4, Zenon
  <1>3. Room(sz, S \cup {t}) = R \cup B
    BY <1>1 DEF Room
  <1>4. R \cap B = {}
    BY <1>1 DEF Room
  <1>5. IsFiniteSet(R) /\ Cardinality(R) \in Nat
    BY <1>1, FS_CardinalityType
  <1>6. /\ IsFiniteSet(R \cup B)
        /\ Cardinality(R \cup B) = Cardinality(R) + Cardinality(B) - Cardinality(R \cap B)
    BY <1>2, <1>5, FS_Union
  <1>7. Cardinality(R \cap B) = 0
    BY <1>4, FS_EmptySet, Zenon
  <1>8. Cardinality(R \cup B) = Cardinality(R) + w
    BY <1>1, <1>2, <1>5, <1>6, <1>7
  <1> QED
    BY <1>1, <1>3, <1>5, <1>6, <1>8

\* Finitely many threads have finitely many bytes.
LEMMA RoomFinite ==
  ASSUME NEW S, IsFiniteSet(S), NEW sz, \A t \in S : sz[t] \in Nat
  PROVE  IsFiniteSet(Room(sz, S)) /\ Cardinality(Room(sz, S)) \in Nat
  <1> DEFINE T == {n \in Nat : \E s \in SUBSET S : Cardinality(s) = n /\ ~IsFiniteSet(Room(sz, s))}
  <1>1. \A s \in SUBSET S : IsFiniteSet(s) /\ Cardinality(s) \in Nat
    BY FS_Subset, FS_CardinalityType
  <1>0. T = {} => IsFiniteSet(Room(sz, S))
    BY <1>1
  <1> SUFFICES ASSUME T # {} PROVE FALSE
    BY <1>0, FS_CardinalityType
  <1>2. PICK n \in T : \A k \in T : n <= k
    BY LeastNat
  <1>3. PICK s \in SUBSET S : Cardinality(s) = n /\ ~IsFiniteSet(Room(sz, s))
    BY <1>2
  <1>4. s # {}
    <2>1. Room(sz, {}) = {}
      BY DEF Room
    <2> QED
      BY <1>3, <2>1, FS_EmptySet
  <1>5. PICK t \in s : TRUE
    BY <1>4
  <1>6. PICK r : r = s \ {t}
    OBVIOUS
  <1>7. r \in SUBSET S /\ Cardinality(r) = n - 1 /\ n - 1 \in Nat /\ s = r \cup {t} /\ t \notin r
    <2>1. IsFiniteSet(s) /\ Cardinality(s \ {t}) = n - 1
      BY <1>1, <1>3, <1>5, FS_RemoveElement
    <2>2. r \in SUBSET S /\ s = r \cup {t} /\ t \notin r
      BY <1>3, <1>5, <1>6
    <2> QED
      BY <1>1, <1>6, <2>1, <2>2
  <1>8. IsFiniteSet(Room(sz, r))
    <2>1. ~ (n - 1 \in T)
      BY <1>2, <1>7
    <2> QED
      BY <1>7, <2>1
  <1> QED
    BY <1>3, <1>5, <1>7, <1>8, RoomAdd

\* Where the packets are the same, so is the room.
LEMMA RoomSame ==
  ASSUME NEW S, NEW sz1, NEW sz2, \A t \in S : sz1[t] = sz2[t]
  PROVE  Room(sz1, S) = Room(sz2, S)
  BY Zenon DEF Room

\* One more thread that is late adds room for the longest packet ...
LEMMA Longer ==
  ASSUME NEW p \in Nat, NEW k \in Nat, NEW w \in Nat, NEW n \in Nat, p <= k * n, w <= n
  PROVE  p + w <= (k + 1) * n
  <1>1. (k + 1) * n = k * n + n
    OBVIOUS
  <1>2. PICK m \in Nat : m = k * n
    OBVIOUS
  <1> QED
    BY <1>1, <1>2

\* ... and as many threads or more that are late leave no less room.
LEMMA NoLess ==
  ASSUME NEW p \in Nat, NEW k \in Nat, NEW l \in Nat, NEW n \in Nat, p <= k * n, k <= l
  PROVE  p <= l * n
  <1>1. PICK d \in Nat : l = k + d
    BY l - k \in Nat /\ l = k + (l - k)
  <1>2. l * n = k * n + d * n
    BY <1>1
  <1>3. d * n \in Nat /\ k * n \in Nat
    OBVIOUS
  <1> QED
    BY <1>2, <1>3

\* The numbers of the invariant are numbers.
LEMMA Finite ==
  ASSUME Packets, SpaceTypes
  PROVE  /\ IsFiniteSet(Over) /\ IsFiniteSet(Room(size, Over)) /\ Missing \in Nat
         /\ Beyond \in Nat /\ IsFiniteSet(Late) /\ Cardinality(Late) \in Nat
  <1>1. IsFiniteSet(Over) /\ IsFiniteSet(Late)
    BY FS_Subset DEF Over, Late, Packets
  <1>2. \A t \in Over : size[t] \in Nat
    BY DEF Over, SpaceTypes, Packets
  <1>3. IsFiniteSet(Room(size, Over)) /\ Missing \in Nat
    BY <1>1, <1>2, RoomFinite DEF Missing
  <1> QED
    BY <1>1, <1>3, FS_CardinalityType DEF Beyond, SpaceTypes

\* A step that takes none of the space keeps what is known of it.
LEMMA SpaceKept ==
  ASSUME Packets, SpaceInv, SpaceTypes', Over' = Over, \A t \in Over : size'[t] = size[t],
         Resetting' = Resetting, Late \subseteq Late', IsFiniteSet(Late'), UNCHANGED space
  PROVE  SpaceInv'
  <1>1. /\ Missing \in Nat /\ Beyond \in Nat /\ IsFiniteSet(Late) /\ Cardinality(Late) \in Nat
        /\ Sizes \subseteq Nat
    BY Finite DEF SpaceInv, Packets
  <1>2. Room(size', Over) = Room(size, Over)
    BY RoomSame
  <1>3. Beyond' = Beyond
    BY <1>2 DEF Beyond, Missing, space
  <1>4. PICK c \in Nat : Spaced(c, Beyond, Cardinality(Late), cursor, spans)
    BY DEF SpaceInv
  <1>5. PICK p, k, l : p = Beyond /\ k = Cardinality(Late) /\ l = Cardinality(Late')
    OBVIOUS
  <1>6. p \in Nat /\ k \in Nat /\ l \in Nat /\ k <= l
    BY <1>1, <1>5, FS_Subset, FS_CardinalityType
  <1>7. ASSUME NEW n, Longest(n) PROVE p <= l * n
    <2>1. n \in Nat /\ p <= k * n
      BY <1>1, <1>4, <1>5, <1>7 DEF Longest, Spaced
    <2> QED
      BY <1>6, <2>1, NoLess
  <1>8. Spaced(c, p, l, cursor, spans)
    BY <1>4, <1>5, <1>7 DEF Spaced
  <1>9. Spaced(c, Beyond', Cardinality(Late'), cursor', spans')
    BY <1>3, <1>5, <1>8 DEF space
  <1> QED
    BY <1>9 DEF SpaceInv

\* A claim that fits adds a span; there is nothing beyond the end then.
LEMMA SpanClaimed ==
  ASSUME NEW c \in Nat, NEW p \in Nat, NEW k, NEW cur, NEW sp, Spaced(c, p, k, cur, sp),
         NEW n \in Nat \ {0}, cur + n <= BufferSize, Packets
  PROVE  Spaced(c + n, p, k, cur + n, sp \cup {cur..(cur + n - 1)})
  <1>1. p = 0 /\ cur = c
    BY DEF Spaced, Packets
  <1>2. Tiles(sp \cup {c..(c + n - 1)}, c + n)
    BY TilesAdd DEF Spaced
  <1> QED
    BY <1>1, <1>2 DEF Spaced

\* One that does not is beyond it.
LEMMA SpanRefused ==
  ASSUME NEW c \in Nat, NEW p \in Nat, NEW k \in Nat, NEW cur, NEW sp, Spaced(c, p, k, cur, sp),
         NEW n \in Nat, n \in Sizes, cur + n > BufferSize, Sizes \subseteq Nat
  PROVE  Spaced(c, p + n, k + 1, cur + n, sp)
  <1>1. ASSUME NEW m, Longest(m) PROVE p + n <= (k + 1) * m
    <2>1. m \in Nat /\ n <= m /\ p <= k * m
      BY <1>1 DEF Longest, Spaced
    <2> QED
      BY <2>1, Longer
  <1>2. cur + n = c + (p + n)
    BY DEF Spaced
  <1> QED
    BY <1>1, <1>2 DEF Spaced

\* What TraceBuffer starts with.
LEMMA InitSpace == ASSUME Packets PROVE Init => SpaceInv
  <1> SUFFICES ASSUME Init PROVE SpaceInv
    OBVIOUS
  <1>1. Over = {} /\ Late = {} /\ ~Resetting
    BY DEF Init, Over, Late, Resetting
  <1>2. Room(size, {}) = {} /\ Tiles({}, 0)
    BY FS_EmptySet DEF Room, Tiles
  <1>3. Beyond = 0 /\ Cardinality(Late) = 0
    BY <1>1, <1>2, FS_EmptySet DEF Beyond, Missing, Init
  <1>4. Spaced(0, 0, 0, 0, {})
    <2>1. ASSUME NEW n, Longest(n) PROVE 0 <= 0 * n
      <3>1. n \in Nat
        BY <2>1 DEF Longest, Packets
      <3> QED
        BY <3>1
    <2>2. 0 <= BufferSize
      BY DEF Packets
    <2> QED
      BY <1>2, <2>1, <2>2 DEF Spaced
  <1> QED
    BY <1>3, <1>4 DEF SpaceInv, SpaceTypes, Init, Packets

\* A claim moves the cursor; a request that does not fit is not backed out.
LEMMA ClaimSpace ==
  ASSUME Packets, LockInv, SpaceInv, NEW t \in Threads, Claim(t)
  PROVE  SpaceInv'
  <1>1. /\ Missing \in Nat /\ Beyond \in Nat /\ IsFiniteSet(Late) /\ Cardinality(Late) \in Nat
        /\ IsFiniteSet(Over) /\ IsFiniteSet(Room(size, Over)) /\ Sizes \subseteq Nat
    BY Finite DEF SpaceInv, Packets
  <1>2. ~Resetting
    <2>1. t \in Sharing /\ IsFiniteSet(Sharing)
      BY FS_Subset DEF Claim, Sharing, Packets
    <2>2. Cardinality(Sharing) # 0
      BY <2>1, FS_EmptySet
    <2> QED
      BY <2>2 DEF Resetting, LockInv, OneWriter, Writing
  <1>3. PICK n : n = size[t] /\ n \in Sizes /\ n \in Nat \ {0}
    BY DEF Claim, SpaceInv, SpaceTypes, Packets
  <1>4. PICK c \in Nat : Spaced(c, Beyond, Cardinality(Late), cursor, spans)
    BY DEF SpaceInv
  <1>5. UNCHANGED <<overage, size, expected, left>> /\ cursor' = cursor + n /\ cursor \in Nat
    BY <1>3 DEF Claim, call, SpaceInv, SpaceTypes
  <1>6. CASE cursor' > BufferSize
    <2>1. pc' = [pc EXCEPT ![t] = "over"] /\ spans' = spans
      BY <1>3, <1>5, <1>6 DEF Claim, Goto, Packets
    <2>2. /\ Over' = Over \cup {t} /\ t \notin Over /\ Late' = Late \cup {t} /\ t \notin Late
          /\ ~Resetting'
      BY <1>2, <2>1 DEF Claim, Over, Late, Resetting, LockInv, LockTypes
    <2>3. Cardinality(Room(size, Over \cup {t})) = Missing + n
      BY <1>1, <1>3, <2>2, RoomAdd DEF Missing
    <2>4. Beyond' = Beyond + n
      BY <1>1, <1>2, <1>3, <1>5, <2>2, <2>3 DEF Beyond, Missing, SpaceInv, SpaceTypes
    <2>5. Cardinality(Late') = Cardinality(Late) + 1
      BY <1>1, <2>2, OneMore
    <2>6. Spaced(c, Beyond + n, Cardinality(Late) + 1, cursor + n, spans)
      <3>1. cursor + n > BufferSize
        BY <1>5, <1>6
      <3> QED
        BY <1>1, <1>3, <1>4, <3>1, SpanRefused
    <2>7. SpaceTypes'
      BY <1>5, <2>1, <1>3 DEF SpaceInv, SpaceTypes, LockInv, LockTypes, Claim
    <2> QED
      BY <1>5, <2>1, <2>4, <2>5, <2>6, <2>7 DEF SpaceInv
  <1>7. CASE cursor' <= BufferSize
    <2>1. pc' = [pc EXCEPT ![t] = "fill"] /\ spans' = spans \cup {cursor..(cursor + n - 1)}
      BY <1>3, <1>5, <1>7 DEF Claim, Goto, Packets
    <2>2. Over' = Over /\ Late' = Late /\ ~Resetting'
      BY <1>2, <2>1 DEF Claim, Over, Late, Resetting, LockInv, LockTypes
    <2>3. Beyond' = Beyond /\ Cardinality(Late') = Cardinality(Late)
      BY <1>2, <1>5, <2>2 DEF Beyond, Missing
    <2>4. Spaced(c + n, Beyond, Cardinality(Late), cursor + n, spans \cup {cursor..(cursor + n - 1)})
      <3>1. cursor + n <= BufferSize
        BY <1>5, <1>7
      <3> QED
        BY <1>1, <1>3, <1>4, <3>1, SpanClaimed
    <2>5. SpaceTypes'
      BY <1>5, <2>1, <1>3 DEF SpaceInv, SpaceTypes, LockInv, LockTypes, Claim
    <2>6. c + n \in Nat
      BY <1>3
    <2> QED
      BY <1>5, <2>1, <2>3, <2>4, <2>5, <2>6 DEF SpaceInv
  <1> QED
    BY <1>3, <1>5, <1>6, <1>7 DEF Packets

\* The last claim that did not fit is recorded: what is missing is now counted.
LEMMA OverageSpace ==
  ASSUME Packets, LockInv, SpaceInv, NEW t \in Threads, RecordOverage(t)
  PROVE  SpaceInv'
  <1>1. /\ Missing \in Nat /\ Sizes \subseteq Nat /\ IsFiniteSet(Over) /\ overage \in Nat
    BY Finite DEF SpaceInv, SpaceTypes, Packets
  <1>2. PICK n, S : n = size[t] /\ S = Over \ {t}
    OBVIOUS
  <1>3. /\ pc' = [pc EXCEPT ![t] = "leave"] /\ overage' = overage + n
        /\ UNCHANGED <<cursor, spans, expected, size, left>> /\ t \in Over /\ n \in Nat
    BY <1>1, <1>2 DEF RecordOverage, Goto, call, Over, SpaceInv, SpaceTypes
  <1>4. Over' = S /\ Late' = Late /\ Resetting' = Resetting
    BY <1>2, <1>3 DEF RecordOverage, Over, Late, Resetting, LockInv, LockTypes
  <1>5. Missing = Missing' + n /\ Missing' \in Nat
    <2>1. IsFiniteSet(S) /\ t \notin S /\ Over = S \cup {t}
      BY <1>1, <1>2, <1>3, FS_Subset
    <2>2. \A u \in S : size[u] \in Nat
      BY <1>1, <1>2 DEF Over, SpaceInv, SpaceTypes
    <2>3. IsFiniteSet(Room(size, S)) /\ Cardinality(Room(size, S)) \in Nat
      BY <2>1, <2>2, RoomFinite
    <2>4. Cardinality(Room(size, Over)) = Cardinality(Room(size, S)) + n
      BY <1>2, <1>3, <2>1, <2>3, RoomAdd
    <2>5. Missing' = Cardinality(Room(size, S))
      BY <1>3, <1>4 DEF Missing
    <2> QED
      BY <2>3, <2>4, <2>5 DEF Missing
  <1>6. Beyond' = Beyond
    <2>1. overage + Missing = (overage + n) + Missing'
      BY <1>1, <1>3, <1>5
    <2> QED
      BY <1>3, <1>4, <2>1 DEF Beyond
  <1>7. SpaceTypes'
    BY <1>1, <1>3 DEF SpaceInv, SpaceTypes, LockInv, LockTypes, RecordOverage
  <1> QED
    BY <1>3, <1>4, <1>6, <1>7 DEF SpaceInv

\* Whoever writes is alone, so that nothing is missing.
LEMMA WriterAlone ==
  ASSUME Packets, LockInv, NEW t \in Writing
  PROVE  /\ Over = {} /\ Missing = 0 /\ Sharing = {}
         /\ \A u \in Threads : u # t => pc[u] \notin {"write", "reset", "unlock"}
  <1>1. exclusive /\ shared = 0
    BY DEF LockInv, OneWriter
  <1>2. IsFiniteSet(Sharing)
    BY FS_Subset DEF Sharing, Packets
  <1>3. Sharing = {}
    BY <1>1, <1>2, FS_EmptySet DEF LockInv
  <1>4. Over = {}
    BY <1>3 DEF Over, Sharing
  <1>5. Room(size, {}) = {}
    BY DEF Room
  <1>6. Missing = 0
    BY <1>4, <1>5, FS_EmptySet DEF Missing
  <1> QED
    BY <1>3, <1>4, <1>6 DEF LockInv, OneWriter, Writing

\* The cursor is set back to the end of the spans, and what was beyond is forgotten.
LEMMA WriteSpace ==
  ASSUME Packets, LockInv, SpaceInv, NEW t \in Threads, WriteOut(t)
  PROVE  SpaceInv'
  <1>1. t \in Writing /\ pc[t] = "write" /\ pc \in [Threads -> Labels]
    BY DEF WriteOut, Writing, LockInv, LockTypes
  <1>2. /\ Over = {} /\ Missing = 0
        /\ \A u \in Threads : u # t => pc[u] \notin {"write", "reset", "unlock"}
    BY <1>1, WriterAlone
  <1>3. PICK c \in Nat : Spaced(c, Beyond, Cardinality(Late), cursor, spans)
    BY DEF SpaceInv
  <1>4. ~Resetting /\ overage \in Nat /\ cursor \in Nat
    BY <1>1, <1>2 DEF Resetting, SpaceInv, SpaceTypes
  <1>5. Beyond = overage /\ cursor = c + overage
    BY <1>2, <1>3, <1>4 DEF Beyond, Spaced
  <1>6. /\ cursor' = c /\ UNCHANGED <<overage, spans, expected, size, left>>
        /\ pc' = [pc EXCEPT ![t] = IF cursor = 0 THEN "unlock" ELSE "reset"]
    BY <1>4, <1>5 DEF WriteOut, Filled, Goto, call
  <1>7. Over' = {}
    BY <1>1, <1>2, <1>6 DEF Over
  <1>8. Beyond' = 0
    <2>1. CASE cursor = 0
      <3>1. overage' = 0
        BY <1>4, <1>5, <1>6, <2>1
      <3>2. Room(size', {}) = {}
        BY DEF Room
      <3>3. Missing' = 0
        BY <1>7, <3>2, FS_EmptySet DEF Missing
      <3> QED
        BY <3>1, <3>3 DEF Beyond
    <2>2. CASE cursor # 0
      BY <1>1, <1>6, <2>2 DEF Beyond, Resetting
    <2> QED
      BY <2>1, <2>2
  <1>9. PICK l : l = Cardinality(Late') /\ l \in Nat
    <2>1. IsFiniteSet(Late')
      BY FS_Subset DEF Late, Packets
    <2> QED
      BY <2>1, FS_CardinalityType
  <1>10. Spaced(c, 0, l, c, spans)
    <2>1. ASSUME NEW n, Longest(n) PROVE 0 <= l * n
      <3>1. n \in Nat
        BY <2>1 DEF Longest, Packets
      <3>2. l * n \in Nat
        BY <1>9, <3>1
      <3> QED
        BY <3>2
    <2> QED
      BY <1>3, <2>1 DEF Spaced
  <1>11. SpaceTypes'
    BY <1>1, <1>6 DEF SpaceInv, SpaceTypes
  <1> QED
    BY <1>6, <1>8, <1>9, <1>10, <1>11 DEF SpaceInv

\* The buffer is empty again.
LEMMA ResetSpace ==
  ASSUME Packets, LockInv, SpaceInv, NEW t \in Threads, Reset(t)
  PROVE  SpaceInv'
  <1>1. t \in Writing /\ pc[t] = "reset" /\ pc \in [Threads -> Labels]
    BY DEF Reset, Writing, LockInv, LockTypes
  <1>2. /\ Over = {}
        /\ \A u \in Threads : u # t => pc[u] \notin {"write", "reset", "unlock"}
    BY <1>1, WriterAlone
  <1>3. /\ cursor' = 0 /\ overage' = 0 /\ spans' = {} /\ UNCHANGED <<expected, size, left>>
        /\ pc' = [pc EXCEPT ![t] = "unlock"]
    BY DEF Reset, Goto, call
  <1>4. Over' = {}
    BY <1>1, <1>2, <1>3 DEF Over
  <1>5. Room(size', {}) = {} /\ Tiles({}, 0)
    BY FS_EmptySet DEF Room, Tiles
  <1>6. Beyond' = 0
    BY <1>3, <1>4, <1>5, FS_EmptySet DEF Beyond, Missing
  <1>7. PICK l : l = Cardinality(Late') /\ l \in Nat
    <2>1. IsFiniteSet(Late')
      BY FS_Subset DEF Late, Packets
    <2> QED
      BY <2>1, FS_CardinalityType
  <1>8. Spaced(0, 0, l, 0, {})
    <2>1. ASSUME NEW n, Longest(n) PROVE 0 <= l * n
      <3>1. n \in Nat
        BY <2>1 DEF Longest, Packets
      <3>2. l * n \in Nat
        BY <1>7, <3>1
      <3> QED
        BY <3>2
    <2>2. 0 <= BufferSize
      BY DEF Packets
    <2> QED
      BY <1>5, <2>1, <2>2 DEF Spaced
  <1>9. SpaceTypes'
    BY <1>1, <1>3 DEF SpaceInv, SpaceTypes
  <1> QED
    BY <1>3, <1>6, <1>7, <1>8, <1>9 DEF SpaceInv

\* All others leave the space as it is; they may be late afterwards.
LEMMA OtherSpace ==
  ASSUME Packets, LockInv, SpaceInv, NEW t \in Threads,
         \/ CallTrace(t) \/ LoadShared(t) \/ AcquireShared(t) \/ GiveUp(t) \/ ReleasePacket(t)
         \/ Request(t) \/ AcquireExclusive(t) \/ ReleaseExclusive(t)
  PROVE  SpaceInv'
  <1> USE DEF CallTrace, LoadShared, AcquireShared, GiveUp, ReleasePacket, Request,
              AcquireExclusive, Again, ReleaseExclusive, Goto, call, word
  <1>1. pc \in [Threads -> Labels] /\ SpaceTypes /\ shared \in Nat
    BY DEF LockInv, LockTypes, SpaceInv
  <1>2. UNCHANGED space /\ UNCHANGED <<cursor, overage, spans>>
    BY DEF space
  <1>3. SpaceTypes'
    BY <1>1, <1>2 DEF SpaceTypes, Packets
  <1>4. Over' = Over /\ (\A u \in Over : size'[u] = size[u]) /\ Resetting' = Resetting
    BY <1>1 DEF Over, Resetting, SpaceTypes
  <1>5. Late \subseteq Late'
    BY <1>1 DEF Late
  <1>6. IsFiniteSet(Late')
    BY FS_Subset DEF Late, Packets
  <1> QED
    BY <1>2, <1>3, <1>4, <1>5, <1>6, SpaceKept

\* A step of any thread keeps the invariant of the space.
LEMMA SpaceStep ==
  ASSUME Packets
  PROVE  LockInv /\ SpaceInv /\ [Next]_vars => SpaceInv'
  <1> SUFFICES ASSUME LockInv, SpaceInv, [Next]_vars PROVE SpaceInv'
    OBVIOUS
  <1>1. CASE UNCHANGED vars
    <2>1. SpaceTypes'
      BY <1>1 DEF vars, space, call, SpaceInv, SpaceTypes
    <2>2. Over' = Over /\ Late' = Late /\ Resetting' = Resetting /\ size' = size
      BY <1>1 DEF vars, call, Over, Late, Resetting
    <2>3. UNCHANGED space
      BY <1>1 DEF vars
    <2>4. IsFiniteSet(Late)
      BY Finite DEF SpaceInv
    <2> QED
      BY <2>1, <2>2, <2>3, <2>4, SpaceKept
  <1>2. CASE \E t \in Threads : CallTrace(t) \/ Step(t)
    BY <1>2, ClaimSpace, OverageSpace, WriteSpace, ResetSpace, OtherSpace DEF Step
  <1> QED
    BY <1>1, <1>2 DEF Next

\* The spans, the cursor and the overage fit together in every behaviour.
THEOREM SpaceInvariance == ASSUME Packets PROVE Spec => [](LockInv /\ SpaceInv)
  BY InitSpace, SpaceStep, LockInvariance, PTL DEF Spec

\* Every word, count and label is one it may have; in particular no span reaches past the
\* buffer.
THEOREM TypeCorrect == ASSUME Packets PROVE Spec => []TypeOK
  <1>1. LockInv /\ SpaceInv => TypeOK
    <2> SUFFICES ASSUME LockInv, SpaceInv PROVE TypeOK
      OBVIOUS
    <2>1. PICK c \in Nat : Spaced(c, Beyond, Cardinality(Late), cursor, spans)
      BY DEF SpaceInv
    <2>2. spans \subseteq SUBSET (0..(BufferSize - 1))
      <3>1. UNION spans = 0..(c - 1) /\ c <= BufferSize
        BY <2>1 DEF Spaced, Tiles
      <3>2. 0..(c - 1) \subseteq 0..(BufferSize - 1)
        BY <3>1 DEF Packets
      <3> QED
        BY <3>1, <3>2, Zenon
    <2> QED
      BY <2>2 DEF TypeOK, LockInv, LockTypes, Labels, SpaceInv, SpaceTypes
  <1> QED
    BY <1>1, SpaceInvariance, PTL

\* What a flush writes is all packets claimed since the last one, each of them filled, and
\* no byte that nobody wrote, whatever claims failed in between.
THEOREM FlushWritesPackets == ASSUME Packets PROVE Spec => []WritesPackets
  <1>1. LockInv /\ SpaceInv => WritesPackets
    <2> SUFFICES ASSUME LockInv, SpaceInv, NEW t \in Threads, pc[t] = "reset"
                 PROVE  /\ UNION spans = 0..(cursor - 1)
                        /\ MapThenSumSet(Cardinality, spans) = cursor
                        /\ \A u \in Threads : pc[u] # "fill"
      BY DEF WritesPackets
    <2>1. PICK c \in Nat : Spaced(c, Beyond, Cardinality(Late), cursor, spans)
      BY DEF SpaceInv
    <2>2. cursor = c
      BY <2>1 DEF Spaced, Beyond, Resetting
    <2>3. Tiles(spans, c)
      BY <2>1 DEF Spaced
    <2>4. UNION spans = 0..(cursor - 1) /\ MapThenSumSet(Cardinality, spans) = cursor
      BY <2>2, <2>3, TilesSum DEF Tiles
    <2>5. \A u \in Threads : pc[u] # "fill"
      BY WriterAlone DEF Writing, Sharing
    <2> QED
      BY <2>4, <2>5
  <1> QED
    BY <1>1, SpaceInvariance, PTL

\* Each thread is over the end at most once between two flushes, so that the cursor is never
\* further beyond it than all threads with their longest packets, and cannot wrap around.
THEOREM CursorIsBounded ==
  ASSUME Packets, \E n \in Sizes : \A s \in Sizes : s <= n
  PROVE  Spec => []CursorBounded
  <1>1. LockInv /\ SpaceInv => CursorBounded
    <2> SUFFICES ASSUME SpaceInv PROVE CursorBounded
      OBVIOUS
    <2>1. PICK n : n = Max(Sizes)
      OBVIOUS
    <2>2. Longest(n) /\ n \in Nat
      BY <2>1 DEF Max, Longest, Packets
    <2>3. PICK c \in Nat : Spaced(c, Beyond, Cardinality(Late), cursor, spans)
      BY DEF SpaceInv
    <2>4. PICK p, k, l : p = Beyond /\ k = Cardinality(Late) /\ l = Cardinality(Threads)
      OBVIOUS
    <2>5. p \in Nat /\ k \in Nat /\ l \in Nat /\ k <= l
      <3>1. Late \subseteq Threads /\ IsFiniteSet(Threads)
        BY DEF Late, Packets
      <3> QED
        BY <2>4, <3>1, Finite, FS_Subset, FS_CardinalityType DEF SpaceInv
    <2>6. cursor = c + p /\ c <= BufferSize /\ p <= k * n
      BY <2>2, <2>3, <2>4 DEF Spaced
    <2>7. p <= l * n
      BY <2>2, <2>5, <2>6, NoLess
    <2>8. PICK m \in Nat : m = l * n
      BY <2>2, <2>5
    <2>9. cursor <= BufferSize + m
      BY <2>5, <2>6, <2>7, <2>8 DEF Packets
    <2> QED
      BY <2>1, <2>4, <2>8, <2>9 DEF CursorBounded
  <1> QED
    BY <1>1, SpaceInvariance, PTL
=============================================================================
