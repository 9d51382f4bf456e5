---------------------- MODULE GpuCompilationCacheProofs ----------------------
(***************************************************************************)
(* The table of compiled kernels, for any number of threads, contexts and  *)
(* kernels, any hash, and tables of any size: whatever was deleted and     *)
(* however often it has grown, a walk finds what is cached.                *)
(***************************************************************************)
EXTENDS GpuCompilationCache, FiniteSetTheorems, WellFoundedInduction, TLAPS

\* What is assumed of the constants: the hash is a number, and the first table has four
\* slots at least (128 in the code).
Sizing ==
    /\ IsFiniteSet(Threads) /\ IsFiniteSet(Kernels)
    /\ Null \notin Contexts
    /\ InitialSize \in Nat /\ InitialSize >= 4 /\ MaxSize \in Nat
    /\ \A c \in Contexts, id \in Nat : id > kDeletedId => Hash[<<c, id>>] \in Nat

-----------------------------------------------------------------------------
(* Walks *)

\* Quotient and rest are unique.
LEMMA RestIs ==
  ASSUME NEW n \in Nat \ {0}, NEW q \in Nat, NEW s \in 0..(n - 1)
  PROVE  (n * q + s) % n = s
  <1>1. PICK x : x = n * q + s
    OBVIOUS
  <1>2. x \in Nat
    BY <1>1
  <1>3. PICK p, r : p = x \div n /\ r = x % n
    OBVIOUS
  <1>4. p \in Nat /\ r \in 0..(n - 1) /\ x = n * p + r
    BY <1>2, <1>3
  <1>5. n * (q - p) = r - s
    BY <1>1, <1>4
  <1>6. ~ (q - p >= 1)
    <2> SUFFICES ASSUME q - p >= 1 PROVE FALSE
      OBVIOUS
    <2>1. n * (q - p) >= n
      BY <1>4
    <2> QED
      BY <2>1, <1>4, <1>5
  <1>7. ~ (q - p <= 0 - 1)
    <2> SUFFICES ASSUME q - p <= 0 - 1 PROVE FALSE
      OBVIOUS
    <2>1. n * (p - q) >= n
      BY <1>4
    <2>2. n * (p - q) = s - r
      BY <1>1, <1>4
    <2> QED
      BY <2>1, <2>2, <1>4
  <1>8. q = p
    BY <1>4, <1>6, <1>7
  <1> QED
    BY <1>1, <1>3, <1>4, <1>8

\* The slots of a walk from a, modulo n, are all slots, each once.
LEMMA WalksAll ==
  ASSUME NEW n \in Nat \ {0}, NEW a \in Nat
  PROVE  /\ \A j \in Nat : (a + j) % n \in 0..(n - 1)
         /\ \A j, k \in 0..(n - 1) : (a + j) % n = (a + k) % n => j = k
         /\ \A s \in 0..(n - 1) : \E j \in 0..(n - 1) : (a + j) % n = s
  <1>1. PICK q, r : q = a \div n /\ r = a % n
    OBVIOUS
  <1>2. q \in Nat /\ r \in 0..(n - 1) /\ a = n * q + r
    BY <1>1
  <1>3. ASSUME NEW j \in Nat PROVE (a + j) % n \in 0..(n - 1)
    OBVIOUS
  <1>4. ASSUME NEW j \in 0..(n - 1)
        PROVE  (a + j) % n = IF r + j < n THEN r + j ELSE r + j - n
    <2>1. CASE r + j < n
      <3>1. a + j = n * q + (r + j) /\ r + j \in 0..(n - 1)
        BY <1>2, <2>1
      <3>2. (n * q + (r + j)) % n = r + j
        BY <3>1, <1>2, RestIs
      <3> QED
        BY <3>1, <3>2, <2>1
    <2>2. CASE ~ (r + j < n)
      <3>1. a + j = n * (q + 1) + (r + j - n) /\ r + j - n \in 0..(n - 1) /\ q + 1 \in Nat
        BY <1>2, <2>2
      <3>2. (n * (q + 1) + (r + j - n)) % n = r + j - n
        BY <3>1, <1>2, RestIs
      <3> QED
        BY <3>1, <3>2, <2>2
    <2> QED
      BY <2>1, <2>2
  <1>5. ASSUME NEW j \in 0..(n - 1), NEW k \in 0..(n - 1), (a + j) % n = (a + k) % n
        PROVE  j = k
    <2>1. /\ (a + j) % n = IF r + j < n THEN r + j ELSE r + j - n
          /\ (a + k) % n = IF r + k < n THEN r + k ELSE r + k - n
      BY <1>4
    <2>2. (IF r + j < n THEN r + j ELSE r + j - n) = IF r + k < n THEN r + k ELSE r + k - n
      BY <2>1, <1>5
    <2> QED
      BY ONLY <2>2, <1>2, n \in Nat \ {0}, j \in 0..(n - 1), k \in 0..(n - 1)
  <1>6. ASSUME NEW s \in 0..(n - 1) PROVE \E j \in 0..(n - 1) : (a + j) % n = s
    <2>1. PICK j : j = IF s >= r THEN s - r ELSE s - r + n
      OBVIOUS
    <2>2. j \in 0..(n - 1) /\ (IF r + j < n THEN r + j ELSE r + j - n) = s
      BY <1>2, <2>1
    <2>3. (a + j) % n = IF r + j < n THEN r + j ELSE r + j - n
      BY <1>4, <2>2
    <2> QED
      BY <2>2, <2>3
  <1> QED
    BY <1>3, <1>5, <1>6

\* Sizes of tables.
Size(n) == n \in Nat /\ n > 0 /\ n <= MaxSize

\* find_internal and insert walk over every slot of the table, each once.
LEMMA Probes ==
  ASSUME Sizing, NEW n, Size(n), NEW c \in Contexts, NEW id \in Nat, id > kDeletedId
  PROVE  /\ \A j \in Nat : Probe(c, id, n, j) \in 0..(n - 1)
         /\ \A j, k \in 0..(n - 1) : Probe(c, id, n, j) = Probe(c, id, n, k) => j = k
         /\ \A s \in 0..(n - 1) : \E j \in 0..(n - 1) : Probe(c, id, n, j) = s
  <1>1. Hash[<<c, id>>] \in Nat /\ MaxSize \in Nat /\ n \in Nat \ {0} /\ n <= MaxSize
    BY DEF Sizing, Size
  <1>2. PICK m : m = MaxSize \div n
    OBVIOUS
  <1>3. m \in Nat
    BY <1>1, <1>2
  <1>4. m # 0
    <2>1. PICK r : r = MaxSize % n
      OBVIOUS
    <2>2. r \in 0..(n - 1) /\ MaxSize = n * m + r
      BY <1>1, <1>2, <2>1
    <2>3. m = 0 => n * m = 0
      BY <1>1
    <2> QED
      BY <1>1, <1>3, <2>2, <2>3
  <1>5. PICK a : a = Hash[<<c, id>>] \div m
    OBVIOUS
  <1>6. a \in Nat
    BY <1>1, <1>3, <1>4, <1>5
  <1>7. \A j : Probe(c, id, n, j) = (a + j) % n
    BY <1>2, <1>5 DEF Probe
  <1>8. /\ \A j \in Nat : (a + j) % n \in 0..(n - 1)
        /\ \A j, k \in 0..(n - 1) : (a + j) % n = (a + k) % n => j = k
        /\ \A s \in 0..(n - 1) : \E j \in 0..(n - 1) : (a + j) % n = s
    BY <1>1, <1>6, WalksAll
  <1> QED
    BY ONLY <1>7, <1>8

-----------------------------------------------------------------------------
(* Tables *)

Slots == [context : Contexts \cup {Null}, id : Nat, module : BOOLEAN, uses : Int]

LiveIn(tab, n) == {i \in 0..(n - 1) : Live(tab[i])}
Entries(tab, n) == {tab[i] : i \in LiveIn(tab, n)}

\* The walk for the entry in slot i meets no free slot before it.
Reached(tab, n, i) ==
    \E j \in 0..(n - 1) :
        /\ Probe(tab[i].context, tab[i].id, n, j) = i
        /\ \A k \in 0..j : ~Stops(tab[Probe(tab[i].context, tab[i].id, n, k)])

\* Every entry is reached, and no two are of one kernel in one context.
Good(tab, n) ==
    /\ tab \in [0..(n - 1) -> Slots]
    /\ \A i \in LiveIn(tab, n) : tab[i].context \in Contexts /\ Reached(tab, n, i)
    /\ \A i, k \in LiveIn(tab, n) : Is(tab[k], tab[i].context, tab[i].id) => i = k

\* Slots without an entry have no uses.
Dead(tab, n) == \A i \in 0..(n - 1) : ~Live(tab[i]) => tab[i].uses = 0

\* Every set of numbers that is not empty has a least one.
LEMMA LeastNat ==
  ASSUME NEW T \in SUBSET Nat, T # {}
  PROVE  \E n \in T : \A k \in T : n <= k
  <1> DEFINE R == OpToRel(<, Nat)
  <1>1. IsWellFoundedOn(R, Nat)
    BY NatLessThanWellFounded, Zenon
  <1>2. \A x, y \in Nat : x < y => <<x, y>> \in R
    BY DEF OpToRel
  <1> HIDE DEF R
  <1>3. PICK n \in T : \A k \in T : ~ (<<k, n>> \in R)
    BY <1>1, WFMin
  <1>4. \A k \in T : k \in Nat /\ n \in Nat /\ ~ (k < n)
    BY <1>2, <1>3
  <1> QED
    BY <1>4

\* Min is the least one.
LEMMA MinIs ==
  ASSUME NEW T \in SUBSET Nat, T # {}
  PROVE  Min(T) \in T /\ \A k \in T : Min(T) <= k
  <1>1. \E n \in T : \A k \in T : n <= k
    BY LeastNat
  <1> QED
    BY <1>1, Zenon DEF Min

\* In a table that is not full every walk comes to a slot without an entry.
LEMMA HasRoom ==
  ASSUME Sizing, NEW n, Size(n), NEW tab, NEW c \in Contexts, NEW id \in Nat, id > kDeletedId,
         NEW s \in 0..(n - 1), ~Live(tab[s])
  PROVE  RoomFor(tab, n, c, id) # {}
  <1>1. PICK j \in 0..(n - 1) : Probe(c, id, n, j) = s
    BY Probes
  <1> QED
    BY <1>1 DEF RoomFor

\* insert adds the entry to a table that has room and not this entry yet.
LEMMA Puts ==
  ASSUME Sizing, NEW n, Size(n), NEW tab, Good(tab, n),
         NEW s \in Slots, s.context \in Contexts, Live(s),
         \A e \in Entries(tab, n) : ~Is(e, s.context, s.id),
         RoomFor(tab, n, s.context, s.id) # {}
  PROVE  /\ Good(Put(tab, n, s), n)
         /\ \E p \in 0..(n - 1) : ~Live(tab[p]) /\ Put(tab, n, s) = [tab EXCEPT ![p] = s]
  <1> DEFINE P(j) == Probe(s.context, s.id, n, j)
             R == RoomFor(tab, n, s.context, s.id)
  <1>1. s.id \in Nat /\ s.id > kDeletedId
    BY DEF Slots, Live
  <1>2. n \in Nat /\ n > 0
    BY DEF Size
  <1>3. /\ \A j \in Nat : P(j) \in 0..(n - 1)
        /\ \A j, k \in 0..(n - 1) : P(j) = P(k) => j = k
    BY <1>1, Probes
  <1>4. R \in SUBSET Nat /\ R \subseteq 0..(n - 1)
    BY <1>2 DEF RoomFor
  <1>5. PICK m : m = Min(R)
    OBVIOUS
  <1>6. m \in R /\ \A k \in R : m <= k
    BY <1>4, <1>5, MinIs
  <1>7. m \in 0..(n - 1) /\ ~Live(tab[P(m)])
    BY <1>6 DEF RoomFor
  <1>8. \A k \in 0..(m - 1) : k \in 0..(n - 1) /\ Live(tab[P(k)]) /\ P(k) # P(m)
    <2>1. ASSUME NEW k \in 0..(m - 1) PROVE k \in 0..(n - 1) /\ ~ (m <= k) /\ k # m
      BY <1>2, <1>7
    <2> QED
      BY <2>1, <1>3, <1>6, <1>7 DEF RoomFor
  <1>9. PICK p : p = P(m)
    OBVIOUS
  <1>10. p \in 0..(n - 1)
    BY <1>3, <1>7, <1>9, <1>2
  <1>11. Put(tab, n, s) = [tab EXCEPT ![p] = s]
    BY <1>5, <1>9 DEF Put
  <1>12. PICK T : T = [tab EXCEPT ![p] = s]
    OBVIOUS
  <1>13. tab \in [0..(n - 1) -> Slots]
    BY DEF Good
  <1>14. T \in [0..(n - 1) -> Slots] /\ T[p] = s /\ \A i \in 0..(n - 1) : i # p => T[i] = tab[i]
    BY <1>10, <1>12, <1>13
  <1>15. ASSUME NEW i \in LiveIn(T, n) PROVE T[i].context \in Contexts /\ Reached(T, n, i)
    <2>1. CASE i = p
      <3>1. T[i] = s
        BY <2>1, <1>14
      <3>2. ASSUME NEW k \in 0..m PROVE ~Stops(T[P(k)])
        <4>1. CASE k = m
          BY <4>1, <1>9, <1>14, <1>1 DEF Stops, kInvalidId, kDeletedId
        <4>2. CASE k # m
          <5>1. k \in 0..(m - 1) /\ k \in Nat
            BY <4>2, <1>7, <1>2
          <5>2. T[P(k)] = tab[P(k)] /\ tab[P(k)] \in Slots /\ Live(tab[P(k)])
            BY <5>1, <1>8, <1>3, <1>9, <1>13, <1>14
          <5> QED
            BY <5>2 DEF Stops, Live, kInvalidId, kDeletedId, Slots
        <4> QED
          BY <4>1, <4>2
      <3>3. P(m) = i
        BY <2>1, <1>9
      <3> HIDE DEF P
      <3>4. \E j \in 0..(n - 1) : P(j) = i /\ \A k \in 0..j : ~Stops(T[P(k)])
        BY <3>2, <3>3, <1>7
      <3> QED
        BY <3>1, <3>4, Zenon DEF Reached, P
    <2>2. CASE i # p
      <3>1. i \in 0..(n - 1) /\ T[i] = tab[i] /\ i \in LiveIn(tab, n)
        BY <2>2, <1>14 DEF LiveIn
      <3>2. tab[i].context \in Contexts /\ Reached(tab, n, i)
        BY <3>1 DEF Good
      <3>3. PICK j \in 0..(n - 1) :
               /\ Probe(tab[i].context, tab[i].id, n, j) = i
               /\ \A k \in 0..j : ~Stops(tab[Probe(tab[i].context, tab[i].id, n, k)])
        BY <3>2 DEF Reached
      <3>4. tab[i].id \in Nat /\ tab[i].id > kDeletedId
        BY <3>1, <1>13 DEF LiveIn, Live, Slots
      <3>5. \A k \in Nat : Probe(tab[i].context, tab[i].id, n, k) \in 0..(n - 1)
        BY <3>2, <3>4, Probes
      <3>6. ~Stops(s)
        BY <1>1 DEF Stops, kInvalidId, kDeletedId
      <3>7. \A q \in 0..(n - 1) : ~Stops(tab[q]) => ~Stops(T[q])
        BY <3>6, <1>14
      <3>8. \A k \in 0..j : ~Stops(T[Probe(tab[i].context, tab[i].id, n, k)])
        <4>1. ASSUME NEW k \in 0..j
              PROVE  ~Stops(T[Probe(tab[i].context, tab[i].id, n, k)])
          <5>1. k \in Nat
            BY <1>2
          <5> QED
            BY <5>1, <3>3, <3>5, <3>7
        <4> QED
          BY <4>1
      <3> QED
        BY <3>1, <3>2, <3>3, <3>8, Zenon DEF Reached
    <2> QED
      BY <2>1, <2>2
  <1>16. ASSUME NEW i \in LiveIn(T, n), NEW k \in LiveIn(T, n), Is(T[k], T[i].context, T[i].id)
         PROVE  i = k
    <2>1. \A q \in LiveIn(T, n) : q # p => q \in LiveIn(tab, n) /\ T[q] = tab[q]
                                           /\ ~Is(T[q], s.context, s.id)
      <3>1. ASSUME NEW q \in LiveIn(T, n), q # p
            PROVE  q \in LiveIn(tab, n) /\ T[q] = tab[q]
        BY <3>1, <1>14 DEF LiveIn
      <3> QED
        BY <3>1 DEF Entries
    <2>2. \A x, y \in LiveIn(tab, n) : Is(tab[y], tab[x].context, tab[x].id) => x = y
      BY DEF Good
    <2>3. CASE i = p
      BY <2>1, <2>3, <1>14, <1>16
    <2>4. CASE k = p
      <3>1. Is(T[i], s.context, s.id)
        BY <2>4, <1>14, <1>16 DEF Is
      <3> QED
        BY <2>1, <2>4, <3>1
    <2>5. CASE i # p /\ k # p
      BY <2>1, <2>2, <2>5, <1>16
    <2> QED
      BY <2>3, <2>4, <2>5
  <1>17. Good(T, n)
    BY <1>14, <1>15, <1>16 DEF Good
  <1> QED
    BY <1>7, <1>9, <1>10, <1>11, <1>12, <1>17

\* What a table has after a slot without an entry was filled.
LEMMA EntriesPut ==
  ASSUME NEW n \in Nat, NEW tab, NEW s, Live(s), NEW p \in 0..(n - 1), ~Live(tab[p]),
         NEW T, T[p] = s, \A i \in 0..(n - 1) : i # p => T[i] = tab[i]
  PROVE  /\ LiveIn(T, n) = LiveIn(tab, n) \cup {p}
         /\ Entries(T, n) = Entries(tab, n) \cup {s}
  <1>2. T[p] = s /\ \A i \in 0..(n - 1) : i # p => T[i] = tab[i]
    OBVIOUS
  <1>3. LiveIn(T, n) = LiveIn(tab, n) \cup {p}
    BY <1>2 DEF LiveIn
  <1>4. \A i \in LiveIn(tab, n) : T[i] = tab[i]
    BY <1>2 DEF LiveIn
  <1>5. Entries(T, n) = Entries(tab, n) \cup {s}
    BY <1>2, <1>3, <1>4 DEF Entries
  <1> QED
    BY <1>3, <1>5

\* The table without entries.
LEMMA FreeIs ==
  ASSUME NEW n \in Nat
  PROVE  /\ Good(FreeTable(n), n) /\ LiveIn(FreeTable(n), n) = {} /\ Entries(FreeTable(n), n) = {}
         /\ \A i \in 0..(n - 1) : ~Live(FreeTable(n)[i]) /\ FreeTable(n)[i].uses = 0
  <1>1. FreeTable(n) \in [0..(n - 1) -> Slots]
    BY DEF FreeTable, FreeSlot, Slots, kInvalidId
  <1>2. \A i \in 0..(n - 1) : ~Live(FreeTable(n)[i]) /\ FreeTable(n)[i].uses = 0
    BY DEF FreeTable, FreeSlot, Live, kInvalidId, kDeletedId
  <1>3. LiveIn(FreeTable(n), n) = {}
    BY <1>2 DEF LiveIn
  <1> QED
    BY <1>1, <1>2, <1>3 DEF Good, Entries

\* Slots with an entry and entries are as many.
LEMMA AsMany ==
  ASSUME NEW n \in Nat, NEW tab, Good(tab, n)
  PROVE  /\ IsFiniteSet(LiveIn(tab, n)) /\ IsFiniteSet(Entries(tab, n))
         /\ Cardinality(LiveIn(tab, n)) = Cardinality(Entries(tab, n))
         /\ Cardinality(LiveIn(tab, n)) <= n
         /\ Cardinality(LiveIn(tab, n)) \in Nat
         /\ (\E i \in 0..(n - 1) : ~Live(tab[i])) <=> Cardinality(LiveIn(tab, n)) < n
  <1> DEFINE L == LiveIn(tab, n)
             E == Entries(tab, n)
             D == 0..(n - 1)
  <1>1. 0 \in Int /\ n - 1 \in Int
    OBVIOUS
  <1>2. IsFiniteSet(D) /\ Cardinality(D) = n
    BY <1>1, FS_Interval
  <1>3. L \subseteq D
    BY DEF LiveIn
  <1>4. IsFiniteSet(L) /\ Cardinality(L) <= n /\ Cardinality(L) \in Nat
        /\ (Cardinality(L) = n => L = D)
    BY <1>2, <1>3, FS_Subset, FS_CardinalityType
  <1>5. PICK f : f = [i \in L |-> tab[i]]
    OBVIOUS
  <1>6. \A i, k \in L : tab[i] = tab[k] => i = k
    BY DEF Good, Is
  <1>7. f \in Bijection(L, E)
    BY <1>5, <1>6 DEF Entries, Bijection, Injection, Surjection, IsInjective
  <1>8. IsFiniteSet(E) /\ Cardinality(L) = Cardinality(E)
    BY <1>4, <1>7, FS_Bijection, Zenon DEF ExistsBijection
  <1>9. (\E i \in D : ~Live(tab[i])) <=> L # D
    BY DEF LiveIn
  <1>10. L = D => Cardinality(L) = n
    BY <1>2
  <1> QED
    BY <1>4, <1>8, <1>9, <1>10

-----------------------------------------------------------------------------
(* resize_table *)

\* The tables that resize_table builds, entry by entry, up to slot m of the old one.
Moves(f, m, n) ==
    f = [i \in 0..m |->
            IF i = 0 THEN FreeTable(n)
            ELSE IF Live(compilations[i - 1]) THEN Put(f[i - 1], n, compilations[i - 1])
            ELSE f[i - 1]]

\* There are such tables.
LEMMA MovesExist ==
  ASSUME size \in Nat, NEW n
  PROVE  \E f : Moves(f, size, n)
  <1> DEFINE T == {m \in 0..size : ~ \E f : Moves(f, m, n)}
  <1>1. T = {} => size \notin T
    OBVIOUS
  <1>2. SUFFICES ASSUME T # {} PROVE FALSE
    BY <1>1
  <1>3. T \in SUBSET Nat
    OBVIOUS
  <1>4. PICK m \in T : \A k \in T : m <= k
    BY <1>2, <1>3, LeastNat
  <1>5. m \in 0..size /\ m \in Nat /\ ~ \E f : Moves(f, m, n)
    OBVIOUS
  <1>6. m # 0
    <2> SUFFICES ASSUME m = 0 PROVE \E f : Moves(f, m, n)
      BY <1>5
    <2>1. PICK f : f = [i \in 0..0 |-> FreeTable(n)]
      OBVIOUS
    <2>2. f = [i \in 0..0 |->
                  IF i = 0 THEN FreeTable(n)
                  ELSE IF Live(compilations[i - 1]) THEN Put(f[i - 1], n, compilations[i - 1])
                  ELSE f[i - 1]]
      <3>1. \A i \in 0..0 : i = 0
        OBVIOUS
      <3> QED
        BY <2>1, <3>1
    <2> QED
      BY <2>2, Zenon DEF Moves
  <1>7. m - 1 \in 0..size /\ m - 1 \notin T
    BY <1>4, <1>5, <1>6
  <1>8. PICK f : Moves(f, m - 1, n)
    BY <1>7
  <1>9. PICK g : g = [i \in 0..m |->
                        IF i < m THEN f[i]
                        ELSE IF Live(compilations[m - 1]) THEN Put(f[m - 1], n, compilations[m - 1])
                        ELSE f[m - 1]]
    OBVIOUS
  <1>10. \A i \in 0..(m - 1) : g[i] = f[i]
    BY <1>5, <1>9
  <1>11. ASSUME NEW i \in 0..m
         PROVE  (IF i < m THEN f[i]
                 ELSE IF Live(compilations[m - 1]) THEN Put(f[m - 1], n, compilations[m - 1])
                 ELSE f[m - 1])
                = (IF i = 0 THEN FreeTable(n)
                   ELSE IF Live(compilations[i - 1]) THEN Put(g[i - 1], n, compilations[i - 1])
                   ELSE g[i - 1])
    <2>1. CASE i < m
      <3>1. i \in 0..(m - 1)
        BY <1>5, <2>1
      <3>2. f[i] = IF i = 0 THEN FreeTable(n)
                   ELSE IF Live(compilations[i - 1]) THEN Put(f[i - 1], n, compilations[i - 1])
                   ELSE f[i - 1]
        BY <1>8, <3>1 DEF Moves
      <3>3. i # 0 => g[i - 1] = f[i - 1]
        BY <1>5, <1>10, <3>1
      <3> QED
        BY <2>1, <3>2, <3>3
    <2>2. CASE ~ (i < m)
      <3>1. i = m
        BY <1>5, <2>2
      <3>2. g[i - 1] = f[i - 1]
        BY <1>5, <1>6, <1>10, <3>1
      <3> QED
        BY <1>6, <2>2, <3>1, <3>2
    <2> QED
      BY <2>1, <2>2
  <1>12. Moves(g, m, n)
    BY <1>9, <1>11, Zenon DEF Moves
  <1> QED
    BY <1>5, <1>12

\* What the new table has when the slots before i were moved.
MovedBefore(t, n, i) ==
    /\ Good(t, n)
    /\ Entries(t, n) = {compilations[k] : k \in {k \in LiveIn(compilations, size) : k < i}}
    /\ Cardinality(LiveIn(t, n)) <= i
    /\ Dead(t, n)

\* The entry of the next slot finds room, and is not there yet.
LEMMA MoveStep ==
  ASSUME Sizing, size \in Nat, Good(compilations, size), NEW n, Size(n), size < n,
         NEW i \in 0..(size - 1), NEW t, MovedBefore(t, n, i)
  PROVE  MovedBefore(IF Live(compilations[i]) THEN Put(t, n, compilations[i]) ELSE t, n, i + 1)
  <1> DEFINE Earlier(j) == {k \in LiveIn(compilations, size) : k < j}
             s == compilations[i]
  <1>1. n \in Nat /\ Good(t, n) /\ Cardinality(LiveIn(t, n)) \in Nat
        /\ Entries(t, n) = {compilations[k] : k \in Earlier(i)}
        /\ Cardinality(LiveIn(t, n)) <= i /\ Dead(t, n)
    BY AsMany DEF MovedBefore, Size
  <1>2. CASE ~Live(s)
    <2>1. Earlier(i + 1) = Earlier(i)
      BY <1>2 DEF LiveIn
    <2>2. Cardinality(LiveIn(t, n)) <= i + 1
      BY <1>1
    <2>3. MovedBefore(t, n, i + 1)
      BY <1>1, <2>1, <2>2 DEF MovedBefore
    <2> QED
      BY <1>2, <2>3
  <1>3. CASE Live(s)
    <2>1. i \in LiveIn(compilations, size) /\ i \notin Earlier(i)
      BY <1>3 DEF LiveIn
    <2>2. s \in Slots /\ s.context \in Contexts
      BY <2>1 DEF Good
    <2>3. \A e \in Entries(t, n) : ~Is(e, s.context, s.id)
      <3>1. ASSUME NEW k \in Earlier(i), Is(compilations[k], s.context, s.id) PROVE FALSE
        <4>1. i = k
          BY <2>1, <3>1 DEF Good
        <4> QED
          BY <2>1, <4>1
      <3> QED
        BY <1>1, <3>1
    <2>4. \E p \in 0..(n - 1) : ~Live(t[p])
      <3>1. Cardinality(LiveIn(t, n)) < n
        BY <1>1
      <3> QED
        BY <1>1, <3>1, AsMany
    <2>5. RoomFor(t, n, s.context, s.id) # {}
      <3>1. s.id \in Nat /\ s.id > kDeletedId
        BY <1>3, <2>2 DEF Slots, Live
      <3> QED
        BY <2>2, <2>4, <3>1, HasRoom
    <2>6. /\ Good(Put(t, n, s), n)
          /\ \E p \in 0..(n - 1) : ~Live(t[p]) /\ Put(t, n, s) = [t EXCEPT ![p] = s]
      <3> HIDE DEF s
      <3> QED
        BY ONLY Sizing, Size(n), <1>1, <1>3, <2>2, <2>3, <2>5, Puts
    <2>7. PICK p \in 0..(n - 1) : ~Live(t[p]) /\ Put(t, n, s) = [t EXCEPT ![p] = s]
      BY <2>6
    <2>8. /\ LiveIn(Put(t, n, s), n) = LiveIn(t, n) \cup {p}
          /\ Entries(Put(t, n, s), n) = Entries(t, n) \cup {s}
      <3>1. t \in [0..(n - 1) -> Slots]
        BY <1>1 DEF Good
      <3>2. PICK T : T = Put(t, n, s)
        OBVIOUS
      <3>3. n \in Nat /\ Live(s) /\ ~Live(t[p]) /\ p \in 0..(n - 1)
        BY <1>1, <1>3, <2>7
      <3> HIDE DEF s
      <3>4. T[p] = s /\ \A q \in 0..(n - 1) : q # p => T[q] = t[q]
        BY <2>7, <3>1, <3>2, <3>3
      <3>5. /\ LiveIn(T, n) = LiveIn(t, n) \cup {p}
            /\ Entries(T, n) = Entries(t, n) \cup {s}
        BY ONLY <3>3, <3>4, EntriesPut
      <3> QED
        BY <3>2, <3>5
    <2>9. Earlier(i + 1) = Earlier(i) \cup {i}
      BY <2>1 DEF LiveIn
    <2>10. Entries(Put(t, n, s), n) = {compilations[k] : k \in Earlier(i + 1)}
      BY <1>1, <2>8, <2>9
    <2>11. Cardinality(LiveIn(Put(t, n, s), n)) <= i + 1
      <3>1. p \notin LiveIn(t, n)
        BY <2>7 DEF LiveIn
      <3>2. IsFiniteSet(LiveIn(t, n))
        BY <1>1, AsMany
      <3>3. Cardinality(LiveIn(t, n) \cup {p}) = Cardinality(LiveIn(t, n)) + 1
        BY <3>1, <3>2, FS_AddElement
      <3> QED
        BY <1>1, <2>8, <3>3
    <2>12. Dead(Put(t, n, s), n)
      <3>1. t \in [0..(n - 1) -> Slots]
        BY <1>1 DEF Good
      <3> HIDE DEF s
      <3>2. PICK T : T = Put(t, n, s)
        OBVIOUS
      <3>3. T[p] = s /\ \A q \in 0..(n - 1) : q # p => T[q] = t[q]
        BY <2>7, <3>1, <3>2
      <3> QED
        BY <1>1, <1>3, <3>2, <3>3 DEF Dead
    <2>13. MovedBefore(Put(t, n, s), n, i + 1)
      BY <2>6, <2>10, <2>11, <2>12 DEF MovedBefore
    <2> QED
      BY <1>3, <2>13
  <1> QED
    BY <1>2, <1>3

\* A table that grows has the same entries afterwards, and all of them are found.
LEMMA Rehashes ==
  ASSUME Sizing, size \in Nat, Good(compilations, size), NEW n, Size(n), size < n
  PROVE  /\ Good(Rehashed(n), n)
         /\ count > 0 => Entries(Rehashed(n), n) = Entries(compilations, size)
         /\ ~ (count > 0) => Rehashed(n) = FreeTable(n)
         /\ Dead(Rehashed(n), n)
  <1>1. PICK f : /\ Moves(f, size, n)
                 /\ Rehashed(n) = IF count > 0 THEN f[size] ELSE FreeTable(n)
    <2> DEFINE F == CHOOSE f : f = [i \in 0..size |->
                      IF i = 0 THEN FreeTable(n)
                      ELSE IF Live(compilations[i - 1]) THEN Put(f[i - 1], n, compilations[i - 1])
                      ELSE f[i - 1]]
    <2>1. \E f : Moves(f, size, n)
      BY MovesExist
    <2>2. Moves(F, size, n)
      BY <2>1, Zenon DEF Moves
    <2>3. Rehashed(n) = IF count > 0 THEN F[size] ELSE FreeTable(n)
      BY Zenon DEF Rehashed
    <2> QED
      BY <2>2, <2>3
  <1>2. /\ f[0] = FreeTable(n)
        /\ \A i \in 0..(size - 1) :
              f[i + 1] = IF Live(compilations[i]) THEN Put(f[i], n, compilations[i]) ELSE f[i]
    <2>1. \A i \in 0..size :
             f[i] = IF i = 0 THEN FreeTable(n)
                    ELSE IF Live(compilations[i - 1]) THEN Put(f[i - 1], n, compilations[i - 1])
                    ELSE f[i - 1]
      BY <1>1 DEF Moves
    <2>2. ASSUME NEW i \in 0..(size - 1)
          PROVE  f[i + 1] = IF Live(compilations[i]) THEN Put(f[i], n, compilations[i]) ELSE f[i]
      <3>1. i + 1 \in 0..size /\ i + 1 # 0 /\ (i + 1) - 1 = i
        OBVIOUS
      <3> QED
        BY <2>1, <3>1
    <2>3. 0 \in 0..size
      OBVIOUS
    <2> QED
      BY <2>1, <2>2, <2>3
  <1>3. n \in Nat
    BY DEF Size
  <1>4. MovedBefore(f[0], n, 0)
    <2>1. Cardinality(LiveIn(FreeTable(n), n)) <= 0
      <3>1. LiveIn(FreeTable(n), n) = {}
        BY <1>3, FreeIs
      <3>2. Cardinality({}) = 0
        BY FS_EmptySet
      <3> QED
        BY <3>1, <3>2
    <2>2. {k \in LiveIn(compilations, size) : k < 0} = {}
      BY DEF LiveIn
    <2> QED
      BY <1>2, <1>3, <2>1, <2>2, FreeIs DEF MovedBefore, Dead
  <1>5. MovedBefore(f[size], n, size)
    <2> DEFINE T == {m \in 0..size : ~MovedBefore(f[m], n, m)}
    <2>1. SUFFICES ASSUME T # {} PROVE FALSE
      OBVIOUS
    <2>2. T \in SUBSET Nat
      OBVIOUS
    <2>3. PICK m \in T : \A k \in T : m <= k
      BY <2>1, <2>2, LeastNat
    <2>4. m \in 0..size /\ m # 0 /\ ~MovedBefore(f[m], n, m)
      BY <1>4
    <2>5. m - 1 \in 0..(size - 1) /\ m - 1 \notin T /\ m = (m - 1) + 1
      BY <2>3, <2>4
    <2>6. MovedBefore(f[m - 1], n, m - 1)
      BY <2>5
    <2>7. f[(m - 1) + 1] = IF Live(compilations[m - 1]) THEN Put(f[m - 1], n, compilations[m - 1])
                           ELSE f[m - 1]
      BY <1>2, <2>5
    <2>8. MovedBefore(f[(m - 1) + 1], n, (m - 1) + 1)
      BY <2>5, <2>6, <2>7, MoveStep
    <2> QED
      BY <2>4, <2>5, <2>8
  <1>6. {k \in LiveIn(compilations, size) : k < size} = LiveIn(compilations, size)
    BY DEF LiveIn
  <1>7. /\ Good(f[size], n) /\ Entries(f[size], n) = Entries(compilations, size)
        /\ Dead(f[size], n)
    BY <1>5, <1>6 DEF MovedBefore, Entries
  <1>8. Good(FreeTable(n), n) /\ Dead(FreeTable(n), n)
    BY <1>3, FreeIs DEF Dead
  <1> QED
    BY <1>1, <1>7, <1>8
-----------------------------------------------------------------------------
(* The invariant of the table, of names and pipelines *)

TableInv ==
    /\ size = 0 \/ (size \in Nat /\ InitialSize <= size /\ size <= MaxSize)
    /\ count \in Int
    /\ Good(compilations, size)

NameInv ==
    /\ ids \in [Kernels -> Nat]
    /\ unique_id = Cardinality({k \in Kernels : ids[k] # 0}) + 2
    /\ \A k \in Kernels : ids[k] # 0 => ids[k] > kDeletedId /\ ids[k] < unique_id
    /\ \A k, l \in Kernels : ids[k] = ids[l] /\ ids[k] # 0 => k = l

ClientInv ==
    /\ at \in [Threads -> {"in", "out"}]
    /\ ctx \in [Threads -> Contexts \cup {Null}]
    /\ kern \in [Threads -> Kernels \cup {Null}]
    /\ \A t \in Threads : at[t] = "in" =>
          ctx[t] \in Contexts /\ kern[t] \in Kernels /\ ids[kern[t]] # 0

ShapeInv == TableInv /\ NameInv /\ ClientInv

-----------------------------------------------------------------------------
(* The invariant of the entries *)

Cache == Entries(compilations, size)

Users(c, id) == {u \in Threads : at[u] = "in" /\ ctx[u] = c /\ ids[kern[u]] = id}

\* An entry has a module, and is used by the pipelines that hold it.
EntryInv ==
    \A e \in Cache :
        /\ e.id < unique_id /\ e.module
        /\ e.uses = Cardinality(Users(e.context, e.id))

\* What a pipeline holds is in the cache.
HeldInv ==
    \A t \in Threads : at[t] = "in" => \E e \in Cache : Is(e, ctx[t], ids[kern[t]])

\* A module is loaded once for its entry, and once whenever it was lost.
ModuleInv ==
    /\ loaded \in [Modules -> Nat] /\ lost \in [Modules -> Nat]
    /\ \A m \in Modules :
          loaded[m] = lost[m] + IF \E e \in Cache : Is(e, m[1], m[2]) THEN 1 ELSE 0

DeadInv == Dead(compilations, size)

\* Just after the table has grown, count may be one more than half of it; there are a
\* quarter as many entries then.
LoadInv ==
    /\ Cardinality(Cache) <= count
    /\ size = 0 => count = 0
    /\ \/ 2 * count <= size
       \/ 2 * count <= size + 2 /\ 4 * Cardinality(Cache) <= size + 4 /\ size >= 8

CacheInv == EntryInv /\ HeldInv /\ ModuleInv /\ DeadInv /\ LoadInv

-----------------------------------------------------------------------------
(* find_internal *)

\* Whatever else was deleted, the walk for an entry ends at its slot.
LEMMA Finds ==
  ASSUME Sizing, TableInv, NEW i \in LiveIn(compilations, size)
  PROVE  /\ Cached(compilations[i].context, compilations[i].id)
         /\ SlotOf(compilations[i].context, compilations[i].id) = i
  <1> DEFINE c == compilations[i].context
             id == compilations[i].id
             P(j) == Probe(c, id, size, j)
  <1>1. i \in 0..(size - 1) /\ Live(compilations[i]) /\ compilations \in [0..(size - 1) -> Slots]
    BY DEF LiveIn, TableInv, Good
  <1>2. size \in Nat /\ size > 0 /\ size <= MaxSize
    BY <1>1 DEF TableInv
  <1>3. c \in Contexts /\ id \in Nat /\ id > kDeletedId
    BY <1>1 DEF TableInv, Good, Live, Slots
  <1>4. /\ \A j \in Nat : P(j) \in 0..(size - 1)
        /\ \A j, k \in 0..(size - 1) : P(j) = P(k) => j = k
    BY <1>2, <1>3, Probes DEF Size
  <1>5. PICK j \in 0..(size - 1) : P(j) = i /\ \A k \in 0..j : ~Stops(compilations[P(k)])
    BY DEF TableInv, Good, Reached
  <1>6. \A k \in 0..(size - 1) : Is(compilations[P(k)], c, id) => k = j
    <2>1. ASSUME NEW k \in 0..(size - 1), Is(compilations[P(k)], c, id) PROVE k = j
      <3>1. P(k) \in 0..(size - 1)
        BY <1>2, <1>4
      <3>2. P(k) \in LiveIn(compilations, size)
        BY <1>3, <2>1, <3>1 DEF Is, LiveIn, Live
      <3>3. P(k) = i
        BY <2>1, <3>2 DEF TableInv, Good
      <3> QED
        BY <1>4, <1>5, <3>3
    <2> QED
      BY <2>1
  <1>7. Found(c, id) = {j}
    <2>1. \A k \in 0..(j - 1) : k \in 0..(size - 1) /\ k # j
      BY <1>2
    <2>2. Is(compilations[P(j)], c, id)
      BY <1>5 DEF Is
    <2>3. /\ Is(compilations[P(j)], c, id)
          /\ \A k \in 0..j : ~Stops(compilations[P(k)])
          /\ \A k \in 0..(j - 1) : ~Is(compilations[P(k)], c, id)
      BY <1>5, <1>6, <2>1, <2>2
    <2> HIDE DEF c, id
    <2> QED
      BY <1>6, <2>3 DEF Found
  <1>8. Min({j}) = j
    <2>1. {j} \in SUBSET Nat
      BY <1>2
    <2> QED
      BY <2>1, MinIs
  <1> QED
    BY <1>5, <1>7, <1>8 DEF Cached, SlotOf

\* What the walk ends at is the entry that was looked for.
LEMMA FoundIs ==
  ASSUME Sizing, TableInv, NEW c \in Contexts, NEW id \in Nat, id > kDeletedId, Cached(c, id)
  PROVE  /\ SlotOf(c, id) \in LiveIn(compilations, size)
         /\ Is(compilations[SlotOf(c, id)], c, id)
  <1>1. size \in Nat
    BY DEF TableInv, Sizing
  <1>2. Found(c, id) \in SUBSET Nat /\ Found(c, id) # {}
    BY <1>1 DEF Found, Cached
  <1>3. PICK j : j = Min(Found(c, id))
    OBVIOUS
  <1>4. j \in Found(c, id)
    BY <1>2, <1>3, MinIs
  <1>5. j \in 0..(size - 1) /\ Is(compilations[Probe(c, id, size, j)], c, id)
    BY <1>4 DEF Found
  <1>6. Size(size)
    BY <1>5, <1>1 DEF TableInv, Size
  <1>7. Probe(c, id, size, j) \in 0..(size - 1)
    BY <1>1, <1>5, <1>6, Probes
  <1>8. Probe(c, id, size, j) \in LiveIn(compilations, size)
    BY <1>5, <1>7 DEF LiveIn, Live, Is
  <1> QED
    BY <1>3, <1>5, <1>8 DEF SlotOf

\* What is looked for is found if and only if it is there.
LEMMA CachedIs ==
  ASSUME Sizing, TableInv, NEW c \in Contexts, NEW id \in Nat, id > kDeletedId
  PROVE  Cached(c, id) <=> \E e \in Cache : Is(e, c, id)
  <1>1. Cached(c, id) => \E e \in Cache : Is(e, c, id)
    BY FoundIs DEF Cache, Entries
  <1>2. ASSUME NEW e \in Cache, Is(e, c, id) PROVE Cached(c, id)
    <2>1. PICK i \in LiveIn(compilations, size) : e = compilations[i]
      BY DEF Cache, Entries
    <2> QED
      BY <1>2, <2>1, Finds DEF Is
  <1> QED
    BY <1>1, <1>2

\* Slots that change without a new entry, and do not become free.
LEMMA Fades ==
  ASSUME NEW n \in Nat, NEW tab, Good(tab, n), Sizing, n # 0 => Size(n),
         NEW T \in [0..(n - 1) -> Slots],
         \A i \in 0..(n - 1) : /\ T[i].context = tab[i].context
                               /\ \/ T[i].id = tab[i].id
                                  \/ Live(tab[i]) /\ T[i].id = kDeletedId
  PROVE  Good(T, n) /\ LiveIn(T, n) \subseteq LiveIn(tab, n)
  <1>1. \A i \in LiveIn(T, n) : i \in LiveIn(tab, n) /\ T[i].context = tab[i].context
                                /\ T[i].id = tab[i].id
    BY DEF LiveIn, Live, kDeletedId
  <1>2. \A i \in 0..(n - 1) : ~Stops(tab[i]) => ~Stops(T[i])
    BY DEF Stops, kInvalidId, kDeletedId
  <1>3. ASSUME NEW i \in LiveIn(T, n) PROVE T[i].context \in Contexts /\ Reached(T, n, i)
    <2>1. tab[i].context \in Contexts /\ Reached(tab, n, i) /\ i \in 0..(n - 1)
      BY <1>1 DEF Good, LiveIn
    <2>2. PICK j \in 0..(n - 1) :
             /\ Probe(tab[i].context, tab[i].id, n, j) = i
             /\ \A k \in 0..j : ~Stops(tab[Probe(tab[i].context, tab[i].id, n, k)])
      BY <2>1 DEF Reached
    <2>3. tab[i].id \in Nat /\ tab[i].id > kDeletedId
      BY <1>1 DEF LiveIn, Live, Slots, Good
    <2>4. \A k \in Nat : Probe(tab[i].context, tab[i].id, n, k) \in 0..(n - 1)
      <3>1. Size(n)
        BY <2>1
      <3> QED
        BY <2>1, <2>3, <3>1, Probes
    <2>5. \A k \in 0..j : ~Stops(T[Probe(tab[i].context, tab[i].id, n, k)])
      <3>1. ASSUME NEW k \in 0..j PROVE ~Stops(T[Probe(tab[i].context, tab[i].id, n, k)])
        <4>1. k \in Nat
          OBVIOUS
        <4> QED
          BY <4>1, <1>2, <2>2, <2>4
      <3> QED
        BY <3>1
    <2> QED
      BY <1>1, <2>1, <2>2, <2>5, Zenon DEF Reached
  <1>4. \A i, k \in LiveIn(T, n) : Is(T[k], T[i].context, T[i].id) => i = k
    BY <1>1 DEF Good, Is
  <1> QED
    BY <1>1, <1>3, <1>4 DEF Good

\* A slot of which only the number of uses changes.
Used(i, u) == [compilations EXCEPT ![i].uses = u]

\* A hold or release leaves the table good and every other slot as it is.
LEMMA Counts ==
  ASSUME Sizing, TableInv, NEW i \in LiveIn(compilations, size), NEW u \in Int,
         NEW T, T = Used(i, u)
  PROVE  /\ Good(T, size) /\ LiveIn(T, size) = LiveIn(compilations, size)
         /\ T[i] = [compilations[i] EXCEPT !.uses = u]
         /\ \A k \in 0..(size - 1) : k # i => T[k] = compilations[k]
  <1>1. /\ size \in Nat /\ compilations \in [0..(size - 1) -> Slots] /\ i \in 0..(size - 1)
        /\ size # 0 => Size(size)
    BY DEF TableInv, Good, LiveIn, Sizing, Size
  <1>2. /\ T[i] = [compilations[i] EXCEPT !.uses = u]
        /\ \A k \in 0..(size - 1) : k # i => T[k] = compilations[k]
    BY <1>1 DEF Used
  <1>3. T \in [0..(size - 1) -> Slots]
    <2>1. compilations[i] \in Slots
      BY <1>1
    <2>2. [compilations[i] EXCEPT !.uses = u] \in Slots
      BY <2>1 DEF Slots
    <2> QED
      BY <1>1, <2>2 DEF Used
  <1>4. \A k \in 0..(size - 1) : T[k].context = compilations[k].context
                                 /\ T[k].id = compilations[k].id
    <2>1. compilations[i] \in Slots
      BY <1>1
    <2>2. T[i].context = compilations[i].context /\ T[i].id = compilations[i].id
      BY <1>2, <2>1 DEF Slots
    <2> QED
      BY <1>2, <2>2
  <1>5. Good(compilations, size)
    BY DEF TableInv
  <1>6. Good(T, size)
    BY <1>1, <1>3, <1>4, <1>5, Fades
  <1>7. LiveIn(T, size) = LiveIn(compilations, size)
    BY <1>4 DEF LiveIn, Live
  <1> QED
    BY <1>2, <1>6, <1>7

\* The table that insert uses, before the new entry.
LEMMA Grows ==
  ASSUME Sizing, TableInv, NewSize <= MaxSize
  PROVE  /\ NewSize \in Nat /\ NewSize >= InitialSize /\ Size(NewSize) /\ NewSize >= size
         /\ Good(NewTable, NewSize)
         /\ Entries(NewTable, NewSize) \subseteq Cache
         /\ size = 0 \/ NewSize = size \/ count > 0 => Entries(NewTable, NewSize) = Cache
         /\ Dead(compilations, size) => Dead(NewTable, NewSize)
  <1>1. NewSize \in Nat /\ NewSize >= InitialSize /\ Size(NewSize) /\ NewSize >= size
    BY DEF TableInv, Sizing, NewSize, Size
  <1>2. Good(compilations, size)
    BY DEF TableInv
  <1>3. CASE size = 0
    <2>1. NewTable = FreeTable(NewSize)
      BY <1>3 DEF NewTable, NewSize
    <2>2. Cache = {}
      BY <1>3 DEF Cache, Entries, LiveIn
    <2>3. Dead(NewTable, NewSize)
      BY <1>1, <2>1, FreeIs DEF Dead
    <2> QED
      BY <1>1, <2>1, <2>2, <2>3, FreeIs
  <1>4. CASE size # 0 /\ NewSize = size
    <2>1. NewTable = compilations
      BY <1>4 DEF NewTable
    <2> QED
      BY <1>1, <1>2, <1>4, <2>1 DEF Cache
  <1>5. CASE size # 0 /\ NewSize # size
    <2>1. NewTable = Rehashed(NewSize)
      BY <1>5 DEF NewTable
    <2>2. size < NewSize /\ size \in Nat
      BY <1>1, <1>5 DEF TableInv, Sizing
    <2>3. PICK n : n = NewSize
      OBVIOUS
    <2>4. /\ Good(Rehashed(n), n)
          /\ count > 0 => Entries(Rehashed(n), n) = Entries(compilations, size)
          /\ ~ (count > 0) => Rehashed(n) = FreeTable(n)
          /\ Dead(Rehashed(n), n)
      BY <1>1, <1>2, <2>2, <2>3, Rehashes
    <2>5. ~ (count > 0) => Entries(Rehashed(n), n) = {}
      BY <1>1, <2>3, <2>4, FreeIs
    <2> QED
      BY <1>1, <1>5, <2>1, <2>3, <2>4, <2>5 DEF Cache
  <1> QED
    BY <1>3, <1>4, <1>5

\* The table with the new entry.
LEMMA Inserts ==
  ASSUME Sizing, TableInv, NewSize <= MaxSize,
         NEW c \in Contexts, NEW id \in Nat, id > kDeletedId, ~Cached(c, id),
         RoomFor(NewTable, NewSize, c, id) # {}
  PROVE  \E s, T :
         /\ s = [context |-> c, id |-> id, module |-> TRUE, uses |-> 1]
         /\ T = Put(NewTable, NewSize, s)
         /\ Good(T, NewSize)
         /\ \E p \in 0..(NewSize - 1) : /\ ~Live(NewTable[p])
                                        /\ T[p] = s
                                        /\ \A i \in 0..(NewSize - 1) : i # p => T[i] = NewTable[i]
         /\ Entries(T, NewSize) = Entries(NewTable, NewSize) \cup {s}
  <1>0. PICK s, T : /\ s = [context |-> c, id |-> id, module |-> TRUE, uses |-> 1]
                    /\ T = Put(NewTable, NewSize, s)
    OBVIOUS
  <1>1. PICK n, tab : n = NewSize /\ tab = NewTable
    OBVIOUS
  <1>2. n \in Nat /\ Size(n) /\ Good(tab, n) /\ Entries(tab, n) \subseteq Cache
    BY <1>1, Grows
  <1>3. s \in Slots /\ s.context = c /\ s.id = id /\ Live(s)
    BY <1>0 DEF Slots, Live
  <1>4. \A e \in Entries(tab, n) : ~Is(e, s.context, s.id)
    BY <1>2, <1>3, CachedIs
  <1>5. RoomFor(tab, n, s.context, s.id) # {} /\ T = Put(tab, n, s)
    BY <1>0, <1>1, <1>3
  <1>6. /\ Good(Put(tab, n, s), n)
        /\ \E p \in 0..(n - 1) : ~Live(tab[p]) /\ Put(tab, n, s) = [tab EXCEPT ![p] = s]
    BY ONLY Sizing, <1>2, <1>3, <1>4, <1>5, Puts
  <1>7. PICK p \in 0..(n - 1) : ~Live(tab[p]) /\ T = [tab EXCEPT ![p] = s]
    BY <1>5, <1>6
  <1>8. tab \in [0..(n - 1) -> Slots]
    BY <1>2 DEF Good
  <1>9. T[p] = s /\ \A i \in 0..(n - 1) : i # p => T[i] = tab[i]
    BY <1>7, <1>8
  <1>10. Entries(T, n) = Entries(tab, n) \cup {s}
    <2>1. n \in Nat /\ Live(s) /\ ~Live(tab[p]) /\ p \in 0..(n - 1)
      BY <1>2, <1>3, <1>7
    <2> QED
      BY ONLY <2>1, <1>9, EntriesPut
  <1>11. /\ Good(T, NewSize)
         /\ \E q \in 0..(NewSize - 1) : /\ ~Live(NewTable[q])
                                        /\ T[q] = s
                                        /\ \A i \in 0..(NewSize - 1) : i # q => T[i] = NewTable[i]
         /\ Entries(T, NewSize) = Entries(NewTable, NewSize) \cup {s}
    BY <1>1, <1>5, <1>6, <1>7, <1>9, <1>10
  <1> QED
    BY <1>0, <1>11

\* What is swept is not cached any more.
LEMMA Sweeps ==
  ASSUME Sizing, TableInv, NEW cs
  PROVE  /\ Good(Swept(cs), size)
         /\ count # 0 => \A i \in 0..(size - 1) :
               Swept(cs)[i] = IF i \in Unused(cs)
                              THEN [compilations[i] EXCEPT !.module = FALSE, !.id = kDeletedId]
                              ELSE compilations[i]
         /\ count = 0 => Swept(cs) = compilations
  <1>1. /\ size \in Nat /\ compilations \in [0..(size - 1) -> Slots] /\ Good(compilations, size)
        /\ size # 0 => Size(size)
    BY DEF TableInv, Good, LiveIn, Sizing, Size
  <1>2. CASE count = 0
    BY <1>1, <1>2 DEF Swept
  <1>3. CASE count # 0
    <2>1. PICK T : T = Swept(cs)
      OBVIOUS
    <2>2. T = [i \in 0..(size - 1) |->
                 IF i \in Unused(cs)
                 THEN [compilations[i] EXCEPT !.module = FALSE, !.id = kDeletedId]
                 ELSE compilations[i]]
      BY <1>1, <1>3, <2>1 DEF Swept
    <2>3. ASSUME NEW i \in 0..(size - 1)
          PROVE  /\ T[i] \in Slots
                 /\ T[i].context = compilations[i].context
                 /\ \/ T[i].id = compilations[i].id
                    \/ Live(compilations[i]) /\ T[i].id = kDeletedId
      <3>1. compilations[i] \in Slots
        BY <1>1
      <3>2. CASE i \in Unused(cs)
        <4>1. T[i] = [compilations[i] EXCEPT !.module = FALSE, !.id = kDeletedId]
          BY <2>2, <3>2
        <4>2. compilations[i].id > kInvalidId /\ compilations[i].id \in Nat
          BY <3>1, <3>2 DEF Unused, Releasable, Slots
        <4>3. T[i] \in Slots /\ T[i].context = compilations[i].context /\ T[i].id = kDeletedId
          <5>1. T[i] = [context |-> compilations[i].context, id |-> kDeletedId,
                        module |-> FALSE, uses |-> compilations[i].uses]
            BY <3>1, <4>1 DEF Slots
          <5>2. kDeletedId \in Nat
            BY DEF kDeletedId
          <5> QED
            BY <3>1, <5>1, <5>2 DEF Slots
        <4>4. T[i].id = compilations[i].id \/ Live(compilations[i])
          BY <4>2, <4>3 DEF Live, kInvalidId, kDeletedId
        <4> QED
          BY <4>3, <4>4
      <3>3. CASE i \notin Unused(cs)
        BY <2>2, <3>1, <3>3
      <3> QED
        BY <3>2, <3>3
    <2>4. T \in [0..(size - 1) -> Slots]
      <3>1. T = [i \in 0..(size - 1) |-> T[i]]
        BY <2>2
      <3> QED
        BY <2>3, <3>1
    <2>5. Good(T, size)
      BY <1>1, <2>3, <2>4, Fades
    <2> QED
      BY <1>3, <2>1, <2>2, <2>5
  <1> QED
    BY <1>2, <1>3

\* What count becomes.
LEMMA SweptCount ==
  ASSUME Sizing, TableInv, NEW cs
  PROVE  /\ IsFiniteSet(Unused(cs)) /\ Cardinality(Unused(cs)) \in Nat
         /\ CountAfter(cs) \in Int
  <1>1. Unused(cs) \subseteq 0..(size - 1)
    BY DEF Unused, TableInv, Good
  <1>2. size \in Nat /\ 0 \in Int /\ size - 1 \in Int
    BY DEF TableInv, Sizing
  <1>3. IsFiniteSet(Unused(cs))
    BY <1>1, <1>2, FS_Interval, FS_Subset
  <1>4. Cardinality(Unused(cs)) \in Nat
    BY <1>3, FS_CardinalityType
  <1> QED
    BY <1>3, <1>4 DEF CountAfter, TableInv

-----------------------------------------------------------------------------
(* The table, names and pipelines stay what they are *)

\* The id of a kernel that is set up.
LEMMA Names ==
  ASSUME Sizing, NameInv, NEW k \in Kernels, Name(k)
  PROVE  /\ Named(k) \in Nat /\ Named(k) > kDeletedId
         /\ Named(k) < unique_id' /\ Named(k) <= Cardinality(Kernels) + 1
         /\ unique_id' >= unique_id
         /\ ids'[k] = Named(k) /\ \A l \in Kernels : ids[l] # 0 => ids'[l] = ids[l]
         /\ \A l \in Kernels : ids'[l] = Named(k) <=> l = k
         /\ NameInv'
  <1> DEFINE Done == {l \in Kernels : ids[l] # 0}
  <1>1. IsFiniteSet(Done) /\ Cardinality(Done) \in Nat /\ unique_id = Cardinality(Done) + 2
    BY FS_Subset, FS_CardinalityType DEF Sizing, NameInv
  <1>2. unique_id \in Nat /\ unique_id > kDeletedId /\ ids \in [Kernels -> Nat]
    BY <1>1 DEF kDeletedId, NameInv
  <1>3. /\ Named(k) \in Nat /\ Named(k) > kDeletedId /\ Named(k) # 0
        /\ Named(k) < unique_id' /\ unique_id' >= unique_id
        /\ unique_id' \in Nat
    BY <1>2 DEF Named, Name, NameInv, kDeletedId
  <1>4. ids' = [ids EXCEPT ![k] = Named(k)]
    BY DEF Name
  <1>5. ids' \in [Kernels -> Nat] /\ ids'[k] = Named(k)
        /\ \A l \in Kernels : l # k => ids'[l] = ids[l]
    BY <1>2, <1>3, <1>4
  <1>6. \A l \in Kernels : ids[l] # 0 => ids'[l] = ids[l]
    BY <1>5 DEF Named
  <1>7. \A l \in Kernels : ids'[l] = Named(k) <=> l = k
    <2>1. ASSUME NEW l \in Kernels, l # k, ids[l] = Named(k) PROVE FALSE
      <3>1. ids[l] # 0
        BY <1>3, <2>1
      <3>2. ids[k] = 0 => FALSE
        <4>1. ids[l] < unique_id /\ ids[l] \in Nat
          BY <3>1, <1>2 DEF NameInv
        <4> QED
          BY <2>1, <4>1, <1>2 DEF Named
      <3>3. ids[k] # 0 => FALSE
        BY <2>1, <3>1 DEF Named, NameInv
      <3> QED
        BY <3>2, <3>3
    <2> QED
      BY <1>5, <2>1
  <1>8. {l \in Kernels : ids'[l] # 0} = Done \cup {k}
    BY <1>3, <1>5
  <1>9. unique_id' = Cardinality({l \in Kernels : ids'[l] # 0}) + 2
    <2>1. CASE ids[k] = 0
      <3>1. k \notin Done
        BY <2>1
      <3>2. Cardinality(Done \cup {k}) = Cardinality(Done) + 1
        BY <1>1, <3>1, FS_AddElement
      <3> QED
        BY <1>1, <1>8, <2>1, <3>2 DEF Name
    <2>2. CASE ids[k] # 0
      <3>1. Done \cup {k} = Done
        BY <2>2
      <3> QED
        BY <1>1, <1>8, <2>2, <3>1 DEF Name
    <2> QED
      BY <2>1, <2>2
  <1>10. Cardinality({l \in Kernels : ids'[l] # 0}) <= Cardinality(Kernels)
         /\ Cardinality({l \in Kernels : ids'[l] # 0}) \in Nat /\ Cardinality(Kernels) \in Nat
    BY FS_Subset, FS_CardinalityType DEF Sizing
  <1>11. Named(k) <= Cardinality(Kernels) + 1
    BY <1>3, <1>9, <1>10
  <1>12. \A l \in Kernels : ids'[l] # 0 => ids'[l] > kDeletedId /\ ids'[l] < unique_id'
    <2>1. ASSUME NEW l \in Kernels, ids'[l] # 0, l # k
          PROVE  ids'[l] > kDeletedId /\ ids'[l] < unique_id'
      <3>1. ids'[l] = ids[l] /\ ids[l] \in Nat /\ ids[l] > kDeletedId /\ ids[l] < unique_id
        BY <1>2, <1>5, <2>1 DEF NameInv
      <3> QED
        BY <3>1, <1>2, <1>3 DEF kDeletedId
    <2> QED
      BY <1>3, <1>5, <2>1
  <1>13. \A l, m \in Kernels : ids'[l] = ids'[m] /\ ids'[l] # 0 => l = m
    <2>1. ASSUME NEW l \in Kernels, NEW m \in Kernels, ids'[l] = ids'[m], ids'[l] # 0
          PROVE  l = m
      <3>1. CASE l = k \/ m = k
        BY <1>5, <1>7, <2>1, <3>1
      <3>2. CASE l # k /\ m # k
        BY <1>5, <2>1, <3>2 DEF NameInv
      <3> QED
        BY <3>1, <3>2
    <2> QED
      BY <2>1
  <1>14. NameInv'
    BY <1>5, <1>9, <1>12, <1>13 DEF NameInv
  <1> QED
    BY <1>3, <1>5, <1>6, <1>7, <1>11, <1>14

\* There are no more ids than kernels.
LEMMA NameTypes ==
  ASSUME Sizing, NameInv
  PROVE  unique_id \in Nat /\ unique_id > kDeletedId /\ unique_id <= Cardinality(Kernels) + 2
  <1>1. Cardinality({l \in Kernels : ids[l] # 0}) <= Cardinality(Kernels)
        /\ Cardinality({l \in Kernels : ids[l] # 0}) \in Nat /\ Cardinality(Kernels) \in Nat
    BY FS_Subset, FS_CardinalityType DEF Sizing
  <1> QED
    BY <1>1 DEF NameInv, kDeletedId

\* A pipeline that enters holds a kernel with a name, and those inside keep theirs.
LEMMA ClientNames ==
  ASSUME Sizing, NameInv, ClientInv, NEW k \in Kernels, Name(k),
         \/ UNCHANGED clients
         \/ \E t \in Threads, c \in Contexts : at[t] = "out" /\ Enter(t, c, k)
  PROVE  ClientInv'
  <1>1. /\ Named(k) # 0 /\ ids'[k] = Named(k)
        /\ \A l \in Kernels : ids[l] # 0 => ids'[l] # 0
    <2>1. Named(k) \in Nat /\ Named(k) > kDeletedId /\ ids'[k] = Named(k)
          /\ \A l \in Kernels : ids[l] # 0 => ids'[l] = ids[l]
      BY Names
    <2> QED
      BY <2>1 DEF kDeletedId
  <1>2. CASE UNCHANGED clients
    BY <1>1, <1>2 DEF ClientInv, clients
  <1>3. ASSUME NEW t \in Threads, NEW c \in Contexts, at[t] = "out", Enter(t, c, k)
        PROVE  ClientInv'
    <2>1. /\ at' \in [Threads -> {"in", "out"}]
          /\ ctx' \in [Threads -> Contexts \cup {Null}]
          /\ kern' \in [Threads -> Kernels \cup {Null}]
      BY <1>3 DEF Enter, ClientInv
    <2>2. ASSUME NEW u \in Threads, at'[u] = "in"
          PROVE  ctx'[u] \in Contexts /\ kern'[u] \in Kernels /\ ids'[kern'[u]] # 0
      <3>1. CASE u = t
        BY <1>1, <1>3, <3>1 DEF Enter, ClientInv
      <3>2. CASE u # t
        BY <1>1, <1>3, <2>2, <3>2 DEF Enter, ClientInv
      <3> QED
        BY <3>1, <3>2
    <2> QED
      BY <2>1, <2>2 DEF ClientInv
  <1> QED
    BY <1>2, <1>3

\* No table, no name, no pipeline: the shape holds.
LEMMA InitShape == ASSUME Sizing PROVE Init => ShapeInv
  <1> SUFFICES ASSUME Init PROVE ShapeInv
    OBVIOUS
  <1>1. TableInv
    BY FreeIs DEF Init, TableInv
  <1>2. NameInv
    <2>1. {k \in Kernels : ids[k] # 0} = {}
      BY DEF Init
    <2>2. Cardinality({}) = 0
      BY FS_EmptySet
    <2> QED
      BY <2>1, <2>2 DEF Init, NameInv
  <1>3. ClientInv
    BY DEF Init, ClientInv
  <1> QED
    BY <1>1, <1>2, <1>3 DEF ShapeInv

\* Every operation keeps the shape, also a sweep over slots deleted before.
LEMMA ShapeStep == ASSUME Sizing PROVE ShapeInv /\ [Next]_vars => ShapeInv'
  <1> SUFFICES ASSUME ShapeInv, [Next]_vars PROVE ShapeInv'
    OBVIOUS
  <1>0. TableInv /\ NameInv /\ ClientInv
    BY DEF ShapeInv
  <1>1. ASSUME NEW t \in Threads, NEW c \in Contexts, NEW k \in Kernels, SetupCached(t, c, k)
        PROVE  ShapeInv'
    <2>1. at[t] = "out" /\ Cached(c, Named(k)) /\ Name(k) /\ Enter(t, c, k)
          /\ UNCHANGED <<size, count>>
          /\ compilations' = [compilations EXCEPT ![SlotOf(c, Named(k))].uses = @ + 1]
      BY <1>1 DEF SetupCached
    <2>2. Named(k) \in Nat /\ Named(k) > kDeletedId /\ NameInv'
      BY <1>0, <2>1, Names
    <2>3. ClientInv'
      BY <1>0, <2>1, ClientNames
    <2>4. SlotOf(c, Named(k)) \in LiveIn(compilations, size)
      BY <1>0, <2>1, <2>2, FoundIs
    <2>5. Good(compilations', size)
      <3>1. PICK i : i = SlotOf(c, Named(k))
        OBVIOUS
      <3>2. compilations[i].uses + 1 \in Int
        BY <1>0, <2>4, <3>1 DEF TableInv, Good, LiveIn, Slots
      <3>3. compilations' = Used(i, compilations[i].uses + 1)
        BY <2>1, <3>1 DEF Used
      <3> QED
        BY <1>0, <2>4, <3>1, <3>2, <3>3, Counts
    <2>6. TableInv'
      BY <1>0, <2>1, <2>5 DEF TableInv
    <2> QED
      BY <2>2, <2>3, <2>6 DEF ShapeInv
  <1>2. ASSUME NEW t \in Threads, NEW c \in Contexts, NEW k \in Kernels, SetupCompiled(t, c, k)
        PROVE  ShapeInv'
    <2>1. PICK id, s : id = Named(k) /\ s = [context |-> c, id |-> id, module |-> TRUE, uses |-> 1]
      OBVIOUS
    <2>2. /\ at[t] = "out" /\ ~Cached(c, id) /\ Name(k) /\ Enter(t, c, k)
          /\ NewSize <= MaxSize /\ RoomFor(NewTable, NewSize, c, id) # {}
          /\ size' = NewSize /\ count' = Recounted + 1
          /\ compilations' = Put(NewTable, NewSize, s)
      BY <1>2, <2>1 DEF SetupCompiled
    <2>3. id \in Nat /\ id > kDeletedId /\ NameInv'
      BY <1>0, <2>1, <2>2, Names
    <2>4. ClientInv'
      BY <1>0, <2>2, ClientNames
    <2>5. Good(compilations', NewSize)
      <3>1. \E x, T : /\ x = [context |-> c, id |-> id, module |-> TRUE, uses |-> 1]
                      /\ T = Put(NewTable, NewSize, x) /\ Good(T, NewSize)
        BY <1>0, <2>2, <2>3, Inserts
      <3> QED
        BY <2>1, <2>2, <3>1
    <2>6. NewSize \in Nat /\ InitialSize <= NewSize
      BY <1>0, <2>2, Grows DEF Sizing
    <2>7. count' \in Int
      <3>1. Cardinality(LiveSlots) \in Nat
        <4>1. size \in Nat /\ Good(compilations, size)
          BY <1>0 DEF TableInv, Sizing
        <4>2. LiveSlots = LiveIn(compilations, size)
          BY <4>1 DEF LiveSlots, LiveIn, Good
        <4> QED
          BY <4>1, <4>2, AsMany
      <3> QED
        BY <1>0, <2>2, <3>1 DEF Recounted, TableInv
    <2>8. TableInv'
      BY <2>2, <2>5, <2>6, <2>7 DEF TableInv
    <2> QED
      BY <2>3, <2>4, <2>8 DEF ShapeInv
  <1>3. ASSUME NEW t \in Threads, NEW c \in Contexts, NEW k \in Kernels,
               SetupLost(t, c, k) \/ SetupFails(t, c, k)
        PROVE  ShapeInv'
    <2>1. Name(k) /\ UNCHANGED <<compilations, size, count>> /\ UNCHANGED clients
      BY <1>3 DEF SetupLost, SetupFails, table, clients
    <2>2. NameInv' /\ ClientInv'
      BY <1>0, <2>1, Names, ClientNames
    <2>3. TableInv'
      BY <1>0, <2>1 DEF TableInv
    <2> QED
      BY <2>2, <2>3 DEF ShapeInv
  <1>4. ASSUME NEW t \in Threads, ReleaseHold(t) PROVE ShapeInv'
    <2>1. /\ at[t] = "in" /\ UNCHANGED <<size, count, ids, unique_id>>
          /\ at' = [at EXCEPT ![t] = "out"]
          /\ ctx' = [ctx EXCEPT ![t] = Null]
          /\ kern' = [kern EXCEPT ![t] = Null]
          /\ \/ /\ Cached(ctx[t], ids[kern[t]])
                /\ compilations' = [compilations EXCEPT ![SlotOf(ctx[t], ids[kern[t]])].uses = @ - 1]
             \/ UNCHANGED compilations
      BY <1>4 DEF ReleaseHold, names
    <2>2. NameInv' /\ ClientInv'
      <3>1. NameInv'
        BY <1>0, <2>1 DEF NameInv
      <3>2. ClientInv'
        BY <1>0, <2>1 DEF ClientInv
      <3> QED
        BY <3>1, <3>2
    <2>3. ctx[t] \in Contexts /\ ids[kern[t]] \in Nat /\ ids[kern[t]] > kDeletedId
      BY <1>0, <2>1 DEF ClientInv, NameInv
    <2>4. Good(compilations', size)
      <3>1. CASE UNCHANGED compilations
        BY <1>0, <3>1 DEF TableInv
      <3>2. CASE /\ Cached(ctx[t], ids[kern[t]])
                 /\ compilations' = [compilations EXCEPT ![SlotOf(ctx[t], ids[kern[t]])].uses = @ - 1]
        <4>1. PICK i : i = SlotOf(ctx[t], ids[kern[t]])
          OBVIOUS
        <4>2. i \in LiveIn(compilations, size)
          BY <1>0, <2>3, <3>2, <4>1, FoundIs
        <4>3. compilations[i].uses - 1 \in Int
          BY <1>0, <4>2 DEF TableInv, Good, LiveIn, Slots
        <4>4. compilations' = Used(i, compilations[i].uses - 1)
          BY <3>2, <4>1 DEF Used
        <4> QED
          BY <1>0, <4>2, <4>3, <4>4, Counts
      <3> QED
        BY <2>1, <3>1, <3>2
    <2>5. TableInv'
      BY <1>0, <2>1, <2>4 DEF TableInv
    <2> QED
      BY <2>2, <2>5 DEF ShapeInv
  <1>5. ASSUME NEW c \in Contexts, DeleteContext(c) PROVE ShapeInv'
    <2>1. /\ compilations' = Swept({c}) /\ count' = CountAfter({c})
          /\ UNCHANGED <<size, ids, unique_id, at, ctx, kern>>
      BY <1>5 DEF DeleteContext, names, clients
    <2>2. CountAfter({c}) \in Int
      BY <1>0, SweptCount
    <2>3. TableInv'
      BY <1>0, <2>1, <2>2, Sweeps DEF TableInv
    <2> QED
      BY <1>0, <2>1, <2>3 DEF ShapeInv, NameInv, ClientInv
  <1>6. ASSUME ReleaseAll PROVE ShapeInv'
    <2>1. /\ count' = CountAfter(Contexts)
          /\ UNCHANGED <<ids, unique_id, at, ctx, kern>>
          /\ \/ compilations' = FreeTable(0) /\ size' = 0
             \/ compilations' = Swept(Contexts) /\ UNCHANGED size
      BY <1>6 DEF ReleaseAll, names, clients
    <2>2. CountAfter(Contexts) \in Int
      BY <1>0, SweptCount
    <2>3. TableInv'
      <3>1. CASE compilations' = FreeTable(0) /\ size' = 0
        BY <2>1, <2>2, <3>1, FreeIs DEF TableInv
      <3>2. CASE compilations' = Swept(Contexts) /\ UNCHANGED size
        BY <1>0, <2>1, <2>2, <3>2, Sweeps DEF TableInv
      <3> QED
        BY <2>1, <3>1, <3>2
    <2> QED
      BY <1>0, <2>1, <2>3 DEF ShapeInv, NameInv, ClientInv
  <1>7. CASE UNCHANGED vars
    BY <1>0, <1>7 DEF vars, table, names, modules, clients, ShapeInv, TableInv, NameInv, ClientInv
  <1> QED
    BY <1>1, <1>2, <1>3, <1>4, <1>5, <1>6, <1>7 DEF Next, Pipelines

\* The table's shape is all a walk needs.
LEMMA ShapeFinds == ASSUME Sizing, ShapeInv PROVE Findable
  <1>1. TableInv
    BY DEF ShapeInv
  <1>2. LiveSlots = LiveIn(compilations, size)
    BY <1>1 DEF LiveSlots, LiveIn, TableInv, Good
  <1>3. \A i, j \in LiveIn(compilations, size) :
           compilations[i].context = compilations[j].context
               /\ compilations[i].id = compilations[j].id => i = j
    BY <1>1 DEF TableInv, Good, Is
  <1>4. \A i \in LiveIn(compilations, size) :
           /\ Cached(compilations[i].context, compilations[i].id)
           /\ i = SlotOf(compilations[i].context, compilations[i].id)
    BY <1>1, Finds
  <1> QED
    BY <1>2, <1>3, <1>4 DEF Findable

\* In a long run the deleted slots are what a walk has to get past: whatever was deleted,
\* also more than once, and however often the table has grown, every entry is found by the
\* walk for it, and no context has a kernel twice.
THEOREM EntriesAreFound == ASSUME Sizing PROVE Spec => []Findable
  <1>1. ShapeInv => Findable
    BY ShapeFinds
  <1> QED
    BY <1>1, InitShape, ShapeStep, PTL DEF Spec

-----------------------------------------------------------------------------
(* What the cache has after a step *)

\* As many entries as slots with an entry, each of a kernel in a context, and no two alike.
LEMMA CacheFacts ==
  ASSUME Sizing, TableInv
  PROVE  /\ size \in Nat /\ LiveSlots = LiveIn(compilations, size)
         /\ IsFiniteSet(Cache) /\ Cardinality(Cache) \in Nat
         /\ Cardinality(LiveSlots) = Cardinality(Cache)
         /\ \A e \in Cache : /\ e \in Slots /\ e.context \in Contexts
                             /\ e.id \in Nat /\ e.id > kDeletedId
         /\ \A e, f \in Cache : Is(f, e.context, e.id) => e = f
  <1>1. size \in Nat /\ Good(compilations, size) /\ compilations \in [0..(size - 1) -> Slots]
    BY DEF TableInv, Sizing, Good
  <1>2. LiveSlots = LiveIn(compilations, size)
    BY <1>1 DEF LiveSlots, LiveIn
  <1>3. /\ IsFiniteSet(Cache) /\ Cardinality(Cache) \in Nat
        /\ Cardinality(LiveSlots) = Cardinality(Cache)
    BY <1>1, <1>2, AsMany DEF Cache
  <1>4. \A e \in Cache : e \in Slots /\ Live(e) /\ e.context \in Contexts
    BY <1>1 DEF Cache, Entries, LiveIn, Good
  <1>5. \A e, f \in Cache : Is(f, e.context, e.id) => e = f
    BY <1>1 DEF Cache, Entries, Good
  <1> QED
    BY <1>1, <1>2, <1>3, <1>4, <1>5 DEF Slots, Live

Holds(E, c, id) == \E e \in E : Is(e, c, id)

\* An entry is used once more or once less.
WithUses(e, u) == [e EXCEPT !.uses = u]
Replaced(E, e, f) == (E \ {e}) \cup {f}

\* What a walk ends at is an entry; the table has the same entries otherwise.
LEMMA Recounts ==
  ASSUME Sizing, TableInv, NEW c \in Contexts, NEW id \in Nat, id > kDeletedId, Cached(c, id),
         NEW i, i = SlotOf(c, id), NEW u, u \in Int
  PROVE  /\ compilations[i] \in Cache /\ Is(compilations[i], c, id)
         /\ Entries(Used(i, u), size) = Replaced(Cache, compilations[i], WithUses(compilations[i], u))
         /\ DeadInv => Dead(Used(i, u), size)
  <1>1. PICK T, e, f : T = Used(i, u) /\ e = compilations[i] /\ f = WithUses(e, u)
    OBVIOUS
  <1>2. i \in LiveIn(compilations, size) /\ Is(compilations[i], c, id)
    BY FoundIs
  <1>3. /\ LiveIn(T, size) = LiveIn(compilations, size)
        /\ T[i] = [compilations[i] EXCEPT !.uses = u]
        /\ \A k \in 0..(size - 1) : k # i => T[k] = compilations[k]
    BY <1>1, <1>2, Counts
  <1>4. compilations[i] \in Cache
    BY <1>2 DEF Cache, Entries
  <1>5. \A k \in LiveIn(compilations, size) : k # i => /\ T[k] = compilations[k]
                                                       /\ compilations[k] # compilations[i]
    <2>1. ASSUME NEW k \in LiveIn(compilations, size), k # i
          PROVE  T[k] = compilations[k] /\ compilations[k] # compilations[i]
      <3>1. k \in 0..(size - 1)
        BY DEF LiveIn
      <3>2. ~Is(compilations[i], compilations[k].context, compilations[k].id)
        BY <1>2, <2>1 DEF TableInv, Good
      <3> QED
        BY <1>3, <2>1, <3>1, <3>2 DEF Is
    <2> QED
      BY <2>1
  <1>6. Entries(T, size) = Replaced(Cache, e, f)
    <2>2. Entries(T, size) = {T[k] : k \in LiveIn(compilations, size)}
      BY <1>3 DEF Entries
    <2>3. Cache = {compilations[k] : k \in LiveIn(compilations, size)}
      BY DEF Cache, Entries
    <2>4. T[i] = f
      BY <1>1, <1>3 DEF WithUses
    <2> QED
      BY ONLY <1>1, <1>2, <1>5, <2>2, <2>3, <2>4 DEF Replaced
  <1>7. DeadInv => Dead(T, size)
    <2>1. \A k \in 0..(size - 1) : ~Live(T[k]) => k # i /\ ~Live(compilations[k])
      BY <1>2, <1>3 DEF LiveIn
    <2> QED
      BY <1>3, <2>1 DEF DeadInv, Dead
  <1> QED
    BY <1>1, <1>2, <1>4, <1>6, <1>7

\* The same keys, and as many entries.
LEMMA SameKeys ==
  ASSUME Sizing, TableInv, NEW e \in Cache, NEW u, u \in Int, NEW f, f = WithUses(e, u),
         NEW E, E = Replaced(Cache, e, f)
  PROVE  /\ \A c, id : Holds(E, c, id) <=> Holds(Cache, c, id)
         /\ Cardinality(E) = Cardinality(Cache)
         /\ \A g \in E : \/ g \in Cache /\ ~Is(g, e.context, e.id)
                         \/ /\ g.context = e.context /\ g.id = e.id /\ g.module = e.module
                            /\ g.uses = u
  <1>2. e \in Slots
    BY CacheFacts
  <1>3. f.context = e.context /\ f.id = e.id /\ f.module = e.module /\ f.uses = u
    BY <1>2 DEF Slots, WithUses
  <1>4. \A g \in Cache \ {e} : ~Is(g, e.context, e.id)
    BY CacheFacts
  <1>5. f \notin Cache \ {e}
    BY <1>3, <1>4 DEF Is
  <1>6. Cardinality(E) = Cardinality(Cache)
    <2>1. IsFiniteSet(Cache \ {e}) /\ Cardinality(Cache \ {e}) = Cardinality(Cache) - 1
      BY CacheFacts, FS_RemoveElement
    <2>2. Cardinality((Cache \ {e}) \cup {f}) = Cardinality(Cache \ {e}) + 1
      BY <1>5, <2>1, FS_AddElement
    <2>3. Cardinality(Cache) \in Nat
      BY CacheFacts
    <2> QED
      BY <2>1, <2>2, <2>3 DEF Replaced
  <1>7. \A c, id : Holds(E, c, id) <=> Holds(Cache, c, id)
    <2>1. E = (Cache \ {e}) \cup {f}
      BY DEF Replaced
    <2>2. \A c, id : Is(f, c, id) <=> Is(e, c, id)
      BY <1>3 DEF Is
    <2> QED
      BY ONLY <2>1, <2>2, e \in Cache DEF Holds
  <1> QED
    BY <1>3, <1>4, <1>6, <1>7 DEF Replaced

\* Who uses an entry when a pipeline enters.
LEMMA Entering ==
  ASSUME Sizing, NameInv, ClientInv, NEW k \in Kernels, Name(k),
         NEW t \in Threads, NEW c \in Contexts, at[t] = "out", Enter(t, c, k),
         NEW x, NEW id
  PROVE  /\ (Users(x, id))' = IF x = c /\ id = Named(k) THEN Users(x, id) \cup {t} ELSE Users(x, id)
         /\ t \notin Users(x, id) /\ IsFiniteSet(Users(x, id))
  <1>1. IsFiniteSet(Users(x, id))
    BY FS_Subset DEF Users, Sizing
  <1>2. /\ ids'[k] = Named(k)
        /\ \A l \in Kernels : ids[l] # 0 => ids'[l] = ids[l]
    BY Names
  <1>3. at'[t] = "in" /\ ctx'[t] = c /\ kern'[t] = k
    BY DEF Enter, ClientInv
  <1>4. \A u \in Threads : u # t => at'[u] = at[u] /\ ctx'[u] = ctx[u] /\ kern'[u] = kern[u]
    BY DEF Enter, ClientInv
  <1>5. \A u \in Threads : u # t /\ at[u] = "in" => ids'[kern'[u]] = ids[kern[u]]
    BY <1>2, <1>4 DEF ClientInv
  <1>6. (Users(x, id))' = {u \in Threads : at'[u] = "in" /\ ctx'[u] = x /\ ids'[kern'[u]] = id}
    BY DEF Users
  <1>7. \A u \in Threads :
           (at'[u] = "in" /\ ctx'[u] = x /\ ids'[kern'[u]] = id)
             <=> u \in Users(x, id) \/ (u = t /\ x = c /\ id = Named(k))
    BY <1>2, <1>3, <1>4, <1>5 DEF Users
  <1>8. t \notin Users(x, id)
    BY DEF Users
  <1>9. Users(x, id) \subseteq Threads
    BY DEF Users
  <1> QED
    BY <1>1, <1>6, <1>7, <1>8, <1>9

\* Who uses an entry when a kernel was named only.
LEMMA Staying ==
  ASSUME Sizing, NameInv, ClientInv, NEW k \in Kernels, Name(k), UNCHANGED clients, NEW x, NEW id
  PROVE  (Users(x, id))' = Users(x, id)
  <1>1. \A l \in Kernels : ids[l] # 0 => ids'[l] = ids[l]
    BY Names
  <1>2. \A u \in Threads : at[u] = "in" => ids'[kern[u]] = ids[kern[u]]
    BY <1>1 DEF ClientInv
  <1> QED
    BY <1>2 DEF Users, clients

\* Who uses an entry when a pipeline leaves.
LEMMA Leaving ==
  ASSUME Sizing, ClientInv, NEW t \in Threads, ReleaseHold(t), NEW x, NEW id
  PROVE  /\ (Users(x, id))' = Users(x, id) \ {t}
         /\ t \in Users(x, id) <=> x = ctx[t] /\ id = ids[kern[t]]
         /\ IsFiniteSet(Users(x, id))
  <1>1. IsFiniteSet(Users(x, id))
    BY FS_Subset DEF Users, Sizing
  <1>2. at[t] = "in" /\ at'[t] = "out" /\ ids' = ids
        /\ \A u \in Threads : u # t => at'[u] = at[u] /\ ctx'[u] = ctx[u] /\ kern'[u] = kern[u]
    BY DEF ReleaseHold, ClientInv, names
  <1> QED
    BY <1>1, <1>2 DEF Users

-----------------------------------------------------------------------------
(* The invariant of the entries is kept *)

\* The numbers of modules, when the same keys are cached.
LEMMA SameModules ==
  ASSUME ModuleInv, NEW E, \A c, id : Holds(E, c, id) <=> Holds(Cache, c, id),
         NEW l, l = loaded, NEW o, o = lost
  PROVE  /\ l \in [Modules -> Nat] /\ o \in [Modules -> Nat]
         /\ \A m \in Modules : l[m] = o[m] + IF \E e \in E : Is(e, m[1], m[2]) THEN 1 ELSE 0
  BY DEF ModuleInv, Holds

\* A pipeline enters and finds its kernel in the cache.
LEMMA CachedStep ==
  ASSUME Sizing, ShapeInv, CacheInv,
         NEW t \in Threads, NEW c \in Contexts, NEW k \in Kernels, SetupCached(t, c, k)
  PROVE  CacheInv'
  <1>0. PICK id, i, e, u, f : /\ id = Named(k) /\ i = SlotOf(c, id) /\ e = compilations[i]
                              /\ u = e.uses + 1 /\ f = WithUses(e, u)
    OBVIOUS
  <1>1. /\ at[t] = "out" /\ Cached(c, id) /\ Name(k) /\ Enter(t, c, k)
        /\ UNCHANGED <<size, count, loaded, lost>>
        /\ compilations' = [compilations EXCEPT ![i].uses = @ + 1]
    BY <1>0 DEF SetupCached, modules
  <1>2. TableInv /\ NameInv /\ ClientInv
    BY DEF ShapeInv
  <1>3. EntryInv /\ HeldInv /\ ModuleInv /\ DeadInv /\ LoadInv
    BY DEF CacheInv
  <1>4. /\ id \in Nat /\ id > kDeletedId /\ id < unique_id' /\ unique_id' >= unique_id
        /\ ids'[k] = id /\ \A l \in Kernels : ids[l] # 0 => ids'[l] = ids[l]
    BY <1>0, <1>1, <1>2, Names
  <1>5. i \in LiveIn(compilations, size)
    BY <1>0, <1>1, <1>2, <1>4, FoundIs
  <1>6. u \in Int /\ e.uses \in Int
    BY <1>0, <1>2, <1>5 DEF TableInv, Good, LiveIn, Slots
  <1>7. compilations' = Used(i, u)
    BY <1>0, <1>1 DEF Used
  <1>8. /\ e \in Cache /\ Is(e, c, id)
        /\ Cache' = Replaced(Cache, e, f)
        /\ DeadInv'
    <2>1. size' = size
      BY <1>1
    <2>2. /\ e \in Cache /\ Is(e, c, id)
          /\ Entries(compilations', size) = Replaced(Cache, e, f)
          /\ DeadInv => Dead(compilations', size)
      <3>1. /\ compilations[i] \in Cache /\ Is(compilations[i], c, id)
            /\ Entries(Used(i, u), size) = Replaced(Cache, compilations[i], WithUses(compilations[i], u))
            /\ DeadInv => Dead(Used(i, u), size)
        BY <1>0, <1>1, <1>2, <1>4, <1>6, Recounts
      <3> QED
        BY <1>0, <1>7, <3>1
    <2> QED
      BY <1>3, <2>1, <2>2 DEF Cache, DeadInv
  <1>9. /\ \A x, y : Holds(Cache', x, y) <=> Holds(Cache, x, y)
        /\ Cardinality(Cache') = Cardinality(Cache)
        /\ \A g \in Cache' : \/ g \in Cache /\ ~Is(g, e.context, e.id)
                             \/ /\ g.context = e.context /\ g.id = e.id /\ g.module = e.module
                                /\ g.uses = u
    BY <1>0, <1>2, <1>6, <1>8, SameKeys
  <1>10. EntryInv'
    <2>1. ASSUME NEW g \in Cache'
          PROVE  /\ g.id < unique_id' /\ g.module
                 /\ g.uses = Cardinality((Users(g.context, g.id))')
      <3>1. CASE g \in Cache /\ ~Is(g, e.context, e.id)
        <4>1. ~ (g.context = c /\ g.id = id)
          BY <1>8, <3>1 DEF Is
        <4>2. (Users(g.context, g.id))' = Users(g.context, g.id)
          BY <1>0, <1>1, <1>2, <4>1, Entering
        <4>3. g.id < unique_id /\ g.module /\ g.uses = Cardinality(Users(g.context, g.id))
              /\ g.id \in Nat
          BY <1>2, <1>3, <3>1, CacheFacts DEF EntryInv
        <4>4. unique_id \in Nat /\ unique_id' \in Nat
          BY <1>1, <1>2, NameTypes DEF Name
        <4> QED
          BY <1>4, <4>2, <4>3, <4>4
      <3>2. CASE /\ g.context = e.context /\ g.id = e.id /\ g.module = e.module
                 /\ g.uses = u
        <4>1. g.context = c /\ g.id = id
          BY <1>8, <3>2 DEF Is
        <4>2. e.module /\ e.uses = Cardinality(Users(e.context, e.id))
          BY <1>3, <1>8 DEF EntryInv
        <4>3. (Users(c, id))' = Users(c, id) \cup {t} /\ t \notin Users(c, id)
              /\ IsFiniteSet(Users(c, id))
          BY <1>0, <1>1, <1>2, Entering
        <4>4. Cardinality((Users(c, id))') = Cardinality(Users(c, id)) + 1
          BY <4>3, FS_AddElement
        <4>5. (Users(g.context, g.id))' = (Users(c, id))'
          BY <4>1 DEF Users
        <4> QED
          BY <1>4, <3>2, <4>1, <4>2, <4>4, <4>5, <1>0
      <3> QED
        BY <1>9, <3>1, <3>2
    <2> QED
      BY <2>1 DEF EntryInv, Users
  <1>11. HeldInv'
    <2>1. ASSUME NEW v \in Threads, at'[v] = "in"
          PROVE  Holds(Cache', ctx'[v], ids'[kern'[v]])
      <3>1. CASE v = t
        <4>1. ctx'[v] = c /\ ids'[kern'[v]] = id
          BY <1>1, <1>2, <1>4, <3>1 DEF Enter, ClientInv
        <4>2. Holds(Cache, c, id)
          BY <1>8 DEF Holds
        <4> QED
          BY <1>9, <4>1, <4>2
      <3>2. CASE v # t
        <4>1. at[v] = "in" /\ ctx'[v] = ctx[v] /\ kern'[v] = kern[v]
          BY <1>1, <1>2, <2>1, <3>2 DEF Enter, ClientInv
        <4>2. ids'[kern'[v]] = ids[kern[v]]
          BY <1>2, <1>4, <4>1 DEF ClientInv
        <4>3. Holds(Cache, ctx[v], ids[kern[v]])
          BY <1>3, <4>1 DEF HeldInv, Holds
        <4> QED
          BY <1>9, <4>1, <4>2, <4>3
      <3> QED
        BY <3>1, <3>2
    <2> QED
      BY <2>1 DEF HeldInv, Holds
  <1>12. ModuleInv'
    <2>1. loaded' = loaded /\ lost' = lost
      BY <1>1
    <2>2. PICK E : E = Cache'
      OBVIOUS
    <2>3. \A x, y : Holds(E, x, y) <=> Holds(Cache, x, y)
      BY <1>9, <2>2
    <2>4. /\ loaded' \in [Modules -> Nat] /\ lost' \in [Modules -> Nat]
          /\ \A m \in Modules : loaded'[m] = lost'[m] + IF \E x \in E : Is(x, m[1], m[2]) THEN 1 ELSE 0
      BY <1>3, <2>1, <2>3, SameModules
    <2> QED
      BY <2>2, <2>4 DEF ModuleInv
  <1>13. LoadInv'
    BY <1>1, <1>3, <1>9 DEF LoadInv
  <1> QED
    BY <1>8, <1>10, <1>11, <1>12, <1>13 DEF CacheInv

\* A kernel gets its name and nothing is cached: it did not compile, or its module is lost.
LEMMA NamedStep ==
  ASSUME Sizing, ShapeInv, CacheInv,
         NEW t \in Threads, NEW c \in Contexts, NEW k \in Kernels,
         SetupLost(t, c, k) \/ SetupFails(t, c, k)
  PROVE  CacheInv'
  <1>1. Name(k) /\ UNCHANGED <<compilations, size, count, at, ctx, kern>> /\ UNCHANGED clients
    BY DEF SetupLost, SetupFails, table, clients
  <1>2. TableInv /\ NameInv /\ ClientInv
    BY DEF ShapeInv
  <1>3. EntryInv /\ HeldInv /\ ModuleInv /\ DeadInv /\ LoadInv
    BY DEF CacheInv
  <1>4. unique_id' >= unique_id /\ \A l \in Kernels : ids[l] # 0 => ids'[l] = ids[l]
    BY <1>1, <1>2, Names
  <1>5. Cache' = Cache
    BY <1>1 DEF Cache
  <1>6. EntryInv'
    <2>1. ASSUME NEW g \in Cache
          PROVE  /\ g.id < unique_id' /\ g.module
                 /\ g.uses = Cardinality((Users(g.context, g.id))')
      <3>1. (Users(g.context, g.id))' = Users(g.context, g.id)
        BY <1>1, <1>2, Staying
      <3>2. g.id < unique_id /\ g.module /\ g.uses = Cardinality(Users(g.context, g.id))
            /\ g.id \in Nat
        BY <1>2, <1>3, CacheFacts DEF EntryInv
      <3>3. unique_id \in Nat /\ unique_id' \in Nat
        BY <1>1, <1>2, NameTypes DEF Name
      <3> QED
        BY <1>4, <3>1, <3>2, <3>3
    <2> QED
      BY <1>5, <2>1 DEF EntryInv, Users
  <1>7. HeldInv'
    <2>1. \A v \in Threads : at[v] = "in" => ids'[kern[v]] = ids[kern[v]]
      BY <1>2, <1>4 DEF ClientInv
    <2> QED
      BY <1>1, <1>3, <1>5, <2>1 DEF HeldInv
  <1>8. ModuleInv'
    <2>1. CASE SetupFails(t, c, k)
      BY <1>3, <1>5, <2>1 DEF SetupFails, modules, ModuleInv
    <2>2. CASE SetupLost(t, c, k)
      <3>1. PICK m : m = <<c, Named(k)>>
        OBVIOUS
      <3>2. loaded' = [loaded EXCEPT ![m] = @ + 1] /\ lost' = [lost EXCEPT ![m] = @ + 1]
        BY <2>2, <3>1 DEF SetupLost
      <3>3. /\ loaded \in [Modules -> Nat] /\ lost \in [Modules -> Nat]
            /\ \A x \in Modules :
                  loaded[x] = lost[x] + IF \E g \in Cache : Is(g, x[1], x[2]) THEN 1 ELSE 0
        BY <1>3 DEF ModuleInv
      <3>4. /\ loaded' \in [Modules -> Nat] /\ lost' \in [Modules -> Nat]
            /\ \A x \in Modules : \E d \in Nat : loaded'[x] = loaded[x] + d /\ lost'[x] = lost[x] + d
        <4>1. \A x \in Modules : loaded[x] \in Nat /\ lost[x] \in Nat
          BY <3>3
        <4>2. ASSUME NEW x \in Modules
              PROVE  /\ loaded'[x] = IF x = m THEN loaded[x] + 1 ELSE loaded[x]
                     /\ lost'[x] = IF x = m THEN lost[x] + 1 ELSE lost[x]
          BY <3>2, <3>3
        <4>3. loaded' \in [Modules -> Nat] /\ lost' \in [Modules -> Nat]
          <5>1. /\ loaded' = [x \in Modules |-> IF x = m THEN loaded[x] + 1 ELSE loaded[x]]
                /\ lost' = [x \in Modules |-> IF x = m THEN lost[x] + 1 ELSE lost[x]]
            BY <3>2, <3>3
          <5> QED
            BY <4>1, <5>1
        <4>4. ASSUME NEW x \in Modules
              PROVE  \E d \in Nat : loaded'[x] = loaded[x] + d /\ lost'[x] = lost[x] + d
          <5>1. CASE x = m
            <6>1. loaded'[x] = loaded[x] + 1 /\ lost'[x] = lost[x] + 1
              BY <4>2, <5>1
            <6> QED
              BY <6>1
          <5>2. CASE x # m
            <6>1. loaded'[x] = loaded[x] + 0 /\ lost'[x] = lost[x] + 0
              BY <4>1, <4>2, <5>2
            <6> QED
              BY <6>1
          <5> QED
            BY <5>1, <5>2
        <4> QED
          BY <4>3, <4>4
      <3>5. \A x \in Modules :
               loaded'[x] = lost'[x] + IF \E g \in Cache : Is(g, x[1], x[2]) THEN 1 ELSE 0
        <4>1. ASSUME NEW x \in Modules
              PROVE  loaded'[x] = lost'[x] + IF \E g \in Cache : Is(g, x[1], x[2]) THEN 1 ELSE 0
          <5>1. PICK n : n = IF \E g \in Cache : Is(g, x[1], x[2]) THEN 1 ELSE 0
            OBVIOUS
          <5>2. n \in Nat /\ loaded[x] = lost[x] + n /\ lost[x] \in Nat
            BY <3>3, <5>1
          <5>3. PICK d \in Nat : loaded'[x] = loaded[x] + d /\ lost'[x] = lost[x] + d
            BY <3>4
          <5>4. loaded'[x] = lost'[x] + n
            BY <5>2, <5>3
          <5> QED
            BY <5>1, <5>4
        <4> QED
          BY <4>1
      <3> QED
        BY <1>5, <3>4, <3>5 DEF ModuleInv
    <2> QED
      BY <2>1, <2>2
  <1>9. DeadInv' /\ LoadInv'
    BY <1>1, <1>3, <1>5 DEF DeadInv, LoadInv
  <1> QED
    BY <1>6, <1>7, <1>8, <1>9 DEF CacheInv

\* A pipeline leaves.
LEMMA ReleaseStep ==
  ASSUME Sizing, ShapeInv, CacheInv, NEW t \in Threads, ReleaseHold(t)
  PROVE  CacheInv'
  <1>0. PICK c, id, i, e, u, f :
              /\ c = ctx[t] /\ id = ids[kern[t]] /\ i = SlotOf(c, id) /\ e = compilations[i]
              /\ u = e.uses - 1 /\ f = WithUses(e, u)
    OBVIOUS
  <1>1. TableInv /\ NameInv /\ ClientInv
    BY DEF ShapeInv
  <1>2. EntryInv /\ HeldInv /\ ModuleInv /\ DeadInv /\ LoadInv
    BY DEF CacheInv
  <1>3. at[t] = "in"
    BY DEF ReleaseHold
  <1>4. c \in Contexts /\ id \in Nat /\ id > kDeletedId
    BY <1>0, <1>1, <1>3 DEF ClientInv, NameInv
  <1>5. Cached(c, id)
    <2>1. \E g \in Cache : Is(g, c, id)
      BY <1>0, <1>2, <1>3 DEF HeldInv
    <2> QED
      BY <1>1, <1>4, <2>1, CachedIs
  <1>6. /\ UNCHANGED <<size, count, loaded, lost, ids, unique_id>>
        /\ compilations' = [compilations EXCEPT ![i].uses = @ - 1]
        /\ \A v \in Threads : at'[v] = "in" => v # t /\ at[v] = "in" /\ ctx'[v] = ctx[v]
                                               /\ kern'[v] = kern[v]
    BY <1>0, <1>1, <1>5 DEF ReleaseHold, names, modules, ClientInv
  <1>7. i \in LiveIn(compilations, size)
    BY <1>0, <1>1, <1>4, <1>5, FoundIs
  <1>8. u \in Int /\ e.uses \in Int
    BY <1>0, <1>1, <1>7 DEF TableInv, Good, LiveIn, Slots
  <1>9. compilations' = Used(i, u)
    BY <1>0, <1>6 DEF Used
  <1>10. /\ e \in Cache /\ Is(e, c, id)
         /\ Cache' = Replaced(Cache, e, f)
         /\ DeadInv'
    <2>1. size' = size
      BY <1>6
    <2>2. /\ e \in Cache /\ Is(e, c, id)
          /\ Entries(compilations', size) = Replaced(Cache, e, f)
          /\ DeadInv => Dead(compilations', size)
      <3>1. /\ compilations[i] \in Cache /\ Is(compilations[i], c, id)
            /\ Entries(Used(i, u), size) = Replaced(Cache, compilations[i], WithUses(compilations[i], u))
            /\ DeadInv => Dead(Used(i, u), size)
        BY <1>0, <1>1, <1>4, <1>5, <1>8, Recounts
      <3> QED
        BY <1>0, <1>9, <3>1
    <2> QED
      BY <1>2, <2>1, <2>2 DEF Cache, DeadInv
  <1>11. /\ \A x, y : Holds(Cache', x, y) <=> Holds(Cache, x, y)
         /\ Cardinality(Cache') = Cardinality(Cache)
         /\ \A g \in Cache' : \/ g \in Cache /\ ~Is(g, e.context, e.id)
                              \/ /\ g.context = e.context /\ g.id = e.id /\ g.module = e.module
                                 /\ g.uses = u
    BY <1>0, <1>1, <1>8, <1>10, SameKeys
  <1>12. EntryInv'
    <2>1. ASSUME NEW g \in Cache'
          PROVE  /\ g.id < unique_id' /\ g.module
                 /\ g.uses = Cardinality((Users(g.context, g.id))')
      <3>0. (Users(g.context, g.id))' = Users(g.context, g.id) \ {t}
            /\ (t \in Users(g.context, g.id) <=> g.context = c /\ g.id = id)
            /\ IsFiniteSet(Users(g.context, g.id))
        BY <1>0, <1>1, Leaving
      <3>1. CASE g \in Cache /\ ~Is(g, e.context, e.id)
        <4>1. ~ (g.context = c /\ g.id = id)
          BY <1>10, <3>1 DEF Is
        <4>2. (Users(g.context, g.id))' = Users(g.context, g.id)
          BY <3>0, <4>1
        <4> QED
          BY <1>2, <1>6, <3>1, <4>2 DEF EntryInv
      <3>2. CASE /\ g.context = e.context /\ g.id = e.id /\ g.module = e.module
                 /\ g.uses = u
        <4>1. g.context = c /\ g.id = id
          BY <1>10, <3>2 DEF Is
        <4>2. e.id < unique_id /\ e.module /\ e.uses = Cardinality(Users(e.context, e.id))
          BY <1>2, <1>10 DEF EntryInv
        <4>3. Cardinality(Users(g.context, g.id) \ {t}) = Cardinality(Users(g.context, g.id)) - 1
          BY <3>0, <4>1, FS_RemoveElement
        <4>4. Users(g.context, g.id) = Users(e.context, e.id)
          BY <3>2
        <4>5. g.uses = Cardinality(Users(g.context, g.id)) - 1
          BY <1>0, <3>2, <4>2, <4>4
        <4>6. g.id < unique_id' /\ g.module
          BY <1>6, <3>2, <4>2
        <4> QED
          BY ONLY <3>0, <4>3, <4>5, <4>6
      <3> QED
        BY <1>11, <3>1, <3>2
    <2> QED
      BY <2>1 DEF EntryInv, Users
  <1>13. HeldInv'
    <2>1. ASSUME NEW v \in Threads, at'[v] = "in"
          PROVE  Holds(Cache', ctx'[v], ids'[kern'[v]])
      <3>1. at[v] = "in" /\ ctx'[v] = ctx[v] /\ ids'[kern'[v]] = ids[kern[v]]
        BY <1>6, <2>1
      <3>2. Holds(Cache, ctx[v], ids[kern[v]])
        BY <1>2, <3>1 DEF HeldInv, Holds
      <3> QED
        BY <1>11, <3>1, <3>2
    <2> QED
      BY <2>1 DEF HeldInv, Holds
  <1>14. ModuleInv'
    <2>1. loaded' = loaded /\ lost' = lost
      BY <1>6
    <2>2. PICK E : E = Cache'
      OBVIOUS
    <2>3. \A x, y : Holds(E, x, y) <=> Holds(Cache, x, y)
      BY <1>11, <2>2
    <2>4. /\ loaded' \in [Modules -> Nat] /\ lost' \in [Modules -> Nat]
          /\ \A m \in Modules : loaded'[m] = lost'[m] + IF \E x \in E : Is(x, m[1], m[2]) THEN 1 ELSE 0
      BY <1>2, <2>1, <2>3, SameModules
    <2> QED
      BY <2>2, <2>4 DEF ModuleInv
  <1>15. LoadInv'
    BY <1>2, <1>6, <1>11 DEF LoadInv
  <1> QED
    BY <1>10, <1>12, <1>13, <1>14, <1>15 DEF CacheInv

\* The counts when an entry is inserted: no entry is lost to a growing table, and count stays
\* below the bounds.
LEMMA Loads ==
  ASSUME Sizing, TableInv, LoadInv, NewSize <= MaxSize
  PROVE  /\ size = 0 \/ NewSize = size \/ count > 0
         /\ Cardinality(Cache) + 1 <= Recounted + 1
         /\ NewSize # 0
         /\ \/ 2 * (Recounted + 1) <= NewSize
            \/ /\ 2 * (Recounted + 1) <= NewSize + 2 /\ 4 * (Cardinality(Cache) + 1) <= NewSize + 4
               /\ NewSize >= 8
  <1>1. PICK l : l = Cardinality(Cache)
    OBVIOUS
  <1>2. l \in Nat /\ Cardinality(LiveSlots) = l /\ size \in Nat /\ count \in Int
    BY <1>1, CacheFacts DEF TableInv
  <1>3. /\ l <= count /\ (size = 0 => count = 0)
        /\ 2 * count <= size \/ (2 * count <= size + 2 /\ 4 * l <= size + 4 /\ size >= 8)
    BY <1>1 DEF LoadInv
  <1>4. InitialSize \in Nat /\ InitialSize >= 4 /\ (size = 0 \/ size >= 4)
    BY <1>2 DEF Sizing, TableInv
  <1>5. CASE size = 0
    <2>1. NewSize = InitialSize /\ Recounted = 0 /\ l = 0
      BY <1>2, <1>3, <1>5 DEF NewSize, Recounted
    <2> QED
      BY <1>1, <1>4, <1>5, <2>1
  <1>6. CASE size # 0 /\ ~ (2 * (count + 1) > size)
    <2>1. NewSize = size /\ Recounted = count
      BY <1>6 DEF NewSize, Recounted
    <2> QED
      BY <1>1, <1>2, <1>3, <1>6, <2>1
  <1>7. CASE size # 0 /\ 2 * (count + 1) > size
    <2>1. NewSize = 2 * size /\ NewSize # size /\ count > 0
      BY <1>2, <1>4, <1>7 DEF NewSize
    <2>2. Recounted = count + l
      BY <1>2, <1>7, <2>1 DEF Recounted
    <2> QED
      BY <1>1, <1>2, <1>3, <1>4, <1>7, <2>1, <2>2
  <1> QED
    BY <1>5, <1>6, <1>7

\* A kernel is compiled and inserted.
LEMMA CompiledStep ==
  ASSUME Sizing, ShapeInv, CacheInv,
         NEW t \in Threads, NEW c \in Contexts, NEW k \in Kernels, SetupCompiled(t, c, k)
  PROVE  CacheInv'
  <1>0. PICK id, s, m : /\ id = Named(k) /\ m = <<c, id>>
                        /\ s = [context |-> c, id |-> id, module |-> TRUE, uses |-> 1]
    OBVIOUS
  <1>1. /\ at[t] = "out" /\ ~Cached(c, id) /\ Name(k) /\ Enter(t, c, k)
        /\ NewSize <= MaxSize /\ RoomFor(NewTable, NewSize, c, id) # {}
        /\ size' = NewSize /\ count' = Recounted + 1
        /\ compilations' = Put(NewTable, NewSize, s)
        /\ loaded' = [loaded EXCEPT ![m] = @ + 1] /\ lost' = lost
    BY <1>0 DEF SetupCompiled
  <1>2. TableInv /\ NameInv /\ ClientInv
    BY DEF ShapeInv
  <1>3. EntryInv /\ HeldInv /\ ModuleInv /\ DeadInv /\ LoadInv
    BY DEF CacheInv
  <1>4. /\ id \in Nat /\ id > kDeletedId /\ id < unique_id' /\ unique_id' >= unique_id
        /\ id <= Cardinality(Kernels) + 1
        /\ ids'[k] = id /\ \A l \in Kernels : ids[l] # 0 => ids'[l] = ids[l]
    BY <1>0, <1>1, <1>2, Names
  <1>5. /\ size = 0 \/ NewSize = size \/ count > 0
        /\ Cardinality(Cache) + 1 <= count'
        /\ size' # 0
        /\ \/ 2 * count' <= size'
           \/ 2 * count' <= size' + 2 /\ 4 * (Cardinality(Cache) + 1) <= size' + 4 /\ size' >= 8
    BY <1>1, <1>2, <1>3, Loads
  <1>6. Entries(NewTable, NewSize) = Cache /\ Dead(NewTable, NewSize)
    BY <1>1, <1>2, <1>3, <1>5, Grows DEF DeadInv
  <1>7. PICK T : T = Put(NewTable, NewSize, s)
    OBVIOUS
  <1>8. /\ \E p \in 0..(NewSize - 1) : /\ ~Live(NewTable[p])
                                       /\ T[p] = s
                                       /\ \A i \in 0..(NewSize - 1) : i # p => T[i] = NewTable[i]
        /\ Entries(T, NewSize) = Entries(NewTable, NewSize) \cup {s}
    <2>2. ~Cached(c, id) /\ NewSize <= MaxSize /\ RoomFor(NewTable, NewSize, c, id) # {}
      BY <1>1
    <2>3. TableInv /\ id \in Nat /\ id > kDeletedId
      BY <1>2, <1>4
    <2>4. \E x, U :
            /\ x = [context |-> c, id |-> id, module |-> TRUE, uses |-> 1]
            /\ U = Put(NewTable, NewSize, x)
            /\ Good(U, NewSize)
            /\ \E p \in 0..(NewSize - 1) : /\ ~Live(NewTable[p])
                                           /\ U[p] = x
                                           /\ \A i \in 0..(NewSize - 1) : i # p => U[i] = NewTable[i]
            /\ Entries(U, NewSize) = Entries(NewTable, NewSize) \cup {x}
      BY <2>2, <2>3, Inserts
    <2> QED
      BY <1>0, <1>7, <2>4
  <1>9. Cache' = Cache \cup {s}
    BY <1>1, <1>6, <1>7, <1>8 DEF Cache
  <1>10. DeadInv'
    <2>1. s.uses = 1 /\ Live(s)
      BY <1>0, <1>4 DEF Live
    <2>2. Dead(T, NewSize)
      BY <1>6, <1>8, <2>1 DEF Dead
    <2> QED
      BY <1>1, <1>7, <2>2 DEF DeadInv
  <1>11. ~Holds(Cache, c, id) /\ Is(s, c, id)
    BY <1>0, <1>1, <1>2, <1>4, CachedIs DEF Holds, Is
  <1>12. Users(c, id) = {}
    <2>1. \A v \in Threads : at[v] = "in" => Holds(Cache, ctx[v], ids[kern[v]])
      BY <1>3 DEF HeldInv, Holds
    <2> QED
      BY <1>11, <2>1 DEF Users
  <1>13. EntryInv'
    <2>1. ASSUME NEW g \in Cache'
          PROVE  /\ g.id < unique_id' /\ g.module
                 /\ g.uses = Cardinality((Users(g.context, g.id))')
      <3>1. CASE g \in Cache
        <4>1. ~ (g.context = c /\ g.id = id)
          BY <1>11, <3>1 DEF Is, Holds
        <4>2. (Users(g.context, g.id))' = Users(g.context, g.id)
          BY <1>0, <1>1, <1>2, <4>1, Entering
        <4>3. g.id < unique_id /\ g.module /\ g.uses = Cardinality(Users(g.context, g.id))
              /\ g.id \in Nat
          BY <1>2, <1>3, <3>1, CacheFacts DEF EntryInv
        <4>4. unique_id \in Nat /\ unique_id' \in Nat
          BY <1>1, <1>2, NameTypes DEF Name
        <4> QED
          BY <1>4, <4>2, <4>3, <4>4
      <3>2. CASE g = s
        <4>1. g.context = c /\ g.id = id /\ g.module /\ g.uses = 1
          BY <1>0, <3>2
        <4>2. (Users(c, id))' = {t}
          BY <1>0, <1>1, <1>2, <1>12, Entering
        <4>3. Cardinality({t}) = 1
          BY FS_Singleton
        <4>4. (Users(g.context, g.id))' = (Users(c, id))'
          BY <4>1 DEF Users
        <4> QED
          BY <1>4, <4>1, <4>2, <4>3, <4>4
      <3> QED
        BY <1>9, <3>1, <3>2
    <2> QED
      BY <2>1 DEF EntryInv, Users
  <1>14. HeldInv'
    <2>0. \A x, y : Holds(Cache', x, y) <=> Holds(Cache, x, y) \/ (x = c /\ y = id)
      BY <1>9, <1>11 DEF Holds, Is
    <2>1. ASSUME NEW v \in Threads, at'[v] = "in"
          PROVE  Holds(Cache', ctx'[v], ids'[kern'[v]])
      <3>1. CASE v = t
        <4>1. ctx'[v] = c /\ ids'[kern'[v]] = id
          BY <1>1, <1>2, <1>4, <3>1 DEF Enter, ClientInv
        <4> QED
          BY <2>0, <4>1
      <3>2. CASE v # t
        <4>1. at[v] = "in" /\ ctx'[v] = ctx[v] /\ kern'[v] = kern[v]
          BY <1>1, <1>2, <2>1, <3>2 DEF Enter, ClientInv
        <4>2. ids'[kern'[v]] = ids[kern[v]]
          BY <1>2, <1>4, <4>1 DEF ClientInv
        <4>3. Holds(Cache, ctx[v], ids[kern[v]])
          BY <1>3, <4>1 DEF HeldInv, Holds
        <4> QED
          BY <2>0, <4>1, <4>2, <4>3
      <3> QED
        BY <3>1, <3>2
    <2> QED
      BY <2>1 DEF HeldInv, Holds
  <1>15. ModuleInv'
    <2>1. m \in Modules
      <3>1. Cardinality(Kernels) \in Nat
        BY FS_CardinalityType DEF Sizing
      <3> QED
        BY <1>0, <1>4, <3>1 DEF Modules, kDeletedId
    <2>2. /\ loaded \in [Modules -> Nat] /\ lost \in [Modules -> Nat]
          /\ \A x \in Modules : loaded[x] = lost[x] + IF Holds(Cache, x[1], x[2]) THEN 1 ELSE 0
      BY <1>3 DEF ModuleInv, Holds
    <2>3. loaded' \in [Modules -> Nat] /\ lost' \in [Modules -> Nat]
      BY <1>1, <2>1, <2>2
    <2>4. ASSUME NEW x \in Modules
          PROVE  loaded'[x] = lost'[x] + IF Holds(Cache', x[1], x[2]) THEN 1 ELSE 0
      <3>1. CASE x = m
        <4>1. x[1] = c /\ x[2] = id
          BY <1>0, <3>1
        <4>2. ~Holds(Cache, x[1], x[2]) /\ Holds(Cache', x[1], x[2])
          BY <1>9, <1>11, <4>1 DEF Holds
        <4>3. loaded[x] = lost[x] + 0 /\ loaded[x] \in Nat /\ lost[x] \in Nat
          BY <2>2, <4>2
        <4>4. loaded'[x] = loaded[x] + 1 /\ lost'[x] = lost[x]
          BY <1>1, <2>1, <2>2, <3>1
        <4> QED
          BY <4>2, <4>3, <4>4
      <3>2. CASE x # m
        <4>1. ~ (x[1] = c /\ x[2] = id)
          BY <1>0, <3>2 DEF Modules
        <4>2. Holds(Cache', x[1], x[2]) <=> Holds(Cache, x[1], x[2])
          BY <1>9, <1>11, <4>1 DEF Holds, Is
        <4>3. loaded'[x] = loaded[x] /\ lost'[x] = lost[x]
          BY <1>1, <2>1, <2>2, <3>2
        <4> QED
          BY <2>2, <4>2, <4>3
      <3> QED
        BY <3>1, <3>2
    <2> QED
      BY <2>3, <2>4 DEF ModuleInv, Holds
  <1>16. LoadInv'
    <2>1. s \notin Cache
      BY <1>11 DEF Holds
    <2>2. Cardinality(Cache') = Cardinality(Cache) + 1
      <3>1. IsFiniteSet(Cache)
        BY <1>2, CacheFacts
      <3>2. Cardinality(Cache \cup {s}) = Cardinality(Cache) + 1
        BY <2>1, <3>1, FS_AddElement
      <3> QED
        BY <1>9, <3>2
    <2> QED
      BY <1>5, <2>2 DEF LoadInv
  <1> QED
    BY <1>10, <1>13, <1>14, <1>15, <1>16 DEF CacheInv

\* What stays in the cache when the contexts cs are swept.
Kept(cs) == {e \in Cache : ~ (e.context \in cs /\ e.uses = 0)}

\* When nothing is swept a second time, it is the entries without a use that go.
LEMMA SweptOnce ==
  ASSUME Sizing, TableInv, NEW cs, Unused(cs) \subseteq LiveSlots
  PROVE  /\ \A i \in LiveIn(compilations, size) :
               i \in Unused(cs) <=> compilations[i].uses = 0 /\ compilations[i].context \in cs
         /\ \A i \in 0..(size - 1) : i \in Unused(cs) => i \in LiveIn(compilations, size)
  <1>1. LiveSlots = LiveIn(compilations, size) /\ DOMAIN compilations = 0..(size - 1)
    BY CacheFacts DEF TableInv, Good
  <1>2. \A i \in LiveIn(compilations, size) :
           i \in 0..(size - 1) /\ compilations[i].id > kInvalidId
    BY DEF TableInv, Good, Slots, LiveIn, Live, kDeletedId, kInvalidId
  <1> QED
    BY <1>1, <1>2 DEF Unused, Releasable

\* The table after a sweep: the entries that go leave deleted slots without uses.
LEMMA Keeps ==
  ASSUME Sizing, TableInv, DeadInv, NEW cs, Unused(cs) \subseteq LiveSlots, count # 0
  PROVE  /\ Entries(Swept(cs), size) = Kept(cs)
         /\ Dead(Swept(cs), size)
         /\ Cardinality(Kept(cs)) = Cardinality(Cache) - Cardinality(Unused(cs))
  <1>1. PICK T, U, L : T = Swept(cs) /\ U = Unused(cs) /\ L = LiveIn(compilations, size)
    OBVIOUS
  <1>2. /\ \A i \in L : i \in U <=> compilations[i].uses = 0 /\ compilations[i].context \in cs
        /\ \A i \in 0..(size - 1) : i \in U => i \in L
    BY <1>1, SweptOnce
  <1>3. /\ Good(T, size)
        /\ \A i \in 0..(size - 1) :
              T[i] = IF i \in U THEN [compilations[i] EXCEPT !.module = FALSE, !.id = kDeletedId]
                     ELSE compilations[i]
    BY <1>1, Sweeps
  <1>4. \A i \in 0..(size - 1) : compilations[i] \in Slots
    BY DEF TableInv, Good
  <1>5. ASSUME NEW i \in 0..(size - 1), i \in U PROVE ~Live(T[i]) /\ T[i].uses = 0
    <2>1. T[i].id = kDeletedId /\ T[i].uses = compilations[i].uses
      BY <1>3, <1>4, <1>5 DEF Slots
    <2>2. compilations[i].uses = 0
      BY <1>2, <1>5
    <2> QED
      BY <2>1, <2>2 DEF Live, kDeletedId
  <1>6. \A i \in 0..(size - 1) : i \notin U => T[i] = compilations[i]
    BY <1>3
  <1>7. LiveIn(T, size) = L \ U
    BY <1>1, <1>5, <1>6 DEF LiveIn
  <1>8. Entries(T, size) = Kept(cs)
    <2>1. Entries(T, size) = {T[i] : i \in L \ U}
      BY <1>7 DEF Entries
    <2>2. \A i \in L : i \in 0..(size - 1)
      BY <1>1 DEF LiveIn
    <2>3. Cache = {compilations[i] : i \in L}
      BY <1>1 DEF Cache, Entries
    <2> QED
      BY <1>2, <1>6, <2>1, <2>2, <2>3 DEF Kept
  <1>9. Dead(T, size)
    BY <1>5, <1>6 DEF DeadInv, Dead
  <1>10. Cardinality(Kept(cs)) = Cardinality(Cache) - Cardinality(U)
    <2>1. size \in Nat /\ Good(compilations, size)
      BY CacheFacts DEF TableInv
    <2>2. Cardinality(L) = Cardinality(Cache) /\ IsFiniteSet(L)
      BY <1>1, <2>1, AsMany DEF Cache
    <2>3. Cardinality(L \ U) = Cardinality(Kept(cs))
      BY <1>3, <1>7, <1>8, <2>1, AsMany
    <2>4. U \subseteq 0..(size - 1)
      BY <1>1 DEF Unused, TableInv, Good
    <2>5. L \cap U = U
      BY <1>2, <2>4
    <2>6. Cardinality(L \ U) = Cardinality(L) - Cardinality(L \cap U)
      BY <2>2, FS_Difference
    <2> QED
      BY <2>2, <2>3, <2>5, <2>6
  <1> QED
    BY <1>1, <1>8, <1>9, <1>10

\* How often a sweep unloads a module: once if its entry goes, else never.
LEMMA Unloads ==
  ASSUME Sizing, TableInv, EntryInv, NEW cs, Unused(cs) \subseteq LiveSlots, NEW m \in Modules
  PROVE  LET J == {i \in Unused(cs) :
                      /\ compilations[i].module
                      /\ <<compilations[i].context, compilations[i].id>> = m}
         IN  \/ Cardinality(J) = 0 /\ (Holds(Cache, m[1], m[2]) <=> Holds(Kept(cs), m[1], m[2]))
             \/ Cardinality(J) = 1 /\ Holds(Cache, m[1], m[2]) /\ ~Holds(Kept(cs), m[1], m[2])
  <1>1. PICK J, L : /\ J = {i \in Unused(cs) : /\ compilations[i].module
                                               /\ <<compilations[i].context, compilations[i].id>> = m}
                    /\ L = LiveIn(compilations, size)
    OBVIOUS
  <1>2. m = <<m[1], m[2]>>
    BY DEF Modules
  <1>3. /\ \A i \in L :
              i \in Unused(cs) <=> compilations[i].uses = 0 /\ compilations[i].context \in cs
        /\ Unused(cs) \subseteq L
    BY <1>1, SweptOnce, CacheFacts
  <1>4. \A i \in L : compilations[i] \in Cache /\ compilations[i].module
    BY <1>1 DEF Cache, Entries, EntryInv
  <1>5. Cache = {compilations[i] : i \in L}
    BY <1>1 DEF Cache, Entries
  <1>6. \A i \in L : i \in J <=> /\ compilations[i].uses = 0 /\ compilations[i].context \in cs
                                 /\ Is(compilations[i], m[1], m[2])
    BY <1>1, <1>2, <1>3, <1>4 DEF Is
  <1>7. J \subseteq L
    BY <1>1, <1>3
  <1>8. \A i, k \in L : Is(compilations[i], m[1], m[2]) /\ Is(compilations[k], m[1], m[2]) => i = k
    BY <1>1 DEF TableInv, Good, Is
  <1>9. CASE J = {}
    <2>1. Cardinality(J) = 0
      BY <1>9, FS_EmptySet
    <2>2. Holds(Cache, m[1], m[2]) <=> Holds(Kept(cs), m[1], m[2])
      BY <1>5, <1>6, <1>9 DEF Holds, Kept
    <2> QED
      BY <1>1, <2>1, <2>2
  <1>10. CASE J # {}
    <2>1. PICK i : i \in J
      BY <1>10
    <2>2. J = {i}
      BY <1>6, <1>7, <1>8, <2>1
    <2>3. Cardinality(J) = 1
      BY <2>2, FS_Singleton
    <2>4. Holds(Cache, m[1], m[2])
      BY <1>5, <1>6, <1>7, <2>1 DEF Holds
    <2>5. ~Holds(Kept(cs), m[1], m[2])
      BY <1>5, <1>6, <1>7, <1>8, <2>1 DEF Holds, Kept
    <2> QED
      BY <1>1, <2>3, <2>4, <2>5
  <1> QED
    BY <1>9, <1>10

\* A sweep, whether the table stays or is freed.
LEMMA KeepStep ==
  ASSUME Sizing, ShapeInv, CacheInv, NEW cs, Unused(cs) \subseteq LiveSlots,
         UNCHANGED <<names, lost, clients>>, Unload(cs),
         count = 0 => Cache = {}, Cache' = Kept(cs), DeadInv', LoadInv'
  PROVE  CacheInv'
  <1>1. TableInv /\ NameInv /\ ClientInv
    BY DEF ShapeInv
  <1>2. EntryInv /\ HeldInv /\ ModuleInv /\ DeadInv /\ LoadInv
    BY DEF CacheInv
  <1>3. UNCHANGED <<ids, unique_id, lost, at, ctx, kern>>
    BY DEF names, clients
  <1>4. EntryInv'
    <2>1. \A e \in Cache' : e \in Cache
      BY DEF Kept
    <2>2. \A x, y : (Users(x, y))' = Users(x, y)
      BY <1>3 DEF Users
    <2>3. \A e \in Cache : /\ e.id < unique_id /\ e.module
                           /\ e.uses = Cardinality(Users(e.context, e.id))
      BY <1>2 DEF EntryInv
    <2>4. \A e \in Cache' : /\ e.id < unique_id' /\ e.module
                            /\ e.uses = Cardinality((Users(e.context, e.id))')
      BY <1>3, <2>1, <2>2, <2>3
    <2> QED
      BY <2>4 DEF EntryInv, Users
  <1>5. HeldInv'
    <2>1. ASSUME NEW t \in Threads, at[t] = "in"
          PROVE  \E e \in Kept(cs) : Is(e, ctx[t], ids[kern[t]])
      <3>1. PICK e \in Cache : Is(e, ctx[t], ids[kern[t]])
        BY <1>2, <2>1 DEF HeldInv
      <3>2. t \in Users(e.context, e.id)
        BY <2>1, <3>1 DEF Users, Is
      <3>3. IsFiniteSet(Users(e.context, e.id))
        BY FS_Subset DEF Users, Sizing
      <3>4. Cardinality(Users(e.context, e.id)) # 0
        BY <3>2, <3>3, FS_EmptySet
      <3>5. e.uses # 0
        BY <1>2, <3>4 DEF EntryInv
      <3> QED
        BY <3>1, <3>5 DEF Kept
    <2> QED
      BY <1>3, <2>1 DEF HeldInv
  <1>6. ModuleInv'
    <2>1. /\ loaded \in [Modules -> Nat] /\ lost \in [Modules -> Nat]
          /\ \A x \in Modules : loaded[x] = lost[x] + IF Holds(Cache, x[1], x[2]) THEN 1 ELSE 0
      BY <1>2 DEF ModuleInv, Holds
    <2>2. ASSUME NEW m \in Modules
          PROVE  loaded'[m] = lost[m] + IF Holds(Kept(cs), m[1], m[2]) THEN 1 ELSE 0
      <3>1. PICK J : J = {i \in Unused(cs) :
                            /\ compilations[i].module
                            /\ <<compilations[i].context, compilations[i].id>> = m}
        OBVIOUS
      <3>2. loaded'[m] = loaded[m] - IF count = 0 THEN 0 ELSE Cardinality(J)
        BY <3>1 DEF Unload
      <3>3. \/ Cardinality(J) = 0 /\ (Holds(Cache, m[1], m[2]) <=> Holds(Kept(cs), m[1], m[2]))
            \/ Cardinality(J) = 1 /\ Holds(Cache, m[1], m[2]) /\ ~Holds(Kept(cs), m[1], m[2])
        BY <1>1, <1>2, <3>1, Unloads
      <3>4. lost[m] \in Nat
            /\ loaded[m] = lost[m] + IF Holds(Cache, m[1], m[2]) THEN 1 ELSE 0
        BY <2>1
      <3>5. count = 0 => ~Holds(Cache, m[1], m[2]) /\ ~Holds(Kept(cs), m[1], m[2])
        BY DEF Holds, Kept
      <3> QED
        BY ONLY <3>2, <3>3, <3>4, <3>5
    <2>3. loaded' \in [Modules -> Nat]
      <3>1. \A m \in Modules : loaded'[m] \in Nat
        BY <2>1, <2>2
      <3>2. loaded' = [m \in Modules |-> loaded'[m]]
        BY DEF Unload
      <3> QED
        BY <3>1, <3>2
    <2> QED
      BY <1>3, <2>1, <2>2, <2>3 DEF ModuleInv, Holds
  <1> QED
    BY <1>4, <1>5, <1>6 DEF CacheInv

\* The entries are as many as count at most.
LEMMA NoneLeft ==
  ASSUME Sizing, TableInv, LoadInv
  PROVE  /\ count \in Nat /\ (count = 0 => Cache = {}) /\ size \in Nat
         /\ Cardinality(Cache) \in Nat /\ Cardinality(Cache) <= count
  <1>1. IsFiniteSet(Cache) /\ Cardinality(Cache) \in Nat /\ size \in Nat
    BY CacheFacts
  <1>2. Cardinality(Cache) <= count /\ count \in Int
    BY DEF LoadInv, TableInv
  <1>3. count = 0 => Cardinality(Cache) = 0
    BY <1>1, <1>2
  <1> QED
    BY <1>1, <1>2, <1>3, FS_EmptySet

\* Counts after a sweep.
LEMMA KeepCounts ==
  ASSUME Sizing, TableInv, DeadInv, LoadInv, NEW cs, Unused(cs) \subseteq LiveSlots, count # 0
  PROVE  /\ CountAfter(cs) = count - Cardinality(Unused(cs))
         /\ Cardinality(Unused(cs)) \in Nat /\ IsFiniteSet(Kept(cs))
         /\ Cardinality(Kept(cs)) \in Nat
         /\ Cardinality(Kept(cs)) = Cardinality(Cache) - Cardinality(Unused(cs))
  <1>1. Kept(cs) \subseteq Cache
    BY DEF Kept
  <1>2. IsFiniteSet(Kept(cs)) /\ Cardinality(Kept(cs)) \in Nat
    BY <1>1, CacheFacts, FS_Subset, FS_CardinalityType
  <1> QED
    BY <1>2, Keeps, SweptCount DEF CountAfter

\* A sweep that leaves the table.
LEMMA SweepStep ==
  ASSUME Sizing, ShapeInv, CacheInv, NEW cs, Unused(cs) \subseteq LiveSlots, count # 0,
         compilations' = Swept(cs), count' = CountAfter(cs), Unload(cs),
         UNCHANGED <<size, names, lost, clients>>
  PROVE  CacheInv'
  <1>1. TableInv /\ DeadInv /\ LoadInv
    BY DEF ShapeInv, CacheInv
  <1>2. Cache' = Kept(cs) /\ DeadInv'
    <2>1. size' = size
      OBVIOUS
    <2>2. Entries(compilations', size) = Kept(cs) /\ Dead(compilations', size)
      BY <1>1, Keeps
    <2> QED
      BY <2>1, <2>2 DEF Cache, DeadInv
  <1>3. LoadInv'
    <2>1. PICK l, k, u : l = Cardinality(Cache) /\ k = Cardinality(Kept(cs))
                         /\ u = Cardinality(Unused(cs))
      OBVIOUS
    <2>2. l \in Nat /\ k \in Nat /\ u \in Nat /\ k = l - u /\ count' = count - u
          /\ count \in Nat /\ size \in Nat /\ size' = size /\ l <= count
      BY <1>1, <2>1, KeepCounts, NoneLeft
    <2>3. (size = 0 => count = 0) /\
          (2 * count <= size \/ (2 * count <= size + 2 /\ 4 * l <= size + 4 /\ size >= 8))
      BY <1>1, <2>1 DEF LoadInv
    <2>4. /\ k <= count' /\ (size' = 0 => count' = 0)
          /\ 2 * count' <= size' \/ (2 * count' <= size' + 2 /\ 4 * k <= size' + 4 /\ size' >= 8)
      BY ONLY <2>2, <2>3, count # 0
    <2>5. Cardinality(Cache') = k
      BY <1>2, <2>1
    <2> QED
      BY <2>4, <2>5 DEF LoadInv
  <1>4. count = 0 => Cache = {}
    OBVIOUS
  <1>5. UNCHANGED <<names, lost, clients>>
    OBVIOUS
  <1> QED
    BY <1>2, <1>3, <1>4, <1>5, KeepStep

\* release_all frees a table that has nothing left.
LEMMA FreeStep ==
  ASSUME Sizing, ShapeInv, CacheInv, Unused(Contexts) \subseteq LiveSlots,
         CountAfter(Contexts) = 0, count' = 0, compilations' = FreeTable(0), size' = 0,
         Unload(Contexts), UNCHANGED <<names, lost, clients>>
  PROVE  CacheInv'
  <1>1. TableInv /\ DeadInv /\ LoadInv
    BY DEF ShapeInv, CacheInv
  <1>2. count \in Nat /\ (count = 0 => Cache = {}) /\ Cardinality(Cache) <= count
        /\ Cardinality(Cache) \in Nat
    BY <1>1, NoneLeft
  <1>3. Kept(Contexts) = {}
    <2>1. CASE count = 0
      BY <1>2, <2>1 DEF Kept
    <2>2. CASE count # 0
      <3>1. /\ 0 = count - Cardinality(Unused(Contexts))
            /\ Cardinality(Unused(Contexts)) \in Nat /\ IsFiniteSet(Kept(Contexts))
            /\ Cardinality(Kept(Contexts)) \in Nat
            /\ Cardinality(Kept(Contexts)) = Cardinality(Cache) - Cardinality(Unused(Contexts))
        BY <1>1, <2>2, KeepCounts
      <3>2. Cardinality(Kept(Contexts)) = 0
        BY <1>2, <3>1
      <3> QED
        BY <3>1, <3>2, FS_EmptySet
    <2> QED
      BY <2>1, <2>2
  <1>4. Entries(FreeTable(0), 0) = {} /\ Dead(FreeTable(0), 0)
    BY FreeIs DEF Dead
  <1>5. Cache' = Kept(Contexts) /\ DeadInv'
    BY <1>3, <1>4 DEF Cache, DeadInv
  <1>6. LoadInv'
    <2>1. Cardinality(Cache') = 0
      BY <1>3, <1>5, FS_EmptySet
    <2> QED
      BY <2>1 DEF LoadInv
  <1> QED
    BY <1>2, <1>5, <1>6, KeepStep

\* The empty cache has no entry, user or module.
LEMMA InitCache == ASSUME Sizing PROVE Init => CacheInv
  <1> SUFFICES ASSUME Init PROVE CacheInv
    OBVIOUS
  <1>1. compilations = FreeTable(0) /\ size = 0 /\ count = 0
    BY DEF Init
  <1>2. Cache = {} /\ DeadInv
    BY <1>1, FreeIs DEF Cache, DeadInv, Dead
  <1>3. LoadInv
    BY <1>1, <1>2, FS_EmptySet DEF LoadInv
  <1>4. EntryInv
    BY <1>2 DEF EntryInv
  <1>5. HeldInv
    BY DEF Init, HeldInv
  <1>6. ModuleInv
    BY <1>2 DEF Init, ModuleInv
  <1> QED
    BY <1>2, <1>3, <1>4, <1>5, <1>6 DEF CacheInv

\* Every step that sweeps nothing a second time.
LEMMA CacheStep == ASSUME Sizing PROVE ShapeInv /\ CacheInv /\ [OnceNext]_vars => CacheInv'
  <1> SUFFICES ASSUME ShapeInv, CacheInv, [OnceNext]_vars PROVE CacheInv'
    OBVIOUS
  <1>0. TableInv /\ LoadInv
    BY DEF ShapeInv, CacheInv
  <1>1. CASE Pipelines
    <2>1. ASSUME NEW t \in Threads, NEW c \in Contexts, NEW k \in Kernels, SetupCached(t, c, k)
          PROVE  CacheInv'
      BY <2>1, CachedStep
    <2>2. ASSUME NEW t \in Threads, NEW c \in Contexts, NEW k \in Kernels, SetupCompiled(t, c, k)
          PROVE  CacheInv'
      BY <2>2, CompiledStep
    <2>3. ASSUME NEW t \in Threads, NEW c \in Contexts, NEW k \in Kernels,
                 SetupLost(t, c, k) \/ SetupFails(t, c, k)
          PROVE  CacheInv'
      BY <2>3, NamedStep
    <2>4. ASSUME NEW t \in Threads, ReleaseHold(t) PROVE CacheInv'
      BY <2>4, ReleaseStep
    <2> QED
      BY <1>1, <2>1, <2>2, <2>3, <2>4 DEF Pipelines
  <1>2. ASSUME NEW c \in Contexts, Unused({c}) \subseteq LiveSlots, DeleteContext(c)
        PROVE  CacheInv'
    <2>1. PICK cs : cs = {c}
      OBVIOUS
    <2>2. /\ Unused(cs) # {} /\ Unused(cs) \subseteq LiveSlots
          /\ compilations' = Swept(cs) /\ count' = CountAfter(cs) /\ Unload(cs)
          /\ UNCHANGED <<size, names, lost, clients>>
      BY <1>2, <2>1 DEF DeleteContext
    <2>3. count # 0
      <3>1. LiveSlots = LiveIn(compilations, size) /\ (count = 0 => Cache = {})
        BY <1>0, CacheFacts, NoneLeft
      <3> QED
        BY <2>2, <3>1 DEF Cache, Entries
    <2> QED
      BY <2>2, <2>3, SweepStep
  <1>3. CASE Unused(Contexts) \subseteq LiveSlots /\ ReleaseAll
    <2>1. /\ count' = CountAfter(Contexts) /\ Unload(Contexts)
          /\ UNCHANGED <<names, lost, clients>>
          /\ \/ count' = 0 /\ compilations' = FreeTable(0) /\ size' = 0
             \/ count' # 0 /\ compilations' = Swept(Contexts) /\ UNCHANGED size
      BY <1>3 DEF ReleaseAll
    <2>2. CASE count' = 0 /\ compilations' = FreeTable(0) /\ size' = 0
      <3>1. CountAfter(Contexts) = 0 /\ count' = 0 /\ compilations' = FreeTable(0) /\ size' = 0
        BY <2>1, <2>2
      <3> QED
        BY <1>3, <2>1, <3>1, FreeStep
    <2>3. CASE count' # 0 /\ compilations' = Swept(Contexts) /\ UNCHANGED size
      <3>1. count # 0
        BY <2>1, <2>3 DEF CountAfter
      <3>2. UNCHANGED <<size, names, lost, clients>>
        BY <2>1, <2>3
      <3> QED
        BY <1>3, <2>1, <2>3, <3>1, <3>2, SweepStep
    <2> QED
      BY <2>1, <2>2, <2>3
  <1>4. CASE UNCHANGED vars
    <2>1. UNCHANGED <<compilations, size, count, ids, unique_id, loaded, lost, at, ctx, kern>>
      BY <1>4 DEF vars, table, names, modules, clients
    <2>2. Cache' = Cache /\ \A x, y : (Users(x, y))' = Users(x, y)
      BY <2>1 DEF Cache, Users
    <2>3. EntryInv' /\ HeldInv' /\ ModuleInv'
      BY <2>1, <2>2 DEF EntryInv, HeldInv, ModuleInv, CacheInv, Users
    <2>4. DeadInv' /\ LoadInv'
      BY <2>1, <2>2 DEF DeadInv, LoadInv, CacheInv
    <2> QED
      BY <2>3, <2>4 DEF CacheInv
  <1> QED
    BY <1>1, <1>2, <1>3, <1>4 DEF OnceNext

-----------------------------------------------------------------------------
(* What follows *)

\* What is in the set of entries is what the walk of a pipeline's kernel ends at.
LEMMA HeldIsExact == ASSUME Sizing, ShapeInv, CacheInv PROVE HeldStays
  <1>1. TableInv /\ NameInv /\ ClientInv /\ EntryInv /\ HeldInv /\ ModuleInv
    BY DEF ShapeInv, CacheInv
  <1>2. ASSUME NEW t \in Threads, at[t] = "in", NEW c, c = ctx[t], NEW id, id = ids[kern[t]]
        PROVE  /\ Cached(c, id)
               /\ compilations[SlotOf(c, id)].module
               /\ compilations[SlotOf(c, id)].uses =
                      Cardinality({u \in Threads : at[u] = "in" /\ ctx[u] = ctx[t] /\ kern[u] = kern[t]})
               /\ loaded[<<c, id>>] > 0
    <2>1. kern[t] \in Kernels /\ id # 0 /\ id \in Nat /\ id > kDeletedId /\ c \in Contexts
          /\ id < unique_id
      BY <1>1, <1>2 DEF ClientInv, NameInv
    <2>2. Holds(Cache, c, id)
      BY <1>1, <1>2 DEF HeldInv, Holds
    <2>3. Cached(c, id)
      BY <1>1, <2>1, <2>2, CachedIs DEF Holds
    <2>4. PICK i, e : i = SlotOf(c, id) /\ e = compilations[i]
      OBVIOUS
    <2>5. e \in Cache /\ Is(e, c, id)
      BY <1>1, <2>1, <2>3, <2>4, FoundIs DEF Cache, Entries
    <2>6. e.module /\ e.uses = Cardinality(Users(c, id))
      BY <1>1, <2>5 DEF EntryInv, Is
    <2>7. Users(c, id) = {u \in Threads : at[u] = "in" /\ ctx[u] = ctx[t] /\ kern[u] = kern[t]}
      <3>1. \A u \in Threads : at[u] = "in" => (ids[kern[u]] = id <=> kern[u] = kern[t])
        BY <1>1, <1>2, <2>1 DEF ClientInv, NameInv
      <3> QED
        BY <1>2, <3>1 DEF Users
    <2>8. loaded[<<c, id>>] > 0
      <3>1. PICK m : m = <<c, id>>
        OBVIOUS
      <3>2. m \in Modules
        <4>1. unique_id <= Cardinality(Kernels) + 2 /\ unique_id \in Nat
          BY <1>1, NameTypes
        <4>2. Cardinality(Kernels) \in Nat
          BY FS_CardinalityType DEF Sizing
        <4>3. id \in 2..(Cardinality(Kernels) + 1)
          BY <2>1, <4>1, <4>2 DEF kDeletedId
        <4> QED
          BY <2>1, <3>1, <4>3 DEF Modules
      <3>3. \E g \in Cache : Is(g, m[1], m[2])
        BY <2>2, <3>1 DEF Holds
      <3>4. loaded[m] = lost[m] + 1 /\ lost[m] \in Nat
        BY <1>1, <3>2, <3>3 DEF ModuleInv
      <3> QED
        BY <3>1, <3>4
    <2> QED
      BY <2>3, <2>4, <2>6, <2>7, <2>8
  <1> QED
    BY <1>2 DEF HeldStays

\* The slots of a module's key are one if the module is cached, else none.
LEMMA LoadedIsExact == ASSUME Sizing, ShapeInv, CacheInv PROVE LoadedIsCached
  <1>1. TableInv /\ EntryInv /\ ModuleInv
    BY DEF ShapeInv, CacheInv
  <1>2. ASSUME NEW m \in Modules
        PROVE  loaded[m] - lost[m] = Cardinality({i \in LiveSlots :
                  /\ compilations[i].module
                  /\ <<compilations[i].context, compilations[i].id>> = m})
    <2>1. PICK J, L : /\ L = LiveIn(compilations, size)
                      /\ J = {i \in LiveSlots :
                                /\ compilations[i].module
                                /\ <<compilations[i].context, compilations[i].id>> = m}
      OBVIOUS
    <2>2. LiveSlots = L
      BY <1>1, <2>1, CacheFacts
    <2>3. m = <<m[1], m[2]>>
      BY DEF Modules
    <2>4. Cache = {compilations[i] : i \in L} /\ \A i \in L : compilations[i].module
      BY <1>1, <2>1 DEF Cache, Entries, EntryInv
    <2>5. J = {i \in L : Is(compilations[i], m[1], m[2])}
      BY <2>1, <2>2, <2>3, <2>4 DEF Is
    <2>6. \A i, k \in L : Is(compilations[i], m[1], m[2]) /\ Is(compilations[k], m[1], m[2]) => i = k
      BY <1>1, <2>1 DEF TableInv, Good, Is
    <2>7. lost[m] \in Nat
          /\ loaded[m] = lost[m] + IF \E e \in Cache : Is(e, m[1], m[2]) THEN 1 ELSE 0
      BY <1>1 DEF ModuleInv
    <2>8. CASE J = {}
      <3>1. ~ \E e \in Cache : Is(e, m[1], m[2])
        BY <2>4, <2>5, <2>8
      <3>2. Cardinality(J) = 0
        BY <2>8, FS_EmptySet
      <3>3. loaded[m] = lost[m] + 0
        BY <2>7, <3>1
      <3> QED
        BY <2>1, <2>7, <3>2, <3>3
    <2>9. CASE J # {}
      <3>1. PICK i : i \in J
        BY <2>9
      <3>2. J = {i}
        BY <2>5, <2>6, <3>1
      <3>3. Cardinality(J) = 1
        BY <3>2, FS_Singleton
      <3>4. \E e \in Cache : Is(e, m[1], m[2])
        BY <2>4, <2>5, <3>1
      <3>5. loaded[m] = lost[m] + 1
        BY <2>7, <3>4
      <3> QED
        BY <2>1, <2>7, <3>3, <3>5
    <2> QED
      BY <2>8, <2>9
  <1> QED
    BY <1>2 DEF LoadedIsCached

\* insert has a slot for any new entry, in the table it has grown to as well.
LEMMA LoadLeavesRoom ==
  ASSUME Sizing, ShapeInv, CacheInv, NewSize <= MaxSize,
         NEW c \in Contexts, NEW id \in Nat, id > kDeletedId
  PROVE  RoomFor(NewTable, NewSize, c, id) # {}
  <1>1. TableInv /\ LoadInv
    BY DEF ShapeInv, CacheInv
  <1>2. PICK n, tab : n = NewSize /\ tab = NewTable
    OBVIOUS
  <1>3. n \in Nat /\ Size(n) /\ Good(tab, n) /\ Entries(tab, n) = Cache
    BY <1>1, <1>2, Grows, Loads
  <1>4. Cardinality(Cache) < n
    <2>1. PICK l, r : l = Cardinality(Cache) /\ r = Recounted + 1
      OBVIOUS
    <2>2. l \in Nat /\ count \in Nat /\ Cardinality(LiveSlots) = l
      BY <1>1, <2>1, NoneLeft, CacheFacts
    <2>3. r \in Int
      BY <2>1, <2>2 DEF Recounted
    <2>4. l + 1 <= r /\ n # 0
          /\ (2 * r <= n \/ (2 * r <= n + 2 /\ 4 * (l + 1) <= n + 4 /\ n >= 8))
      BY <1>1, <1>2, <2>1, Loads
    <2> QED
      BY ONLY <1>3, <2>1, <2>2, <2>3, <2>4
  <1>5. PICK s \in 0..(n - 1) : ~Live(tab[s])
    BY <1>3, <1>4, AsMany
  <1> QED
    BY <1>2, <1>3, <1>5, HasRoom

\* What the load of the table says of insert.
LEMMA LoadIsEnough ==
  ASSUME Sizing, ShapeInv, CacheInv
  PROVE  CountCovers /\ InsertSucceeds
  <1>1. TableInv /\ LoadInv
    BY DEF ShapeInv, CacheInv
  <1>2. PICK l : l = Cardinality(Cache)
    OBVIOUS
  <1>3. l \in Nat /\ size \in Nat /\ count \in Nat /\ l <= count /\ Cardinality(LiveSlots) = l
    BY <1>1, <1>2, CacheFacts, NoneLeft
  <1>4. (size = 0 => count = 0) /\
        (2 * count <= size \/ (2 * count <= size + 2 /\ 4 * l <= size + 4 /\ size >= 8))
    BY <1>1, <1>2 DEF LoadInv
  <1>5. size = 0 \/ size >= 4
    BY <1>1, <1>3 DEF TableInv, Sizing
  <1>6. size # 0 /\ NewSize # size => 2 * (count + Cardinality(LiveSlots)) <= NewSize
    <2> SUFFICES ASSUME size # 0, NewSize # size PROVE 2 * (count + l) <= NewSize
      BY <1>3
    <2>1. NewSize = 2 * size
      BY DEF NewSize
    <2> QED
      BY <1>3, <1>4, <1>5, <2>1
  <1>7. ASSUME NewSize <= MaxSize, NEW m \in Modules
        PROVE  RoomFor(NewTable, NewSize, m[1], m[2]) # {}
    <2>1. m[1] \in Contexts /\ m[2] \in Nat /\ m[2] > kDeletedId
      <3>1. Cardinality(Kernels) \in Nat
        BY FS_CardinalityType DEF Sizing
      <3> QED
        BY <3>1 DEF Modules, kDeletedId
    <2> QED
      BY <1>7, <2>1, LoadLeavesRoom
  <1> QED
    BY <1>3, <1>6, <1>7 DEF CountCovers, InsertSucceeds

\* The types, once the slots without an entry are known to have no uses.
LEMMA TypesFollow == ASSUME Sizing, ShapeInv, CacheInv PROVE TypeOK
  <1>1. TableInv /\ NameInv /\ EntryInv /\ ModuleInv /\ DeadInv
    BY DEF ShapeInv, CacheInv
  <1>2. PICK n : n = Cardinality(Kernels) + 1
    OBVIOUS
  <1>3. n \in Nat /\ n >= 1 /\ unique_id <= n + 1 /\ unique_id \in Nat
    <2>1. Cardinality(Kernels) \in Nat
      BY FS_CardinalityType DEF Sizing
    <2> QED
      BY <1>1, <1>2, <2>1, NameTypes
  <1>4. size \in {0} \cup (InitialSize..MaxSize) /\ size \in Nat
    BY <1>1 DEF TableInv, Sizing
  <1>5. DOMAIN compilations = 0..(size - 1) /\ \A i \in 0..(size - 1) : compilations[i] \in Slots
    BY <1>1 DEF TableInv, Good
  <1>6. ASSUME NEW i \in 0..(size - 1)
        PROVE  compilations[i].uses \in Nat /\ compilations[i].id \in 0..n
    <2>1. compilations[i].id \in Nat
      BY <1>5 DEF Slots
    <2>2. CASE Live(compilations[i])
      <3>1. compilations[i] \in Cache
        BY <2>2 DEF Cache, Entries, LiveIn
      <3>2. PICK e : e = compilations[i]
        OBVIOUS
      <3>3. e.id < unique_id /\ e.uses = Cardinality(Users(e.context, e.id))
        BY <1>1, <3>1, <3>2 DEF EntryInv
      <3>4. Cardinality(Users(e.context, e.id)) \in Nat
        <4>1. IsFiniteSet(Users(e.context, e.id))
          BY FS_Subset DEF Users, Sizing
        <4> QED
          BY <4>1, FS_CardinalityType
      <3> QED
        BY <1>3, <2>1, <3>2, <3>3, <3>4
    <2>3. CASE ~Live(compilations[i])
      BY <1>1, <1>3, <2>1, <2>3 DEF DeadInv, Dead, Live, kDeletedId
    <2> QED
      BY <2>2, <2>3
  <1>7. \A i \in DOMAIN compilations :
           compilations[i] \in [context : Contexts \cup {Null}, module : BOOLEAN, uses : Nat,
                                id : 0..(Cardinality(Kernels) + 1)]
    BY <1>2, <1>5, <1>6 DEF Slots
  <1> QED
    BY <1>1, <1>4, <1>5, <1>7 DEF TypeOK, TableInv, ModuleInv

\* As long as release_context meets no deleted slot: the cache has every compiled module once,
\* use_count is the number of pipelines that hold it, none of them loses it, and the table
\* neither grows while it grows nor is full.
THEOREM CacheIsExact == ASSUME Sizing PROVE OnceSpec => [](TypeOK /\ KernelsExact)
  <1>1. ShapeInv /\ CacheInv => TypeOK /\ KernelsExact
    BY ShapeFinds, HeldIsExact, LoadedIsExact, LoadIsEnough, TypesFollow
       DEF KernelsExact
  <1>2. [OnceNext]_vars => [Next]_vars
    BY DEF OnceNext, Next
  <1>3. ShapeInv /\ CacheInv /\ [OnceNext]_vars => (ShapeInv /\ CacheInv)'
    BY <1>2, ShapeStep, CacheStep
  <1>4. Init => ShapeInv /\ CacheInv
    BY InitShape, InitCache
  <1> QED
    BY <1>1, <1>3, <1>4, PTL DEF OnceSpec
=============================================================================
