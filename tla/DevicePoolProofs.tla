-------------------------- MODULE DevicePoolProofs --------------------------
(***************************************************************************)
(* Device memory that is kept for later use, for any number of buffers and *)
(* of pieces of memory: each has one owner, and is as large as its owner   *)
(* believes.                                                               *)
(***************************************************************************)
EXTENDS DevicePool, FiniteSetTheorems, WellFoundedInduction, TLAPS

\* What is assumed of the constants: buffers have from one byte to less than 16 MiB, which
\* is as far as quantize_allocation_size goes here.
Requests ==
    /\ Null \notin Pointers
    /\ \A n \in Sizes : n \in Nat /\ 0 < n /\ n < 2^24

\* What the proofs use of it: rounding a size up does not make it smaller.
Rounding ==
    /\ Null \notin Pointers
    /\ Sizes \subseteq Nat \ {0}
    /\ \A n \in Sizes : /\ quantize_allocation_size(n) \in Nat
                        /\ quantize_allocation_size(n) >= n

Units == {2^k : k \in 0..20}

\* The provers know powers of numbers only.
LEMMA UnitsAre == Units \subseteq Nat \ {0}
  <1>1. /\ 2^0 \in Nat \ {0} /\ 2^1 \in Nat \ {0} /\ 2^2 \in Nat \ {0} /\ 2^3 \in Nat \ {0}
        /\ 2^4 \in Nat \ {0} /\ 2^5 \in Nat \ {0} /\ 2^6 \in Nat \ {0} /\ 2^7 \in Nat \ {0}
        /\ 2^8 \in Nat \ {0} /\ 2^9 \in Nat \ {0} /\ 2^10 \in Nat \ {0} /\ 2^11 \in Nat \ {0}
        /\ 2^12 \in Nat \ {0} /\ 2^13 \in Nat \ {0} /\ 2^14 \in Nat \ {0} /\ 2^15 \in Nat \ {0}
        /\ 2^16 \in Nat \ {0} /\ 2^17 \in Nat \ {0} /\ 2^18 \in Nat \ {0} /\ 2^19 \in Nat \ {0}
        /\ 2^20 \in Nat \ {0}
    BY SMT
  <1>2. 0..20 = {0, 1, 2, 3, 4, 5, 6, 7, 8, 9, 10, 11, 12, 13, 14, 15, 16, 17, 18, 19, 20}
    BY SMT
  <1>3. \A k \in {0, 1, 2, 3, 4, 5, 6, 7, 8, 9, 10, 11, 12, 13, 14, 15, 16, 17, 18, 19, 20} :
           2^k \in Nat \ {0}
    BY <1>1, Zenon
  <1>4. \A k \in 0..20 : 2^k \in Nat \ {0}
    BY <1>2, <1>3, Zenon
  <1> QED
    BY <1>4, Zenon DEF Units

\* A size of more than four bits has a unit, of which it has from 8 to 15.
LEMMA HasUnit ==
  ASSUME NEW n \in Nat, 16 <= n, n < 2^24
  PROVE  \E u \in Units : 8 * u <= n /\ n < 16 * u
  <1>1. PICK k \in 0..20 : 8 * 2^k <= n /\ n < 16 * 2^k
    BY SMT
  <1> QED
    BY <1>1, Zenon DEF Units

\* A multiple that is not smaller.
LEMMA Multiple ==
  ASSUME NEW n \in Nat, NEW u \in Nat \ {0}, n > 0
  PROVE  (((n - 1) \div u) + 1) * u \in Nat /\ (((n - 1) \div u) + 1) * u >= n
  <1>1. PICK d, r : d = (n - 1) \div u /\ r = (n - 1) % u
    OBVIOUS
  <1>2. d \in Nat /\ r \in 0..(u - 1) /\ n - 1 = u * d + r
    BY <1>1
  <1>3. (d + 1) * u = u * d + u
    BY <1>2
  <1>4. u * d \in Nat
    BY <1>2
  <1> QED
    BY <1>1, <1>2, <1>3, <1>4

\* Sizes are rounded up.
LEMMA RoundsUp == ASSUME Requests PROVE Rounding
  <1> SUFFICES ASSUME NEW n \in Nat, 0 < n, n < 2^24
               PROVE  /\ quantize_allocation_size(n) \in Nat
                      /\ quantize_allocation_size(n) >= n
    BY DEF Requests, Rounding
  <1>1. CASE n < 16
    BY <1>1 DEF quantize_allocation_size
  <1>2. CASE n >= 16
    <2>1. PICK unit : unit = CHOOSE u \in Units : 8 * u <= n /\ n < 16 * u
      OBVIOUS
    <2>2. unit \in Units
      BY <1>2, <2>1, HasUnit
    <2>3. unit \in Nat \ {0}
      BY <2>2, UnitsAre
    <2>4. quantize_allocation_size(n) = IF n < 16 THEN n ELSE (((n - 1) \div unit) + 1) * unit
      BY <2>1 DEF quantize_allocation_size, Units
    <2>5. quantize_allocation_size(n) = (((n - 1) \div unit) + 1) * unit
      BY <1>2, <2>4
    <2>6. n \in Nat /\ n > 0
      OBVIOUS
    <2> QED
      BY ONLY <2>3, <2>5, <2>6, Multiple
  <1> QED
    BY <1>1, <1>2

Items == [ptr : Pointers, size : Nat, place : Places \cup {Null}]

Labels == {"none", "search", "allocate", "live", "keep"}
Operations == [pc : Labels, place : Places \cup {Null}, bytes : Nat, size : Nat,
               ptr : Pointers \cup {Null}, to_free : SUBSET Pointers, retried : BOOLEAN]
-----------------------------------------------------------------------------
(* The list *)

Ptrs(s) == {s[i].ptr : i \in DOMAIN s}
Once(s) == \A i, j \in DOMAIN s : s[i].ptr = s[j].ptr => i = j

\* Every set of numbers that is not empty has a least one.
LEMMA LeastNat ==
  ASSUME NEW T \in SUBSET Nat, T # {}
  PROVE  \E n \in T : \A k \in T : n <= k
  <1> DEFINE R == OpToRel(<, Nat)
  <1>1. IsWellFoundedOn(R, Nat)
    BY NatLessThanWellFounded, Zenon
  <1>2. \A x, y \in Nat : x < y => <<x, y>> \in R
    BY DEF OpToRel
  <1> HIDE DEF R
  <1>3. PICK n \in T : \A k \in T : ~ (<<k, n>> \in R)
    BY <1>1, WFMin
  <1>4. \A k \in T : k \in Nat /\ n \in Nat /\ ~ (k < n)
    BY <1>2, <1>3
  <1> QED
    BY <1>4

\* What is kept are the first items.
LEMMA KeptAre ==
  ASSUME NEW b, free_list \in Seq(Items)
  PROVE  \E k \in 0..Len(free_list) : Kept(b) = 1..k /\ Cardinality(Kept(b)) = k
  <1>1. PICK T : T = {i \in DOMAIN free_list : i - 1 > Depth /\ ~Better(b, i)}
    OBVIOUS
  <1>2. DOMAIN free_list = 1..Len(free_list) /\ Len(free_list) \in Nat
    OBVIOUS
  <1>3. Kept(b) = {i \in DOMAIN free_list : \A d \in T : i < d}
    BY <1>1 DEF Kept
  <1>4. \E k \in 0..Len(free_list) : Kept(b) = 1..k
    <2>1. CASE T = {}
      BY <1>2, <1>3, <2>1
    <2>2. CASE T # {}
      <3>1. T \subseteq Nat
        BY <1>1, <1>2
      <3>2. PICK n \in T : \A k \in T : n <= k
        BY <2>2, <3>1, LeastNat
      <3>3. n \in 1..Len(free_list)
        BY <1>1, <1>2, <3>2
      <3>4. \A i \in 1..Len(free_list) : (\A d \in T : i < d) <=> i <= n - 1
        BY <3>1, <3>2, <3>3
      <3>5. Kept(b) = 1..(n - 1) /\ n - 1 \in 0..Len(free_list)
        BY <1>2, <1>3, <3>3, <3>4
      <3> QED
        BY <3>5
    <2> QED
      BY <2>1, <2>2
  <1>5. PICK k \in 0..Len(free_list) : Kept(b) = 1..k
    BY <1>4
  <1>6. k \in Nat
    BY <1>2
  <1> QED
    BY <1>5, <1>6, FS_Interval

\* They are a list of their own, of the same items.
LEMMA First ==
  ASSUME NEW s \in Seq(Items), NEW k \in 0..Len(s)
  PROVE  /\ SubSeq(s, 1, k) \in Seq(Items)
         /\ Len(SubSeq(s, 1, k)) = k
         /\ \A i \in 1..k : SubSeq(s, 1, k)[i] = s[i]
  OBVIOUS

\* So is a list without one of its items.
LEMMA OneTaken ==
  ASSUME NEW s \in Seq(Items), NEW i \in 1..Len(s)
  PROVE  /\ Without(s, i) \in Seq(Items)
         /\ Len(Without(s, i)) = Len(s) - 1
         /\ \A j \in 1..(Len(s) - 1) : Without(s, i)[j] = s[IF j < i THEN j ELSE j + 1]
  <1>1. PICK x, y : x = SubSeq(s, 1, i - 1) /\ y = SubSeq(s, i + 1, Len(s))
    OBVIOUS
  <1>2. x \in Seq(Items) /\ Len(x) = i - 1 /\ \A j \in 1..(i - 1) : x[j] = s[j]
    BY <1>1
  <1>3. y \in Seq(Items) /\ Len(y) = Len(s) - i /\ \A j \in 1..(Len(s) - i) : y[j] = s[i + j]
    BY <1>1
  <1>4. Without(s, i) = x \o y
    BY <1>1 DEF Without
  <1>5. x \o y \in Seq(Items) /\ Len(x \o y) = Len(s) - 1
    BY <1>2, <1>3
  <1>6. ASSUME NEW j \in 1..(Len(s) - 1)
        PROVE  (x \o y)[j] = s[IF j < i THEN j ELSE j + 1]
    <2>1. CASE j < i
      BY <1>2, <1>3, <2>1
    <2>2. CASE ~ (j < i)
      <3>1. j - Len(x) \in 1..(Len(s) - i) /\ i + (j - Len(x)) = j + 1
        BY <1>2, <2>2
      <3>2. (x \o y)[j] = y[j - Len(x)]
        BY <1>2, <1>3, <2>2
      <3> QED
        BY <1>3, <2>2, <3>1, <3>2
    <2> QED
      BY <2>1, <2>2
  <1> QED
    BY <1>4, <1>5, <1>6
-----------------------------------------------------------------------------
(* Ownership *)

PoolTypes ==
    /\ reuse \in BOOLEAN
    /\ free_list \in Seq(Items)
    /\ memory \in [Pointers -> Nat]
    /\ dev \in [Buffers -> Operations]
    /\ unused \in SUBSET Pointers

\* What a buffer has of memory, by where its operation is.
LabelInv ==
    \A b \in Buffers :
        /\ dev[b].pc \in {"none", "search"} => dev[b].ptr = Null
        /\ dev[b].pc \in {"live", "keep"} => dev[b].ptr # Null
        /\ dev[b].pc # "allocate" => dev[b].to_free = {}
        /\ dev[b].pc # "none" => /\ dev[b].bytes \in Sizes
                                 /\ dev[b].size >= dev[b].bytes

\* With the pointers L in the list, and those in u to be returned: nothing is had twice,
\* and what the driver has reserved is what somebody has.
Owned(d, L, u, m) ==
    /\ \A b, c \in Buffers : d[b].ptr = d[c].ptr /\ d[b].ptr # Null => b = c
    /\ \A b, c \in Buffers : d[b].ptr \notin d[c].to_free
    /\ \A b, c \in Buffers : b # c => d[b].to_free \cap d[c].to_free = {}
    /\ \A b \in Buffers : /\ d[b].ptr \notin L \cup u
                          /\ d[b].to_free \cap (L \cup u) = {}
    /\ L \cap u = {} /\ L \cup u \subseteq Pointers
    /\ \A p \in Pointers :
          m[p] # 0 <=> \/ p \in L \cup u
                       \/ \E b \in Buffers : d[b].ptr = p \/ p \in d[b].to_free

OwnInv ==
    /\ PoolTypes /\ LabelInv
    /\ Once(free_list)
    /\ Owned(dev, Ptrs(free_list), unused, memory)

\* An operation changes only what its buffer has.
Changes(b, d, e) ==
    /\ d \in [Buffers -> Operations] /\ e \in [Buffers -> Operations]
    /\ \A c \in Buffers : c # b => e[c] = d[c]

\* What a search does to the list and to its buffer: it takes one item or none, and gives
\* up those at the end.
Searched(d, s, t) ==
    /\ t \in Seq(Items) /\ Once(t)
    /\ \A i \in DOMAIN t : \E j \in DOMAIN s : t[i] = s[j]
    /\ d.to_free \subseteq Ptrs(s)
    /\ d.to_free \cap Ptrs(t) = {}
    /\ d.ptr = Null \/ d.ptr \in Ptrs(s)
    /\ d.ptr \notin Ptrs(t) /\ d.ptr \notin d.to_free
    /\ \A p \in Ptrs(s) : p \in Ptrs(t) \/ p \in d.to_free \/ p = d.ptr

\* Whatever the search took or gave up, everything is still somebody's.
LEMMA SearchedOwned ==
  ASSUME NEW b \in Buffers, NEW d, NEW e, Changes(b, d, e), NEW s, NEW t, Searched(e[b], s, t),
         NEW u, NEW m, Owned(d, Ptrs(s), u, m), d[b].ptr = Null, d[b].to_free = {},
         Null \notin Pointers
  PROVE  Owned(e, Ptrs(t), u, m)
  <1>1. PICK L, K : L = Ptrs(s) /\ K = Ptrs(t)
    OBVIOUS
  <1>2. PICK F, p : F = e[b].to_free /\ p = e[b].ptr
    OBVIOUS
  <1>3. K \subseteq L
    BY <1>1 DEF Searched, Ptrs
  <1>4. /\ F \subseteq L /\ F \cap K = {} /\ (p = Null \/ p \in L) /\ p \notin K /\ p \notin F
        /\ \A x \in L : x \in K \/ x \in F \/ x = p
    BY <1>1, <1>2 DEF Searched
  <1>5. \A c \in Buffers : c # b => e[c] = d[c]
    BY DEF Changes
  <1>6. Owned(d, L, u, m) /\ L \subseteq Pointers /\ u \subseteq Pointers
    BY <1>1 DEF Owned
  <1>7. \A c \in Buffers : d[c].ptr \notin L /\ d[c].to_free \cap L = {}
    BY <1>6 DEF Owned
  <1>8. \A c \in Buffers : d[c].to_free \subseteq Pointers
    BY DEF Changes, Operations
  <1>9. \A c \in Buffers : c # b => d[c].ptr # p \/ p = Null
    BY <1>4, <1>7
  <1>10. Null \notin L /\ \A c \in Buffers : Null \notin d[c].to_free
    BY <1>6, <1>8
  <1>11. Owned(e, K, u, m)!1
    BY <1>2, <1>5, <1>6, <1>9 DEF Owned
  <1>12. Owned(e, K, u, m)!2
    BY <1>2, <1>4, <1>5, <1>6, <1>7, <1>10 DEF Owned
  <1>13. Owned(e, K, u, m)!3
    BY <1>2, <1>4, <1>5, <1>6, <1>7 DEF Owned
  <1>14. Owned(e, K, u, m)!4
    BY <1>2, <1>3, <1>4, <1>5, <1>6, <1>7, <1>10 DEF Owned
  <1>15. Owned(e, K, u, m)!5
    BY <1>3, <1>6 DEF Owned
  <1>16. Owned(e, K, u, m)!6
    BY <1>2, <1>3, <1>4, <1>5, <1>6 DEF Owned
  <1> QED
    BY <1>1, <1>11, <1>12, <1>13, <1>14, <1>15, <1>16 DEF Owned

\* The end of a list, from its k-th item on.
Rest(s, k) == {s[i].ptr : i \in DOMAIN s \ (1..k)}

\* A search without a fit gives up those after the k-th.
LEMMA NothingTaken ==
  ASSUME NEW s \in Seq(Items), Once(s), NEW k \in 0..Len(s), NEW d,
         d.ptr = Null, d.to_free = Rest(s, k), Null \notin Pointers
  PROVE  Searched(d, s, SubSeq(s, 1, k))
  <1>1. PICK t : t = SubSeq(s, 1, k)
    OBVIOUS
  <1>2. t \in Seq(Items) /\ Len(t) = k /\ \A i \in 1..k : t[i] = s[i]
    BY <1>1, First
  <1>3. DOMAIN t = 1..k /\ DOMAIN s = 1..Len(s) /\ 1..k \subseteq 1..Len(s)
    BY <1>2
  <1>4. Once(t) /\ \A i \in DOMAIN t : \E j \in DOMAIN s : t[i] = s[j]
    BY <1>2, <1>3 DEF Once
  <1>5. \A i \in DOMAIN s : s[i].ptr \in Pointers
    <2>1. \A i \in DOMAIN s : s[i] \in Items
      BY <1>3
    <2> QED
      BY <2>1 DEF Items
  <1>6. Rest(s, k) \subseteq Ptrs(s) /\ Null \notin Ptrs(s) /\ Ptrs(t) \subseteq Ptrs(s)
    BY <1>4, <1>5 DEF Rest, Ptrs
  <1>7. Rest(s, k) \cap Ptrs(t) = {}
    BY <1>2, <1>3 DEF Rest, Ptrs, Once
  <1>8. \A p \in Ptrs(s) : p \in Ptrs(t) \/ p \in Rest(s, k)
    BY <1>2, <1>3 DEF Rest, Ptrs
  <1> QED
    BY <1>1, <1>2, <1>4, <1>6, <1>7, <1>8 DEF Searched

\* One that takes the i-th item, and gives up those after the k-th.
LEMMA ItemTaken ==
  ASSUME NEW s \in Seq(Items), Once(s), NEW k \in 0..Len(s), NEW d, NEW i \in 1..k,
         d.ptr = s[i].ptr, d.to_free = Rest(s, k)
  PROVE  Searched(d, s, Without(SubSeq(s, 1, k), i))
  <1>1. PICK t, w : t = SubSeq(s, 1, k) /\ w = Without(t, i)
    OBVIOUS
  <1>2. t \in Seq(Items) /\ Len(t) = k /\ \A j \in 1..k : t[j] = s[j]
    BY <1>1, First
  <1>3. /\ w \in Seq(Items) /\ Len(w) = k - 1
        /\ \A j \in 1..(k - 1) : w[j] = t[IF j < i THEN j ELSE j + 1]
    <2>1. i \in 1..Len(t) /\ t \in Seq(Items)
      BY <1>2
    <2>2. /\ Without(t, i) \in Seq(Items) /\ Len(Without(t, i)) = Len(t) - 1
          /\ \A j \in 1..(Len(t) - 1) : Without(t, i)[j] = t[IF j < i THEN j ELSE j + 1]
      BY <2>1, OneTaken
    <2> QED
      BY ONLY <1>1, <1>2, <2>2
  <1>4. DOMAIN w = 1..(k - 1) /\ DOMAIN s = 1..Len(s) /\ 1..k \subseteq 1..Len(s) /\ k \in Nat
    BY <1>3
  <1>5. PICK g : g = [j \in 1..(k - 1) |-> IF j < i THEN j ELSE j + 1]
    OBVIOUS
  <1>6. /\ \A j \in 1..(k - 1) : g[j] \in 1..k /\ g[j] # i
        /\ \A j, h \in 1..(k - 1) : g[j] = g[h] => j = h
        /\ \A h \in 1..k : h = i \/ \E j \in 1..(k - 1) : g[j] = h
    <2>1. \A j \in 1..(k - 1) : g[j] \in 1..k /\ g[j] # i
      BY <1>4, <1>5
    <2>2. \A j, h \in 1..(k - 1) : g[j] = g[h] => j = h
      BY <1>4, <1>5
    <2>3. ASSUME NEW h \in 1..k, h # i PROVE \E j \in 1..(k - 1) : g[j] = h
      <3>1. CASE h < i
        <4>1. h \in 1..(k - 1) /\ g[h] = h
          BY <1>4, <1>5, <3>1
        <4> QED
          BY <4>1
      <3>2. CASE ~ (h < i)
        <4>1. h - 1 \in 1..(k - 1) /\ g[h - 1] = h
          BY <1>4, <1>5, <2>3, <3>2
        <4> QED
          BY <4>1
      <3> QED
        BY <3>1, <3>2
    <2> QED
      BY <2>1, <2>2, <2>3
  <1>7. \A j \in 1..(k - 1) : w[j] = s[g[j]]
    BY <1>2, <1>3, <1>5, <1>6
  <1>8. Once(w) /\ \A j \in DOMAIN w : \E h \in DOMAIN s : w[j] = s[h]
    <2>1. \A j \in 1..(k - 1) : g[j] \in DOMAIN s
      BY <1>4, <1>6
    <2>2. ASSUME NEW j \in 1..(k - 1), NEW h \in 1..(k - 1), w[j].ptr = w[h].ptr PROVE j = h
      <3>1. s[g[j]].ptr = s[g[h]].ptr
        BY <1>7, <2>2
      <3>2. g[j] = g[h]
        BY <2>1, <3>1 DEF Once
      <3> QED
        BY <1>6, <3>2
    <2> QED
      BY <1>4, <1>7, <2>1, <2>2 DEF Once
  <1>9. Rest(s, k) \subseteq Ptrs(s) /\ s[i].ptr \in Ptrs(s)
    BY <1>4 DEF Rest, Ptrs
  <1>10. Rest(s, k) \cap Ptrs(w) = {} /\ s[i].ptr \notin Ptrs(w) /\ s[i].ptr \notin Rest(s, k)
    <2>1. i \in DOMAIN s /\ i \in 1..k
      BY <1>4
    <2>2. ASSUME NEW j \in 1..(k - 1) PROVE w[j].ptr \notin Rest(s, k) /\ w[j].ptr # s[i].ptr
      <3>1. w[j] = s[g[j]] /\ g[j] \in 1..k /\ g[j] # i /\ g[j] \in DOMAIN s
        BY <1>4, <1>6, <1>7
      <3> QED
        BY <2>1, <3>1 DEF Rest, Once
    <2>3. s[i].ptr \notin Rest(s, k)
      BY <2>1 DEF Rest, Once
    <2> QED
      BY <1>4, <2>2, <2>3 DEF Ptrs
  <1>11. \A p \in Ptrs(s) : p \in Ptrs(w) \/ p \in Rest(s, k) \/ p = s[i].ptr
    <2>1. ASSUME NEW h \in DOMAIN s PROVE \/ s[h].ptr \in Ptrs(w) \/ s[h].ptr \in Rest(s, k)
                                          \/ s[h].ptr = s[i].ptr
      <3>1. CASE h \in 1..k /\ h # i
        <4>1. PICK j \in 1..(k - 1) : g[j] = h
          BY <1>6, <3>1
        <4>2. w[j] = s[h] /\ j \in DOMAIN w
          BY <1>4, <1>7, <4>1
        <4> QED
          BY <4>2 DEF Ptrs
      <3>2. CASE h \notin 1..k
        BY <3>2 DEF Rest
      <3> QED
        BY <3>1, <3>2
    <2> QED
      BY <2>1 DEF Ptrs
  <1> QED
    BY <1>1, <1>3, <1>8, <1>9, <1>10, <1>11 DEF Searched

\* The item a search takes fits.
Taken(b, p) == \E i \in DOMAIN free_list : free_list[i].ptr = p /\ Fits(b, free_list[i])

\* A search, as the ownership and the sizes need it.
LEMMA SearchDoes ==
  ASSUME NEW b \in Buffers, Search(b), PoolTypes, LabelInv, Once(free_list), Rounding
  PROVE  /\ Changes(b, dev, dev')
         /\ UNCHANGED <<reuse, memory, unused>>
         /\ dev'[b].pc = "allocate" /\ dev'[b].size = dev[b].size
         /\ dev'[b].bytes = dev[b].bytes
         /\ free_list' \in Seq(Items)
         /\ \/ free_list' = free_list /\ dev'[b].ptr = Null /\ dev'[b].to_free = {}
            \/ /\ Searched(dev'[b], free_list, free_list')
               /\ dev'[b].ptr = Null \/ Taken(b, dev'[b].ptr)
  <1>1. PICK k \in 0..Len(free_list) : Kept(b) = 1..k /\ Cardinality(Kept(b)) = k
    BY KeptAre DEF PoolTypes
  <1>2. PICK rest : rest = Rest(free_list, k)
    OBVIOUS
  <1>3. rest = {free_list[i].ptr : i \in DOMAIN free_list \ Kept(b)}
    BY <1>1, <1>2 DEF Rest
  <1>4. PICK list : list = SubSeq(free_list, 1, k)
    OBVIOUS
  <1>5. /\ dev \in [Buffers -> Operations] /\ free_list \in Seq(Items)
        /\ dev[b].ptr = Null /\ dev[b].to_free = {} /\ dev[b].pc = "search"
        /\ dev[b] \in Operations
    BY DEF PoolTypes, LabelInv, Search
  <1>6. rest \subseteq Pointers /\ DOMAIN free_list = 1..Len(free_list)
        /\ \A i \in DOMAIN free_list : free_list[i].ptr \in Pointers
    <2>1. DOMAIN free_list = 1..Len(free_list)
      BY <1>5
    <2>2. \A i \in DOMAIN free_list : free_list[i].ptr \in Pointers
      <3>1. \A i \in DOMAIN free_list : free_list[i] \in Items
        BY <1>5, <2>1
      <3> QED
        BY <3>1 DEF Items
    <2> QED
      BY <1>2, <2>1, <2>2 DEF Rest
  <1>7. UNCHANGED <<reuse, memory, unused>>
    BY DEF Search
  <1>8. \/ /\ free_list' = list
           /\ dev' = [dev EXCEPT ![b].pc = "allocate", ![b].to_free = rest]
        \/ \E i \in 1..k :
              /\ Fits(b, free_list[i])
              /\ free_list' = Without(list, i)
              /\ dev' = [dev EXCEPT ![b].pc = "allocate", ![b].to_free = rest,
                                    ![b].ptr = free_list[i].ptr]
        \/ /\ dev' = [dev EXCEPT ![b].pc = "allocate"]
           /\ free_list' = free_list
    BY <1>1, <1>3, <1>4 DEF Search, Better
  <1>9. CASE /\ free_list' = list
             /\ dev' = [dev EXCEPT ![b].pc = "allocate", ![b].to_free = rest]
    <2>1. /\ Changes(b, dev, dev') /\ dev'[b].pc = "allocate" /\ dev'[b].size = dev[b].size
          /\ dev'[b].bytes = dev[b].bytes /\ dev'[b].ptr = Null /\ dev'[b].to_free = rest
      BY <1>5, <1>6, <1>9 DEF Changes, Operations, Labels
    <2>2. Searched(dev'[b], free_list, list)
      BY <1>2, <1>4, <1>5, <2>1, NothingTaken DEF Rounding
    <2> QED
      BY <1>7, <1>9, <2>1, <2>2 DEF Searched
  <1>10. ASSUME NEW i \in 1..k, Fits(b, free_list[i]), free_list' = Without(list, i),
                dev' = [dev EXCEPT ![b].pc = "allocate", ![b].to_free = rest,
                                   ![b].ptr = free_list[i].ptr]
         PROVE  /\ Changes(b, dev, dev') /\ dev'[b].pc = "allocate"
                /\ dev'[b].size = dev[b].size /\ dev'[b].bytes = dev[b].bytes
                /\ Searched(dev'[b], free_list, free_list') /\ Taken(b, dev'[b].ptr)
    <2>1. i \in DOMAIN free_list
      BY <1>6
    <2>2. /\ Changes(b, dev, dev') /\ dev'[b].pc = "allocate" /\ dev'[b].size = dev[b].size
          /\ dev'[b].bytes = dev[b].bytes /\ dev'[b].ptr = free_list[i].ptr
          /\ dev'[b].to_free = rest
      BY <1>5, <1>6, <1>10, <2>1 DEF Changes, Operations, Labels
    <2>3. Searched(dev'[b], free_list, Without(list, i))
      BY <1>2, <1>4, <1>5, <2>2, ItemTaken
    <2> QED
      BY <1>10, <2>1, <2>2, <2>3 DEF Taken
  <1>11. CASE dev' = [dev EXCEPT ![b].pc = "allocate"] /\ free_list' = free_list
    <2>1. /\ Changes(b, dev, dev') /\ dev'[b].pc = "allocate" /\ dev'[b].size = dev[b].size
          /\ dev'[b].bytes = dev[b].bytes /\ dev'[b].ptr = Null /\ dev'[b].to_free = {}
      BY <1>5, <1>11 DEF Changes, Operations, Labels
    <2> QED
      BY <1>5, <1>7, <1>11, <2>1
  <1> QED
    BY <1>7, <1>8, <1>9, <1>10, <1>11 DEF Searched
-----------------------------------------------------------------------------
(* The operations *)

\* What an operation of b gives up, and what it gets, as pure changes of ownership.
\* Memory that a buffer has goes back to the driver ...
LEMMA FreesOwned ==
  ASSUME NEW b \in Buffers, NEW d, NEW e, Changes(b, d, e), NEW L, NEW u, NEW m, NEW n,
         m \in [Pointers -> Nat], NEW p \in Pointers, n = [m EXCEPT ![p] = 0],
         Owned(d, L, u, m), Null \notin Pointers,
         \/ d[b].ptr = p /\ e[b].ptr = Null /\ e[b].to_free = d[b].to_free
         \/ p \in d[b].to_free /\ e[b].ptr = d[b].ptr /\ e[b].to_free = d[b].to_free \ {p}
  PROVE  Owned(e, L, u, n)
  <1>1. \A c \in Buffers : c # b => e[c] = d[c]
    BY DEF Changes
  <1>2. \A c \in Buffers : d[c].to_free \subseteq Pointers /\ d[c].ptr \in Pointers \cup {Null}
    BY DEF Changes, Operations
  <1>3. e[b].to_free \subseteq d[b].to_free /\ (e[b].ptr = Null \/ e[b].ptr = d[b].ptr)
    OBVIOUS
  <1>4. \A c \in Buffers : e[c].to_free \subseteq d[c].to_free
                           /\ (e[c].ptr = Null \/ e[c].ptr = d[c].ptr)
    BY <1>1, <1>3
  <1>5. Null \notin L \cup u /\ \A c \in Buffers : Null \notin d[c].to_free
    BY <1>2 DEF Owned
  <1>6. Owned(e, L, u, n)!1
    BY <1>4 DEF Owned
  <1>7. Owned(e, L, u, n)!2
    BY <1>4, <1>5 DEF Owned
  <1>8. Owned(e, L, u, n)!3
    BY <1>4 DEF Owned
  <1>9. Owned(e, L, u, n)!4
    BY <1>4, <1>5 DEF Owned
  <1>10. Owned(e, L, u, n)!5
    BY DEF Owned
  <1>11. Owned(e, L, u, n)!6
    <2>1. p \notin L \cup u /\ \A c \in Buffers : e[c].ptr # p /\ p \notin e[c].to_free
      BY <1>1, <1>3 DEF Owned
    <2>2. ASSUME NEW x \in Pointers, x # p, NEW c \in Buffers
          PROVE  (e[c].ptr = x <=> d[c].ptr = x) /\ (x \in e[c].to_free <=> x \in d[c].to_free)
      <3>1. CASE c # b
        BY <1>1, <3>1
      <3>2. CASE c = b
        <4>1. x # Null
          OBVIOUS
        <4> QED
          BY <2>2, <3>2, <4>1
      <3> QED
        BY <3>1, <3>2
    <2>3. n[p] = 0 /\ \A x \in Pointers : x # p => n[x] = m[x]
      OBVIOUS
    <2> QED
      BY <2>1, <2>2, <2>3 DEF Owned
  <1> QED
    BY <1>6, <1>7, <1>8, <1>9, <1>10, <1>11 DEF Owned

\* ... comes from it ...
LEMMA GetsOwned ==
  ASSUME NEW b \in Buffers, NEW d, NEW e, Changes(b, d, e), NEW L, NEW u, NEW m, NEW n,
         m \in [Pointers -> Nat], NEW p \in Pointers, m[p] = 0, NEW size \in Nat \ {0},
         n = [m EXCEPT ![p] = size], Owned(d, L, u, m), Null \notin Pointers,
         d[b].ptr = Null, e[b].ptr = p, e[b].to_free = d[b].to_free
  PROVE  Owned(e, L, u, n)
  <1>1. \A c \in Buffers : /\ e[c].to_free = d[c].to_free
                           /\ c # b => e[c].ptr = d[c].ptr
    BY DEF Changes
  <1>2. p \notin L \cup u /\ \A c \in Buffers : d[c].ptr # p /\ p \notin d[c].to_free
    BY DEF Owned
  <1>3. Owned(e, L, u, n)!1
    BY <1>1, <1>2 DEF Owned
  <1>4. Owned(e, L, u, n)!2
    BY <1>1, <1>2 DEF Owned
  <1>5. Owned(e, L, u, n)!3
    BY <1>1 DEF Owned
  <1>6. Owned(e, L, u, n)!4
    BY <1>1, <1>2 DEF Owned
  <1>7. Owned(e, L, u, n)!5
    BY DEF Owned
  <1>8. Owned(e, L, u, n)!6
    <2>1. n[p] # 0 /\ \A x \in Pointers : x # p => n[x] = m[x]
      OBVIOUS
    <2>2. ASSUME NEW x \in Pointers, x # p, NEW c \in Buffers
          PROVE  (e[c].ptr = x <=> d[c].ptr = x) /\ (x \in e[c].to_free <=> x \in d[c].to_free)
      <3>1. CASE c # b
        BY <1>1, <3>1
      <3>2. CASE c = b
        <4>1. x # Null
          OBVIOUS
        <4> QED
          BY <1>1, <2>2, <3>2, <4>1
      <3> QED
        BY <3>1, <3>2
    <2> QED
      BY <2>1, <2>2 DEF Owned
  <1> QED
    BY <1>3, <1>4, <1>5, <1>6, <1>7, <1>8 DEF Owned

\* ... stays with its buffer ...
LEMMA SameOwned ==
  ASSUME NEW d, NEW e, NEW L, NEW u, NEW m, Owned(d, L, u, m),
         \A c \in Buffers : e[c].ptr = d[c].ptr /\ e[c].to_free = d[c].to_free
  PROVE  Owned(e, L, u, m)
  BY DEF Owned

\* ... goes into the list ...
LEMMA KeepsOwned ==
  ASSUME NEW b \in Buffers, NEW d, NEW e, Changes(b, d, e), NEW L, NEW u, NEW m,
         NEW p \in Pointers, Owned(d, L, u, m), Null \notin Pointers,
         d[b].ptr = p, e[b].ptr = Null, e[b].to_free = d[b].to_free
  PROVE  Owned(e, L \cup {p}, u, m) /\ p \notin L
  <1>1. \A c \in Buffers : /\ e[c].to_free = d[c].to_free
                           /\ c # b => e[c].ptr = d[c].ptr
    BY DEF Changes
  <1>2. /\ p \notin L \cup u /\ p # Null /\ \A c \in Buffers : p \notin d[c].to_free
        /\ \A c \in Buffers : c # b => d[c].ptr # p
    BY DEF Owned
  <1>3. PICK K : K = L \cup {p}
    OBVIOUS
  <1>4. \A c \in Buffers : Null \notin d[c].to_free
    BY DEF Changes, Operations
  <1>5. Owned(e, K, u, m)!1
    BY <1>1 DEF Owned
  <1>6. Owned(e, K, u, m)!2
    BY <1>1, <1>4 DEF Owned
  <1>7. Owned(e, K, u, m)!3
    BY <1>1 DEF Owned
  <1>8. Owned(e, K, u, m)!4
    BY <1>1, <1>2, <1>3 DEF Owned
  <1>9. Owned(e, K, u, m)!5
    BY <1>2, <1>3 DEF Owned
  <1>10. Owned(e, K, u, m)!6
    <2>1. m[p] # 0
      BY DEF Owned
    <2>2. ASSUME NEW x \in Pointers, x # p, NEW c \in Buffers
          PROVE  (e[c].ptr = x <=> d[c].ptr = x) /\ (x \in e[c].to_free <=> x \in d[c].to_free)
      <3>1. CASE c # b
        BY <1>1, <3>1
      <3>2. CASE c = b
        <4>1. x # Null
          OBVIOUS
        <4> QED
          BY <1>1, <2>2, <3>2, <4>1
      <3> QED
        BY <3>1, <3>2
    <2> QED
      BY <1>3, <2>1, <2>2 DEF Owned
  <1> QED
    BY <1>2, <1>3, <1>5, <1>6, <1>7, <1>8, <1>9, <1>10 DEF Owned

\* ... and the list is emptied, to be freed by a buffer's operation ...
LEMMA ListOwned ==
  ASSUME NEW b \in Buffers, NEW d, NEW e, Changes(b, d, e), NEW L, NEW u, NEW m,
         Owned(d, L, u, m), Null \notin Pointers,
         d[b].to_free = {}, e[b].to_free = L, e[b].ptr = d[b].ptr
  PROVE  Owned(e, {}, u, m)
  <1>1. \A c \in Buffers : /\ e[c].ptr = d[c].ptr
                           /\ c # b => e[c].to_free = d[c].to_free
    BY DEF Changes
  <1>2. Owned(e, {}, u, m)!1
    BY <1>1 DEF Owned
  <1>3. Owned(e, {}, u, m)!2
    BY <1>1 DEF Owned
  <1>4. Owned(e, {}, u, m)!3
    BY <1>1 DEF Owned
  <1>5. Owned(e, {}, u, m)!4
    BY <1>1 DEF Owned
  <1>6. Owned(e, {}, u, m)!5
    BY DEF Owned
  <1>7. Owned(e, {}, u, m)!6
    BY <1>1 DEF Owned
  <1> QED
    BY <1>2, <1>3, <1>4, <1>5, <1>6, <1>7 DEF Owned

\* ... or by halide_reuse_device_allocations ...
LEMMA UnusedOwned ==
  ASSUME NEW d, NEW L, NEW u, NEW m, Owned(d, L, u, m)
  PROVE  Owned(d, {}, u \cup L, m)
  BY DEF Owned

\* ... which returns it.
LEMMA ReturnOwned ==
  ASSUME NEW d, NEW L, NEW u, NEW m, NEW n, Owned(d, L, u, m), m \in [Pointers -> Nat],
         NEW p \in u, n = [m EXCEPT ![p] = 0]
  PROVE  Owned(d, L, u \ {p}, n)
  <1>1. p \in Pointers /\ p \notin L /\ \A c \in Buffers : d[c].ptr # p /\ p \notin d[c].to_free
    BY DEF Owned
  <1>2. n[p] = 0 /\ \A x \in Pointers : x # p => n[x] = m[x]
    BY <1>1
  <1> QED
    BY <1>1, <1>2 DEF Owned
-----------------------------------------------------------------------------
(* Every step *)

\* The list that the invariant speaks of.
LEMMA ListedAre == Listed = Ptrs(free_list)
  BY DEF Listed, Ptrs

\* At first the driver has everything.
LEMMA InitOwn == ASSUME Rounding PROVE Init => OwnInv
  <1> SUFFICES ASSUME Init PROVE OwnInv
    OBVIOUS
  <1>1. Ptrs(free_list) = {} /\ Once(free_list) /\ free_list \in Seq(Items)
    BY DEF Init, Ptrs, Once
  <1>2. PoolTypes
    BY <1>1 DEF Init, PoolTypes, Operations, Labels, Idle
  <1>3. LabelInv
    BY DEF Init, LabelInv, Idle
  <1>4. Owned(dev, {}, {}, memory)
    BY DEF Init, Owned, Idle, Rounding
  <1> QED
    BY <1>1, <1>2, <1>3, <1>4 DEF OwnInv, Init

\* What an operation needs of the invariant, and what makes it hold again.
LEMMA OperationOwn ==
  ASSUME NEW b \in Buffers, OwnInv, Changes(b, dev, dev'), memory' \in [Pointers -> Nat],
         free_list' \in Seq(Items), UNCHANGED <<reuse, unused>>,
         Once(free_list'), Owned(dev', Ptrs(free_list'), unused, memory'),
         /\ dev'[b].pc \in {"none", "search"} => dev'[b].ptr = Null
         /\ dev'[b].pc \in {"live", "keep"} => dev'[b].ptr # Null
         /\ dev'[b].pc # "allocate" => dev'[b].to_free = {}
         /\ dev'[b].pc # "none" => dev'[b].bytes \in Sizes /\ dev'[b].size >= dev'[b].bytes
  PROVE  OwnInv'
  <1>1. PoolTypes'
    BY DEF OwnInv, PoolTypes, Changes
  <1>2. LabelInv'
    BY DEF OwnInv, LabelInv, Changes
  <1> QED
    BY <1>1, <1>2 DEF OwnInv

\* A request has no memory yet.
LEMMA MallocOwn ==
  ASSUME NEW b \in Buffers, OwnInv, Rounding, DeviceMalloc(b)
  PROVE  OwnInv'
  <1>1. PICK n \in Sizes, place \in Places :
           dev' = [dev EXCEPT ![b] = [Idle EXCEPT !.pc = "search", !.place = place, !.bytes = n,
                                         !.size = IF reuse THEN quantize_allocation_size(n) ELSE n]]
    BY DEF DeviceMalloc
  <1>2. PICK z : z = (IF reuse THEN quantize_allocation_size(n) ELSE n) /\ z \in Nat /\ z >= n
    BY DEF Rounding
  <1>3. PICK f : /\ f = [Idle EXCEPT !.pc = "search", !.place = place, !.bytes = n, !.size = z]
                 /\ dev' = [dev EXCEPT ![b] = f]
    BY <1>1, <1>2
  <1>4. /\ f \in Operations /\ f.pc = "search" /\ f.ptr = Null /\ f.to_free = {}
        /\ f.bytes = n /\ f.size = z
    BY <1>2, <1>3 DEF Operations, Labels, Idle, Rounding
  <1>5. /\ dev \in [Buffers -> Operations] /\ dev[b].ptr = Null /\ dev[b].to_free = {}
    BY DEF DeviceMalloc, OwnInv, PoolTypes, LabelInv
  <1>6. Changes(b, dev, dev') /\ dev'[b] = f
    BY <1>3, <1>4, <1>5 DEF Changes
  <1>7. Owned(dev', Ptrs(free_list), unused, memory)
    BY <1>4, <1>5, <1>6, SameOwned DEF OwnInv, Changes
  <1> QED
    BY <1>2, <1>4, <1>6, <1>7, OperationOwn DEF DeviceMalloc, OwnInv, PoolTypes

\* The search takes from the list what it gives to its buffer.
LEMMA SearchOwn ==
  ASSUME NEW b \in Buffers, OwnInv, Rounding, Search(b)
  PROVE  OwnInv'
  <1>1. /\ Changes(b, dev, dev') /\ UNCHANGED <<reuse, memory, unused>>
        /\ dev'[b].pc = "allocate" /\ dev'[b].size = dev[b].size /\ dev'[b].bytes = dev[b].bytes
        /\ free_list' \in Seq(Items)
        /\ \/ free_list' = free_list /\ dev'[b].ptr = Null /\ dev'[b].to_free = {}
           \/ Searched(dev'[b], free_list, free_list')
    BY SearchDoes DEF OwnInv
  <1>2. /\ dev[b].ptr = Null /\ dev[b].to_free = {}
        /\ dev[b].bytes \in Sizes /\ dev[b].size >= dev[b].bytes
    BY DEF Search, OwnInv, LabelInv
  <1>3. Once(free_list') /\ Owned(dev', Ptrs(free_list'), unused, memory)
    <2>1. CASE free_list' = free_list /\ dev'[b].ptr = Null /\ dev'[b].to_free = {}
      BY <1>1, <1>2, <2>1, SameOwned DEF OwnInv, Changes
    <2>2. CASE Searched(dev'[b], free_list, free_list')
      BY <1>1, <1>2, <2>2, SearchedOwned DEF OwnInv, Searched, Rounding
    <2> QED
      BY <1>1, <2>1, <2>2
  <1> QED
    BY <1>1, <1>2, <1>3, OperationOwn DEF OwnInv, PoolTypes

\* What was given up at the end of the list goes back to the driver, once.
LEMMA FreeOldOwn ==
  ASSUME NEW b \in Buffers, OwnInv, Rounding, FreeOld(b)
  PROVE  OwnInv'
  <1>1. PICK p \in dev[b].to_free :
           Freed(p) /\ dev' = [dev EXCEPT ![b].to_free = @ \ {p}]
    BY DEF FreeOld
  <1>2. /\ dev \in [Buffers -> Operations] /\ dev[b] \in Operations /\ p \in Pointers
        /\ dev[b].pc = "allocate" /\ memory \in [Pointers -> Nat]
    BY <1>1 DEF FreeOld, OwnInv, PoolTypes, Operations
  <1>3. /\ Changes(b, dev, dev') /\ dev'[b].pc = "allocate" /\ dev'[b].ptr = dev[b].ptr
        /\ dev'[b].to_free = dev[b].to_free \ {p}
        /\ dev'[b].bytes = dev[b].bytes /\ dev'[b].size = dev[b].size
    BY <1>1, <1>2 DEF Changes, Operations
  <1>4. memory' = [memory EXCEPT ![p] = 0] /\ memory' \in [Pointers -> Nat]
    BY <1>1, <1>2 DEF Freed
  <1>5. Owned(dev', Ptrs(free_list), unused, memory')
    BY <1>1, <1>2, <1>3, <1>4, FreesOwned DEF OwnInv, Rounding
  <1> QED
    BY <1>2, <1>3, <1>4, <1>5, OperationOwn DEF FreeOld, OwnInv, PoolTypes, LabelInv

\* The driver gives what nobody has.
LEMMA AllocateOwn ==
  ASSUME NEW b \in Buffers, OwnInv, Rounding, Allocate(b)
  PROVE  OwnInv'
  <1>1. /\ dev \in [Buffers -> Operations] /\ dev[b] \in Operations
        /\ dev[b].pc = "allocate" /\ dev[b].to_free = {} /\ memory \in [Pointers -> Nat]
        /\ dev[b].bytes \in Sizes /\ dev[b].size >= dev[b].bytes
    BY DEF Allocate, OwnInv, PoolTypes, LabelInv
  <1>2. CASE dev[b].ptr # Null
    <2>1. dev' = [dev EXCEPT ![b].pc = "live"] /\ UNCHANGED <<reuse, memory, free_list, unused>>
      BY <1>2 DEF Allocate
    <2>2. /\ Changes(b, dev, dev') /\ dev'[b].pc = "live" /\ dev'[b].ptr = dev[b].ptr
          /\ dev'[b].to_free = {} /\ dev'[b].bytes = dev[b].bytes /\ dev'[b].size = dev[b].size
      BY <1>1, <2>1 DEF Changes, Operations, Labels
    <2>3. Owned(dev', Ptrs(free_list), unused, memory)
      BY <1>1, <2>2, SameOwned DEF OwnInv, Changes
    <2> QED
      BY <1>1, <1>2, <2>1, <2>2, <2>3, OperationOwn DEF OwnInv, PoolTypes
  <1>3. CASE dev[b].ptr = Null
    <2>1. PICK p \in Pointers :
             /\ memory[p] = 0 /\ memory' = [memory EXCEPT ![p] = dev[b].size]
             /\ dev' = [dev EXCEPT ![b].pc = "live", ![b].ptr = p]
      BY <1>3 DEF Allocate
    <2>2. /\ Changes(b, dev, dev') /\ dev'[b].pc = "live" /\ dev'[b].ptr = p
          /\ dev'[b].to_free = {} /\ dev'[b].bytes = dev[b].bytes /\ dev'[b].size = dev[b].size
      BY <1>1, <2>1 DEF Changes, Operations, Labels
    <2>3. PICK z : z = dev[b].size /\ z \in Nat \ {0}
      BY <1>1 DEF Operations, Rounding
    <2>4. memory' \in [Pointers -> Nat] /\ memory' = [memory EXCEPT ![p] = z]
      BY <1>1, <2>1, <2>3
    <2>6. Owned(dev', Ptrs(free_list), unused, memory')
      <3>1. PICK d, e, m, n : d = dev /\ e = dev' /\ m = memory /\ n = memory'
        OBVIOUS
      <3>2. Changes(b, d, e) /\ Owned(d, Ptrs(free_list), unused, m) /\ Null \notin Pointers
        BY <2>2, <3>1 DEF OwnInv, Rounding
      <3>3. m \in [Pointers -> Nat] /\ m[p] = 0 /\ n = [m EXCEPT ![p] = z]
        BY <1>1, <2>1, <2>4, <3>1
      <3>4. d[b].ptr = Null /\ e[b].ptr = p /\ e[b].to_free = d[b].to_free
        BY <1>1, <1>3, <2>2, <3>1
      <3>5. p \in Pointers /\ z \in Nat \ {0}
        BY <2>3
      <3>6. Owned(e, Ptrs(free_list), unused, n)
        BY ONLY b \in Buffers, <3>2, <3>3, <3>4, <3>5, GetsOwned
      <3> QED
        BY <3>1, <3>6
    <2>5. p # Null
      BY DEF Rounding
    <2> QED
      BY <1>1, <2>2, <2>4, <2>5, <2>6, OperationOwn DEF Allocate, OwnInv, PoolTypes
  <1> QED
    BY <1>2, <1>3

\* The whole list becomes the operation's to free.
LEMMA OutOfMemoryOwn ==
  ASSUME NEW b \in Buffers, OwnInv, Rounding, OutOfMemory(b)
  PROVE  OwnInv'
  <1>1. /\ dev \in [Buffers -> Operations] /\ dev[b] \in Operations /\ dev[b].ptr = Null
        /\ dev[b].pc = "allocate" /\ dev[b].to_free = {}
        /\ dev[b].bytes \in Sizes /\ dev[b].size >= dev[b].bytes
        /\ UNCHANGED <<reuse, memory, unused>>
    BY DEF OutOfMemory, OwnInv, PoolTypes, LabelInv
  <1>2. /\ dev' = [dev EXCEPT ![b].to_free = Ptrs(free_list), ![b].retried = TRUE]
        /\ free_list' = <<>>
    BY ListedAre DEF OutOfMemory
  <1>3. Ptrs(free_list) \subseteq Pointers
    BY DEF OwnInv, Owned
  <1>4. /\ Changes(b, dev, dev') /\ dev'[b].pc = "allocate" /\ dev'[b].ptr = Null
        /\ dev'[b].to_free = Ptrs(free_list)
        /\ dev'[b].bytes = dev[b].bytes /\ dev'[b].size = dev[b].size
    BY <1>1, <1>2, <1>3 DEF Changes, Operations
  <1>5. Ptrs(<<>>) = {} /\ Once(<<>>) /\ <<>> \in Seq(Items)
    BY DEF Ptrs, Once
  <1>6. Owned(dev', {}, unused, memory)
    BY <1>1, <1>4, ListOwned DEF OwnInv, Rounding
  <1> QED
    BY <1>1, <1>2, <1>4, <1>5, <1>6, OperationOwn DEF OwnInv, PoolTypes

\* An allocation that fails has nothing yet, and leaves nothing.
LEMMA MallocFailsOwn ==
  ASSUME NEW b \in Buffers, OwnInv, Rounding, MallocFails(b)
  PROVE  OwnInv'
  <1>1. /\ dev \in [Buffers -> Operations] /\ dev[b] \in Operations /\ dev[b].ptr = Null
        /\ dev[b].to_free = {} /\ UNCHANGED <<reuse, free_list, memory, unused>>
    BY DEF MallocFails, OwnInv, PoolTypes, LabelInv
  <1>2. dev' = [dev EXCEPT ![b] = Idle]
    BY DEF MallocFails
  <1>3. /\ Changes(b, dev, dev') /\ dev'[b].pc = "none" /\ dev'[b].ptr = Null
        /\ dev'[b].to_free = {}
    BY <1>1, <1>2 DEF Changes, Operations, Labels, Idle
  <1>4. Owned(dev', Ptrs(free_list), unused, memory)
    BY <1>1, <1>3, SameOwned DEF OwnInv, Changes
  <1> QED
    BY <1>1, <1>3, <1>4, OperationOwn DEF OwnInv, PoolTypes

\* Freed memory is still the buffer's, or the driver's at once.
LEMMA DeviceFreeOwn ==
  ASSUME NEW b \in Buffers, OwnInv, Rounding, DeviceFree(b)
  PROVE  OwnInv'
  <1>1. /\ dev \in [Buffers -> Operations] /\ dev[b] \in Operations /\ dev[b].ptr # Null
        /\ dev[b].pc = "live" /\ dev[b].to_free = {} /\ dev[b].ptr \in Pointers
        /\ dev[b].bytes \in Sizes /\ dev[b].size >= dev[b].bytes
        /\ UNCHANGED <<reuse, free_list, unused>> /\ memory \in [Pointers -> Nat]
    BY DEF DeviceFree, OwnInv, PoolTypes, LabelInv, Operations
  <1>2. CASE reuse
    <2>1. PICK place \in Places : dev' = [dev EXCEPT ![b].pc = "keep", ![b].place = place]
      BY <1>2 DEF DeviceFree
    <2>2. memory' = memory
      BY <1>2 DEF DeviceFree
    <2>3. /\ Changes(b, dev, dev') /\ dev'[b].pc = "keep" /\ dev'[b].ptr = dev[b].ptr
          /\ dev'[b].to_free = {} /\ dev'[b].bytes = dev[b].bytes /\ dev'[b].size = dev[b].size
      BY <1>1, <2>1 DEF Changes, Operations, Labels
    <2>4. Owned(dev', Ptrs(free_list), unused, memory)
      BY <1>1, <2>3, SameOwned DEF OwnInv, Changes
    <2> QED
      BY <1>1, <2>2, <2>3, <2>4, OperationOwn DEF OwnInv, PoolTypes
  <1>3. CASE ~reuse
    <2>1. PICK p \in Pointers : p = dev[b].ptr
      BY <1>1
    <2>2. memory' = [memory EXCEPT ![p] = 0] /\ dev' = [dev EXCEPT ![b] = Idle]
      BY <1>3, <2>1 DEF DeviceFree, Freed
    <2>3. /\ Changes(b, dev, dev') /\ dev'[b].pc = "none" /\ dev'[b].ptr = Null
          /\ dev'[b].to_free = {}
      BY <1>1, <2>2 DEF Changes, Operations, Labels, Idle
    <2>4. Owned(dev', Ptrs(free_list), unused, memory')
      <3>1. PICK d, e, m, n : d = dev /\ e = dev' /\ m = memory /\ n = memory'
        OBVIOUS
      <3>2. Changes(b, d, e) /\ Owned(d, Ptrs(free_list), unused, m) /\ Null \notin Pointers
        BY <2>3, <3>1 DEF OwnInv, Rounding
      <3>3. m \in [Pointers -> Nat] /\ n = [m EXCEPT ![p] = 0]
        BY <1>1, <2>2, <3>1
      <3>4. d[b].ptr = p /\ e[b].ptr = Null /\ e[b].to_free = d[b].to_free
        BY <1>1, <2>1, <2>3, <3>1
      <3>5. Owned(e, Ptrs(free_list), unused, n)
        <4>1. \/ d[b].ptr = p /\ e[b].ptr = Null /\ e[b].to_free = d[b].to_free
              \/ p \in d[b].to_free /\ e[b].ptr = d[b].ptr /\ e[b].to_free = d[b].to_free \ {p}
          BY <3>4
        <4> QED
          BY ONLY b \in Buffers, p \in Pointers, <3>2, <3>3, <4>1, FreesOwned
      <3> QED
        BY <3>1, <3>5
    <2>5. memory' \in [Pointers -> Nat]
      BY <1>1, <2>2
    <2> QED
      BY <1>1, <2>3, <2>4, <2>5, OperationOwn DEF OwnInv, PoolTypes
  <1> QED
    BY <1>2, <1>3

\* A list with one more item in front.
LEMMA InFront ==
  ASSUME NEW s \in Seq(Items), NEW x \in Items
  PROVE  /\ <<x>> \o s \in Seq(Items)
         /\ Ptrs(<<x>> \o s) = Ptrs(s) \cup {x.ptr}
         /\ x.ptr \notin Ptrs(s) /\ Once(s) => Once(<<x>> \o s)
         /\ \A i \in DOMAIN (<<x>> \o s) :
               (<<x>> \o s)[i] = x \/ \E j \in DOMAIN s : (<<x>> \o s)[i] = s[j]
  <1>1. PICK t : t = <<x>> \o s
    OBVIOUS
  <1>2. /\ t \in Seq(Items) /\ Len(t) = Len(s) + 1 /\ t[1] = x
        /\ \A i \in 2..(Len(s) + 1) : t[i] = s[i - 1]
    BY <1>1
  <1>3. DOMAIN t = 1..(Len(s) + 1) /\ DOMAIN s = 1..Len(s) /\ Len(s) \in Nat
    BY <1>2
  <1>4. \A i \in DOMAIN t : i = 1 \/ (i \in 2..(Len(s) + 1) /\ i - 1 \in DOMAIN s)
    BY <1>3
  <1>5. \A j \in DOMAIN s : j + 1 \in DOMAIN t /\ t[j + 1] = s[j]
    BY <1>2, <1>3
  <1>6. \A i \in DOMAIN t : t[i] = x \/ \E j \in DOMAIN s : t[i] = s[j]
    BY <1>2, <1>4
  <1>7. Ptrs(t) = Ptrs(s) \cup {x.ptr}
    <2>1. 1 \in DOMAIN t
      BY <1>3
    <2> QED
      <3>1. \A i \in DOMAIN t : t[i].ptr \in Ptrs(s) \cup {x.ptr}
        BY <1>6 DEF Ptrs
      <3>2. \A j \in DOMAIN s : s[j].ptr \in Ptrs(t)
        BY <1>5, Zenon DEF Ptrs
      <3>3. x.ptr \in Ptrs(t)
        BY <1>2, <2>1, Zenon DEF Ptrs
      <3>4. Ptrs(t) \subseteq Ptrs(s) \cup {x.ptr}
        BY <3>1, Zenon DEF Ptrs
      <3>5. Ptrs(s) \subseteq Ptrs(t)
        BY <3>2, Zenon DEF Ptrs
      <3> QED
        BY <3>3, <3>4, <3>5, Zenon
  <1>8. ASSUME x.ptr \notin Ptrs(s), Once(s), NEW i \in DOMAIN t, NEW j \in DOMAIN t,
               t[i].ptr = t[j].ptr
        PROVE  i = j
    <2>1. \A h \in DOMAIN s : s[h].ptr # x.ptr
      BY <1>8 DEF Ptrs
    <2>2. CASE i = 1 \/ j = 1
      BY <1>2, <1>4, <1>8, <2>1, <2>2
    <2>3. CASE i # 1 /\ j # 1
      <3>1. i - 1 \in DOMAIN s /\ j - 1 \in DOMAIN s /\ t[i] = s[i - 1] /\ t[j] = s[j - 1]
        BY <1>2, <1>4, <2>3
      <3>2. i - 1 = j - 1
        BY <1>8, <3>1 DEF Once
      <3> QED
        BY <1>3, <3>2
    <2> QED
      BY <2>2, <2>3
  <1> QED
    BY <1>1, <1>2, <1>6, <1>7, <1>8 DEF Once

\* It goes from the buffer to the front of the list.
LEMMA KeepOwn ==
  ASSUME NEW b \in Buffers, OwnInv, Rounding, Keep(b)
  PROVE  OwnInv'
  <1>1. /\ dev \in [Buffers -> Operations] /\ dev[b] \in Operations /\ dev[b].ptr # Null
        /\ dev[b].pc = "keep" /\ dev[b].to_free = {} /\ dev[b].bytes \in Sizes
        /\ UNCHANGED <<reuse, memory, unused>> /\ dev' = [dev EXCEPT ![b] = Idle]
        /\ free_list \in Seq(Items)
    BY DEF Keep, OwnInv, PoolTypes, LabelInv
  <1>2. PICK x : /\ x = [ptr |-> dev[b].ptr, size |-> quantize_allocation_size(dev[b].bytes),
                         place |-> dev[b].place]
                 /\ free_list' = <<x>> \o free_list
    BY DEF Keep
  <1>3. x \in Items /\ x.ptr = dev[b].ptr /\ x.ptr \in Pointers
    BY <1>1, <1>2 DEF Items, Operations, Rounding
  <1>4. PICK p \in Pointers : p = dev[b].ptr
    BY <1>3
  <1>5. /\ Changes(b, dev, dev') /\ dev'[b].pc = "none" /\ dev'[b].ptr = Null
        /\ dev'[b].to_free = {}
    BY <1>1 DEF Changes, Operations, Labels, Idle
  <1>6. Owned(dev', Ptrs(free_list) \cup {p}, unused, memory) /\ p \notin Ptrs(free_list)
    BY <1>1, <1>4, <1>5, KeepsOwned DEF OwnInv, Rounding
  <1>7. /\ free_list' \in Seq(Items) /\ Ptrs(free_list') = Ptrs(free_list) \cup {p}
        /\ Once(free_list')
    BY <1>1, <1>2, <1>3, <1>4, <1>6, InFront DEF OwnInv
  <1> QED
    BY <1>1, <1>5, <1>6, <1>7, OperationOwn DEF OwnInv, PoolTypes

\* The list becomes halide_reuse_device_allocations' to return, piece by piece.
LEMMA ReuseOwn ==
  ASSUME OwnInv, Rounding, Reuse \/ ReuseNoLonger \/ ReleaseUnused \/ FreeUnused
  PROVE  OwnInv'
  <1>1. CASE Reuse \/ ReuseNoLonger
    <2>1. reuse' \in BOOLEAN /\ UNCHANGED <<free_list, memory, dev, unused>>
      BY <1>1 DEF Reuse, ReuseNoLonger
    <2>2. PoolTypes' /\ LabelInv'
      BY <2>1 DEF OwnInv, PoolTypes, LabelInv
    <2> QED
      BY <2>1, <2>2 DEF OwnInv
  <1>2. CASE ReleaseUnused
    <2>1. /\ unused' = unused \cup Ptrs(free_list) /\ free_list' = <<>>
          /\ UNCHANGED <<reuse, memory, dev>>
      BY <1>2, ListedAre DEF ReleaseUnused
    <2>2. Ptrs(<<>>) = {} /\ Once(<<>>) /\ <<>> \in Seq(Items)
      BY DEF Ptrs, Once
    <2>3. Ptrs(free_list) \subseteq Pointers
      BY DEF OwnInv, Owned
    <2>4. Owned(dev, {}, unused \cup Ptrs(free_list), memory)
      BY UnusedOwned DEF OwnInv
    <2> QED
      BY <2>1, <2>2, <2>3, <2>4 DEF OwnInv, PoolTypes, LabelInv
  <1>3. CASE FreeUnused
    <2>1. PICK p \in unused : /\ memory' = [memory EXCEPT ![p] = 0] /\ unused' = unused \ {p}
                              /\ UNCHANGED <<reuse, free_list, dev>>
      BY <1>3 DEF FreeUnused, Freed
    <2>2. Owned(dev, Ptrs(free_list), unused \ {p}, memory')
      BY <2>1, ReturnOwned DEF OwnInv, PoolTypes
    <2> QED
      BY <2>1, <2>2 DEF OwnInv, PoolTypes, LabelInv
  <1> QED
    BY <1>1, <1>2, <1>3

\* Every step keeps ownership exact.
LEMMA OwnStep ==
  ASSUME Rounding
  PROVE  OwnInv /\ [Next]_vars => OwnInv'
  <1> SUFFICES ASSUME OwnInv, [Next]_vars PROVE OwnInv'
    OBVIOUS
  <1>1. CASE UNCHANGED vars
    BY <1>1 DEF vars, OwnInv, PoolTypes, LabelInv
  <1>2. CASE \E b \in Buffers : Step(b)
    BY <1>2, MallocOwn, SearchOwn, FreeOldOwn, AllocateOwn, OutOfMemoryOwn, MallocFailsOwn,
       DeviceFreeOwn, KeepOwn DEF Step
  <1>3. CASE Reuse \/ ReuseNoLonger \/ ReleaseUnused \/ FreeUnused
    BY <1>3, ReuseOwn
  <1> QED
    BY <1>1, <1>2, <1>3 DEF Next
-----------------------------------------------------------------------------
(* The size of what is kept *)

Held(d, m) == \A b \in Buffers : d[b].ptr # Null => m[d[b].ptr] >= d[b].size
Said(s, m) == \A i \in DOMAIN s : m[s[i].ptr] >= s[i].size

\* Memory that will go into the list was asked for with its rounded size.
LargeEnough(op) == op.size >= quantize_allocation_size(op.bytes)
KeptInv ==
    /\ reuse => \A b \in Buffers : dev[b].pc # "none" => LargeEnough(dev[b])
    /\ \A b \in Buffers : dev[b].pc = "keep" => LargeEnough(dev[b])

SizeInv == Held(dev, memory) /\ Said(free_list, memory) /\ KeptInv

\* An operation of b disturbs the sizes of neither the other buffers nor the list.
LEMMA OperationSize ==
  ASSUME NEW b \in Buffers, OwnInv, SizeInv, Changes(b, dev, dev'), reuse' = reuse,
         \A x \in Pointers : \/ memory'[x] = memory[x]
                             \/ /\ x \notin Ptrs(free_list)
                                /\ \A c \in Buffers : c # b => dev[c].ptr # x,
         \A i \in DOMAIN free_list' : \/ \E j \in DOMAIN free_list : free_list'[i] = free_list[j]
                                      \/ memory'[free_list'[i].ptr] >= free_list'[i].size,
         dev'[b].ptr # Null => memory'[dev'[b].ptr] >= dev'[b].size,
         dev'[b].pc # "none" => LargeEnough(dev'[b]) \/ (~reuse /\ dev'[b].pc # "keep")
  PROVE  SizeInv'
  <1>1. /\ \A c \in Buffers : c # b => dev'[c] = dev[c]
        /\ \A c \in Buffers : dev[c].ptr \in Pointers \cup {Null}
    BY DEF Changes, Operations
  <1>2. ASSUME NEW c \in Buffers, dev'[c].ptr # Null
        PROVE  memory'[dev'[c].ptr] >= dev'[c].size
    <2>1. CASE c = b
      BY <1>2, <2>1
    <2>2. CASE c # b
      <3>1. dev'[c] = dev[c] /\ dev[c].ptr \in Pointers
        BY <1>1, <1>2, <2>2
      <3>2. memory'[dev[c].ptr] = memory[dev[c].ptr]
        BY <2>2, <3>1
      <3>3. memory[dev[c].ptr] >= dev[c].size
        BY <1>2, <3>1 DEF SizeInv, Held
      <3> QED
        BY <3>1, <3>2, <3>3
    <2> QED
      BY <2>1, <2>2
  <1>3. ASSUME NEW i \in DOMAIN free_list'
        PROVE  memory'[free_list'[i].ptr] >= free_list'[i].size
    <2>1. CASE \E j \in DOMAIN free_list : free_list'[i] = free_list[j]
      <3>1. PICK j \in DOMAIN free_list : free_list'[i] = free_list[j]
        BY <2>1
      <3>2. free_list[j].ptr \in Ptrs(free_list)
        BY DEF Ptrs
      <3>3. free_list[j].ptr \in Pointers
        BY <3>2 DEF OwnInv, Owned
      <3>4. memory'[free_list[j].ptr] = memory[free_list[j].ptr]
        BY <3>2, <3>3
      <3> QED
        BY <3>1, <3>4 DEF SizeInv, Said
    <2> QED
      BY <2>1
  <1>4. KeptInv'
    <2>1. ASSUME NEW c \in Buffers, dev'[c].pc # "none"
          PROVE  (reuse \/ dev'[c].pc = "keep") => LargeEnough(dev'[c])
      <3>1. CASE c = b
        BY <2>1, <3>1
      <3>2. CASE c # b
        BY <1>1, <2>1, <3>2 DEF SizeInv, KeptInv
      <3> QED
        BY <3>1, <3>2
    <2> QED
      BY <2>1 DEF KeptInv
  <1> QED
    BY <1>2, <1>3, <1>4 DEF SizeInv, Held, Said

\* A step of an operation is one of its own buffer.
LEMMA StepChanges ==
  ASSUME NEW b \in Buffers, OwnInv, OwnInv', Step(b)
  PROVE  Changes(b, dev, dev') /\ reuse' = reuse
  <1>1. dev \in [Buffers -> Operations] /\ dev' \in [Buffers -> Operations]
    BY DEF OwnInv, PoolTypes
  <1>2. \A c \in Buffers : c # b => dev'[c] = dev[c]
    BY <1>1 DEF Step, DeviceMalloc, Search, FreeOld, Allocate, OutOfMemory, MallocFails,
       DeviceFree, Keep
  <1>3. reuse' = reuse
    BY DEF Step, DeviceMalloc, Search, FreeOld, Allocate, OutOfMemory, MallocFails,
       DeviceFree, Keep
  <1> QED
    BY <1>1, <1>2, <1>3 DEF Changes

\* A request is for the rounded size, as long as the flag is set.
LEMMA MallocSize ==
  ASSUME NEW b \in Buffers, OwnInv, OwnInv', SizeInv, Rounding, DeviceMalloc(b)
  PROVE  SizeInv'
  <1>1. Changes(b, dev, dev') /\ reuse' = reuse
    BY StepChanges DEF Step
  <1>2. PICK n \in Sizes, place \in Places :
           dev' = [dev EXCEPT ![b] = [Idle EXCEPT !.pc = "search", !.place = place, !.bytes = n,
                                         !.size = IF reuse THEN quantize_allocation_size(n) ELSE n]]
    BY DEF DeviceMalloc
  <1>3. PICK q : q = quantize_allocation_size(n) /\ q \in Nat
    BY DEF Rounding
  <1>4. PICK f : /\ f = [Idle EXCEPT !.pc = "search", !.place = place, !.bytes = n,
                             !.size = IF reuse THEN q ELSE n]
                 /\ dev' = [dev EXCEPT ![b] = f]
    BY <1>2, <1>3
  <1>5. f.pc = "search" /\ f.ptr = Null /\ f.bytes = n /\ (reuse => f.size = q)
    BY <1>4 DEF Idle
  <1>6. dev'[b] = f
    BY <1>4 DEF OwnInv, PoolTypes
  <1>7. dev'[b].ptr = Null /\ (LargeEnough(dev'[b]) \/ (~reuse /\ dev'[b].pc # "keep"))
    BY <1>3, <1>5, <1>6 DEF LargeEnough
  <1> QED
    BY <1>1, <1>7, OperationSize DEF DeviceMalloc

\* What is found fits.
LEMMA SearchSize ==
  ASSUME NEW b \in Buffers, OwnInv, SizeInv, Rounding, Search(b)
  PROVE  SizeInv'
  <1>1. /\ Changes(b, dev, dev') /\ UNCHANGED <<reuse, memory, unused>>
        /\ dev'[b].pc = "allocate" /\ dev'[b].size = dev[b].size /\ dev'[b].bytes = dev[b].bytes
        /\ \/ free_list' = free_list /\ dev'[b].ptr = Null /\ dev'[b].to_free = {}
           \/ /\ Searched(dev'[b], free_list, free_list')
              /\ dev'[b].ptr = Null \/ Taken(b, dev'[b].ptr)
    BY SearchDoes DEF OwnInv
  <1>2. \A i \in DOMAIN free_list' : \E j \in DOMAIN free_list : free_list'[i] = free_list[j]
    BY <1>1 DEF Searched
  <1>3. ASSUME Taken(b, dev'[b].ptr) PROVE memory[dev'[b].ptr] >= dev'[b].size
    <2>1. PICK i \in DOMAIN free_list : /\ free_list[i].ptr = dev'[b].ptr
                                        /\ dev[b].size <= free_list[i].size
      BY <1>3 DEF Taken, Fits
    <2>2. memory[free_list[i].ptr] >= free_list[i].size
      BY DEF SizeInv, Said
    <2>3. free_list[i] \in Items
      BY DEF OwnInv, PoolTypes
    <2>4. /\ free_list[i].size \in Nat /\ free_list[i].ptr \in Pointers
          /\ memory[free_list[i].ptr] \in Nat /\ dev[b].size \in Nat
      BY <2>3 DEF OwnInv, PoolTypes, Items, Operations
    <2> QED
      BY <1>1, <2>1, <2>2, <2>4
  <1>4. LargeEnough(dev'[b]) \/ (~reuse /\ dev'[b].pc # "keep")
    BY <1>1 DEF Search, SizeInv, KeptInv, LargeEnough
  <1> QED
    BY <1>1, <1>2, <1>3, <1>4, OperationSize

\* What is freed belongs to no other buffer, and is not in the list.
LEMMA FreeOldSize ==
  ASSUME NEW b \in Buffers, OwnInv, OwnInv', SizeInv, Rounding, FreeOld(b)
  PROVE  SizeInv'
  <1>1. Changes(b, dev, dev') /\ reuse' = reuse
    BY StepChanges DEF Step
  <1>2. PICK p \in dev[b].to_free :
           Freed(p) /\ dev' = [dev EXCEPT ![b].to_free = @ \ {p}]
    BY DEF FreeOld
  <1>3. /\ dev'[b].pc = dev[b].pc /\ dev'[b].ptr = dev[b].ptr /\ dev'[b].bytes = dev[b].bytes
        /\ dev'[b].size = dev[b].size /\ dev[b].ptr \in Pointers \cup {Null}
    BY <1>2 DEF OwnInv, PoolTypes, Operations
  <1>4. p \notin Ptrs(free_list) /\ \A c \in Buffers : dev[c].ptr # p
    BY <1>2 DEF OwnInv, Owned
  <1>5. \A x \in Pointers : x # p => memory'[x] = memory[x]
    BY <1>2 DEF Freed, OwnInv, PoolTypes
  <1>6. dev'[b].ptr # Null => memory'[dev'[b].ptr] >= dev'[b].size
    BY <1>3, <1>4, <1>5 DEF SizeInv, Held
  <1>7. LargeEnough(dev'[b]) \/ (~reuse /\ dev'[b].pc # "keep")
    BY <1>3 DEF FreeOld, SizeInv, KeptInv, LargeEnough
  <1> QED
    BY <1>1, <1>4, <1>5, <1>6, <1>7, OperationSize DEF FreeOld

\* What is new has the size that was asked for.
LEMMA AllocateSize ==
  ASSUME NEW b \in Buffers, OwnInv, OwnInv', SizeInv, Rounding, Allocate(b)
  PROVE  SizeInv'
  <1>1. Changes(b, dev, dev') /\ reuse' = reuse
    BY StepChanges DEF Step
  <1>2. /\ dev[b].pc = "allocate" /\ dev'[b].pc = "live" /\ dev'[b].bytes = dev[b].bytes
        /\ dev'[b].size = dev[b].size
    BY DEF Allocate, OwnInv, PoolTypes, Operations
  <1>3. LargeEnough(dev'[b]) \/ (~reuse /\ dev'[b].pc # "keep")
    BY <1>2 DEF SizeInv, KeptInv, LargeEnough
  <1>4. CASE dev[b].ptr # Null
    <2>1. memory' = memory /\ dev'[b].ptr = dev[b].ptr
      BY <1>4 DEF Allocate, OwnInv, PoolTypes, Operations
    <2>2. dev'[b].ptr # Null => memory'[dev'[b].ptr] >= dev'[b].size
      BY <1>2, <2>1 DEF SizeInv, Held
    <2> QED
      BY <1>1, <1>3, <2>1, <2>2, OperationSize DEF Allocate
  <1>5. CASE dev[b].ptr = Null
    <2>1. PICK p \in Pointers :
             /\ memory[p] = 0 /\ memory' = [memory EXCEPT ![p] = dev[b].size]
             /\ dev' = [dev EXCEPT ![b].pc = "live", ![b].ptr = p]
      BY <1>5 DEF Allocate
    <2>2. p \notin Ptrs(free_list) /\ \A c \in Buffers : dev[c].ptr # p
      BY <2>1 DEF OwnInv, Owned
    <2>3. \A x \in Pointers : x # p => memory'[x] = memory[x]
      BY <2>1 DEF OwnInv, PoolTypes
    <2>4. dev'[b].ptr = p /\ memory'[p] = dev[b].size /\ dev[b].size \in Nat
      BY <2>1 DEF OwnInv, PoolTypes, Operations
    <2>5. memory'[dev'[b].ptr] >= dev'[b].size
      BY <1>2, <2>4
    <2> QED
      BY <1>1, <1>3, <2>2, <2>3, <2>5, OperationSize DEF Allocate
  <1> QED
    BY <1>4, <1>5

\* Without more memory, the list is emptied.
LEMMA OutOfMemorySize ==
  ASSUME NEW b \in Buffers, OwnInv, OwnInv', SizeInv, Rounding, OutOfMemory(b)
  PROVE  SizeInv'
  <1>1. /\ Changes(b, dev, dev') /\ reuse' = reuse /\ memory' = memory
        /\ free_list' = <<>>
    BY StepChanges DEF Step, OutOfMemory
  <1>2. /\ dev'[b].pc = "allocate" /\ dev'[b].ptr = Null /\ dev'[b].bytes = dev[b].bytes
        /\ dev'[b].size = dev[b].size /\ dev[b].pc = "allocate"
    BY DEF OutOfMemory, OwnInv, PoolTypes, Operations
  <1>3. LargeEnough(dev'[b]) \/ (~reuse /\ dev'[b].pc # "keep")
    BY <1>2 DEF SizeInv, KeptInv, LargeEnough
  <1> QED
    BY <1>1, <1>2, <1>3, OperationSize

\* An allocation that fails ends.
LEMMA MallocFailsSize ==
  ASSUME NEW b \in Buffers, OwnInv, OwnInv', SizeInv, Rounding, MallocFails(b)
  PROVE  SizeInv'
  <1>1. /\ Changes(b, dev, dev') /\ UNCHANGED <<reuse, free_list, memory>>
    BY StepChanges DEF Step, MallocFails
  <1>2. dev'[b].pc = "none" /\ dev'[b].ptr = Null
    BY DEF MallocFails, Idle, OwnInv, PoolTypes
  <1> QED
    BY <1>1, <1>2, OperationSize

\* Memory is kept only while the flag is set.
LEMMA DeviceFreeSize ==
  ASSUME NEW b \in Buffers, OwnInv, OwnInv', SizeInv, Rounding, DeviceFree(b)
  PROVE  SizeInv'
  <1>1. Changes(b, dev, dev') /\ reuse' = reuse /\ free_list' = free_list
    BY StepChanges DEF Step, DeviceFree
  <1>2. CASE reuse
    <2>1. /\ memory' = memory /\ dev'[b].ptr = dev[b].ptr /\ dev'[b].bytes = dev[b].bytes
          /\ dev'[b].size = dev[b].size /\ dev[b].pc = "live"
      BY <1>2 DEF DeviceFree, OwnInv, PoolTypes, Operations
    <2>2. LargeEnough(dev'[b])
      BY <1>2, <2>1 DEF SizeInv, KeptInv, LargeEnough
    <2>3. dev'[b].ptr # Null => memory'[dev'[b].ptr] >= dev'[b].size
      BY <2>1 DEF SizeInv, Held
    <2> QED
      BY <1>1, <2>1, <2>2, <2>3, OperationSize
  <1>3. CASE ~reuse
    <2>1. dev'[b].pc = "none" /\ dev'[b].ptr = Null
      BY <1>3 DEF DeviceFree, Idle, OwnInv, PoolTypes
    <2>2. \A x \in Pointers : x # dev[b].ptr => memory'[x] = memory[x]
      BY <1>3 DEF DeviceFree, Freed, OwnInv, PoolTypes
    <2>3. dev[b].ptr # Null
      BY DEF DeviceFree, OwnInv, LabelInv
    <2>4. dev[b].ptr \notin Ptrs(free_list) /\ \A c \in Buffers : c # b => dev[c].ptr # dev[b].ptr
      BY <2>3 DEF OwnInv, Owned
    <2> QED
      BY <1>1, <2>1, <2>2, <2>4, OperationSize
  <1> QED
    BY <1>2, <1>3

\* An item says no more than its memory has.
LEMMA KeepSize ==
  ASSUME NEW b \in Buffers, OwnInv, OwnInv', SizeInv, Rounding, Keep(b)
  PROVE  SizeInv'
  <1>1. Changes(b, dev, dev') /\ reuse' = reuse /\ memory' = memory
    BY StepChanges DEF Step, Keep
  <1>2. dev'[b].pc = "none" /\ dev'[b].ptr = Null
    BY DEF Keep, Idle, OwnInv, PoolTypes
  <1>3. PICK x : /\ x = [ptr |-> dev[b].ptr, size |-> quantize_allocation_size(dev[b].bytes),
                         place |-> dev[b].place]
                 /\ free_list' = <<x>> \o free_list
    BY DEF Keep
  <1>4. /\ dev[b] \in Operations /\ dev[b].ptr # Null /\ dev[b].pc = "keep"
        /\ dev[b].bytes \in Sizes /\ free_list \in Seq(Items)
    BY DEF Keep, OwnInv, PoolTypes, LabelInv
  <1>5. x \in Items
    BY <1>3, <1>4 DEF Items, Operations, Rounding
  <1>6. \A i \in DOMAIN free_list' :
           free_list'[i] = x \/ \E j \in DOMAIN free_list : free_list'[i] = free_list[j]
    BY <1>3, <1>4, <1>5, InFront
  <1>7. memory[x.ptr] >= x.size
    <2>1. memory[dev[b].ptr] >= dev[b].size /\ dev[b].size >= x.size
      BY <1>3, <1>4 DEF SizeInv, Held, KeptInv, LargeEnough
    <2>2. memory[dev[b].ptr] \in Nat /\ dev[b].size \in Nat /\ x.size \in Nat
      BY <1>4, <1>5 DEF OwnInv, PoolTypes, Operations, Items
    <2> QED
      BY <1>3, <2>1, <2>2
  <1> QED
    BY <1>1, <1>2, <1>6, <1>7, OperationSize

\* The flag is set again only with every size rounded.
LEMMA ReuseSize ==
  ASSUME OwnInv, SizeInv, Rounding,
         (Rounded /\ Reuse) \/ ReuseNoLonger \/ ReleaseUnused \/ FreeUnused
  PROVE  SizeInv'
  <1>1. CASE Rounded /\ Reuse
    <2>1. /\ UNCHANGED <<free_list, memory, dev, unused>> /\ Rounded
      BY <1>1 DEF Reuse
    <2>2. ASSUME NEW b \in Buffers, dev[b].pc # "none" PROVE LargeEnough(dev[b])
      <3>1. dev[b].bytes \in Sizes /\ dev[b].size >= dev[b].bytes
        BY <2>2 DEF OwnInv, LabelInv
      <3>2. dev[b].size \in {0, quantize_allocation_size(dev[b].bytes)}
        BY <2>1 DEF Rounded
      <3>3. /\ dev[b].bytes \in Nat \ {0}
            /\ quantize_allocation_size(dev[b].bytes) \in Nat
        BY <3>1 DEF Rounding
      <3>4. dev[b].size # 0
        BY <3>1, <3>3
      <3> QED
        BY <3>2, <3>3, <3>4 DEF LargeEnough
    <2>3. KeptInv'
      BY <2>1, <2>2 DEF KeptInv, LargeEnough
    <2> QED
      BY <2>1, <2>3 DEF SizeInv, Held, Said
  <1>2. CASE ReuseNoLonger
    <2>1. ~reuse' /\ UNCHANGED <<free_list, memory, dev, unused>>
      BY <1>2 DEF ReuseNoLonger
    <2> QED
      BY <2>1 DEF SizeInv, Held, Said, KeptInv
  <1>3. CASE ReleaseUnused
    <2>1. free_list' = <<>> /\ UNCHANGED <<reuse, memory, dev>>
      BY <1>3 DEF ReleaseUnused
    <2> QED
      BY <2>1 DEF SizeInv, Held, Said, KeptInv
  <1>4. CASE FreeUnused
    <2>1. PICK p \in unused : /\ memory' = [memory EXCEPT ![p] = 0]
                              /\ UNCHANGED <<reuse, free_list, dev>>
      BY <1>4 DEF FreeUnused, Freed
    <2>2. p \notin Ptrs(free_list) /\ \A c \in Buffers : dev[c].ptr # p
      BY <2>1 DEF OwnInv, Owned
    <2>3. \A x \in Pointers : x # p => memory'[x] = memory[x]
      BY <2>1 DEF OwnInv, PoolTypes
    <2>4. Held(dev, memory')
      <3>1. \A c \in Buffers : dev[c].ptr \in Pointers \cup {Null}
        BY DEF OwnInv, PoolTypes, Operations
      <3> QED
        BY <2>2, <2>3, <3>1 DEF SizeInv, Held
    <2>5. Said(free_list, memory')
      <3>1. \A i \in DOMAIN free_list : free_list[i].ptr \in Pointers /\ free_list[i].ptr # p
        BY <2>2 DEF Ptrs, OwnInv, Owned
      <3> QED
        BY <2>3, <3>1 DEF SizeInv, Said
    <2> QED
      BY <2>1, <2>4, <2>5 DEF SizeInv, KeptInv
  <1> QED
    BY <1>1, <1>2, <1>3, <1>4

\* Every step leaves the sizes as they are said to be.
LEMMA SizeStep ==
  ASSUME Rounding
  PROVE  OwnInv /\ SizeInv /\ [RoundedNext]_vars => OwnInv' /\ SizeInv'
  <1> SUFFICES ASSUME OwnInv, SizeInv, [RoundedNext]_vars PROVE OwnInv' /\ SizeInv'
    OBVIOUS
  <1>1. OwnInv'
    <2>1. [RoundedNext]_vars => [Next]_vars
      BY DEF RoundedNext, Next
    <2> QED
      BY <2>1, OwnStep
  <1>2. CASE UNCHANGED vars
    BY <1>1, <1>2 DEF vars, SizeInv, Held, Said, KeptInv
  <1>3. CASE \E b \in Buffers : Step(b)
    BY <1>1, <1>3, MallocSize, SearchSize, FreeOldSize, AllocateSize, OutOfMemorySize,
       MallocFailsSize, DeviceFreeSize, KeepSize DEF Step
  <1>4. CASE (Rounded /\ Reuse) \/ ReuseNoLonger \/ ReleaseUnused \/ FreeUnused
    BY <1>1, <1>4, ReuseSize
  <1> QED
    BY <1>1, <1>2, <1>3, <1>4 DEF RoundedNext
-----------------------------------------------------------------------------
(* What the code promises *)

\* The owners that OneOwner speaks of, from what each thread and list has.
LEMMA OwnersAre == OwnInv /\ Null \notin Pointers => OneOwner
  <1> SUFFICES ASSUME OwnInv, Null \notin Pointers, NEW p \in Pointers
               PROVE  /\ (memory[p] = 0) <=> (Owners(p) = {})
                      /\ \A o1, o2 \in Owners(p) : o1 = o2
    BY Zenon DEF OneOwner
  <1>1. PICK L : L = Ptrs(free_list)
    OBVIOUS
  <1>2. Owned(dev, L, unused, memory) /\ Once(free_list) /\ p # Null
    BY <1>1 DEF OwnInv
  <1>3. ASSUME NEW o
        PROVE  o \in Owners(p) <=>
                  \/ \E b \in Buffers : o = <<"buffer", b>> /\ dev[b].ptr = p
                  \/ \E b \in Buffers : o = <<"old", b>> /\ p \in dev[b].to_free
                  \/ \E i \in DOMAIN free_list : o = <<"list", i>> /\ free_list[i].ptr = p
                  \/ o = <<"unused", 0>> /\ p \in unused
    BY DEF Owners
  <1>4. p \in L <=> \E i \in DOMAIN free_list : free_list[i].ptr = p
    BY <1>1 DEF Ptrs
  <1>5. memory[p] # 0 <=> \/ p \in L \cup unused
                          \/ \E b \in Buffers : dev[b].ptr = p \/ p \in dev[b].to_free
    BY <1>2 DEF Owned
  <1>6. (\E o : o \in Owners(p)) <=>
            \/ p \in L \cup unused
            \/ \E b \in Buffers : dev[b].ptr = p \/ p \in dev[b].to_free
    BY <1>3, <1>4
  <1>7. ASSUME NEW o1 \in Owners(p), NEW o2 \in Owners(p) PROVE o1 = o2
    <2>1. /\ \A b, c \in Buffers : dev[b].ptr = p /\ dev[c].ptr = p => b = c
          /\ \A b, c \in Buffers : ~ (dev[b].ptr = p /\ p \in dev[c].to_free)
          /\ \A b, c \in Buffers : p \in dev[b].to_free /\ p \in dev[c].to_free => b = c
          /\ \A b \in Buffers : dev[b].ptr = p \/ p \in dev[b].to_free => p \notin L \cup unused
          /\ ~ (p \in L /\ p \in unused)
      BY <1>2 DEF Owned
    <2>2. \A i, j \in DOMAIN free_list : free_list[i].ptr = p /\ free_list[j].ptr = p => i = j
      BY <1>2 DEF Once
    <2> QED
      BY <1>3, <1>4, <2>1, <2>2
  <1> QED
    BY <1>5, <1>6, <1>7

\* Whatever threads allocate, free, and let go of at once, and whether or not the flag
\* changes: each piece of memory of the driver has one owner, and is neither returned
\* twice nor forgotten.
THEOREM MemoryHasOneOwner == ASSUME Requests PROVE Spec => []OneOwner
  <1>1. Init => OwnInv
    BY InitOwn, RoundsUp
  <1>2. OwnInv /\ [Next]_vars => OwnInv'
    BY OwnStep, RoundsUp
  <1>3. OwnInv => OneOwner
    BY OwnersAre DEF Requests
  <1> QED
    BY <1>1, <1>2, <1>3, PTL DEF Spec

\* If reuse is allowed again only while every buffer has memory of a rounded size, then
\* memory is also never smaller than the buffer that uses it, or than the list says.
THEOREM PoolIsExact == ASSUME Requests PROVE RoundedSpec => []PoolExact
  <1>1. Init => OwnInv /\ SizeInv
    <2>1. Init => SizeInv
      BY DEF Init, Idle, SizeInv, Held, Said, KeptInv
    <2> QED
      BY <2>1, InitOwn, RoundsUp
  <1>2. OwnInv /\ SizeInv /\ [RoundedNext]_vars => OwnInv' /\ SizeInv'
    BY SizeStep, RoundsUp
  <1>3. OwnInv /\ SizeInv => PoolExact
    <2> SUFFICES ASSUME OwnInv, SizeInv PROVE PoolExact
      OBVIOUS
    <2>1. OneOwner
      BY OwnersAre DEF Requests
    <2>2. ASSUME NEW b \in Buffers, dev[b].ptr # Null
          PROVE  memory[dev[b].ptr] >= dev[b].bytes
      <3>1. dev[b] \in Operations /\ memory \in [Pointers -> Nat]
        BY DEF OwnInv, PoolTypes
      <3>2. dev[b].pc # "none" /\ dev[b].size >= dev[b].bytes
        BY <2>2 DEF OwnInv, LabelInv
      <3>3. memory[dev[b].ptr] >= dev[b].size
        BY <2>2 DEF SizeInv, Held
      <3>4. memory[dev[b].ptr] \in Nat /\ dev[b].size \in Nat /\ dev[b].bytes \in Nat
        BY <2>2, <3>1 DEF Operations
      <3> QED
        BY <3>2, <3>3, <3>4
    <2> QED
      BY <2>1, <2>2 DEF PoolExact, SizeInv, Said
  <1> QED
    BY <1>1, <1>2, <1>3, PTL DEF RoundedSpec
=============================================================================
