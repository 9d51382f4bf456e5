------------------------- MODULE BufferHandlesProofs -------------------------
(***************************************************************************)
(* The reference counts and the device memory of Halide::Runtime::Buffer,  *)
(* for any number of handles, allocations, counters and pieces of memory,  *)
(* and any order of the steps of drops.                                    *)
(***************************************************************************)
EXTENDS BufferHandles, FiniteSetTheorems, SequenceTheorems, TLAPS

\* Buffers and counters as records.
Buffers == [alloc : Allocs \cup {Null}, device : Memories \cup {Null},
            dev_ref_count : Counters \cup {Null}]
Ownerships == {"Allocated", "WrappedNative", "Unmanaged", "AllocatedDeviceAndHost", "Cropped"}
Counts == [count : Int, ownership : Ownerships, cropped_from : Buffers]

\* What is assumed of the constants: handles and counters are finitely many, and Null is
\* none of the things that are told apart from it.
Distinct ==
    /\ IsFiniteSet(Handles) /\ IsFiniteSet(Counters)
    /\ Null \notin Allocs \cup Memories \cup Counters
    /\ Null \notin Buffers \cup Counts
    /\ External \in Memories

Kinds  == {"buffer", "after", "crop", "host", "device"}
Places == Kinds \X (Handles \cup Counters)

\* What each place holds: Empty where nothing is held.
Held == [p \in Places |-> IF p \in Holders THEN At(p) ELSE Empty]

\* What each handle is to free, and whose count it is to delete.
Doing(op) == [h \in Handles |-> IF Tasks(h, op) = {} THEN Empty ELSE At(<<op, h>>)]
Last    == Doing("free")
Deleted == Doing("delete")
-----------------------------------------------------------------------------
(* The invariant *)

Task(op, b) == [op |-> op, b |-> b]
HostParts   == {b \in Buffers : b.alloc # Null /\ b.device = Null /\ b.dev_ref_count = Null}
DeviceParts == {b \in Buffers : b.alloc = Null /\ (b.device # Null \/ b.dev_ref_count # Null)}

\* What is left of a drop: of two parts, of one, or what a count of zero has led to.
Shaped(s) ==
    \/ s = <<>>
    \/ \E x \in HostParts : s = <<Task("host", x)>>
    \/ \E x \in HostParts, y \in DeviceParts : s = <<Task("host", x), Task("device", y)>>
    \/ \E y \in DeviceParts : s = <<Task("device", y)>>
    \/ \E y \in DeviceParts : y.device # Null /\ y.dev_ref_count = Null
                              /\ s = <<Task("free", y)>>
    \/ \E y \in DeviceParts : y.device # Null /\ y.dev_ref_count # Null
                              /\ s = <<Task("free", y), Task("delete", y)>>
    \/ \E y \in DeviceParts : y.dev_ref_count # Null /\ s = <<Task("delete", y)>>

HandleTypes ==
    /\ buffer \in [Handles -> Buffers]
    /\ refs \in [Allocs -> Int]
    /\ memory \in [Memories -> [how : Ownerships \cup {"Free"}, of : Memories \cup {Null}]]
    /\ counter \in [Counters -> Counts \cup {Null}]
    /\ after \in [Handles -> Buffers \cup {Null}]
    /\ todo = [h \in Handles |-> todo[h]]

\* A handle that is in no call has nothing left to do; one that is holds nothing yet.
TodoInv ==
    \A h \in Handles :
        /\ Shaped(todo[h])
        /\ Idle(h) => todo[h] = <<>>
        /\ ~Idle(h) => buffer[h] = Empty

\* The count of a crop has what it was cropped from, with its memory and its count.
CropInv ==
    \A c \in Counters : counter[c] # Null =>
        LET b == counter[c].cropped_from IN
        IF counter[c].ownership = "Cropped" THEN b.device # Null /\ b.dev_ref_count # Null
        ELSE b = Empty

\* How many places hold an allocation, or a count, when H is what they hold.
Allocating(H, a) == Cardinality({p \in Places : H[p].alloc = a})
Counting(H, c)   == Cardinality({p \in Places : H[p].dev_ref_count = c})

\* Each count is that of the places that hold it.
RefsInv  == \A a \in Allocs : refs[a] = Allocating(Held, a)
CountInv == \A c \in Counters :
    Counting(Held, c) = IF counter[c] = Null THEN 0 ELSE counter[c].count

\* A count of zero is deleted by the one handle that found it.
DeleteInv ==
    /\ \A h \in Handles : Deleted[h].dev_ref_count # Null =>
           /\ counter[Deleted[h].dev_ref_count] # Null
           /\ counter[Deleted[h].dev_ref_count].count = 0
           /\ \A g \in Handles : Deleted[g].dev_ref_count = Deleted[h].dev_ref_count => g = h
    /\ \A c \in Counters : counter[c] # Null /\ counter[c].count = 0 =>
           \E h \in Handles : Deleted[h].dev_ref_count = c

CountsInv == HandleTypes /\ TodoInv /\ CropInv /\ RefsInv /\ CountInv /\ DeleteInv

\* The holders of a count hold the same memory.
SameDevice ==
    \A p, q \in Places : Held[p].dev_ref_count # Null
                         /\ Held[p].dev_ref_count = Held[q].dev_ref_count
        => Held[p].device = Held[q].device

\* Memory is held through one count, or in one place without a count, ...
OneWay ==
    \A p, q \in Places : Held[p].device \notin {Null, External}
                         /\ Held[p].device = Held[q].device
        => /\ Held[p].dev_ref_count = Held[q].dev_ref_count
           /\ Held[p].dev_ref_count = Null => p = q

\* ... or freed by one handle, when nobody holds it.
FreedOnce ==
    \A h \in Handles : Last[h].device \notin {Null, External} =>
        /\ \A p \in Places : Held[p].device # Last[h].device
        /\ \A g \in Handles : Last[g].device = Last[h].device => g = h

\* What b says of the memory it has is so: how to free it, and what it is a crop of.
Describes(b) ==
    b.device # Null =>
        /\ memory[b.device].how = device_ownership(b)
        /\ device_ownership(b) = "Cropped" =>
               memory[b.device].of = counter[b.dev_ref_count].cropped_from.device
DescribedInv ==
    /\ \A p \in Places : Describes(Held[p])
    /\ \A h \in Handles : Describes(Last[h])

\* Memory that is not free is had by somebody.
NotLost ==
    /\ memory[External].how = "Unmanaged"
    /\ \A m \in Memories \ {External} :
        /\ memory[m].how # "Unmanaged"
        /\ memory[m].how # "Free" => \/ \E p \in Places : Held[p].device = m
                                    \/ \E h \in Handles : Last[h].device = m

MemoryInv == SameDevice /\ OneWay /\ FreedOnce /\ DescribedInv /\ NotLost
-----------------------------------------------------------------------------
(* Counting *)

\* There are finitely many places.
LEMMA PlacesFinite == ASSUME Distinct PROVE IsFiniteSet(Places)
  <1>1. IsFiniteSet(Handles \cup Counters)
    BY FS_Union DEF Distinct
  <1>2. IsFiniteSet({"buffer"})
    BY FS_Singleton
  <1>3. \A S, k : IsFiniteSet(S) => IsFiniteSet(S \cup {k})
    BY FS_AddElement
  <1>4. IsFiniteSet(((({"buffer"} \cup {"after"}) \cup {"crop"}) \cup {"host"}) \cup {"device"})
    BY ONLY <1>2, <1>3
  <1>5. Kinds = ((({"buffer"} \cup {"after"}) \cup {"crop"}) \cup {"host"}) \cup {"device"}
    BY DEF Kinds
  <1>6. IsFiniteSet(Kinds)
    BY <1>4, <1>5
  <1> QED
    BY <1>1, <1>6, FS_Product DEF Places

\* Two sets that differ by one element at most.
LEMMA DifferBy ==
  ASSUME NEW S, NEW T, NEW x, IsFiniteSet(S), IsFiniteSet(T), S \ {x} = T \ {x}
  PROVE  /\ Cardinality(S) \in Nat
         /\ Cardinality(T) = Cardinality(S) - (IF x \in S THEN 1 ELSE 0)
                                           + (IF x \in T THEN 1 ELSE 0)
  <1>1. Cardinality(S) \in Nat /\ Cardinality(T) \in Nat
    BY FS_CardinalityType
  <1>2. Cardinality(S \ {x}) = IF x \in S THEN Cardinality(S) - 1 ELSE Cardinality(S)
    BY FS_RemoveElement
  <1>3. Cardinality(T \ {x}) = IF x \in T THEN Cardinality(T) - 1 ELSE Cardinality(T)
    BY FS_RemoveElement
  <1>4. Cardinality(S \ {x}) = Cardinality(T \ {x})
    OBVIOUS
  <1> QED
    BY ONLY <1>1, <1>2, <1>3, <1>4

One(x, y) == IF x = y THEN 1 ELSE 0

\* What one place holds instead counts for what it held.
LEMMA Assigned ==
  ASSUME Distinct, NEW H \in [Places -> Buffers], NEW G \in [Places -> Buffers],
         NEW x \in Places, \A p \in Places : p # x => G[p] = H[p]
  PROVE  /\ \A a \in Allocs :
              /\ Allocating(H, a) \in Nat
              /\ Allocating(G, a) = Allocating(H, a) - One(H[x].alloc, a) + One(G[x].alloc, a)
         /\ \A c \in Counters :
              /\ Counting(H, c) \in Nat
              /\ Counting(G, c) = Counting(H, c) - One(H[x].dev_ref_count, c)
                                                 + One(G[x].dev_ref_count, c)
  <1>1. ASSUME NEW S \in SUBSET Places, NEW T \in SUBSET Places, S \ {x} = T \ {x}
        PROVE  /\ Cardinality(S) \in Nat
               /\ Cardinality(T) = Cardinality(S) - (IF x \in S THEN 1 ELSE 0)
                                                 + (IF x \in T THEN 1 ELSE 0)
    <2>1. IsFiniteSet(S) /\ IsFiniteSet(T)
      BY PlacesFinite, FS_Subset
    <2> QED
      BY ONLY <1>1, <2>1, DifferBy
  <1>2. ASSUME NEW a \in Allocs
        PROVE  /\ Allocating(H, a) \in Nat
               /\ Allocating(G, a) = Allocating(H, a) - One(H[x].alloc, a) + One(G[x].alloc, a)
    <2> DEFINE S == {p \in Places : H[p].alloc = a}
               T == {p \in Places : G[p].alloc = a}
    <2>1. S \in SUBSET Places /\ T \in SUBSET Places /\ S \ {x} = T \ {x}
      OBVIOUS
    <2>2. (x \in S <=> H[x].alloc = a) /\ (x \in T <=> G[x].alloc = a)
      OBVIOUS
    <2>3. Allocating(H, a) = Cardinality(S) /\ Allocating(G, a) = Cardinality(T)
      BY DEF Allocating
    <2> HIDE DEF S, T
    <2> QED
      BY <1>1, <2>1, <2>2, <2>3 DEF One
  <1>3. ASSUME NEW c \in Counters
        PROVE  /\ Counting(H, c) \in Nat
               /\ Counting(G, c) = Counting(H, c) - One(H[x].dev_ref_count, c)
                                                 + One(G[x].dev_ref_count, c)
    <2> DEFINE S == {p \in Places : H[p].dev_ref_count = c}
               T == {p \in Places : G[p].dev_ref_count = c}
    <2>1. S \in SUBSET Places /\ T \in SUBSET Places /\ S \ {x} = T \ {x}
      OBVIOUS
    <2>2. (x \in S <=> H[x].dev_ref_count = c) /\ (x \in T <=> G[x].dev_ref_count = c)
      OBVIOUS
    <2>3. Counting(H, c) = Cardinality(S) /\ Counting(G, c) = Cardinality(T)
      BY DEF Counting
    <2> HIDE DEF S, T
    <2> QED
      BY <1>1, <2>1, <2>2, <2>3 DEF One
  <1> QED
    BY <1>2, <1>3

\* Nobody has what nobody counts; who has it is counted, and alone when the count is one.
LEMMA Counted0 ==
  ASSUME Distinct, NEW H \in [Places -> Buffers], NEW c \in Counters
  PROVE  /\ Counting(H, c) \in Nat
         /\ Counting(H, c) = 0 <=> \A p \in Places : H[p].dev_ref_count # c
         /\ Counting(H, c) = 1 => \A p, q \in Places :
              H[p].dev_ref_count = c /\ H[q].dev_ref_count = c => p = q
  <1> DEFINE S == {p \in Places : H[p].dev_ref_count = c}
  <1>1. IsFiniteSet(S)
    BY PlacesFinite, FS_Subset
  <1>2. Cardinality(S) \in Nat
    BY <1>1, FS_CardinalityType
  <1>3. Cardinality(S) = 0 <=> S = {}
    BY <1>1, FS_EmptySet
  <1>4. Cardinality(S) = 1 => \E x : S = {x}
    BY <1>1, FS_Singleton
  <1> QED
    BY <1>2, <1>3, <1>4 DEF Counting

-----------------------------------------------------------------------------
(* What is left of a drop, by the operation *)

\* The buffer of the task with an operation: Empty if there is none.
Of(s, op) ==
    LET I == {i \in DOMAIN s : s[i].op = op} IN
    IF I = {} THEN Empty ELSE s[CHOOSE i \in I : TRUE].b

\* Of no task, of one and of two.
LEMMA OfTasks ==
  ASSUME NEW op
  PROVE  /\ Of(<<>>, op) = Empty
         /\ \A o, x : Of(<<Task(o, x)>>, op) = IF o = op THEN x ELSE Empty
         /\ \A o, x, q, y : o # q =>
              Of(<<Task(o, x), Task(q, y)>>, op)
                = IF o = op THEN x ELSE IF q = op THEN y ELSE Empty
  <1>1. Of(<<>>, op) = Empty
    BY DEF Of
  <1>2. ASSUME NEW o, NEW x
        PROVE  Of(<<Task(o, x)>>, op) = IF o = op THEN x ELSE Empty
    <2> DEFINE s == <<Task(o, x)>>
               I == {i \in DOMAIN s : s[i].op = op}
    <2>1. DOMAIN s = {1} /\ s[1].op = o /\ s[1].b = x
      BY DEF Task
    <2> HIDE DEF s
    <2>2. CASE o = op
      <3>1. I = {1}
        BY <2>1, <2>2
      <3>2. (CHOOSE i \in {1} : TRUE) = 1
        OBVIOUS
      <3>3. Of(s, op) = s[1].b
        BY <3>1, <3>2 DEF Of
      <3> QED
        BY <3>3, <2>1, <2>2 DEF s
    <2>3. CASE o # op
      <3>1. I = {}
        BY <2>1, <2>3
      <3>2. Of(s, op) = Empty
        BY <3>1 DEF Of
      <3> QED
        BY <3>2, <2>3 DEF s
    <2> QED
      BY <2>2, <2>3
  <1>3. ASSUME NEW o, NEW x, NEW q, NEW y, o # q
        PROVE  Of(<<Task(o, x), Task(q, y)>>, op)
                 = IF o = op THEN x ELSE IF q = op THEN y ELSE Empty
    <2> DEFINE s == <<Task(o, x), Task(q, y)>>
               I == {i \in DOMAIN s : s[i].op = op}
    <2>1. DOMAIN s = {1, 2} /\ s[1].op = o /\ s[1].b = x /\ s[2].op = q /\ s[2].b = y
      BY DEF Task
    <2> HIDE DEF s
    <2>2. CASE o = op
      <3>1. I = {1}
        BY <2>1, <2>2, <1>3
      <3>2. (CHOOSE i \in {1} : TRUE) = 1
        OBVIOUS
      <3>3. Of(s, op) = s[1].b
        BY <3>1, <3>2 DEF Of
      <3> QED
        BY <3>3, <2>1, <2>2 DEF s
    <2>3. CASE q = op
      <3>1. I = {2}
        BY <2>1, <2>3, <1>3
      <3>2. (CHOOSE i \in {2} : TRUE) = 2
        OBVIOUS
      <3>3. Of(s, op) = s[2].b
        BY <3>1, <3>2 DEF Of
      <3> QED
        BY <3>3, <2>1, <2>3, <1>3 DEF s
    <2>4. CASE o # op /\ q # op
      <3>1. I = {}
        BY <2>1, <2>4
      <3>2. Of(s, op) = Empty
        BY <3>1 DEF Of
      <3> QED
        BY <3>2, <2>4 DEF s
    <2> QED
      BY <2>2, <2>3, <2>4
  <1> QED
    BY <1>1, <1>2, <1>3

\* OfTasks, for what is known to be one task or two.
LEMMA OfOne ==
  ASSUME NEW s, NEW o, NEW x, s = <<Task(o, x)>>
  PROVE  \A op : Of(s, op) = IF o = op THEN x ELSE Empty
  <1> TAKE op
  <1>1. \A oo, xx : Of(<<Task(oo, xx)>>, op) = IF oo = op THEN xx ELSE Empty
    BY OfTasks
  <1> QED
    BY ONLY s = <<Task(o, x)>>, <1>1

LEMMA OfTwo ==
  ASSUME NEW s, NEW o, NEW x, NEW q, NEW y, o # q, s = <<Task(o, x), Task(q, y)>>
  PROVE  \A op : Of(s, op) = IF o = op THEN x ELSE IF q = op THEN y ELSE Empty
  <1> TAKE op
  <1>1. \A oo, xx, qq, yy : oo # qq =>
          Of(<<Task(oo, xx), Task(qq, yy)>>, op)
            = IF oo = op THEN xx ELSE IF qq = op THEN yy ELSE Empty
    BY OfTasks
  <1> QED
    BY ONLY o # q, s = <<Task(o, x), Task(q, y)>>, <1>1

\* The two parts of what is dropped.
HostPart(b)   == [Empty EXCEPT !.alloc = b.alloc]
DevicePart(b) == [b EXCEPT !.alloc = Null]

\* Sequences of two parts at most.
LEMMA Joins ==
    \A t, u : /\ <<t>> \o <<u>> = <<t, u>> /\ <<t>> \o <<>> = <<t>>
             /\ <<>> \o <<u>> = <<u>> /\ <<>> \o <<>> = <<>>
  <1> TAKE t, u
  <1>1. <<t>> \o <<u>> = <<t, u>>
    <2> DEFINE S == {t, u}
    <2>1. <<t>> \in Seq(S) /\ <<u>> \in Seq(S) /\ <<t, u>> \in Seq(S)
      OBVIOUS
    <2>2. Len(<<t>>) = 1 /\ Len(<<u>>) = 1 /\ Len(<<t, u>>) = 2
      OBVIOUS
    <2>3. <<t>> \o <<u>> \in Seq(S) /\ Len(<<t>> \o <<u>>) = 2
      BY <2>1, <2>2, ConcatProperties
    <2>4. (<<t>> \o <<u>>)[1] = t /\ (<<t>> \o <<u>>)[2] = u
      <3>1. \A i \in 1..2 : (<<t>> \o <<u>>)[i] = IF i <= 1 THEN <<t>>[i] ELSE <<u>>[i - 1]
        BY <2>1, <2>2, ConcatProperties
      <3> QED
        BY <3>1
    <2>5. \A i \in 1..2 : (<<t>> \o <<u>>)[i] = <<t, u>>[i]
      <3> TAKE i \in 1..2
      <3>1. i = 1 \/ i = 2
        OBVIOUS
      <3> QED
        BY <3>1, <2>4
    <2> QED
      BY ONLY <2>1, <2>2, <2>3, <2>5, SeqEqual
  <1>2. <<t>> \o <<>> = <<t>>
    OBVIOUS
  <1>3. <<>> \o <<u>> = <<u>>
    OBVIOUS
  <1>4. <<>> \o <<>> = <<>>
    OBVIOUS
  <1> QED
    BY <1>1, <1>2, <1>3, <1>4

\* What a decref is, by its parts: the task of a part that holds nothing is not there.
LEMMA DecrefIs ==
  ASSUME Distinct, NEW b \in Buffers, NEW device_only \in BOOLEAN
  PROVE  /\ Shaped(Decref(b, device_only))
         /\ HostPart(b) \in Buffers /\ DevicePart(b) \in Buffers
         /\ Of(Decref(b, device_only), "host") = IF device_only THEN Empty ELSE HostPart(b)
         /\ Of(Decref(b, device_only), "device") = DevicePart(b)
         /\ Of(Decref(b, device_only), "free") = Empty
         /\ Of(Decref(b, device_only), "delete") = Empty
  <1> DEFINE s == Decref(b, device_only)
             x == HostPart(b)
             y == DevicePart(b)
             hosts == b.alloc # Null /\ ~device_only
             devices == b.device # Null \/ b.dev_ref_count # Null
  <1>1. /\ x = [alloc |-> b.alloc, device |-> Null, dev_ref_count |-> Null]
        /\ y = [alloc |-> Null, device |-> b.device, dev_ref_count |-> b.dev_ref_count]
        /\ Empty = [alloc |-> Null, device |-> Null, dev_ref_count |-> Null]
        /\ x \in Buffers /\ y \in Buffers /\ Empty \in Buffers
    BY DEF HostPart, DevicePart, Empty, Buffers
  <1>2. (b.alloc = Null => x = Empty) /\ (~devices => y = Empty)
    BY <1>1
  <1>3. s = (IF hosts THEN <<Task("host", x)>> ELSE <<>>)
            \o (IF devices THEN <<Task("device", y)>> ELSE <<>>)
    BY DEF Decref, Task, HostPart, DevicePart
  <1>4. (hosts => x \in HostParts) /\ (devices => y \in DeviceParts)
    BY <1>1 DEF HostParts, DeviceParts
  <1> SUFFICES /\ Shaped(s)
               /\ Of(s, "host") = (IF device_only THEN Empty ELSE x)
               /\ Of(s, "device") = y
               /\ Of(s, "free") = Empty /\ Of(s, "delete") = Empty
    BY <1>1
  <1> HIDE DEF x, y, s
  <1>5. CASE hosts /\ devices
    <2>1. s = <<Task("host", x), Task("device", y)>>
      BY <1>3, <1>5, Joins
    <2>2. Shaped(s)
      BY <2>1, <1>4, <1>5 DEF Shaped
    <2>7. \A op : Of(s, op) = IF "host" = op THEN x ELSE IF "device" = op THEN y ELSE Empty
      <3>1. "host" # "device"
        OBVIOUS
      <3> QED
        BY ONLY <2>1, <3>1, OfTwo
    <2>3. Of(s, "host") = x
      BY <2>7
    <2>4. Of(s, "device") = y
      BY <2>7
    <2>5. Of(s, "free") = Empty
      BY <2>7
    <2>6. Of(s, "delete") = Empty
      BY <2>7
    <2> QED
      BY <2>2, <2>3, <2>4, <2>5, <2>6, <1>2, <1>5
  <1>6. CASE hosts /\ ~devices
    <2>1. s = <<Task("host", x)>>
      BY <1>3, <1>6, Joins
    <2>2. Shaped(s)
      BY <2>1, <1>4, <1>6 DEF Shaped
    <2>0. \A op : Of(s, op) = IF "host" = op THEN x ELSE Empty
      BY ONLY <2>1, OfOne
    <2>3. Of(s, "host") = x
      BY <2>0
    <2>4. Of(s, "device") = Empty
      BY <2>0
    <2>5. Of(s, "free") = Empty
      BY <2>0
    <2>6. Of(s, "delete") = Empty
      BY <2>0
    <2> QED
      BY <2>2, <2>3, <2>4, <2>5, <2>6, <1>2, <1>6
  <1>7. CASE ~hosts /\ devices
    <2>1. s = <<Task("device", y)>>
      BY <1>3, <1>7, Joins
    <2>2. Shaped(s)
      BY <2>1, <1>4, <1>7 DEF Shaped
    <2>0. \A op : Of(s, op) = IF "device" = op THEN y ELSE Empty
      BY ONLY <2>1, OfOne
    <2>3. Of(s, "host") = Empty
      BY <2>0
    <2>4. Of(s, "device") = y
      BY <2>0
    <2>5. Of(s, "free") = Empty
      BY <2>0
    <2>6. Of(s, "delete") = Empty
      BY <2>0
    <2> QED
      BY <2>2, <2>3, <2>4, <2>5, <2>6, <1>2, <1>7
  <1>8. CASE ~hosts /\ ~devices
    <2>1. s = <<>>
      BY <1>3, <1>8, Joins
    <2>2. Shaped(s)
      BY <2>1, <1>4, <1>8 DEF Shaped
    <2>3. Of(s, "host") = Empty
      BY <2>1, OfTasks
    <2>4. Of(s, "device") = Empty
      BY <2>1, OfTasks
    <2>5. Of(s, "free") = Empty
      BY <2>1, OfTasks
    <2>6. Of(s, "delete") = Empty
      BY <2>1, OfTasks
    <2> QED
      BY <2>2, <2>3, <2>4, <2>5, <2>6, <1>2, <1>8
  <1> QED
    BY <1>5, <1>6, <1>7, <1>8

\* What a handle, a call, a count and a task hold, by place.
HeldByPlace ==
    /\ \A h \in Handles :
         /\ Held[<<"buffer", h>>] = buffer[h]
         /\ Held[<<"after", h>>] = IF after[h] = Null THEN Empty ELSE after[h]
         /\ Held[<<"host", h>>] = Of(todo[h], "host")
         /\ Held[<<"device", h>>] = Of(todo[h], "device")
         /\ Last[h] = Of(todo[h], "free")
         /\ Deleted[h] = Of(todo[h], "delete")
    /\ \A c \in Counters :
         Held[<<"crop", c>>] = IF counter[c] = Null THEN Empty ELSE counter[c].cropped_from
    /\ \A p \in Places :
         /\ p[1] \in Kinds /\ p = <<p[1], p[2]>>
         /\ IF p[1] = "crop" THEN p[2] \notin Counters => Held[p] = Empty
            ELSE p[2] \notin Handles => Held[p] = Empty
\* What is held in each place, by the variables.
LEMMA ByPlace == HeldByPlace
  <1>1. ASSUME NEW h \in Handles
        PROVE  /\ Held[<<"buffer", h>>] = buffer[h]
               /\ Held[<<"after", h>>] = IF after[h] = Null THEN Empty ELSE after[h]
    <2>1. <<"buffer", h>> \in Places /\ <<"after", h>> \in Places
      BY DEF Places, Kinds
    <2>2. <<"buffer", h>> \in Holders
      BY DEF Holders
    <2>3. <<"after", h>> \in Holders <=> after[h] # Null
      BY DEF Holders, During, Idle
    <2> QED
      BY <2>1, <2>2, <2>3 DEF Held, At
  <1>2. ASSUME NEW h \in Handles, NEW op \in {"host", "device"}
        PROVE  Held[<<op, h>>] = Of(todo[h], op)
    <2>1. <<op, h>> \in Places
      BY DEF Places, Kinds
    <2>2. <<op, h>> \in Holders <=> Tasks(h, op) # {}
      BY DEF Holders, During
    <2>3. At(<<op, h>>) = todo[h][CHOOSE i \in Tasks(h, op) : TRUE].b
      BY DEF At
    <2> QED
      BY <2>1, <2>2, <2>3 DEF Held, Of, Tasks
  <1>3. ASSUME NEW h \in Handles
        PROVE  Last[h] = Of(todo[h], "free") /\ Deleted[h] = Of(todo[h], "delete")
    BY DEF Last, Deleted, Doing, At, Of, Tasks
  <1>4. ASSUME NEW c \in Counters
        PROVE  Held[<<"crop", c>>]
                 = IF counter[c] = Null THEN Empty ELSE counter[c].cropped_from
    <2>1. <<"crop", c>> \in Places
      BY DEF Places, Kinds
    <2>2. <<"crop", c>> \in Holders <=> counter[c] # Null
      BY DEF Holders, During
    <2> QED
      BY <2>1, <2>2 DEF Held, At
  <1>5. ASSUME NEW p \in Places
        PROVE  /\ p[1] \in Kinds /\ p = <<p[1], p[2]>>
               /\ IF p[1] = "crop" THEN p[2] \notin Counters => Held[p] = Empty
                  ELSE p[2] \notin Handles => Held[p] = Empty
    <2>1. p[1] \in Kinds /\ p = <<p[1], p[2]>>
      BY DEF Places
    <2>2. p[1] = "crop" /\ p[2] \notin Counters => p \notin Holders
      BY <2>1 DEF Holders, During
    <2>3. p[1] # "crop" /\ p[2] \notin Handles => p \notin Holders
      BY <2>1 DEF Holders, During
    <2> QED
      BY <2>1, <2>2, <2>3 DEF Held
  <1> QED
    BY <1>1, <1>2, <1>3, <1>4, <1>5 DEF HeldByPlace

-----------------------------------------------------------------------------
(* Counting what changes hands *)

\* The places of a handle, and how often it has an allocation or a count in them.
HandleKinds == {"buffer", "after", "host", "device"}
HandlePlaces(h) == HandleKinds \X {h}
AllocsOf(H, h, a) ==
    One(H[<<"buffer", h>>].alloc, a) + One(H[<<"after", h>>].alloc, a)
    + One(H[<<"host", h>>].alloc, a) + One(H[<<"device", h>>].alloc, a)
CountsOf(H, h, c) ==
    One(H[<<"buffer", h>>].dev_ref_count, c) + One(H[<<"after", h>>].dev_ref_count, c)
    + One(H[<<"host", h>>].dev_ref_count, c) + One(H[<<"device", h>>].dev_ref_count, c)

\* G differs from H in the places of h, and in those of P.
Changes(H, G, h, P) == \A p \in Places : p \notin HandlePlaces(h) \cup P => G[p] = H[p]

\* Only the places of one handle are changed.
LEMMA Moved0 ==
  ASSUME Distinct, NEW H \in [Places -> Buffers], NEW G \in [Places -> Buffers],
         NEW h \in Handles, Changes(H, G, h, {})
  PROVE  /\ \A a \in Allocs : /\ Allocating(H, a) \in Nat
                              /\ Allocating(G, a) = Allocating(H, a) - AllocsOf(H, h, a)
                                                                     + AllocsOf(G, h, a)
         /\ \A c \in Counters : /\ Counting(H, c) \in Nat
                                /\ Counting(G, c) = Counting(H, c) - CountsOf(H, h, c)
                                                                   + CountsOf(G, h, c)
  <1> DEFINE w == <<"buffer", h>>
             x == <<"after", h>>
             y == <<"host", h>>
             z == <<"device", h>>
             H1 == [H EXCEPT ![w] = G[w]]
             H2 == [H1 EXCEPT ![x] = G[x]]
             H3 == [H2 EXCEPT ![y] = G[y]]
             H4 == [H3 EXCEPT ![z] = G[z]]
  <1>1. w \in Places /\ x \in Places /\ y \in Places /\ z \in Places
    BY DEF Places, Kinds
  <1>2. w # x /\ w # y /\ w # z /\ x # y /\ x # z /\ y # z
    OBVIOUS
  <1>3. HandlePlaces(h) = {w, x, y, z}
    BY DEF HandlePlaces, HandleKinds
  <1>4. G[w] \in Buffers /\ G[x] \in Buffers /\ G[y] \in Buffers /\ G[z] \in Buffers
    BY <1>1
  <1>5. /\ AllocsOf(H, h, 0) = AllocsOf(H, h, 0)
        /\ \A K \in {H, G}, a \in Allocs :
             AllocsOf(K, h, a) = One(K[w].alloc, a) + One(K[x].alloc, a)
                                 + One(K[y].alloc, a) + One(K[z].alloc, a)
        /\ \A K \in {H, G}, c \in Counters :
             CountsOf(K, h, c) = One(K[w].dev_ref_count, c) + One(K[x].dev_ref_count, c)
                                 + One(K[y].dev_ref_count, c) + One(K[z].dev_ref_count, c)
    BY DEF AllocsOf, CountsOf
  <1> HIDE DEF w, x, y, z
  <1>6. /\ H1 \in [Places -> Buffers] /\ H2 \in [Places -> Buffers]
        /\ H3 \in [Places -> Buffers] /\ H4 \in [Places -> Buffers]
    BY <1>4
  <1>7. G = H4
    <2>1. \A p \in Places : G[p] = H4[p]
      BY <1>1, <1>2, <1>3, <1>6 DEF Changes
    <2> QED
      BY <2>1, <1>6
  <1>8. /\ H1[x] = H[x] /\ H2[y] = H[y] /\ H3[z] = H[z]
        /\ H1[w] = G[w] /\ H2[x] = G[x] /\ H3[y] = G[y] /\ H4[z] = G[z]
    BY <1>1, <1>2
  <1>21. \A p \in Places : p # w => H1[p] = H[p]
    BY <1>1
  <1>22. \A p \in Places : p # x => H2[p] = H1[p]
    BY <1>1
  <1>23. \A p \in Places : p # y => H3[p] = H2[p]
    BY <1>1
  <1>24. \A p \in Places : p # z => H4[p] = H3[p]
    BY <1>1
  <1> HIDE DEF H1, H2, H3, H4
  <1>9. /\ \A a \in Allocs :
             /\ Allocating(H, a) \in Nat
             /\ Allocating(H1, a) = Allocating(H, a) - One(H[w].alloc, a) + One(H1[w].alloc, a)
        /\ \A c \in Counters :
             /\ Counting(H, c) \in Nat
             /\ Counting(H1, c) = Counting(H, c) - One(H[w].dev_ref_count, c)
                                                 + One(H1[w].dev_ref_count, c)
    BY ONLY Distinct, <1>1, <1>6, <1>21, H \in [Places -> Buffers], Assigned
  <1>10. /\ \A a \in Allocs :
             /\ Allocating(H1, a) \in Nat
             /\ Allocating(H2, a) = Allocating(H1, a) - One(H1[x].alloc, a) + One(H2[x].alloc, a)
        /\ \A c \in Counters :
             /\ Counting(H1, c) \in Nat
             /\ Counting(H2, c) = Counting(H1, c) - One(H1[x].dev_ref_count, c)
                                                 + One(H2[x].dev_ref_count, c)
    BY ONLY Distinct, <1>1, <1>6, <1>22, H \in [Places -> Buffers], Assigned
  <1>11. /\ \A a \in Allocs :
             /\ Allocating(H2, a) \in Nat
             /\ Allocating(H3, a) = Allocating(H2, a) - One(H2[y].alloc, a) + One(H3[y].alloc, a)
        /\ \A c \in Counters :
             /\ Counting(H2, c) \in Nat
             /\ Counting(H3, c) = Counting(H2, c) - One(H2[y].dev_ref_count, c)
                                                 + One(H3[y].dev_ref_count, c)
    BY ONLY Distinct, <1>1, <1>6, <1>23, H \in [Places -> Buffers], Assigned
  <1>12. /\ \A a \in Allocs :
             /\ Allocating(H3, a) \in Nat
             /\ Allocating(H4, a) = Allocating(H3, a) - One(H3[z].alloc, a) + One(H4[z].alloc, a)
        /\ \A c \in Counters :
             /\ Counting(H3, c) \in Nat
             /\ Counting(H4, c) = Counting(H3, c) - One(H3[z].dev_ref_count, c)
                                                 + One(H4[z].dev_ref_count, c)
    BY ONLY Distinct, <1>1, <1>6, <1>24, H \in [Places -> Buffers], Assigned
  <1>13. \A u, v : One(u, v) \in {0, 1}
    BY DEF One
  <1>14. ASSUME NEW a \in Allocs
         PROVE  Allocating(G, a) = Allocating(H, a) - AllocsOf(H, h, a) + AllocsOf(G, h, a)
    BY <1>5, <1>7, <1>8, <1>9, <1>10, <1>11, <1>12, <1>13
  <1>15. ASSUME NEW c \in Counters
         PROVE  Counting(G, c) = Counting(H, c) - CountsOf(H, h, c) + CountsOf(G, h, c)
    BY <1>5, <1>7, <1>8, <1>9, <1>10, <1>11, <1>12, <1>13
  <1> QED
    BY <1>9, <1>14, <1>15

\* The places of one handle and one other place.
LEMMA Moved1 ==
  ASSUME Distinct, NEW H \in [Places -> Buffers], NEW G \in [Places -> Buffers],
         NEW h \in Handles, NEW y \in Places, y \notin HandlePlaces(h), Changes(H, G, h, {y})
  PROVE  /\ \A a \in Allocs :
              /\ Allocating(H, a) \in Nat
              /\ Allocating(G, a) = Allocating(H, a) - AllocsOf(H, h, a) + AllocsOf(G, h, a)
                                    - One(H[y].alloc, a) + One(G[y].alloc, a)
         /\ \A c \in Counters :
              /\ Counting(H, c) \in Nat
              /\ Counting(G, c) = Counting(H, c) - CountsOf(H, h, c) + CountsOf(G, h, c)
                                  - One(H[y].dev_ref_count, c) + One(G[y].dev_ref_count, c)
  <1> DEFINE K == [H EXCEPT ![y] = G[y]]
  <1>1. /\ K \in [Places -> Buffers] /\ K[y] = G[y]
        /\ \A p \in Places : p # y => K[p] = H[p]
    OBVIOUS
  <1>2. \A p \in Places : p \notin HandlePlaces(h) => G[p] = K[p]
    BY DEF Changes
  <1>3. \A p \in HandlePlaces(h) : K[p] = H[p]
    OBVIOUS
  <1>4. /\ <<"buffer", h>> \in HandlePlaces(h) /\ <<"after", h>> \in HandlePlaces(h)
        /\ <<"host", h>> \in HandlePlaces(h) /\ <<"device", h>> \in HandlePlaces(h)
    BY DEF HandlePlaces, HandleKinds
  <1> HIDE DEF K
  <1>5. /\ \A a \in Allocs :
             Allocating(K, a) = Allocating(H, a) - One(H[y].alloc, a) + One(G[y].alloc, a)
        /\ \A c \in Counters :
             Counting(K, c) = Counting(H, c) - One(H[y].dev_ref_count, c)
                                             + One(G[y].dev_ref_count, c)
    BY <1>1, Assigned
  <1>6. /\ \A a : AllocsOf(K, h, a) = AllocsOf(H, h, a)
        /\ \A c : CountsOf(K, h, c) = CountsOf(H, h, c)
    BY <1>3, <1>4 DEF AllocsOf, CountsOf
  <1>7. Changes(K, G, h, {})
    BY <1>2 DEF Changes
  <1>8. /\ \A a \in Allocs :
             Allocating(G, a) = Allocating(K, a) - AllocsOf(K, h, a) + AllocsOf(G, h, a)
        /\ \A c \in Counters :
             Counting(G, c) = Counting(K, c) - CountsOf(K, h, c) + CountsOf(G, h, c)
    BY <1>1, <1>7, Moved0
  <1>9. /\ \A a \in Allocs : Allocating(H, a) \in Nat
        /\ \A c \in Counters : Counting(H, c) \in Nat
    BY Assigned, <1>1
  <1>10. /\ \A u, v : One(u, v) \in {0, 1}
         /\ \A F, a : AllocsOf(F, h, a) \in Int /\ CountsOf(F, h, a) \in Int
    BY DEF One, AllocsOf, CountsOf
  <1>11. ASSUME NEW a \in Allocs
         PROVE  Allocating(G, a) = Allocating(H, a) - AllocsOf(H, h, a) + AllocsOf(G, h, a)
                                   - One(H[y].alloc, a) + One(G[y].alloc, a)
    BY <1>5, <1>6, <1>8, <1>9, <1>10
  <1>12. ASSUME NEW c \in Counters
         PROVE  Counting(G, c) = Counting(H, c) - CountsOf(H, h, c) + CountsOf(G, h, c)
                                  - One(H[y].dev_ref_count, c) + One(G[y].dev_ref_count, c)
    BY <1>5, <1>6, <1>8, <1>9, <1>10
  <1> QED
    BY <1>9, <1>11, <1>12

\* The places of one handle and two other places.
LEMMA Moved2 ==
  ASSUME Distinct, NEW H \in [Places -> Buffers], NEW G \in [Places -> Buffers],
         NEW h \in Handles, NEW y \in Places, y \notin HandlePlaces(h),
         NEW z \in Places, z \notin HandlePlaces(h), y # z, Changes(H, G, h, {y, z})
  PROVE  /\ \A a \in Allocs :
              /\ Allocating(H, a) \in Nat
              /\ Allocating(G, a) = Allocating(H, a) - AllocsOf(H, h, a) + AllocsOf(G, h, a)
                                    - One(H[y].alloc, a) + One(G[y].alloc, a)
                                    - One(H[z].alloc, a) + One(G[z].alloc, a)
         /\ \A c \in Counters :
              /\ Counting(H, c) \in Nat
              /\ Counting(G, c) = Counting(H, c) - CountsOf(H, h, c) + CountsOf(G, h, c)
                                  - One(H[y].dev_ref_count, c) + One(G[y].dev_ref_count, c)
                                  - One(H[z].dev_ref_count, c) + One(G[z].dev_ref_count, c)
  <1> DEFINE K == [H EXCEPT ![z] = G[z]]
  <1>1. /\ K \in [Places -> Buffers] /\ K[z] = G[z]
        /\ \A p \in Places : p # z => K[p] = H[p]
    OBVIOUS
  <1>2. \A p \in Places : p \notin HandlePlaces(h) \cup {y} => G[p] = K[p]
    BY DEF Changes
  <1>3. (\A p \in HandlePlaces(h) : K[p] = H[p]) /\ K[y] = H[y]
    OBVIOUS
  <1>4. /\ <<"buffer", h>> \in HandlePlaces(h) /\ <<"after", h>> \in HandlePlaces(h)
        /\ <<"host", h>> \in HandlePlaces(h) /\ <<"device", h>> \in HandlePlaces(h)
    BY DEF HandlePlaces, HandleKinds
  <1> HIDE DEF K
  <1>5. /\ \A a \in Allocs :
             Allocating(K, a) = Allocating(H, a) - One(H[z].alloc, a) + One(G[z].alloc, a)
        /\ \A c \in Counters :
             Counting(K, c) = Counting(H, c) - One(H[z].dev_ref_count, c)
                                             + One(G[z].dev_ref_count, c)
    BY <1>1, Assigned
  <1>6. /\ \A a : AllocsOf(K, h, a) = AllocsOf(H, h, a)
        /\ \A c : CountsOf(K, h, c) = CountsOf(H, h, c)
    BY <1>3, <1>4 DEF AllocsOf, CountsOf
  <1>7. Changes(K, G, h, {y})
    BY <1>2 DEF Changes
  <1>8. /\ \A a \in Allocs :
             Allocating(G, a) = Allocating(K, a) - AllocsOf(K, h, a) + AllocsOf(G, h, a)
                                    - One(K[y].alloc, a) + One(G[y].alloc, a)
        /\ \A c \in Counters :
             Counting(G, c) = Counting(K, c) - CountsOf(K, h, c) + CountsOf(G, h, c)
                                  - One(K[y].dev_ref_count, c) + One(G[y].dev_ref_count, c)
    BY <1>1, <1>7, Moved1
  <1>9. /\ \A a \in Allocs : Allocating(H, a) \in Nat
        /\ \A c \in Counters : Counting(H, c) \in Nat
    BY Assigned, <1>1
  <1>10. /\ \A u, v : One(u, v) \in {0, 1}
         /\ \A F, a : AllocsOf(F, h, a) \in Int /\ CountsOf(F, h, a) \in Int
    BY DEF One, AllocsOf, CountsOf
  <1>11. ASSUME NEW a \in Allocs
         PROVE  Allocating(G, a) = Allocating(H, a) - AllocsOf(H, h, a) + AllocsOf(G, h, a)
                                   - One(H[y].alloc, a) + One(G[y].alloc, a)
                                   - One(H[z].alloc, a) + One(G[z].alloc, a)
    BY <1>3, <1>5, <1>6, <1>8, <1>9, <1>10
  <1>12. ASSUME NEW c \in Counters
         PROVE  Counting(G, c) = Counting(H, c) - CountsOf(H, h, c) + CountsOf(G, h, c)
                                  - One(H[y].dev_ref_count, c) + One(G[y].dev_ref_count, c)
                                  - One(H[z].dev_ref_count, c) + One(G[z].dev_ref_count, c)
    BY <1>3, <1>5, <1>6, <1>8, <1>9, <1>10
  <1> QED
    BY <1>9, <1>11, <1>12

-----------------------------------------------------------------------------
(* The places of a step *)

\* The parts of a drop, by what they are: what is to be freed has its count deleted next.
ShapeFacts(s) ==
    /\ Of(s, "host") \in HostParts \cup {Empty}
    /\ Of(s, "device") \in DeviceParts \cup {Empty}
    /\ Of(s, "free") \in DeviceParts \cup {Empty}
    /\ Of(s, "delete") \in DeviceParts \cup {Empty}
    /\ Of(s, "free").dev_ref_count # Null => Of(s, "delete") = Of(s, "free")
    /\ Of(s, "host") # Empty \/ Of(s, "device") # Empty =>
         Of(s, "free") = Empty /\ Of(s, "delete") = Empty
\* What each shape of a drop has left to do.
LEMMA ShapeOf == ASSUME Distinct, NEW s, Shaped(s) PROVE ShapeFacts(s)
  <1> USE DEF ShapeFacts
  <1>0. Empty.dev_ref_count = Null
    BY DEF Empty
  <1>1. CASE s = <<>>
    <2>1. \A op : Of(<<>>, op) = Empty
      BY OfTasks
    <2> QED
      BY <1>0, <1>1, <2>1
  <1>2. ASSUME NEW x \in HostParts, s = <<Task("host", x)>> PROVE ShapeFacts(s)
    <2>0. \A op : Of(s, op) = IF "host" = op THEN x ELSE Empty
      BY ONLY <1>2, OfOne
    <2>1. Of(s, "host") = x
      BY <2>0
    <2>2. Of(s, "device") = Empty
      BY <2>0
    <2>3. Of(s, "free") = Empty
      BY <2>0
    <2>4. Of(s, "delete") = Empty
      BY <2>0
    <2> QED
      BY <1>0, <1>2, <2>1, <2>2, <2>3, <2>4
  <1>3. ASSUME NEW x \in HostParts, NEW y \in DeviceParts,
               s = <<Task("host", x), Task("device", y)>>
        PROVE  ShapeFacts(s)
    <2>0. \A op : Of(s, op) = IF "host" = op THEN x ELSE IF "device" = op THEN y ELSE Empty
      <3>1. "host" # "device"
        OBVIOUS
      <3> QED
        BY ONLY <1>3, <3>1, OfTwo
    <2>5. Of(s, "host") = x
      BY <2>0
    <2>6. Of(s, "device") = y
      BY <2>0
    <2>1. Of(s, "host") = x /\ Of(s, "device") = y
      BY <2>5, <2>6
    <2>2. Of(s, "free") = Empty
      BY <2>0
    <2>3. Of(s, "delete") = Empty
      BY <2>0
    <2> QED
      BY <1>0, <2>1, <2>2, <2>3
  <1>4. ASSUME NEW y \in DeviceParts, s = <<Task("device", y)>> PROVE ShapeFacts(s)
    <2>0. \A op : Of(s, op) = IF "device" = op THEN y ELSE Empty
      BY ONLY <1>4, OfOne
    <2>1. Of(s, "host") = Empty
      BY <2>0
    <2>2. Of(s, "device") = y
      BY <2>0
    <2>3. Of(s, "free") = Empty
      BY <2>0
    <2>4. Of(s, "delete") = Empty
      BY <2>0
    <2> QED
      BY <1>0, <1>4, <2>1, <2>2, <2>3, <2>4
  <1>5. ASSUME NEW y \in DeviceParts, y.dev_ref_count = Null, s = <<Task("free", y)>>
        PROVE  ShapeFacts(s)
    <2>0. \A op : Of(s, op) = IF "free" = op THEN y ELSE Empty
      BY ONLY <1>5, OfOne
    <2>1. Of(s, "host") = Empty
      BY <2>0
    <2>2. Of(s, "device") = Empty
      BY <2>0
    <2>3. Of(s, "free") = y
      BY <2>0
    <2>4. Of(s, "delete") = Empty
      BY <2>0
    <2> QED
      BY <1>0, <1>5, <2>1, <2>2, <2>3, <2>4
  <1>6. ASSUME NEW y \in DeviceParts, s = <<Task("free", y), Task("delete", y)>>
        PROVE  ShapeFacts(s)
    <2>0. \A op : Of(s, op) = IF "free" = op THEN y ELSE IF "delete" = op THEN y ELSE Empty
      <3>1. "free" # "delete"
        OBVIOUS
      <3> QED
        BY ONLY <1>6, <3>1, OfTwo
    <2>1. Of(s, "free") = y /\ Of(s, "delete") = y
      BY <2>0
    <2>2. Of(s, "host") = Empty /\ Of(s, "device") = Empty
      BY <2>0
    <2> QED
      BY <1>6, <2>1, <2>2
  <1>7. ASSUME NEW y \in DeviceParts, s = <<Task("delete", y)>> PROVE ShapeFacts(s)
    <2>0. \A op : Of(s, op) = IF "delete" = op THEN y ELSE Empty
      BY ONLY <1>7, OfOne
    <2>1. Of(s, "host") = Empty
      BY <2>0
    <2>2. Of(s, "device") = Empty
      BY <2>0
    <2>3. Of(s, "free") = Empty
      BY <2>0
    <2>4. Of(s, "delete") = y
      BY <2>0
    <2> QED
      BY <1>0, <1>7, <2>1, <2>2, <2>3, <2>4
  <1> QED
    BY <1>1, <1>2, <1>3, <1>4, <1>5, <1>6, <1>7 DEF Shaped

\* What is held and done, by type.
TypesHold == HandleTypes /\ TodoInv
HeldTypes ==
    /\ Held \in [Places -> Buffers]
    /\ \A h \in Handles : ShapeFacts(todo[h])
\* What is held is a buffer.
LEMMA HeldType == ASSUME Distinct PROVE TypesHold => HeldTypes
  <1> SUFFICES ASSUME TypesHold PROVE HeldTypes
    OBVIOUS
  <1>1. \A h \in Handles : ShapeFacts(todo[h])
    BY ShapeOf DEF TypesHold, TodoInv
  <1>2. Empty \in Buffers /\ HostParts \subseteq Buffers /\ DeviceParts \subseteq Buffers
    BY DEF Empty, Buffers, HostParts, DeviceParts
  <1>3. ASSUME NEW p \in Places PROVE Held[p] \in Buffers
    <2>1. CASE p[1] = "crop" /\ p[2] \in Counters
      BY <1>2, <2>1, ByPlace DEF HeldByPlace, TypesHold, HandleTypes, Counts
    <2>2. CASE p[1] # "crop" /\ p[2] \in Handles
      <3>1. p[1] \in {"buffer", "after", "host", "device"} /\ p = <<p[1], p[2]>>
        BY <2>2, ByPlace DEF HeldByPlace, Kinds
      <3>2. PICK h \in Handles : p = <<p[1], h>>
        BY <2>2, <3>1
      <3>5. buffer[h] \in Buffers /\ after[h] \in Buffers \cup {Null}
        BY DEF TypesHold, HandleTypes
      <3>6. /\ Held[<<"buffer", h>>] = buffer[h]
            /\ Held[<<"after", h>>] = IF after[h] = Null THEN Empty ELSE after[h]
        BY ByPlace DEF HeldByPlace
      <3>3. /\ Held[<<"buffer", h>>] \in Buffers /\ Held[<<"after", h>>] \in Buffers
        BY <1>2, <3>5, <3>6
      <3>4. Held[<<"host", h>>] \in Buffers /\ Held[<<"device", h>>] \in Buffers
        <4>1. /\ Held[<<"host", h>>] = Of(todo[h], "host")
              /\ Held[<<"device", h>>] = Of(todo[h], "device")
          BY ByPlace DEF HeldByPlace
        <4>2. /\ Of(todo[h], "host") \in HostParts \cup {Empty}
              /\ Of(todo[h], "device") \in DeviceParts \cup {Empty}
          BY <1>1 DEF ShapeFacts
        <4> QED
          BY <1>2, <4>1, <4>2
      <3> QED
        BY <3>1, <3>2, <3>3, <3>4
    <2>3. CASE ~(p[1] = "crop" /\ p[2] \in Counters) /\ ~(p[1] # "crop" /\ p[2] \in Handles)
      BY <1>2, <2>3, ByPlace DEF HeldByPlace
    <2> QED
      BY <2>1, <2>2, <2>3
  <1>4. Held = [p \in Places |-> Held[p]]
    BY DEF Held
  <1> QED
    BY <1>1, <1>3, <1>4 DEF HeldTypes

\* What a count keeps, and what is in the places of a handle that is to become x.
CropOf(c) == IF counter[c] = Null THEN Empty ELSE counter[c].cropped_from
AfterOf(x) == IF x = Null THEN Empty ELSE x
Has(H, L, D, h, b, a, x, y, f, d) ==
    /\ H[<<"buffer", h>>] = b /\ H[<<"after", h>>] = a
    /\ H[<<"host", h>>] = x /\ H[<<"device", h>>] = y
    /\ L[h] = f /\ D[h] = d

\* The places before and after a step.
HandlesNow ==
    \A h \in Handles :
        Has(Held, Last, Deleted, h, buffer[h], AfterOf(after[h]), Of(todo[h], "host"),
            Of(todo[h], "device"), Of(todo[h], "free"), Of(todo[h], "delete"))
CropsNow == \A c \in Counters : Held[<<"crop", c>>] = CropOf(c)
\* HeldByPlace, by handle and by counter.
LEMMA PlacesNow == HandlesNow /\ CropsNow
  BY ByPlace DEF HeldByPlace, HandlesNow, CropsNow, Has, AfterOf, CropOf

\* A step of h leaves the places of the others alone, but for the buffers of the handles in
\* D and the counts in K.
LEMMA Elsewhere ==
  ASSUME NEW h \in Handles, NEW D, NEW K,
         \A g \in Handles : g # h => /\ todo'[g] = todo[g] /\ after'[g] = after[g]
                                     /\ g \notin D => buffer'[g] = buffer[g],
         \A c \in Counters : c \notin K => CropOf(c)' = CropOf(c)
  PROVE  /\ Changes(Held, Held', h, ({"buffer"} \X D) \cup ({"crop"} \X K))
         /\ \A g \in Handles : g # h => Last'[g] = Last[g] /\ Deleted'[g] = Deleted[g]
         /\ HandlesNow /\ HandlesNow' /\ CropsNow /\ CropsNow'
  <1>1. HandlesNow /\ HandlesNow' /\ CropsNow /\ CropsNow' /\ HeldByPlace /\ HeldByPlace'
    BY PlacesNow, ByPlace, PTL
  <1>2. ASSUME NEW g \in Handles, g # h
        PROVE  /\ Last'[g] = Last[g] /\ Deleted'[g] = Deleted[g]
               /\ Held'[<<"after", g>>] = Held[<<"after", g>>]
               /\ Held'[<<"host", g>>] = Held[<<"host", g>>]
               /\ Held'[<<"device", g>>] = Held[<<"device", g>>]
               /\ g \notin D => Held'[<<"buffer", g>>] = Held[<<"buffer", g>>]
    <2>1. Has(Held, Last, Deleted, g, buffer[g], AfterOf(after[g]), Of(todo[g], "host"),
              Of(todo[g], "device"), Of(todo[g], "free"), Of(todo[g], "delete"))
      BY <1>1 DEF HandlesNow
    <2>2. Has(Held', Last', Deleted', g, buffer'[g], AfterOf(after'[g]), Of(todo'[g], "host"),
              Of(todo'[g], "device"), Of(todo'[g], "free"), Of(todo'[g], "delete"))
      BY <1>1 DEF HandlesNow
    <2> QED
      BY <1>2, <2>1, <2>2 DEF Has
  <1>3. ASSUME NEW p \in Places,
               p \notin HandlePlaces(h) \cup ({"buffer"} \X D) \cup ({"crop"} \X K)
        PROVE  Held'[p] = Held[p]
    <2>1. p[1] \in Kinds /\ p = <<p[1], p[2]>>
      BY <1>1 DEF HeldByPlace
    <2>2. CASE p[1] = "crop" /\ p[2] \in Counters
      <3>1. PICK c \in Counters : p = <<"crop", c>>
        BY <2>1, <2>2
      <3>2. c \notin K
        BY <1>3, <3>1
      <3> QED
        BY <1>1, <3>1, <3>2 DEF CropsNow
    <2>3. CASE p[1] # "crop" /\ p[2] \in Handles
      <3>1. PICK g \in Handles : p = <<p[1], g>> /\ g = p[2]
        BY <2>1, <2>3
      <3>2. p[1] \in HandleKinds
        BY <2>1, <2>3 DEF Kinds, HandleKinds
      <3>3. g # h
        BY <1>3, <3>1, <3>2 DEF HandlePlaces
      <3>4. p[1] = "buffer" => g \notin D
        BY <1>3, <3>1
      <3> QED
        <4>1. /\ Held'[<<"after", g>>] = Held[<<"after", g>>]
              /\ Held'[<<"host", g>>] = Held[<<"host", g>>]
              /\ Held'[<<"device", g>>] = Held[<<"device", g>>]
              /\ g \notin D => Held'[<<"buffer", g>>] = Held[<<"buffer", g>>]
          BY <1>2, <3>3
        <4> HIDE DEF Held
        <4>2. p[1] = "buffer" \/ p[1] = "after" \/ p[1] = "host" \/ p[1] = "device"
          BY <3>2 DEF HandleKinds
        <4> QED
          BY ONLY <3>1, <3>4, <4>1, <4>2
    <2>4. CASE ~(p[1] = "crop" /\ p[2] \in Counters) /\ ~(p[1] # "crop" /\ p[2] \in Handles)
      BY <1>1, <2>4 DEF HeldByPlace
    <2> QED
      BY <2>2, <2>3, <2>4
  <1> QED
    BY <1>1, <1>2, <1>3 DEF Changes

\* A step that changes no other handle's buffer and no crop.
LEMMA ElsewhereSame ==
  ASSUME NEW h \in Handles,
         \A g \in Handles : g # h => /\ todo'[g] = todo[g] /\ after'[g] = after[g]
                                     /\ buffer'[g] = buffer[g],
         \A c \in Counters : CropOf(c)' = CropOf(c)
  PROVE  /\ Changes(Held, Held', h, {})
         /\ \A g \in Handles : g # h => Last'[g] = Last[g] /\ Deleted'[g] = Deleted[g]
         /\ HandlesNow /\ HandlesNow' /\ CropsNow /\ CropsNow'
  <1>1. /\ Changes(Held, Held', h, ({"buffer"} \X {}) \cup ({"crop"} \X {}))
        /\ \A g \in Handles : g # h => Last'[g] = Last[g] /\ Deleted'[g] = Deleted[g]
        /\ HandlesNow /\ HandlesNow' /\ CropsNow /\ CropsNow'
    BY Elsewhere
  <1> QED
    BY <1>1 DEF Changes

\* The drops of the others go on as they were.
LEMMA TodoKept ==
  ASSUME TodoInv, NEW h \in Handles,
         \A g \in Handles : g # h => /\ todo'[g] = todo[g] /\ after'[g] = after[g]
                                     /\ buffer'[g] = buffer[g] \/ after[g] = Null,
         Shaped(todo'[h]), after'[h] = Null => todo'[h] = <<>>,
         after'[h] # Null => buffer'[h] = Empty
  PROVE  TodoInv'
  <1> SUFFICES ASSUME NEW g \in Handles
               PROVE  /\ Shaped(todo'[g]) /\ (after'[g] = Null => todo'[g] = <<>>)
                      /\ after'[g] # Null => buffer'[g] = Empty
    BY DEF TodoInv, Idle, Empty
  <1>1. /\ Shaped(todo[g]) /\ (after[g] = Null => todo[g] = <<>>)
        /\ after[g] # Null => buffer[g] = Empty
    BY DEF TodoInv, Idle
  <1>2. CASE g = h
    BY <1>2
  <1>3. CASE g # h
    BY <1>1, <1>3
  <1> QED
    BY <1>2, <1>3

\* Who holds an allocation or a count is counted.
LEMMA HolderCounted ==
  ASSUME Distinct, CountsInv, NEW p \in Places
  PROVE  /\ Held \in [Places -> Buffers]
         /\ Held[p].alloc # Null => /\ Held[p].alloc \in Allocs /\ refs[Held[p].alloc] >= 1
         /\ Held[p].dev_ref_count # Null =>
              /\ Held[p].dev_ref_count \in Counters
              /\ counter[Held[p].dev_ref_count] # Null
              /\ counter[Held[p].dev_ref_count] \in Counts
              /\ counter[Held[p].dev_ref_count].count \in Nat \ {0}
  <1>1. Held \in [Places -> Buffers]
    BY HeldType DEF CountsInv, TypesHold, HeldTypes
  <1>2. Held[p] \in Buffers
    BY <1>1
  <1>3. ASSUME Held[p].alloc # Null
        PROVE  Held[p].alloc \in Allocs /\ refs[Held[p].alloc] >= 1
    <2> DEFINE S == {q \in Places : Held[q].alloc = Held[p].alloc}
    <2>1. Held[p].alloc \in Allocs
      BY <1>2, <1>3 DEF Buffers
    <2>2. IsFiniteSet(S) /\ p \in S
      BY PlacesFinite, FS_Subset
    <2>3. Cardinality(S) \in Nat /\ Cardinality(S) # 0
      BY <2>2, FS_CardinalityType, FS_EmptySet
    <2>4. refs[Held[p].alloc] = Cardinality(S)
      BY <2>1 DEF CountsInv, RefsInv, Allocating
    <2> QED
      BY <2>1, <2>3, <2>4
  <1>4. ASSUME Held[p].dev_ref_count # Null
        PROVE  /\ Held[p].dev_ref_count \in Counters
               /\ counter[Held[p].dev_ref_count] # Null
               /\ counter[Held[p].dev_ref_count] \in Counts
               /\ counter[Held[p].dev_ref_count].count \in Nat \ {0}
    <2> DEFINE c == Held[p].dev_ref_count
    <2>1. c \in Counters
      BY <1>2, <1>4 DEF Buffers
    <2>2. Counting(Held, c) \in Nat /\ Counting(Held, c) # 0
      BY <1>1, <2>1, Counted0
    <2>3. Counting(Held, c) = IF counter[c] = Null THEN 0 ELSE counter[c].count
      BY <2>1 DEF CountsInv, CountInv
    <2>4. counter[c] \in Counts \cup {Null}
      BY <2>1 DEF CountsInv, HandleTypes
    <2> QED
      BY <2>1, <2>2, <2>3, <2>4
  <1> QED
    BY <1>1, <1>3, <1>4

\* The first task of a drop, and what is left after it.
LEMMA HeadOf ==
  ASSUME Distinct, NEW s, Shaped(s), s # <<>>
  PROVE  /\ Head(s).op \in {"host", "device", "free", "delete"}
         /\ Of(s, Head(s).op) = Head(s).b
         /\ Shaped(Tail(s))
         /\ \A op \in {"host", "device", "free", "delete"} :
              Of(Tail(s), op) = IF op = Head(s).op THEN Empty ELSE Of(s, op)
         /\ Head(s).op = "host" => Head(s).b \in HostParts
         /\ Head(s).op \in {"device", "delete"} => Tail(s) = <<>>
         /\ Head(s).op # "host" => Head(s).b \in DeviceParts
         /\ Head(s).op = "free" => Head(s).b.device # Null
         /\ Head(s).op = "delete" => Head(s).b.dev_ref_count # Null
  <1> DEFINE ops == {"host", "device", "free", "delete"}
  <1>1. ASSUME NEW o \in ops, NEW x, s = <<Task(o, x)>>
        PROVE  /\ Head(s).op = o /\ Head(s).b = x /\ Tail(s) = <<>>
               /\ Of(s, o) = x /\ Shaped(Tail(s))
               /\ \A op \in ops : Of(Tail(s), op) = IF op = o THEN Empty ELSE Of(s, op)
    <2>1. Head(s) = Task(o, x) /\ Tail(s) = <<>>
      BY <1>1
    <2>2. \A op : Of(s, op) = IF o = op THEN x ELSE Empty
      BY ONLY <1>1, OfOne
    <2>3. \A op : Of(<<>>, op) = Empty
      BY OfTasks
    <2>4. Head(s).op = o /\ Head(s).b = x
      BY <2>1 DEF Task
    <2>5. Shaped(Tail(s))
      BY <2>1 DEF Shaped
    <2> HIDE DEF ops
    <2> QED
      BY ONLY <2>1, <2>2, <2>3, <2>4, <2>5
  <1>2. ASSUME NEW o \in ops, NEW x, NEW q \in ops, NEW y, o # q, s = <<Task(o, x), Task(q, y)>>
        PROVE  /\ Head(s).op = o /\ Head(s).b = x /\ Tail(s) = <<Task(q, y)>>
               /\ Of(s, o) = x
               /\ \A op \in ops : Of(Tail(s), op) = IF op = o THEN Empty ELSE Of(s, op)
    <2>1. Head(s) = Task(o, x) /\ Tail(s) = <<Task(q, y)>>
      BY <1>2
    <2>2. \A op : Of(s, op) = IF o = op THEN x ELSE IF q = op THEN y ELSE Empty
      BY ONLY <1>2, OfTwo
    <2>3. \A op : Of(Tail(s), op) = IF q = op THEN y ELSE Empty
      BY ONLY <2>1, OfOne
    <2>4. Head(s).op = o /\ Head(s).b = x
      BY <2>1 DEF Task
    <2> HIDE DEF ops
    <2> QED
      BY ONLY <1>2, <2>1, <2>2, <2>3, <2>4
  <1> HIDE DEF ops
  <1>4. ASSUME NEW o \in {"host", "device", "free", "delete"}, NEW x, s = <<Task(o, x)>>,
               o = "host" => x \in HostParts, o # "host" => x \in DeviceParts,
               o = "free" => x.device # Null, o = "delete" => x.dev_ref_count # Null
        PROVE  /\ Head(s).op \in {"host", "device", "free", "delete"}
               /\ Of(s, Head(s).op) = Head(s).b
               /\ Shaped(Tail(s))
               /\ \A op \in {"host", "device", "free", "delete"} :
                    Of(Tail(s), op) = IF op = Head(s).op THEN Empty ELSE Of(s, op)
               /\ Head(s).op = "host" => Head(s).b \in HostParts
               /\ Head(s).op \in {"device", "delete"} => Tail(s) = <<>>
               /\ Head(s).op # "host" => Head(s).b \in DeviceParts
               /\ Head(s).op = "free" => Head(s).b.device # Null
               /\ Head(s).op = "delete" => Head(s).b.dev_ref_count # Null
    BY <1>4, <1>1 DEF ops
  <1>5. ASSUME NEW x \in HostParts, NEW y \in DeviceParts,
               s = <<Task("host", x), Task("device", y)>>
        PROVE  /\ Head(s).op = "host" /\ Head(s).b = x
               /\ Of(s, Head(s).op) = Head(s).b
               /\ Shaped(Tail(s))
               /\ \A op \in {"host", "device", "free", "delete"} :
                    Of(Tail(s), op) = IF op = Head(s).op THEN Empty ELSE Of(s, op)
    <2>1. "host" \in ops /\ "device" \in ops /\ "host" # "device"
      BY DEF ops
    <2>2. /\ Head(s).op = "host" /\ Head(s).b = x /\ Tail(s) = <<Task("device", y)>>
          /\ Of(s, "host") = x
          /\ \A op \in ops : Of(Tail(s), op) = IF op = "host" THEN Empty ELSE Of(s, op)
      BY ONLY <1>2, <1>5, <2>1
    <2> QED
      BY <2>2 DEF Shaped, ops
  <1>6. ASSUME NEW y \in DeviceParts, y.device # Null, y.dev_ref_count # Null,
               s = <<Task("free", y), Task("delete", y)>>
        PROVE  /\ Head(s).op = "free" /\ Head(s).b = y
               /\ Of(s, Head(s).op) = Head(s).b
               /\ Shaped(Tail(s))
               /\ \A op \in {"host", "device", "free", "delete"} :
                    Of(Tail(s), op) = IF op = Head(s).op THEN Empty ELSE Of(s, op)
    <2>1. "free" \in ops /\ "delete" \in ops /\ "free" # "delete"
      BY DEF ops
    <2>2. /\ Head(s).op = "free" /\ Head(s).b = y /\ Tail(s) = <<Task("delete", y)>>
          /\ Of(s, "free") = y
          /\ \A op \in ops : Of(Tail(s), op) = IF op = "free" THEN Empty ELSE Of(s, op)
      BY ONLY <1>2, <1>6, <2>1
    <2> QED
      BY <2>2, <1>6 DEF Shaped, ops
  <1> QED
    BY <1>4, <1>5, <1>6 DEF Shaped

\* What is left of a drop is a sequence.
LEMMA ShapedSeq ==
  ASSUME NEW s, Shaped(s)
  PROVE  \E S : s \in Seq(S)
  <1>1. CASE s = <<>>
    BY <1>1
  <1>2. ASSUME NEW t, s = <<t>> PROVE \E S : s \in Seq(S)
    <2>1. s \in Seq({t})
      BY <1>2
    <2> QED
      BY <2>1
  <1>3. ASSUME NEW t, NEW u, s = <<t, u>> PROVE \E S : s \in Seq(S)
    <2>1. s \in Seq({t, u})
      BY <1>3
    <2> QED
      BY <2>1
  <1> QED
    BY <1>1, <1>2, <1>3 DEF Shaped

\* What a count of zero leads to, by operation.
LEMMA LastGoneIs ==
  ASSUME Distinct, NEW y \in DeviceParts
  PROVE  /\ Shaped(LastGone(y)) /\ LastGone(y) \o <<>> = LastGone(y)
         /\ Of(LastGone(y), "free") = (IF y.device # Null THEN y ELSE Empty)
         /\ Of(LastGone(y), "delete") = (IF y.dev_ref_count # Null THEN y ELSE Empty)
         /\ Of(LastGone(y), "host") = Empty
         /\ Of(LastGone(y), "device") = Empty
  <1> DEFINE s == LastGone(y)
  <1>1. y.device # Null \/ y.dev_ref_count # Null
    BY DEF DeviceParts
  <1>2. s = (IF y.device # Null THEN <<Task("free", y)>> ELSE <<>>)
            \o (IF y.dev_ref_count # Null THEN <<Task("delete", y)>> ELSE <<>>)
    BY DEF LastGone, Task
  <1> HIDE DEF s
  <1>3. CASE y.device # Null /\ y.dev_ref_count # Null
    <2>1. s = <<Task("free", y), Task("delete", y)>>
      BY <1>2, <1>3, Joins
    <2>2. Shaped(s)
      BY <1>3, <2>1 DEF Shaped
    <2>3. s \in Seq({Task("free", y), Task("delete", y)})
      BY <2>1
    <2>4. s \o <<>> = s
      BY <2>3, ConcatEmptySeq
    <2>5. "free" # "delete"
      OBVIOUS
    <2>0. \A op : Of(s, op) = IF "free" = op THEN y ELSE IF "delete" = op THEN y ELSE Empty
      <3>1. "free" # "delete"
        OBVIOUS
      <3> QED
        BY ONLY <2>1, <3>1, OfTwo
    <2>6. Of(s, "free") = y
      BY <2>0
    <2>7. Of(s, "delete") = y
      BY <2>0
    <2>8. Of(s, "host") = Empty
      BY <2>0
    <2>9. Of(s, "device") = Empty
      BY <2>0
    <2> QED
      BY <1>3, <2>2, <2>4, <2>6, <2>7, <2>8, <2>9 DEF s
  <1>4. CASE y.device # Null /\ y.dev_ref_count = Null
    <2>1. s = <<Task("free", y)>>
      BY <1>2, <1>4, Joins
    <2>2. Shaped(s)
      BY <1>4, <2>1 DEF Shaped
    <2>4. s \o <<>> = s
      BY <2>1, Joins
    <2>0. \A op : Of(s, op) = IF "free" = op THEN y ELSE Empty
      BY ONLY <2>1, OfOne
    <2>6. Of(s, "free") = y
      BY <2>0
    <2>7. Of(s, "delete") = Empty
      BY <2>0
    <2>8. Of(s, "host") = Empty
      BY <2>0
    <2>9. Of(s, "device") = Empty
      BY <2>0
    <2> QED
      BY <1>4, <2>2, <2>4, <2>6, <2>7, <2>8, <2>9 DEF s
  <1>5. CASE y.device = Null /\ y.dev_ref_count # Null
    <2>1. s = <<Task("delete", y)>>
      BY <1>2, <1>5, Joins
    <2>2. Shaped(s)
      BY <1>5, <2>1 DEF Shaped
    <2>4. s \o <<>> = s
      BY <2>1, Joins
    <2>0. \A op : Of(s, op) = IF "delete" = op THEN y ELSE Empty
      BY ONLY <2>1, OfOne
    <2>6. Of(s, "free") = Empty
      BY <2>0
    <2>7. Of(s, "delete") = y
      BY <2>0
    <2>8. Of(s, "host") = Empty
      BY <2>0
    <2>9. Of(s, "device") = Empty
      BY <2>0
    <2> QED
      BY <1>5, <2>2, <2>4, <2>6, <2>7, <2>8, <2>9 DEF s
  <1> QED
    BY <1>1, <1>3, <1>4, <1>5

-----------------------------------------------------------------------------
(* What the steps of a drop do *)

\* A count that goes on counting keeps what it kept.
SameCrops == \A c \in Counters : CropOf(c)' = CropOf(c)

\* The steps of a drop that has begun: its first task, and what the others are.
LEMMA Dropping ==
  ASSUME Distinct, CountsInv, NEW h \in Handles, NEW op, Does(h, op)
  PROVE  /\ Part(h) = Of(todo[h], op) /\ after[h] # Null /\ after[h] \in Buffers
         /\ buffer[h] = Empty
         /\ op \in {"host", "device", "free", "delete"} /\ Part(h) \in Buffers
         /\ Shaped(Tail(todo[h])) /\ ShapeFacts(todo[h])
         /\ \A q \in {"host", "device", "free", "delete"} :
              Of(Tail(todo[h]), q) = IF q = op THEN Empty ELSE Of(todo[h], q)
         /\ op = "host" => Part(h) \in HostParts
         /\ op # "host" => Part(h) \in DeviceParts
         /\ op \in {"device", "delete"} => Tail(todo[h]) = <<>>
         /\ op = "free" => Part(h).device # Null
         /\ op = "delete" => Part(h).dev_ref_count # Null
  <1>1. /\ Shaped(todo[h]) /\ todo[h] # <<>> /\ Head(todo[h]).op = op
        /\ Part(h) = Head(todo[h]).b
    BY DEF Does, Part, CountsInv, TodoInv
  <1>2. /\ Of(todo[h], op) = Part(h) /\ Shaped(Tail(todo[h]))
        /\ op \in {"host", "device", "free", "delete"}
        /\ \A q \in {"host", "device", "free", "delete"} :
              Of(Tail(todo[h]), q) = IF q = op THEN Empty ELSE Of(todo[h], q)
        /\ op = "host" => Part(h) \in HostParts
        /\ op # "host" => Part(h) \in DeviceParts
        /\ op \in {"device", "delete"} => Tail(todo[h]) = <<>>
        /\ op = "free" => Part(h).device # Null
        /\ op = "delete" => Part(h).dev_ref_count # Null
    BY <1>1, HeadOf
  <1>3. after[h] # Null /\ after[h] \in Buffers /\ buffer[h] = Empty
    BY <1>1 DEF CountsInv, TodoInv, HandleTypes, Idle
  <1>4. ShapeFacts(todo[h])
    BY <1>1, ShapeOf
  <1>5. Part(h) \in Buffers
    BY <1>2 DEF HostParts, DeviceParts
  <1> QED
    BY <1>2, <1>3, <1>4, <1>5

\* What a step of a drop leaves of the places of its handle, of the other places, and of
\* what is done: row is what the handle has then.
Row(h, b, a, x, y, f, d) ==
    /\ Has(Held', Last', Deleted', h, b, a, x, y, f, d)
    /\ \A g \in Handles : g # h => Last'[g] = Last[g] /\ Deleted'[g] = Deleted[g]

\* The host part is dropped.
LEMMA DropHostDoes ==
  ASSUME Distinct, CountsInv, NEW h \in Handles, DropHost(h)
  PROVE  LET x == Held[<<"host", h>>] IN
         /\ TypesHold' /\ UNCHANGED <<counter, memory>>
         /\ x \in HostParts
         /\ refs' = [refs EXCEPT ![x.alloc] = @ - 1]
         /\ Changes(Held, Held', h, {})
         /\ Row(h, Held[<<"buffer", h>>], Held[<<"after", h>>], Empty,
                Held[<<"device", h>>], Last[h], Deleted[h])
  <1>1. Does(h, "host") /\ Goes(h, <<>>) /\ UNCHANGED <<buffer, memory, counter, after>>
        /\ refs' = [refs EXCEPT ![Part(h).alloc] = @ - 1]
    BY DEF DropHost
  <1>2. /\ Part(h) = Of(todo[h], "host") /\ after[h] # Null /\ after[h] \in Buffers
        /\ buffer[h] = Empty /\ Part(h) \in HostParts
        /\ Shaped(Tail(todo[h])) /\ ShapeFacts(todo[h])
        /\ \A q \in {"host", "device", "free", "delete"} :
              Of(Tail(todo[h]), q) = IF q = "host" THEN Empty ELSE Of(todo[h], q)
    BY <1>1, Dropping
  <1>3. todo' = [todo EXCEPT ![h] = Tail(@)]
    <2>1. todo[h] # <<>> /\ Shaped(todo[h])
      BY <1>1 DEF Does, CountsInv, TodoInv
    <2>2. todo' = [todo EXCEPT ![h] = <<>> \o Tail(todo[h])]
      BY <1>1 DEF Goes
    <2>3. <<>> \o Tail(todo[h]) = Tail(todo[h])
      <3>1. \E S : Tail(todo[h]) \in Seq(S)
        BY <1>2, ShapedSeq
      <3> QED
        BY <3>1, ConcatEmptySeq
    <2> QED
      BY <2>2, <2>3
  <1>4. /\ todo'[h] = Tail(todo[h]) /\ todo' = [g \in Handles |-> todo'[g]]
        /\ \A g \in Handles : g # h => todo'[g] = todo[g]
    BY <1>3 DEF CountsInv, HandleTypes
  <1>5. TodoInv'
    BY <1>1, <1>2, <1>4, TodoKept DEF CountsInv
  <1>6. HandleTypes'
    BY <1>1, <1>2, <1>4 DEF CountsInv, HandleTypes, HostParts, Buffers
  <1>7. /\ Changes(Held, Held', h, {})
        /\ \A g \in Handles : g # h => Last'[g] = Last[g] /\ Deleted'[g] = Deleted[g]
        /\ HandlesNow /\ HandlesNow'
    <2>1. \A c \in Counters : CropOf(c)' = CropOf(c)
      BY <1>1 DEF CropOf, Empty
    <2> QED
      BY <1>1, <1>4, <2>1, ElsewhereSame
  <1>8. Held[<<"host", h>>] = Part(h)
    BY <1>2, <1>7 DEF HandlesNow, Has
  <1>9. Row(h, Held[<<"buffer", h>>], Held[<<"after", h>>], Empty,
            Held[<<"device", h>>], Last[h], Deleted[h])
    <2>1. Has(Held, Last, Deleted, h, buffer[h], AfterOf(after[h]), Of(todo[h], "host"),
              Of(todo[h], "device"), Of(todo[h], "free"), Of(todo[h], "delete"))
      BY <1>7 DEF HandlesNow
    <2>2. Has(Held', Last', Deleted', h, buffer'[h], AfterOf(after'[h]), Of(todo'[h], "host"),
              Of(todo'[h], "device"), Of(todo'[h], "free"), Of(todo'[h], "delete"))
      BY <1>7 DEF HandlesNow
    <2> QED
      BY <1>1, <1>2, <1>4, <1>7, <2>1, <2>2 DEF Row, Has
  <1> QED
    BY <1>1, <1>2, <1>5, <1>6, <1>7, <1>8, <1>9 DEF TypesHold

\* Half of the memory is dropped: the count is given up, and the last one is to end it.
Gone(y) == y.dev_ref_count = Null \/ counter[y.dev_ref_count].count = 1
\* What DropDevice does to the places of its handle.
LEMMA DropDeviceDoes ==
  ASSUME Distinct, CountsInv, NEW h \in Handles, DropDevice(h)
  PROVE  LET y == Held[<<"device", h>>] IN
         /\ TypesHold' /\ UNCHANGED <<refs, memory>>
         /\ y \in DeviceParts
         /\ counter' = IF y.dev_ref_count = Null THEN counter
                       ELSE [counter EXCEPT ![y.dev_ref_count].count = @ - 1]
         /\ y.dev_ref_count # Null =>
                /\ y.dev_ref_count \in Counters /\ counter[y.dev_ref_count] \in Counts
                /\ counter[y.dev_ref_count] # Null /\ counter[y.dev_ref_count].count >= 1
         /\ Changes(Held, Held', h, {}) /\ SameCrops
         /\ Last[h] = Empty /\ Deleted[h] = Empty /\ Held[<<"host", h>>] = Empty
         /\ Row(h, Held[<<"buffer", h>>], Held[<<"after", h>>], Empty, Empty,
                IF Gone(y) /\ y.device # Null THEN y ELSE Empty,
                IF Gone(y) /\ y.dev_ref_count # Null THEN y ELSE Empty)
  <1> DEFINE y == Held[<<"device", h>>]
             id == y.dev_ref_count
             more == IF Gone(y) THEN LastGone(y) ELSE <<>>
  <1>1. Does(h, "device") /\ UNCHANGED <<buffer, refs, memory, after>>
    BY DEF DropDevice
  <1>2. /\ Part(h) = Of(todo[h], "device") /\ after[h] # Null /\ after[h] \in Buffers
        /\ buffer[h] = Empty /\ Part(h) \in DeviceParts /\ Part(h) \in Buffers
        /\ Tail(todo[h]) = <<>> /\ ShapeFacts(todo[h])
        /\ \A q \in {"host", "device", "free", "delete"} :
              Of(Tail(todo[h]), q) = IF q = "device" THEN Empty ELSE Of(todo[h], q)
    BY <1>1, Dropping
  <1>3. Has(Held, Last, Deleted, h, buffer[h], AfterOf(after[h]), Of(todo[h], "host"),
            Of(todo[h], "device"), Of(todo[h], "free"), Of(todo[h], "delete"))
    BY PlacesNow DEF HandlesNow
  <1>4. y = Part(h)
    BY <1>2, <1>3 DEF Has
  <1>5. /\ Last[h] = Empty /\ Deleted[h] = Empty /\ Held[<<"host", h>>] = Empty
    <2>1. Of(todo[h], "device") # Empty
      BY <1>2 DEF DeviceParts, Empty
    <2>2. Of(todo[h], "free") = Empty /\ Of(todo[h], "delete") = Empty
      BY <1>2, <2>1 DEF ShapeFacts
    <2>3. Of(Tail(todo[h]), "host") = Of(todo[h], "host") /\ Of(Tail(todo[h]), "host") = Empty
      <3>1. \A op : Of(<<>>, op) = Empty
        BY OfTasks
      <3> QED
        BY <1>2, <3>1
    <2> QED
      BY <1>3, <2>2, <2>3 DEF Has
  <1>6. id # Null => /\ id \in Counters /\ counter[id] \in Counts
                     /\ counter[id] # Null /\ counter[id].count \in Nat \ {0}
    <2>1. <<"device", h>> \in Places
      BY DEF Places, Kinds
    <2> QED
      BY <2>1, HolderCounted
  <1> HIDE DEF y
  <1>7. counter' = IF id = Null THEN counter ELSE [counter EXCEPT ![id].count = @ - 1]
    BY <1>4 DEF DropDevice
  <1>8. Goes(h, more)
    BY <1>4 DEF DropDevice, Gone
  <1>9. /\ Shaped(more) /\ more \o <<>> = more
        /\ Of(more, "host") = Empty /\ Of(more, "device") = Empty
        /\ Of(more, "free") = (IF Gone(y) /\ y.device # Null THEN y ELSE Empty)
        /\ Of(more, "delete") = (IF Gone(y) /\ y.dev_ref_count # Null THEN y ELSE Empty)
    <2>1. Shaped(<<>>) /\ <<>> \o <<>> = <<>>
      BY Joins DEF Shaped
    <2>2. y \in DeviceParts
      BY <1>2, <1>4
    <2>3. \A op : Of(<<>>, op) = Empty
      BY OfTasks
    <2>4. CASE Gone(y)
      BY <2>2, <2>4, LastGoneIs
    <2>5. CASE ~Gone(y)
      BY <2>1, <2>3, <2>5
    <2> QED
      BY <2>4, <2>5
  <1>10. /\ todo'[h] = more /\ todo' = [g \in Handles |-> todo'[g]]
         /\ \A g \in Handles : g # h => todo'[g] = todo[g]
    <2>1. todo' = [todo EXCEPT ![h] = more \o Tail(todo[h])]
      BY <1>8 DEF Goes
    <2>2. more \o Tail(todo[h]) = more
      BY <1>2, <1>9
    <2> HIDE DEF more
    <2> QED
      BY <2>1, <2>2 DEF CountsInv, HandleTypes
  <1> HIDE DEF more
  <1>11. TodoInv'
    BY <1>1, <1>2, <1>9, <1>10, TodoKept DEF CountsInv
  <1>12. \A c \in Counters : /\ counter'[c] \in Counts \cup {Null}
                             /\ counter'[c] = Null <=> counter[c] = Null
                             /\ counter[c] # Null =>
                                  counter'[c].cropped_from = counter[c].cropped_from
    <2>1. counter \in [Counters -> Counts \cup {Null}] /\ Null \notin Counts
      BY DEF CountsInv, HandleTypes, Distinct
    <2>2. CASE id = Null
      BY <1>7, <2>1, <2>2
    <2>3. CASE id # Null
      <3>1. [counter[id] EXCEPT !.count = @ - 1] \in Counts
        BY <1>6, <2>3 DEF Counts
      <3>2. [counter[id] EXCEPT !.count = @ - 1].cropped_from = counter[id].cropped_from
        BY <1>6, <2>3 DEF Counts
      <3>3. counter' = [counter EXCEPT ![id] = [counter[id] EXCEPT !.count = @ - 1]]
        BY <1>7, <2>3
      <3> QED
        BY <1>6, <2>1, <2>3, <3>1, <3>2, <3>3
    <2> QED
      BY <2>2, <2>3
  <1>13. HandleTypes'
    <2>1. counter' \in [Counters -> Counts \cup {Null}]
      BY <1>7, <1>12 DEF CountsInv, HandleTypes
    <2> QED
      BY <1>1, <1>10, <2>1 DEF CountsInv, HandleTypes
  <1>14. SameCrops
    BY <1>12 DEF SameCrops, CropOf, Empty
  <1>15. /\ Changes(Held, Held', h, {})
         /\ \A g \in Handles : g # h => Last'[g] = Last[g] /\ Deleted'[g] = Deleted[g]
         /\ HandlesNow /\ HandlesNow'
    BY <1>1, <1>10, <1>14, ElsewhereSame DEF SameCrops
  <1>16. Row(h, Held[<<"buffer", h>>], Held[<<"after", h>>], Empty, Empty,
             IF Gone(y) /\ y.device # Null THEN y ELSE Empty,
             IF Gone(y) /\ y.dev_ref_count # Null THEN y ELSE Empty)
    <2>1. Has(Held', Last', Deleted', h, buffer'[h], AfterOf(after'[h]), Of(todo'[h], "host"),
              Of(todo'[h], "device"), Of(todo'[h], "free"), Of(todo'[h], "delete"))
      BY <1>15 DEF HandlesNow
    <2> QED
      BY <1>1, <1>3, <1>9, <1>10, <1>15, <2>1 DEF Row, Has
  <1>17. y \in DeviceParts
    BY <1>2, <1>4
  <1> QED
    BY <1>1, <1>5, <1>6, <1>7, <1>11, <1>13, <1>14, <1>15, <1>16, <1>17 DEF TypesHold, y

\* The memory is freed, unless it is not managed.
LEMMA FreeDeviceDoes ==
  ASSUME Distinct, CountsInv, NEW h \in Handles, FreeDevice(h)
  PROVE  LET y == Last[h] IN
         /\ TypesHold' /\ UNCHANGED <<refs, counter>>
         /\ y \in DeviceParts /\ y.device \in Memories /\ y.device # Null
         /\ memory' = IF device_ownership(y) = "Unmanaged" THEN memory
                      ELSE [memory EXCEPT ![y.device] = Free]
         /\ Changes(Held, Held', h, {}) /\ SameCrops
         /\ Held[<<"host", h>>] = Empty /\ Held[<<"device", h>>] = Empty
         /\ Row(h, Held[<<"buffer", h>>], Held[<<"after", h>>], Empty, Empty,
                Empty, Deleted[h])
  <1>1. Does(h, "free") /\ Goes(h, <<>>) /\ UNCHANGED <<buffer, refs, counter, after>>
        /\ memory' = IF device_ownership(Part(h)) = "Unmanaged" THEN memory
                     ELSE [memory EXCEPT ![Part(h).device] = Free]
    BY DEF FreeDevice
  <1>2. /\ Part(h) = Of(todo[h], "free") /\ after[h] # Null /\ after[h] \in Buffers
        /\ buffer[h] = Empty /\ Part(h) \in DeviceParts /\ Part(h).device # Null
        /\ Shaped(Tail(todo[h])) /\ ShapeFacts(todo[h])
        /\ \A q \in {"host", "device", "free", "delete"} :
              Of(Tail(todo[h]), q) = IF q = "free" THEN Empty ELSE Of(todo[h], q)
    BY <1>1, Dropping
  <1>3. todo' = [todo EXCEPT ![h] = Tail(@)]
    <2>2. todo' = [todo EXCEPT ![h] = <<>> \o Tail(todo[h])]
      BY <1>1 DEF Goes
    <2>3. <<>> \o Tail(todo[h]) = Tail(todo[h])
      BY <1>2, ShapedSeq, ConcatEmptySeq
    <2> QED
      BY <2>2, <2>3
  <1>4. /\ todo'[h] = Tail(todo[h]) /\ todo' = [g \in Handles |-> todo'[g]]
        /\ \A g \in Handles : g # h => todo'[g] = todo[g]
    BY <1>3 DEF CountsInv, HandleTypes
  <1>5. TodoInv'
    BY <1>1, <1>2, <1>4, TodoKept DEF CountsInv
  <1>6. Part(h).device \in Memories
    BY <1>2 DEF DeviceParts, Buffers
  <1>7. HandleTypes'
    <2>1. Free \in [how : Ownerships \cup {"Free"}, of : Memories \cup {Null}]
      BY DEF Free
    <2> QED
      BY <1>1, <1>4, <1>6, <2>1 DEF CountsInv, HandleTypes
  <1>8. SameCrops
    BY <1>1 DEF SameCrops, CropOf, Empty
  <1>9. /\ Changes(Held, Held', h, {})
        /\ \A g \in Handles : g # h => Last'[g] = Last[g] /\ Deleted'[g] = Deleted[g]
        /\ HandlesNow /\ HandlesNow'
    BY <1>1, <1>4, <1>8, ElsewhereSame DEF SameCrops
  <1>10. Has(Held, Last, Deleted, h, buffer[h], AfterOf(after[h]), Of(todo[h], "host"),
             Of(todo[h], "device"), Of(todo[h], "free"), Of(todo[h], "delete"))
    BY <1>9 DEF HandlesNow
  <1>11. Has(Held', Last', Deleted', h, buffer'[h], AfterOf(after'[h]), Of(todo'[h], "host"),
             Of(todo'[h], "device"), Of(todo'[h], "free"), Of(todo'[h], "delete"))
    BY <1>9 DEF HandlesNow
  <1>12. Last[h] = Part(h)
    BY <1>2, <1>10 DEF Has
  <1>13. Part(h) # Empty
    BY <1>2 DEF Empty
  <1>14. Of(todo[h], "host") = Empty /\ Of(todo[h], "device") = Empty
    BY <1>2, <1>13 DEF ShapeFacts
  <1>15. Row(h, Held[<<"buffer", h>>], Held[<<"after", h>>], Empty, Empty, Empty, Deleted[h])
    BY <1>1, <1>2, <1>4, <1>9, <1>10, <1>11, <1>14 DEF Row, Has
  <1>16. Held[<<"host", h>>] = Empty /\ Held[<<"device", h>>] = Empty
    BY <1>10, <1>14 DEF Has
  <1> QED
    BY <1>1, <1>2, <1>5, <1>6, <1>7, <1>8, <1>9, <1>12, <1>15, <1>16 DEF TypesHold

\* A count is deleted, and what it kept is dropped next.
LEMMA DeleteCounterDoes ==
  ASSUME Distinct, CountsInv, NEW h \in Handles, DeleteCounter(h)
  PROVE  LET id == Deleted[h].dev_ref_count
             b  == CropOf(id)
         IN  /\ TypesHold' /\ UNCHANGED <<refs, memory>>
             /\ id \in Counters /\ id # Null /\ counter[id] # Null
             /\ b \in Buffers /\ b = counter[id].cropped_from
             /\ counter' = [counter EXCEPT ![id] = Null]
             /\ Held[<<"crop", id>>] = b /\ Held'[<<"crop", id>>] = Empty
             /\ Changes(Held, Held', h, {<<"crop", id>>})
             /\ \A c \in Counters : c # id => CropOf(c)' = CropOf(c)
             /\ Last[h] = Empty
             /\ Held[<<"host", h>>] = Empty /\ Held[<<"device", h>>] = Empty
             /\ Row(h, Held[<<"buffer", h>>], Held[<<"after", h>>],
                    HostPart(b), DevicePart(b), Empty, Empty)
  <1> DEFINE id == Deleted[h].dev_ref_count
             b == CropOf(id)
             s == Decref(b, FALSE)
  <1>1. Does(h, "delete") /\ UNCHANGED <<buffer, refs, memory, after>>
        /\ Goes(h, Decref(counter[Part(h).dev_ref_count].cropped_from, FALSE))
        /\ counter' = [counter EXCEPT ![Part(h).dev_ref_count] = Null]
    BY DEF DeleteCounter
  <1>2. /\ Part(h) = Of(todo[h], "delete") /\ after[h] # Null /\ after[h] \in Buffers
        /\ buffer[h] = Empty /\ Part(h) \in DeviceParts /\ Part(h) \in Buffers
        /\ Part(h).dev_ref_count # Null
        /\ Tail(todo[h]) = <<>> /\ ShapeFacts(todo[h])
        /\ \A q \in {"host", "device", "free", "delete"} :
              Of(Tail(todo[h]), q) = IF q = "delete" THEN Empty ELSE Of(todo[h], q)
    BY <1>1, Dropping
  <1>3. Has(Held, Last, Deleted, h, buffer[h], AfterOf(after[h]), Of(todo[h], "host"),
            Of(todo[h], "device"), Of(todo[h], "free"), Of(todo[h], "delete"))
    BY PlacesNow DEF HandlesNow
  <1>4. Deleted[h] = Part(h) /\ id = Part(h).dev_ref_count
    BY <1>2, <1>3 DEF Has
  <1>5. id \in Counters /\ id # Null /\ counter[id] # Null /\ counter[id] \in Counts
    <2>1. id \in Counters /\ id # Null
      BY <1>2, <1>4 DEF Buffers
    <2>2. counter[id] # Null
      BY <2>1 DEF CountsInv, DeleteInv
    <2> QED
      BY <2>1, <2>2 DEF CountsInv, HandleTypes
  <1>6. b = counter[id].cropped_from /\ b \in Buffers
    BY <1>5 DEF CropOf, Counts
  <1>7. /\ Last[h] = Empty /\ Held[<<"host", h>>] = Empty /\ Held[<<"device", h>>] = Empty
    <2>1. \A op : Of(Tail(todo[h]), op) = Empty
      <3>1. \A op : Of(<<>>, op) = Empty
        BY OfTasks
      <3> QED
        BY <1>2, <3>1
    <2>2. \A op \in {"host", "device", "free"} : Of(todo[h], op) = Of(Tail(todo[h]), op)
      BY <1>2
    <2> QED
      BY <1>3, <2>1, <2>2 DEF Has
  <1>8. Goes(h, s)
    BY <1>1, <1>4, <1>6
  <1> HIDE DEF id, b
  <1>9. /\ Shaped(s)
        /\ Of(s, "host") = HostPart(b) /\ Of(s, "device") = DevicePart(b)
        /\ Of(s, "free") = Empty /\ Of(s, "delete") = Empty
    BY <1>6, DecrefIs
  <1> HIDE DEF s
  <1>10. /\ todo'[h] = s /\ todo' = [g \in Handles |-> todo'[g]]
         /\ \A g \in Handles : g # h => todo'[g] = todo[g]
    <2>1. todo' = [todo EXCEPT ![h] = s \o Tail(todo[h])]
      BY <1>8 DEF Goes
    <2>2. s \o Tail(todo[h]) = s
      BY <1>2, <1>9, ShapedSeq, ConcatEmptySeq
    <2> QED
      BY <2>1, <2>2 DEF CountsInv, HandleTypes
  <1>11. TodoInv'
    BY <1>1, <1>2, <1>9, <1>10, TodoKept DEF CountsInv
  <1>12. counter' = [counter EXCEPT ![id] = Null]
    BY <1>1, <1>4
  <1>13. HandleTypes'
    BY <1>1, <1>10, <1>12 DEF CountsInv, HandleTypes
  <1>14. \A c \in Counters : c # id => CropOf(c)' = CropOf(c)
    <2>1. \A c \in Counters : c # id => counter'[c] = counter[c]
      BY <1>5, <1>12 DEF CountsInv, HandleTypes
    <2> QED
      BY <2>1 DEF CropOf, Empty
  <1>15. /\ Changes(Held, Held', h, {<<"crop", id>>})
         /\ \A g \in Handles : g # h => Last'[g] = Last[g] /\ Deleted'[g] = Deleted[g]
         /\ HandlesNow /\ HandlesNow' /\ CropsNow /\ CropsNow'
    <2>1. PICK i \in Counters : i = id
      BY <1>5
    <2>2. \A c \in Counters : c \notin {i} => CropOf(c)' = CropOf(c)
      BY <1>14, <2>1
    <2>3. /\ Changes(Held, Held', h, ({"buffer"} \X {}) \cup ({"crop"} \X {i}))
          /\ \A g \in Handles : g # h => Last'[g] = Last[g] /\ Deleted'[g] = Deleted[g]
          /\ HandlesNow /\ HandlesNow' /\ CropsNow /\ CropsNow'
      BY <1>1, <1>10, <2>2, Elsewhere
    <2>4. ({"buffer"} \X {}) \cup ({"crop"} \X {i}) = {<<"crop", id>>}
      BY <2>1
    <2> QED
      BY <2>3, <2>4
  <1>16. Held[<<"crop", id>>] = b
    BY <1>5, <1>15 DEF CropsNow, b
  <1>17. Held'[<<"crop", id>>] = Empty
    <2>1. PICK i \in Counters : i = id
      BY <1>5
    <2>2. Held'[<<"crop", i>>] = (CropOf(i))'
      BY <1>15 DEF CropsNow
    <2>3. counter'[i] = Null
      BY <2>1, <1>5, <1>12 DEF CountsInv, HandleTypes
    <2> QED
      BY <2>1, <2>2, <2>3 DEF CropOf, Empty
  <1>18. Row(h, Held[<<"buffer", h>>], Held[<<"after", h>>],
             HostPart(b), DevicePart(b), Empty, Empty)
    <2>1. Has(Held', Last', Deleted', h, buffer'[h], AfterOf(after'[h]), Of(todo'[h], "host"),
              Of(todo'[h], "device"), Of(todo'[h], "free"), Of(todo'[h], "delete"))
      BY <1>15 DEF HandlesNow
    <2> QED
      BY <1>1, <1>3, <1>9, <1>10, <1>15, <2>1 DEF Row, Has
  <1> QED
    BY <1>1, <1>5, <1>6, <1>7, <1>11, <1>12, <1>13, <1>14, <1>15, <1>16, <1>17, <1>18
       DEF TypesHold, id, b

\* The drop is done, and the handle becomes what it is to be.
LEMMA DroppedDoes ==
  ASSUME Distinct, CountsInv, NEW h \in Handles, Dropped(h)
  PROVE  /\ TypesHold' /\ UNCHANGED <<refs, memory, counter>>
         /\ Changes(Held, Held', h, {}) /\ SameCrops
         /\ Has(Held, Last, Deleted, h, Empty, Held[<<"after", h>>], Empty, Empty, Empty, Empty)
         /\ Row(h, Held[<<"after", h>>], Empty, Empty, Empty, Empty, Empty)
  <1>1. /\ after[h] # Null /\ todo[h] = <<>> /\ UNCHANGED <<refs, memory, counter, todo>>
        /\ buffer' = [buffer EXCEPT ![h] = after[h]] /\ after' = [after EXCEPT ![h] = Null]
    BY DEF Dropped, Idle
  <1>2. HandleTypes /\ TodoInv
    BY DEF CountsInv
  <1>3. /\ buffer'[h] = after[h] /\ after'[h] = Null /\ buffer[h] = Empty
        /\ \A g \in Handles : g # h => buffer'[g] = buffer[g] /\ after'[g] = after[g]
    BY <1>1, <1>2 DEF HandleTypes, TodoInv, Idle
  <1>4. HandleTypes'
    BY <1>1, <1>2 DEF HandleTypes
  <1>5. TodoInv'
    BY <1>1, <1>2, <1>3, TodoKept DEF TodoInv
  <1>6. SameCrops
    BY <1>1 DEF SameCrops, CropOf, Empty
  <1>7. /\ Changes(Held, Held', h, {})
        /\ \A g \in Handles : g # h => Last'[g] = Last[g] /\ Deleted'[g] = Deleted[g]
        /\ HandlesNow /\ HandlesNow'
    BY <1>1, <1>3, <1>6, ElsewhereSame DEF SameCrops
  <1>8. Has(Held, Last, Deleted, h, buffer[h], AfterOf(after[h]), Of(todo[h], "host"),
            Of(todo[h], "device"), Of(todo[h], "free"), Of(todo[h], "delete"))
    BY <1>7 DEF HandlesNow
  <1>9. Has(Held', Last', Deleted', h, buffer'[h], AfterOf(after'[h]), Of(todo'[h], "host"),
            Of(todo'[h], "device"), Of(todo'[h], "free"), Of(todo'[h], "delete"))
    BY <1>7 DEF HandlesNow
  <1>10. \A op : Of(<<>>, op) = Empty
    BY OfTasks
  <1> QED
    BY <1>1, <1>3, <1>4, <1>5, <1>6, <1>7, <1>8, <1>9, <1>10
       DEF TypesHold, Row, Has, AfterOf

-----------------------------------------------------------------------------
(* The steps of a drop keep the counts *)

\* What the numbers of holders are, by the counts and by what h holds.
LEMMA HeldNow ==
  ASSUME Distinct, CountsInv, NEW h \in Handles, TypesHold'
  PROVE  /\ Held \in [Places -> Buffers] /\ Held' \in [Places -> Buffers]
         /\ refs \in [Allocs -> Int] /\ counter \in [Counters -> Counts \cup {Null}]
         /\ \A k \in HandleKinds : Held[<<k, h>>] \in Buffers /\ Held'[<<k, h>>] \in Buffers
  <1>1. Held \in [Places -> Buffers]
    BY HeldType DEF CountsInv, TypesHold, HeldTypes
  <1>2. HeldTypes'
    BY HeldType, PTL
  <1>3. Held' \in [Places -> Buffers]
    BY <1>2 DEF HeldTypes
  <1>4. \A k \in HandleKinds : <<k, h>> \in Places
    BY DEF HandleKinds, Places, Kinds
  <1> QED
    BY <1>1, <1>3, <1>4 DEF CountsInv, HandleTypes

\* A step that changes the references as it changes what its handle holds.
LEMMA RefsKept ==
  ASSUME Distinct, CountsInv, NEW h \in Handles, TypesHold', Changes(Held, Held', h, {}),
         \A a \in Allocs : refs'[a] = refs[a] - AllocsOf(Held, h, a) + AllocsOf(Held', h, a)
  PROVE  RefsInv'
  <1>1. Held \in [Places -> Buffers] /\ Held' \in [Places -> Buffers]
    BY HeldNow
  <1>2. \A a \in Allocs : Allocating(Held', a)
                           = Allocating(Held, a) - AllocsOf(Held, h, a) + AllocsOf(Held', h, a)
    BY ONLY <1>1, Distinct, h \in Handles, Changes(Held, Held', h, {}), Moved0
  <1>3. \A a \in Allocs : refs'[a] = Allocating(Held', a)
    BY <1>2 DEF CountsInv, RefsInv
  <1> QED
    BY <1>3 DEF RefsInv, Allocating

\* A count, or nothing.
Number(c) == IF counter[c] = Null THEN 0 ELSE counter[c].count

\* The same for the counts.
LEMMA NumbersKept ==
  ASSUME Distinct, CountsInv, NEW h \in Handles, TypesHold', Changes(Held, Held', h, {}),
         \A c \in Counters : Number(c)'
             = Number(c) - CountsOf(Held, h, c) + CountsOf(Held', h, c)
  PROVE  CountInv'
  <1>1. Held \in [Places -> Buffers] /\ Held' \in [Places -> Buffers]
    BY HeldNow
  <1>2. \A c \in Counters : Counting(Held', c)
                           = Counting(Held, c) - CountsOf(Held, h, c) + CountsOf(Held', h, c)
    BY ONLY <1>1, Distinct, h \in Handles, Changes(Held, Held', h, {}), Moved0
  <1>3. \A c \in Counters : Counting(Held, c) = Number(c)
    BY DEF CountsInv, CountInv, Number
  <1>4. \A c \in Counters : Counting(Held', c) = Number(c)'
    BY <1>2, <1>3
  <1> QED
    BY <1>4 DEF CountInv, Counting, Number

\* A step that leaves the counters of crops, and the ownership of each, as they are.
LEMMA CropsKept ==
  ASSUME CropInv,
         \A c \in Counters : counter'[c] # Null =>
             /\ counter[c] # Null /\ counter'[c].ownership = counter[c].ownership
             /\ counter'[c].cropped_from = counter[c].cropped_from
  PROVE  CropInv'
  BY DEF CropInv, Empty

\* A step that leaves the counts of zero, and who deletes them.
LEMMA DeletesKept ==
  ASSUME DeleteInv, TypesHold,
         \A g \in Handles : Deleted'[g] = Deleted[g],
         \A g \in Handles : Deleted[g].dev_ref_count # Null =>
             counter'[Deleted[g].dev_ref_count] = counter[Deleted[g].dev_ref_count],
         \A c \in Counters : counter'[c] # Null /\ counter'[c].count = 0 =>
             counter[c] # Null /\ counter[c].count = 0
  PROVE  DeleteInv'
  BY DEF DeleteInv

\* A reference to host memory goes with the place that held it.
LEMMA DropHostKeeps ==
  ASSUME Distinct, CountsInv, NEW h \in Handles, DropHost(h)
  PROVE  CountsInv'
  <1> DEFINE x == Held[<<"host", h>>]
  <1>1. /\ TypesHold' /\ UNCHANGED <<counter, memory>>
        /\ x \in HostParts
        /\ refs' = [refs EXCEPT ![x.alloc] = @ - 1]
        /\ Changes(Held, Held', h, {})
        /\ Row(h, Held[<<"buffer", h>>], Held[<<"after", h>>], Empty,
               Held[<<"device", h>>], Last[h], Deleted[h])
    BY DropHostDoes
  <1>2. /\ Held \in [Places -> Buffers] /\ Held' \in [Places -> Buffers]
        /\ refs \in [Allocs -> Int] /\ counter \in [Counters -> Counts \cup {Null}]
    BY <1>1, HeldNow
  <1>3. RefsInv'
    <2>1. \A a \in Allocs : refs'[a] = refs[a] - One(x.alloc, a)
      BY <1>1, <1>2 DEF One
    <2>2. \A a \in Allocs : AllocsOf(Held', h, a) = AllocsOf(Held, h, a) - One(x.alloc, a)
      BY <1>1 DEF AllocsOf, Row, Has, One, Empty, Distinct
    <2>3. \A a \in Allocs : AllocsOf(Held, h, a) \in Int /\ One(x.alloc, a) \in Int
      BY DEF AllocsOf, One
    <2>4. \A a \in Allocs : refs'[a] = refs[a] - AllocsOf(Held, h, a) + AllocsOf(Held', h, a)
      BY <1>2, <2>1, <2>2, <2>3
    <2> QED
      BY <1>1, <2>4, RefsKept
  <1>4. CountInv'
    <2>1. \A c \in Counters : Number(c)' = Number(c) /\ Number(c) \in Int
      BY <1>1, <1>2 DEF Number, Counts
    <2>2. \A c \in Counters : CountsOf(Held', h, c) = CountsOf(Held, h, c)
                              /\ CountsOf(Held, h, c) \in Int
      BY <1>1 DEF CountsOf, Row, Has, One, Empty, Distinct, HostParts
    <2>3. \A c \in Counters :
              Number(c)' = Number(c) - CountsOf(Held, h, c) + CountsOf(Held', h, c)
      BY <2>1, <2>2
    <2> QED
      BY <1>1, <2>3, NumbersKept
  <1>5. CropInv'
    BY <1>1, CropsKept DEF CountsInv
  <1>6. DeleteInv'
    BY <1>1, DeletesKept DEF CountsInv, Row, Has, TypesHold
  <1> QED
    BY <1>1, <1>3, <1>4, <1>5, <1>6 DEF CountsInv, TypesHold

\* When refs and counter stay, and h holds as much as before, in its own places.
LEMMA SameCounts ==
  ASSUME Distinct, CountsInv, NEW h \in Handles, TypesHold', Changes(Held, Held', h, {}),
         UNCHANGED <<refs, counter>>,
         \A a \in Allocs : AllocsOf(Held', h, a) = AllocsOf(Held, h, a),
         \A c \in Counters : CountsOf(Held', h, c) = CountsOf(Held, h, c)
  PROVE  RefsInv' /\ CountInv' /\ CropInv'
  <1>1. /\ Held \in [Places -> Buffers] /\ Held' \in [Places -> Buffers]
        /\ refs \in [Allocs -> Int] /\ counter \in [Counters -> Counts \cup {Null}]
    BY HeldNow
  <1>2. RefsInv'
    <2>1. \A a \in Allocs : AllocsOf(Held, h, a) \in Int
      BY DEF AllocsOf, One
    <2>2. \A a \in Allocs : refs'[a] = refs[a] - AllocsOf(Held, h, a) + AllocsOf(Held', h, a)
      BY <1>1, <2>1
    <2> QED
      BY <2>2, RefsKept
  <1>3. CountInv'
    <2>1. \A c \in Counters : CountsOf(Held, h, c) \in Int
      BY DEF CountsOf, One
    <2>2. \A c \in Counters : Number(c)' = Number(c) /\ Number(c) \in Int
      BY <1>1 DEF Number, Counts
    <2>3. \A c \in Counters :
              Number(c)' = Number(c) - CountsOf(Held, h, c) + CountsOf(Held', h, c)
      BY <2>1, <2>2
    <2> QED
      BY <2>3, NumbersKept
  <1>4. CropInv'
    BY CropsKept DEF CountsInv
  <1> QED
    BY <1>2, <1>3, <1>4

\* Freeing device memory is nothing to the counts.
LEMMA FreeDeviceKeeps ==
  ASSUME Distinct, CountsInv, NEW h \in Handles, FreeDevice(h)
  PROVE  CountsInv'
  <1>1. /\ TypesHold' /\ UNCHANGED <<refs, counter>>
        /\ Changes(Held, Held', h, {}) /\ SameCrops
        /\ Held[<<"host", h>>] = Empty /\ Held[<<"device", h>>] = Empty
        /\ Row(h, Held[<<"buffer", h>>], Held[<<"after", h>>], Empty, Empty,
               Empty, Deleted[h])
    BY FreeDeviceDoes
  <1>2. /\ \A a \in Allocs : AllocsOf(Held', h, a) = AllocsOf(Held, h, a)
        /\ \A c \in Counters : CountsOf(Held', h, c) = CountsOf(Held, h, c)
    BY <1>1 DEF AllocsOf, CountsOf, Row, Has
  <1>3. RefsInv' /\ CountInv' /\ CropInv'
    BY <1>1, <1>2, SameCounts
  <1>4. DeleteInv'
    BY <1>1, DeletesKept DEF CountsInv, Row, Has, TypesHold
  <1> QED
    BY <1>1, <1>3, <1>4 DEF CountsInv, TypesHold

\* What the handle was to hold after its drop, it holds.
LEMMA DroppedKeeps ==
  ASSUME Distinct, CountsInv, NEW h \in Handles, Dropped(h)
  PROVE  CountsInv'
  <1>1. /\ TypesHold' /\ UNCHANGED <<refs, memory, counter>>
        /\ Changes(Held, Held', h, {}) /\ SameCrops
        /\ Has(Held, Last, Deleted, h, Empty, Held[<<"after", h>>], Empty, Empty, Empty, Empty)
        /\ Row(h, Held[<<"after", h>>], Empty, Empty, Empty, Empty, Empty)
    BY DroppedDoes
  <1>2. Held \in [Places -> Buffers]
    BY <1>1, HeldNow
  <1>3. /\ \A a \in Allocs : AllocsOf(Held', h, a) = AllocsOf(Held, h, a)
        /\ \A c \in Counters : CountsOf(Held', h, c) = CountsOf(Held, h, c)
    BY <1>1 DEF AllocsOf, CountsOf, Row, Has, One
  <1>4. RefsInv' /\ CountInv' /\ CropInv'
    BY <1>1, <1>3, SameCounts
  <1>5. DeleteInv'
    BY <1>1, DeletesKept DEF CountsInv, Row, Has, TypesHold
  <1> QED
    BY <1>1, <1>4, <1>5 DEF CountsInv, TypesHold

\* The reference goes with the device part, or its handle is to delete the count.
LEMMA DropDeviceKeeps ==
  ASSUME Distinct, CountsInv, NEW h \in Handles, DropDevice(h)
  PROVE  CountsInv'
  <1> DEFINE y == Held[<<"device", h>>]
  <1>1. /\ TypesHold' /\ UNCHANGED <<refs, memory>>
        /\ y \in DeviceParts
        /\ counter' = IF y.dev_ref_count = Null THEN counter
                      ELSE [counter EXCEPT ![y.dev_ref_count].count = @ - 1]
        /\ y.dev_ref_count # Null =>
               /\ y.dev_ref_count \in Counters /\ counter[y.dev_ref_count] \in Counts
               /\ counter[y.dev_ref_count] # Null /\ counter[y.dev_ref_count].count >= 1
        /\ Changes(Held, Held', h, {}) /\ SameCrops
        /\ Last[h] = Empty /\ Deleted[h] = Empty /\ Held[<<"host", h>>] = Empty
        /\ Row(h, Held[<<"buffer", h>>], Held[<<"after", h>>], Empty, Empty,
               IF Gone(y) /\ y.device # Null THEN y ELSE Empty,
               IF Gone(y) /\ y.dev_ref_count # Null THEN y ELSE Empty)
    BY DropDeviceDoes
  <1>2. /\ Held \in [Places -> Buffers] /\ Held' \in [Places -> Buffers]
        /\ refs \in [Allocs -> Int] /\ counter \in [Counters -> Counts \cup {Null}]
    BY <1>1, HeldNow
  <1> DEFINE id == y.dev_ref_count
  <1>3. /\ Held'[<<"buffer", h>>] = Held[<<"buffer", h>>]
        /\ Held'[<<"after", h>>] = Held[<<"after", h>>]
        /\ Held'[<<"host", h>>] = Empty /\ Held'[<<"device", h>>] = Empty
        /\ Deleted'[h] = IF Gone(y) /\ id # Null THEN y ELSE Empty
        /\ \A g \in Handles : g # h => Deleted'[g] = Deleted[g]
    BY <1>1 DEF Row, Has
  <1>4. y.alloc = Null
    BY <1>1 DEF DeviceParts
  <1> HIDE DEF y
  <1>5. RefsInv'
    <2>1. \A a \in Allocs : AllocsOf(Held', h, a) = AllocsOf(Held, h, a)
                            /\ AllocsOf(Held, h, a) \in Int
      BY <1>1, <1>3, <1>4 DEF AllocsOf, One, Empty, Distinct, y
    <2>2. \A a \in Allocs : refs'[a] = refs[a] - AllocsOf(Held, h, a) + AllocsOf(Held', h, a)
      BY <1>1, <1>2, <2>1
    <2> QED
      BY <1>1, <2>2, RefsKept
  <1>6. \A c \in Counters :
            IF c = id THEN /\ counter[c] \in Counts /\ counter[c] # Null /\ counter[c].count >= 1
                           /\ counter'[c] = [counter[c] EXCEPT !.count = @ - 1]
            ELSE counter'[c] = counter[c]
    BY <1>1, <1>2 DEF Distinct
  <1>6a. \A c \in Counters : counter'[c] # Null <=> counter[c] # Null
    <2>1. \A c \in Counters : counter'[c] \in Counts \cup {Null}
      BY <1>1 DEF TypesHold, HandleTypes
    <2>2. \A x \in Counts : [x EXCEPT !.count = @ - 1] \in Counts
      BY DEF Counts
    <2>3. Null \notin Counts
      BY DEF Distinct
    <2> TAKE c \in Counters
    <2>4. CASE c = id
      <3>1. counter[c] \in Counts /\ counter[c] # Null
            /\ counter'[c] = [counter[c] EXCEPT !.count = @ - 1]
        BY <1>6, <2>4
      <3>2. counter'[c] \in Counts
        BY <2>2, <3>1
      <3> QED
        BY <2>3, <3>1, <3>2
    <2>5. CASE c # id
      BY <1>6, <2>5
    <2> QED
      BY <2>4, <2>5
  <1>6b. \A c \in Counters : counter[c] # Null => counter[c] \in Counts
    BY <1>2
  <1>6c. /\ \A c \in Counters : c # id => counter'[c] = counter[c]
         /\ id # Null => /\ id \in Counters /\ counter[id] # Null /\ counter[id] \in Counts
                         /\ counter[id].count >= 1
                         /\ counter'[id].count = counter[id].count - 1
                         /\ counter'[id].ownership = counter[id].ownership
                         /\ counter'[id].cropped_from = counter[id].cropped_from
    BY <1>1, <1>6 DEF Counts
  <1>7. CountInv'
    <2>1. \A c \in Counters : Number(c)' = Number(c) - One(id, c) /\ Number(c) \in Int
      BY <1>6, <1>6a, <1>6b, <1>6c DEF Number, Counts, One, Distinct
    <2>2. \A c \in Counters : /\ CountsOf(Held', h, c) = CountsOf(Held, h, c) - One(id, c)
                              /\ CountsOf(Held, h, c) \in Int /\ One(id, c) \in Int
      BY <1>1, <1>3 DEF CountsOf, One, Empty, Distinct, y
    <2>3. \A c \in Counters :
              Number(c)' = Number(c) - CountsOf(Held, h, c) + CountsOf(Held', h, c)
      BY <2>1, <2>2
    <2> QED
      BY <1>1, <2>3, NumbersKept
  <1>8. CropInv'
    BY <1>6a, <1>6c, CropsKept DEF CountsInv, Distinct
  <1>9. DeleteInv'
    <2>1. DeleteInv
      BY DEF CountsInv
    <2>2. Gone(y) <=> id = Null \/ counter[id].count = 1
      BY DEF Gone
    <2>3. ASSUME NEW g \in Handles, Deleted'[g].dev_ref_count # Null
          PROVE  /\ counter'[Deleted'[g].dev_ref_count] # Null
                 /\ counter'[Deleted'[g].dev_ref_count].count = 0
                 /\ \A i \in Handles :
                        Deleted'[i].dev_ref_count = Deleted'[g].dev_ref_count => i = g
      <3>1. CASE g = h
        <4>1. Deleted'[h] = y /\ id # Null /\ Gone(y)
          BY <1>3, <2>3, <3>1 DEF Empty
        <4>2. counter'[id] # Null /\ counter'[id].count = 0
          BY <1>6a, <1>6c, <2>2, <4>1
        <4>3. \A i \in Handles : i # h => Deleted'[i].dev_ref_count # id
          BY <1>3, <1>6c, <2>1, <4>1 DEF DeleteInv
        <4> QED
          BY <3>1, <4>1, <4>2, <4>3
      <3>2. CASE g # h
        <4>1. Deleted'[g] = Deleted[g] /\ Deleted[g].dev_ref_count # Null
          BY <1>3, <2>3, <3>2
        <4>2. /\ counter[Deleted[g].dev_ref_count] # Null
              /\ counter[Deleted[g].dev_ref_count].count = 0
              /\ \A i \in Handles :
                    Deleted[i].dev_ref_count = Deleted[g].dev_ref_count => i = g
          BY <2>1, <4>1 DEF DeleteInv
        <4>3. Deleted[g].dev_ref_count \in Counters /\ Deleted[g].dev_ref_count # id
          <5>1. HeldTypes
            BY HeldType DEF CountsInv, TypesHold
          <5>2. Deleted[g] = Of(todo[g], "delete")
            BY PlacesNow DEF HandlesNow, Has
          <5>3. Deleted[g] \in DeviceParts
            BY <4>1, <5>1, <5>2 DEF HeldTypes, ShapeFacts, Empty
          <5> QED
            BY <1>6c, <4>1, <4>2, <5>3 DEF DeviceParts, Buffers
        <4>4. counter'[Deleted[g].dev_ref_count] = counter[Deleted[g].dev_ref_count]
          BY <1>6c, <4>3
        <4>5. \A i \in Handles : Deleted'[i].dev_ref_count = Deleted[g].dev_ref_count => i = g
          BY <1>3, <4>2, <4>1, <4>3 DEF Empty
        <4> QED
          BY <4>1, <4>2, <4>4, <4>5
      <3> QED
        BY <3>1, <3>2
    <2>4. ASSUME NEW c \in Counters, counter'[c] # Null, counter'[c].count = 0
          PROVE  \E g \in Handles : Deleted'[g].dev_ref_count = c
      <3>1. CASE c = id
        <4>1. id # Null
          BY <3>1 DEF Distinct
        <4>2. counter[id].count = 1
          BY <1>6c, <2>4, <3>1, <4>1 DEF Counts
        <4>3. Deleted'[h] = y
          BY <1>3, <2>2, <4>1, <4>2
        <4> QED
          BY <3>1, <4>3
      <3>2. CASE c # id
        <4>1. counter[c] # Null /\ counter[c].count = 0
          BY <1>6c, <2>4, <3>2
        <4>2. PICK g \in Handles : Deleted[g].dev_ref_count = c
          BY <2>1, <4>1 DEF DeleteInv
        <4>3. g # h
          BY <1>1, <4>2 DEF Empty, Distinct
        <4> QED
          BY <1>3, <4>2, <4>3
      <3> QED
        BY <3>1, <3>2
    <2> QED
      BY <2>3, <2>4 DEF DeleteInv
  <1> QED
    BY <1>1, <1>5, <1>7, <1>8, <1>9 DEF CountsInv, TypesHold

\* RefsKept and NumbersKept for a step that changes one other place, y.
LEMMA KeptWith ==
  ASSUME Distinct, CountsInv, NEW h \in Handles, TypesHold',
         NEW y \in Places, y \notin HandlePlaces(h), Changes(Held, Held', h, {y}),
         \A a \in Allocs : refs'[a] = refs[a] - AllocsOf(Held, h, a) + AllocsOf(Held', h, a)
                               - One(Held[y].alloc, a) + One(Held'[y].alloc, a),
         \A c \in Counters : Number(c)'
             = Number(c) - CountsOf(Held, h, c) + CountsOf(Held', h, c)
                               - One(Held[y].dev_ref_count, c) + One(Held'[y].dev_ref_count, c)
  PROVE  RefsInv' /\ CountInv'
  <1>1. Held \in [Places -> Buffers] /\ Held' \in [Places -> Buffers]
    BY HeldNow
  <1>2. /\ \A a \in Allocs : Allocating(Held', a)
             = Allocating(Held, a) - AllocsOf(Held, h, a) + AllocsOf(Held', h, a)
               - One(Held[y].alloc, a) + One(Held'[y].alloc, a)
        /\ \A c \in Counters : Counting(Held', c)
             = Counting(Held, c) - CountsOf(Held, h, c) + CountsOf(Held', h, c)
               - One(Held[y].dev_ref_count, c) + One(Held'[y].dev_ref_count, c)
    BY ONLY <1>1, Distinct, h \in Handles, y \in Places, y \notin HandlePlaces(h),
            Changes(Held, Held', h, {y}), Moved1
  <1>3. \A a \in Allocs : refs'[a] = Allocating(Held', a)
    BY <1>2 DEF CountsInv, RefsInv
  <1>4. \A c \in Counters : Counting(Held, c) = Number(c)
    BY DEF CountsInv, CountInv, Number
  <1>5. \A c \in Counters : Counting(Held', c) = Number(c)'
    BY <1>2, <1>4
  <1>6. RefsInv'
    BY <1>3 DEF RefsInv, Allocating
  <1> QED
    BY <1>5, <1>6 DEF CountInv, Counting, Number

\* What a handle is to delete is a counter.
LEMMA DeletedIs ==
  ASSUME Distinct, CountsInv, NEW g \in Handles, Deleted[g].dev_ref_count # Null
  PROVE  /\ Deleted[g].dev_ref_count \in Counters
         /\ counter[Deleted[g].dev_ref_count] # Null
         /\ counter[Deleted[g].dev_ref_count].count = 0
         /\ \A i \in Handles : Deleted[i].dev_ref_count = Deleted[g].dev_ref_count => i = g
  <1>1. HeldTypes
    BY HeldType DEF CountsInv, TypesHold
  <1>2. Deleted[g] = Of(todo[g], "delete")
    BY PlacesNow DEF HandlesNow, Has
  <1>3. Deleted[g] \in DeviceParts
    BY <1>1, <1>2 DEF HeldTypes, ShapeFacts, Empty
  <1> QED
    BY <1>3 DEF CountsInv, DeleteInv, DeviceParts, Buffers

\* A crop's place is not one of a handle.
LEMMA CropPlace ==
  ASSUME NEW c \in Counters, NEW h \in Handles
  PROVE  <<"crop", c>> \in Places /\ <<"crop", c>> \notin HandlePlaces(h)
  BY DEF Places, Kinds, HandlePlaces, HandleKinds

\* With the count of a crop, what it kept is dropped by the handle that deletes it.
LEMMA DeleteCounterKeeps ==
  ASSUME Distinct, CountsInv, NEW h \in Handles, DeleteCounter(h)
  PROVE  CountsInv'
  <1> DEFINE id == Deleted[h].dev_ref_count
             b == CropOf(id)
             p == <<"crop", id>>
  <1>1. /\ TypesHold' /\ UNCHANGED <<refs, memory>>
        /\ id \in Counters /\ id # Null /\ counter[id] # Null
        /\ b \in Buffers /\ b = counter[id].cropped_from
        /\ counter' = [counter EXCEPT ![id] = Null]
        /\ Held[p] = b /\ Held'[p] = Empty
        /\ Changes(Held, Held', h, {p})
        /\ \A c \in Counters : c # id => CropOf(c)' = CropOf(c)
        /\ Last[h] = Empty
        /\ Held[<<"host", h>>] = Empty /\ Held[<<"device", h>>] = Empty
        /\ Row(h, Held[<<"buffer", h>>], Held[<<"after", h>>],
               HostPart(b), DevicePart(b), Empty, Empty)
    BY DeleteCounterDoes
  <1>2. /\ Held \in [Places -> Buffers] /\ Held' \in [Places -> Buffers]
        /\ refs \in [Allocs -> Int] /\ counter \in [Counters -> Counts \cup {Null}]
    BY <1>1, HeldNow
  <1>3. /\ Held'[<<"buffer", h>>] = Held[<<"buffer", h>>]
        /\ Held'[<<"after", h>>] = Held[<<"after", h>>]
        /\ Held'[<<"host", h>>] = HostPart(b) /\ Held'[<<"device", h>>] = DevicePart(b)
        /\ Deleted'[h] = Empty
        /\ \A g \in Handles : g # h => Deleted'[g] = Deleted[g]
    BY <1>1 DEF Row, Has
  <1>4. /\ counter'[id] = Null /\ \A c \in Counters : c # id => counter'[c] = counter[c]
    BY <1>1, <1>2
  <1>5. /\ counter[id].count = 0
        /\ \A g \in Handles : Deleted[g].dev_ref_count = id => g = h
    BY <1>1, DeletedIs
  <1>6. p \in Places /\ p \notin HandlePlaces(h)
    BY <1>1, CropPlace
  <1>7. /\ HostPart(b).alloc = b.alloc /\ HostPart(b).dev_ref_count = Null
        /\ DevicePart(b).alloc = Null /\ DevicePart(b).dev_ref_count = b.dev_ref_count
    BY <1>1 DEF HostPart, DevicePart, Buffers, Empty
  <1> HIDE DEF id, b, p
  <1>8. ASSUME NEW a \in Allocs
        PROVE  refs'[a] = refs[a] - AllocsOf(Held, h, a) + AllocsOf(Held', h, a)
                               - One(Held[p].alloc, a) + One(Held'[p].alloc, a)
    <2>1. AllocsOf(Held', h, a) = AllocsOf(Held, h, a) + One(b.alloc, a)
      BY <1>1, <1>3, <1>7 DEF AllocsOf, One, Empty, Distinct
    <2>2. One(Held[p].alloc, a) = One(b.alloc, a) /\ One(Held'[p].alloc, a) = 0
      BY <1>1 DEF One, Empty, Distinct
    <2>3. AllocsOf(Held, h, a) \in Int /\ One(b.alloc, a) \in Int /\ refs[a] \in Int
      BY <1>2 DEF AllocsOf, One
    <2> QED
      BY ONLY <1>1, <2>1, <2>2, <2>3
  <1>9. ASSUME NEW c \in Counters
        PROVE  Number(c)' = Number(c) - CountsOf(Held, h, c) + CountsOf(Held', h, c)
                               - One(Held[p].dev_ref_count, c) + One(Held'[p].dev_ref_count, c)
    <2>1. CountsOf(Held', h, c) = CountsOf(Held, h, c) + One(b.dev_ref_count, c)
      BY <1>1, <1>3, <1>7 DEF CountsOf, One, Empty, Distinct
    <2>2. One(Held[p].dev_ref_count, c) = One(b.dev_ref_count, c)
          /\ One(Held'[p].dev_ref_count, c) = 0
      BY <1>1 DEF One, Empty, Distinct
    <2>3. CountsOf(Held, h, c) \in Int /\ One(b.dev_ref_count, c) \in Int
      BY DEF CountsOf, One
    <2>4. Number(c)' = Number(c) /\ Number(c) \in Int
      BY <1>2, <1>4, <1>5 DEF Number, Counts
    <2> QED
      BY ONLY <2>1, <2>2, <2>3, <2>4
  <1>10. RefsInv' /\ CountInv'
    BY <1>1, <1>6, <1>8, <1>9, KeptWith
  <1>11. CropInv'
    BY <1>4, CropsKept DEF CountsInv
  <1>12. DeleteInv'
    <2>1. ASSUME NEW g \in Handles, Deleted'[g].dev_ref_count # Null
          PROVE  /\ counter'[Deleted'[g].dev_ref_count] # Null
                 /\ counter'[Deleted'[g].dev_ref_count].count = 0
                 /\ \A i \in Handles :
                        Deleted'[i].dev_ref_count = Deleted'[g].dev_ref_count => i = g
      <3>1. g # h /\ Deleted'[g] = Deleted[g] /\ Deleted[g].dev_ref_count # Null
        BY <1>3, <2>1 DEF Empty
      <3>2. Deleted[g].dev_ref_count # id
        BY <1>5, <3>1
      <3>3. /\ Deleted[g].dev_ref_count \in Counters
            /\ counter[Deleted[g].dev_ref_count] # Null
            /\ counter[Deleted[g].dev_ref_count].count = 0
            /\ \A i \in Handles : Deleted[i].dev_ref_count = Deleted[g].dev_ref_count => i = g
        BY <3>1, DeletedIs
      <3>4. \A i \in Handles : Deleted'[i].dev_ref_count = Deleted[g].dev_ref_count => i = g
        BY <1>3, <3>1, <3>3 DEF Empty
      <3> QED
        BY <1>4, <3>1, <3>2, <3>3, <3>4
    <2>2. ASSUME NEW c \in Counters, counter'[c] # Null, counter'[c].count = 0
          PROVE  \E g \in Handles : Deleted'[g].dev_ref_count = c
      <3>1. c # id /\ counter'[c] = counter[c]
        BY <1>4, <2>2
      <3>2. PICK g \in Handles : Deleted[g].dev_ref_count = c
        BY <2>2, <3>1 DEF CountsInv, DeleteInv
      <3>3. g # h
        BY <3>1, <3>2 DEF id
      <3> QED
        BY <1>3, <3>2, <3>3
    <2> QED
      BY <2>1, <2>2 DEF DeleteInv
  <1> QED
    BY <1>1, <1>10, <1>11, <1>12 DEF CountsInv, TypesHold

\* Every step of a drop keeps the counts.
LEMMA DropKeeps ==
  ASSUME Distinct, CountsInv, NEW h \in Handles, Drop(h)
  PROVE  CountsInv'
  BY DropHostKeeps, DropDeviceKeeps, FreeDeviceKeeps, DeleteCounterKeeps, DroppedKeeps DEF Drop

-----------------------------------------------------------------------------
(* Device memory, as it is carried from place to place *)

\* What is held by a place, or freed by a handle, is there, as it says.
LEMMA MemoryHeld ==
  ASSUME Distinct, CountsInv, MemoryInv
  PROVE  /\ \A p \in Places : Held[p].device # Null =>
              /\ Held[p].device \in Memories /\ memory[Held[p].device].how # "Free"
              /\ Held[p].device = External => Held[p].dev_ref_count # Null
         /\ \A h \in Handles : Last[h].device # Null =>
              /\ Last[h].device \in Memories /\ memory[Last[h].device].how # "Free"
              /\ Last[h].device = External => Last[h].dev_ref_count # Null
         /\ \A h \in Handles :
              /\ Last[h] \in DeviceParts \cup {Empty}
              /\ Last[h].dev_ref_count # Null =>
                     /\ Deleted[h] = Last[h] /\ Last[h].dev_ref_count \in Counters
                     /\ counter[Last[h].dev_ref_count] # Null
                     /\ counter[Last[h].dev_ref_count] \in Counts
                     /\ counter[Last[h].dev_ref_count].count = 0
  <1>1. Held \in [Places -> Buffers] /\ \A h \in Handles : ShapeFacts(todo[h])
    BY HeldType DEF CountsInv, TypesHold, HeldTypes
  <1>2. ASSUME NEW h \in Handles
        PROVE  /\ Last[h] \in DeviceParts \cup {Empty}
               /\ Last[h].dev_ref_count # Null =>
                     /\ Deleted[h] = Last[h] /\ Last[h].dev_ref_count \in Counters
                     /\ counter[Last[h].dev_ref_count] # Null
                     /\ counter[Last[h].dev_ref_count] \in Counts
                     /\ counter[Last[h].dev_ref_count].count = 0
    <2>1. Last[h] = Of(todo[h], "free") /\ Deleted[h] = Of(todo[h], "delete")
      BY PlacesNow DEF HandlesNow, Has
    <2>2. Last[h] \in DeviceParts \cup {Empty}
          /\ (Last[h].dev_ref_count # Null => Deleted[h] = Last[h])
      BY <1>1, <2>1 DEF ShapeFacts
    <2>3. \A c \in Counters : counter[c] \in Counts \cup {Null}
      BY DEF CountsInv, HandleTypes
    <2> QED
      BY <2>2, <2>3, DeletedIs
  <1>3. ASSUME NEW b \in Buffers, b.device # Null, Describes(b),
               b.dev_ref_count # Null => counter[b.dev_ref_count] \in Counts
        PROVE  /\ b.device \in Memories /\ memory[b.device].how # "Free"
               /\ b.device = External => b.dev_ref_count # Null
    <2>1. memory[b.device].how = device_ownership(b) /\ b.device \in Memories
      BY <1>3 DEF Describes, Buffers
    <2>2. device_ownership(b) \in Ownerships
      BY <1>3 DEF device_ownership, Counts, Ownerships
    <2>3. b.dev_ref_count = Null => device_ownership(b) = "Allocated"
      BY DEF device_ownership
    <2> QED
      BY <2>1, <2>2, <2>3 DEF Ownerships, MemoryInv, NotLost
  <1>4. \A p \in Places : Held[p].dev_ref_count # Null =>
            counter[Held[p].dev_ref_count] \in Counts
    BY HolderCounted
  <1>5. \A p \in Places : Held[p] \in Buffers /\ Describes(Held[p])
    BY <1>1 DEF MemoryInv, DescribedInv
  <1>6. \A h \in Handles : Describes(Last[h]) /\ (Last[h] # Empty => Last[h] \in Buffers)
    BY <1>2 DEF MemoryInv, DescribedInv, DeviceParts
  <1> QED
    BY <1>2, <1>3, <1>4, <1>5, <1>6 DEF Empty

\* Each place but x has the memory and the count that f says it has from, but for the count
\* of what the place g held, which is k; nothing is lost, and what has no count is not doubled.
Carries(f, g, k, x) ==
    /\ f \in [Places -> Places] /\ g \in Places
    /\ \A p \in Places : p # x /\ (Held'[p].device # Null \/ Held'[p].dev_ref_count # Null) =>
         /\ Held'[p].device = Held[f[p]].device
         /\ Held'[p].dev_ref_count = IF f[p] = g THEN k ELSE Held[f[p]].dev_ref_count
    /\ \A p, q \in Places : p # x /\ q # x /\ f[p] = f[q]
                            /\ Held'[p].device # Null /\ Held'[q].device # Null
                            /\ Held'[p].dev_ref_count = Null
         => p = q
    /\ \A p \in Places : Held[p].device # Null =>
           \E q \in Places : Held'[q].device = Held[p].device
    /\ \/ k = Held[g].dev_ref_count
       \/ /\ Held[g].dev_ref_count = Null /\ k \in Counters /\ counter[k] = Null
          /\ Held[g].device # External
          /\ counter'[k] # Null /\ counter'[k].ownership = "Allocated"

\* What x has is new, or the memory of the program, and there is a count for that.
Fresh(x, k) ==
    LET b == Held'[x] IN
    /\ b.dev_ref_count # Null =>
           /\ b.dev_ref_count \in Counters /\ counter[b.dev_ref_count] = Null
           /\ b.dev_ref_count # k
    /\ b.device \notin {Null, External} => memory[b.device] = Free
    /\ Describes(Held[x])'

\* What is said of memory that is in use, and by the counts that are held, stays.
Stays(x) ==
    /\ \A c \in Counters : (\E p \in Places : Held[p].dev_ref_count = c)
                           \/ (\E h \in Handles : Last[h].dev_ref_count = c) =>
         /\ counter'[c].ownership = counter[c].ownership
         /\ counter'[c].cropped_from = counter[c].cropped_from
    /\ \A m \in Memories : /\ memory[m] # Free => memory'[m] = memory[m]
                           /\ memory[m] = Free => \/ memory'[m] = Free
                                                  \/ /\ m = Held'[x].device
                                                     /\ memory'[m].how # "Unmanaged"
    /\ \A h \in Handles : Last'[h] = Last[h]

\* Memory is as before when each place has what another one had, or something fresh.
LEMMA Carried ==
  ASSUME Distinct, CountsInv, TypesHold', MemoryInv, NEW f, NEW g, NEW k, NEW x \in Places,
         Carries(f, g, k, x), Fresh(x, k), Stays(x)
  PROVE  MemoryInv'
  <1>1. /\ \A p \in Places : Held[p].device # Null =>
              /\ Held[p].device \in Memories /\ memory[Held[p].device].how # "Free"
              /\ Held[p].device = External => Held[p].dev_ref_count # Null
        /\ \A h \in Handles : Last[h].device # Null =>
              /\ Last[h].device \in Memories /\ memory[Last[h].device].how # "Free"
              /\ Last[h].device = External => Last[h].dev_ref_count # Null
        /\ \A h \in Handles :
              /\ Last[h] \in DeviceParts \cup {Empty}
              /\ Last[h].dev_ref_count # Null =>
                     /\ Deleted[h] = Last[h] /\ Last[h].dev_ref_count \in Counters
                     /\ counter[Last[h].dev_ref_count] # Null
                     /\ counter[Last[h].dev_ref_count] \in Counts
                     /\ counter[Last[h].dev_ref_count].count = 0
    BY MemoryHeld
  <1>2. /\ Held \in [Places -> Buffers]
        /\ \A p \in Places : Held[p].dev_ref_count # Null =>
              /\ Held[p].dev_ref_count \in Counters /\ counter[Held[p].dev_ref_count] # Null
    <2>1. Held \in [Places -> Buffers]
      BY HeldType DEF CountsInv, TypesHold, HeldTypes
    <2> QED
      BY <2>1, HolderCounted
  <1>3. HeldTypes'
    BY HeldType, PTL
  <1>4. Held' \in [Places -> Buffers]
    BY <1>3 DEF HeldTypes
  <1>5. /\ SameDevice /\ OneWay /\ FreedOnce /\ DescribedInv /\ NotLost
    BY DEF MemoryInv
  <1> DEFINE D(p) == Held'[p].device
             C(p) == Held'[p].dev_ref_count
  <1>6. \A p \in Places : p # x /\ (D(p) # Null \/ C(p) # Null) =>
            /\ f[p] \in Places /\ D(p) = Held[f[p]].device
            /\ C(p) = IF f[p] = g THEN k ELSE Held[f[p]].dev_ref_count
    BY DEF Carries
  <1>7. \/ k = Held[g].dev_ref_count
        \/ Held[g].dev_ref_count = Null /\ \A p \in Places : Held[p].dev_ref_count # k
    BY <1>2 DEF Carries
  <1>8. /\ C(x) # Null => C(x) # k /\ \A p \in Places : Held[p].dev_ref_count # C(x)
        /\ D(x) \notin {Null, External} => /\ \A p \in Places : Held[p].device # D(x)
                                           /\ \A h \in Handles : Last[h].device # D(x)
    BY <1>1, <1>2 DEF Fresh, Free
  <1>9. g \in Places
    BY DEF Carries
  <1>10. SameDevice'
    <2>1. ASSUME NEW p \in Places, NEW q \in Places, C(p) # Null, C(p) = C(q)
          PROVE  D(p) = D(q)
      <3>1. CASE p = x \/ q = x
        BY <1>6, <1>8, <1>9, <2>1, <3>1
      <3>2. CASE p # x /\ q # x
        <4>1. /\ f[p] \in Places /\ D(p) = Held[f[p]].device
              /\ C(p) = IF f[p] = g THEN k ELSE Held[f[p]].dev_ref_count
              /\ f[q] \in Places /\ D(q) = Held[f[q]].device
              /\ C(q) = IF f[q] = g THEN k ELSE Held[f[q]].dev_ref_count
          BY <1>6, <2>1, <3>2
        <4>2. Held[f[p]].dev_ref_count # Null
              /\ Held[f[p]].dev_ref_count = Held[f[q]].dev_ref_count
                => Held[f[p]].device = Held[f[q]].device
          BY <1>5, <4>1 DEF SameDevice
        <4> QED
          BY <1>7, <1>9, <2>1, <4>1, <4>2
      <3> QED
        BY <3>1, <3>2
    <2> QED
      BY <2>1 DEF SameDevice
  <1>11. OneWay'
    <2>1. ASSUME NEW p \in Places, NEW q \in Places, D(p) \notin {Null, External}, D(p) = D(q)
          PROVE  C(p) = C(q) /\ (C(p) = Null => p = q)
      <3>1. CASE p = x \/ q = x
        BY <1>6, <1>8, <1>9, <2>1, <3>1
      <3>2. CASE p # x /\ q # x
        <4>1. /\ f[p] \in Places /\ D(p) = Held[f[p]].device
              /\ C(p) = IF f[p] = g THEN k ELSE Held[f[p]].dev_ref_count
              /\ f[q] \in Places /\ D(q) = Held[f[q]].device
              /\ C(q) = IF f[q] = g THEN k ELSE Held[f[q]].dev_ref_count
          BY <1>6, <2>1, <3>2
        <4>2. /\ Held[f[p]].dev_ref_count = Held[f[q]].dev_ref_count
              /\ Held[f[p]].dev_ref_count = Null => f[p] = f[q]
          <5>1. \A i, j \in Places : Held[i].device \notin {Null, External}
                                    /\ Held[i].device = Held[j].device
                  => /\ Held[i].dev_ref_count = Held[j].dev_ref_count
                     /\ Held[i].dev_ref_count = Null => i = j
            BY <1>5 DEF OneWay
          <5>2. /\ Held[f[p]].device \notin {Null, External}
                /\ Held[f[p]].device = Held[f[q]].device
            BY <2>1, <4>1
          <5> QED
            BY <4>1, <5>1, <5>2
        <4>3. C(p) = C(q)
          BY <1>7, <4>1, <4>2
        <4>4. C(p) = Null => Held[f[p]].dev_ref_count = Null
          BY <1>7, <1>2, <1>9, <4>1 DEF Carries, Distinct
        <4>5. C(p) = Null => f[p] = f[q]
          BY <4>2, <4>4
        <4>6. f[p] = f[q] /\ C(p) = Null => p = q
          BY <2>1, <3>2 DEF Carries
        <4> QED
          BY <4>3, <4>5, <4>6
      <3> QED
        BY <3>1, <3>2
    <2> QED
      BY <2>1 DEF OneWay
  <1>12. FreedOnce'
    <2>1. ASSUME NEW h \in Handles, Last[h].device \notin {Null, External}, NEW p \in Places
          PROVE  D(p) # Last[h].device
      <3>1. \A q \in Places : Held[q].device # Last[h].device
        BY <1>5, <2>1 DEF FreedOnce
      <3>2. CASE p = x
        BY <1>8, <2>1, <3>2
      <3>3. CASE p # x
        BY <1>6, <2>1, <3>1, <3>3
      <3> QED
        BY <3>2, <3>3
    <2>2. \A h \in Handles : Last'[h] = Last[h]
      BY DEF Stays
    <2>3. \A h \in Handles : Last[h].device \notin {Null, External} =>
              \A i \in Handles : Last[i].device = Last[h].device => i = h
      BY <1>5 DEF FreedOnce
    <2> QED
      BY <2>1, <2>2, <2>3 DEF FreedOnce
  <1>13. \A m \in Memories : memory[m].how # "Free" => memory'[m] = memory[m]
    BY DEF Stays, Free
  <1>14. DescribedInv'
    <2>1. ASSUME NEW p \in Places, p # x, D(p) # Null
          PROVE  /\ memory'[D(p)].how = IF C(p) = Null THEN "Allocated"
                                        ELSE counter'[C(p)].ownership
                 /\ C(p) # Null /\ counter'[C(p)].ownership = "Cropped" =>
                        memory'[D(p)].of = counter'[C(p)].cropped_from.device
      <3> DEFINE q == f[p]
      <3>1. /\ q \in Places /\ D(p) = Held[q].device
            /\ C(p) = IF q = g THEN k ELSE Held[q].dev_ref_count
        BY <1>6, <2>1
      <3> HIDE DEF q
      <3>2. Describes(Held[q]) /\ Held[q].device # Null
        BY <1>5, <2>1, <3>1 DEF DescribedInv
      <3>3. /\ memory[D(p)].how = IF Held[q].dev_ref_count = Null THEN "Allocated"
                                  ELSE counter[Held[q].dev_ref_count].ownership
            /\ Held[q].dev_ref_count # Null
                 /\ counter[Held[q].dev_ref_count].ownership = "Cropped" =>
                    memory[D(p)].of = counter[Held[q].dev_ref_count].cropped_from.device
        BY <3>1, <3>2 DEF Describes, device_ownership
      <3>4. memory'[D(p)] = memory[D(p)]
        BY <1>1, <1>13, <3>1, <3>2
      <3>5. CASE C(p) = Held[q].dev_ref_count
        <4>1. C(p) # Null => /\ counter'[C(p)].ownership = counter[C(p)].ownership
                             /\ counter'[C(p)].cropped_from = counter[C(p)].cropped_from
          BY <1>2, <3>1, <3>5 DEF Stays
        <4> QED
          BY <3>3, <3>4, <3>5, <4>1
      <3>6. CASE C(p) # Held[q].dev_ref_count
        <4>1. /\ q = g /\ Held[q].dev_ref_count = Null /\ C(p) = k
              /\ counter'[k].ownership = "Allocated" /\ k # Null
          BY <3>1, <3>6 DEF Carries, Distinct
        <4> QED
          BY <3>3, <3>4, <4>1
      <3> QED
        BY <3>5, <3>6
    <2>2. ASSUME NEW p \in Places PROVE Describes(Held[p])'
      <3>1. CASE p # x
        BY <2>1, <3>1 DEF Describes, device_ownership
      <3>2. CASE p = x
        <4>1. Describes(Held[x])'
          BY DEF Fresh
        <4> QED
          BY <3>2, <4>1 DEF Describes, device_ownership
      <3> QED
        BY <3>1, <3>2
    <2>3. ASSUME NEW h \in Handles PROVE Describes(Last[h])'
      <3>1. Last'[h] = Last[h] /\ Describes(Last[h])
        BY <1>5 DEF DescribedInv, Stays
      <3>2. Last[h].device # Null => memory'[Last[h].device] = memory[Last[h].device]
        BY <1>1, <1>13
      <3>3. Last[h].dev_ref_count # Null =>
               /\ counter'[Last[h].dev_ref_count].ownership
                    = counter[Last[h].dev_ref_count].ownership
               /\ counter'[Last[h].dev_ref_count].cropped_from
                    = counter[Last[h].dev_ref_count].cropped_from
        BY <1>1 DEF Stays
      <3>4. \/ Last[h].dev_ref_count # Null
            \/ device_ownership(Last[h]) = "Allocated" /\ Last[h].dev_ref_count = Null
        BY DEF device_ownership
      <3> QED
        BY <3>1, <3>2, <3>3, <3>4 DEF Describes, device_ownership
    <2> QED
      BY <2>2, <2>3 DEF DescribedInv
  <1>15. NotLost'
    <2>1. memory'[External].how = "Unmanaged"
      BY <1>5, <1>13 DEF NotLost, Distinct
    <2>2. ASSUME NEW m \in Memories \ {External}
          PROVE  /\ memory'[m].how # "Unmanaged"
                 /\ memory'[m].how # "Free" => \/ \E p \in Places : D(p) = m
                                               \/ \E h \in Handles : Last'[h].device = m
      <3>1. CASE memory[m] # Free
        <4>1. memory'[m] = memory[m]
          BY <3>1 DEF Stays
        <4>2. memory[m].how # "Unmanaged"
              /\ (memory[m].how # "Free" => \/ \E p \in Places : Held[p].device = m
                                            \/ \E h \in Handles : Last[h].device = m)
          BY <1>5 DEF NotLost
        <4>3. \A p \in Places : Held[p].device # Null =>
                  \E q \in Places : D(q) = Held[p].device
          BY DEF Carries
        <4>4. (\E p \in Places : Held[p].device = m) => (\E q \in Places : D(q) = m)
          BY <4>3 DEF Distinct
        <4>5. (\E h \in Handles : Last[h].device = m) => \E h \in Handles : Last'[h].device = m
          BY DEF Stays
        <4> QED
          BY <4>1, <4>2, <4>4, <4>5
      <3>2. CASE memory[m] = Free
        BY <3>2 DEF Stays, Free
      <3> QED
        BY <3>1, <3>2
    <2> QED
      BY <2>1, <2>2 DEF NotLost
  <1> QED
    BY <1>10, <1>11, <1>12, <1>14, <1>15 DEF MemoryInv

\* The places of a handle, one by one.
LEMMA PlacesOf ==
  ASSUME NEW h \in Handles, NEW p \in HandlePlaces(h)
  PROVE  p \in {<<"buffer", h>>, <<"after", h>>, <<"host", h>>, <<"device", h>>}
  BY DEF HandlePlaces, HandleKinds

\* Memory changes hands, and one place is left without.
LEMMA Relocated ==
  ASSUME Distinct, CountsInv, TypesHold', MemoryInv, UNCHANGED memory,
         NEW f \in [Places -> Places], NEW x \in Places,
         Held'[x].device = Null, Held'[x].dev_ref_count = Null,
         \A p \in Places : p # x /\ (Held'[p].device # Null \/ Held'[p].dev_ref_count # Null) =>
             /\ Held'[p].device = Held[f[p]].device
             /\ Held'[p].dev_ref_count = Held[f[p]].dev_ref_count,
         \A p, q \in Places : p # x /\ q # x /\ f[p] = f[q]
                              /\ Held'[p].device # Null /\ Held'[q].device # Null => p = q,
         \A p \in Places : Held[p].device # Null =>
             \E q \in Places : Held'[q].device = Held[p].device,
         \A h \in Handles : Last'[h] = Last[h],
         \A c \in Counters : \/ counter'[c] = counter[c]
                             \/ /\ \A p \in Places : Held[p].dev_ref_count # c
                                /\ \A h \in Handles : Last[h].dev_ref_count # c
  PROVE  MemoryInv'
  <1>1. Carries(f, x, Held[x].dev_ref_count, x)
    BY DEF Carries
  <1>2. Fresh(x, Held[x].dev_ref_count)
    <2>1. Describes(Held[x])'
      BY DEF Describes
    <2> QED
      BY <2>1 DEF Fresh
  <1>3. Stays(x)
    BY DEF Stays
  <1> QED
    BY <1>1, <1>2, <1>3, Carried

\* What the place s held is handed to t, which held none.
LEMMA Handed ==
  ASSUME Distinct, CountsInv, TypesHold', MemoryInv, UNCHANGED memory,
         NEW s \in Places, NEW t \in Places, s # t, Held[t].device = Null,
         Held'[s].device = Null, Held'[s].dev_ref_count = Null,
         Held'[t].device = Held[s].device, Held'[t].dev_ref_count = Held[s].dev_ref_count,
         \A p \in Places : p \notin {s, t} => /\ Held'[p].device = Held[p].device
                                              /\ Held'[p].dev_ref_count = Held[p].dev_ref_count,
         \A h \in Handles : Last'[h] = Last[h],
         \A c \in Counters : \/ counter'[c] = counter[c]
                             \/ /\ \A p \in Places : Held[p].dev_ref_count # c
                                /\ \A h \in Handles : Last[h].dev_ref_count # c
  PROVE  MemoryInv'
  <1> DEFINE f == [p \in Places |-> IF p = t THEN s ELSE p]
  <1>1. f \in [Places -> Places] /\ \A p \in Places : f[p] = IF p = t THEN s ELSE p
    OBVIOUS
  <1> HIDE DEF f
  <1>2. \A p \in Places : p # s => /\ Held'[p].device = Held[f[p]].device
                                   /\ Held'[p].dev_ref_count = Held[f[p]].dev_ref_count
    BY <1>1
  <1>3. \A p, q \in Places : p # s /\ q # s /\ f[p] = f[q] => p = q
    BY <1>1
  <1>4. \A p \in Places : Held[p].device # Null =>
            \E q \in Places : Held'[q].device = Held[p].device
    <2> TAKE p \in Places
    <2>1. CASE p = s
      BY <2>1
    <2>2. CASE p # s
      BY <2>2
    <2> QED
      BY <2>1, <2>2
  <1> QED
    BY <1>1, <1>2, <1>3, <1>4, Relocated

\* No place of h but those of a drop holds anything while it is in one.
LEMMA DropHostMemory ==
  ASSUME Distinct, CountsInv, MemoryInv, NEW h \in Handles, DropHost(h)
  PROVE  MemoryInv'
  <1> DEFINE s == <<"host", h>>
             t == <<"buffer", h>>
  <1>1. /\ TypesHold' /\ UNCHANGED <<counter, memory>>
        /\ Held[s] \in HostParts
        /\ Changes(Held, Held', h, {})
        /\ Row(h, Held[<<"buffer", h>>], Held[<<"after", h>>], Empty,
               Held[<<"device", h>>], Last[h], Deleted[h])
    BY DropHostDoes
  <1>2. Held[t] = Empty
    <2>1. ~Idle(h)
      BY DEF DropHost, Does, CountsInv, TodoInv
    <2> QED
      BY <2>1, PlacesNow DEF CountsInv, TodoInv, HandlesNow, Has
  <1>3. /\ Held'[s] = Empty /\ Held'[t] = Empty
        /\ \A g \in Handles : Last'[g] = Last[g]
        /\ \A p \in Places : p \notin {s, t} => Held'[p] = Held[p]
    <2>1. /\ Held'[s] = Empty /\ Held'[t] = Held[t] /\ Last'[h] = Last[h]
          /\ Held'[<<"after", h>>] = Held[<<"after", h>>]
          /\ Held'[<<"device", h>>] = Held[<<"device", h>>]
          /\ \A g \in Handles : g # h => Last'[g] = Last[g]
      BY <1>1 DEF Row, Has
    <2>2. ASSUME NEW p \in Places, p \notin {s, t} PROVE Held'[p] = Held[p]
      <3>1. CASE p \in HandlePlaces(h)
        BY <2>1, <2>2, <3>1, PlacesOf
      <3>2. CASE p \notin HandlePlaces(h)
        BY <1>1, <3>2 DEF Changes
      <3> QED
        BY <3>1, <3>2
    <2> QED
      BY <1>2, <2>1, <2>2
  <1>4. s \in Places /\ t \in Places /\ s # t
    BY DEF Places, Kinds
  <1>5. Held[s].device = Null /\ Held[s].dev_ref_count = Null
    BY <1>1 DEF HostParts
  <1> HIDE DEF s, t
  <1>6. Empty.device = Null /\ Empty.dev_ref_count = Null
    BY DEF Empty
  <1> QED
    BY <1>1, <1>2, <1>3, <1>4, <1>5, <1>6, Handed

\* Memory goes from the call to its handle.
LEMMA DroppedMemory ==
  ASSUME Distinct, CountsInv, MemoryInv, NEW h \in Handles, Dropped(h)
  PROVE  MemoryInv'
  <1> DEFINE s == <<"after", h>>
             t == <<"buffer", h>>
  <1>1. /\ TypesHold' /\ UNCHANGED <<refs, memory, counter>>
        /\ Changes(Held, Held', h, {})
        /\ Has(Held, Last, Deleted, h, Empty, Held[s], Empty, Empty, Empty, Empty)
        /\ Row(h, Held[s], Empty, Empty, Empty, Empty, Empty)
    BY DroppedDoes
  <1>2. /\ Held[t] = Empty /\ Held'[s] = Empty /\ Held'[t] = Held[s]
        /\ \A g \in Handles : Last'[g] = Last[g]
        /\ \A p \in Places : p \notin {s, t} => Held'[p] = Held[p]
    <2>1. /\ Held[t] = Empty /\ Held'[s] = Empty /\ Held'[t] = Held[s] /\ Last'[h] = Last[h]
          /\ Held'[<<"host", h>>] = Held[<<"host", h>>]
          /\ Held'[<<"device", h>>] = Held[<<"device", h>>]
          /\ \A g \in Handles : g # h => Last'[g] = Last[g]
      BY <1>1 DEF Row, Has
    <2>2. ASSUME NEW p \in Places, p \notin {s, t} PROVE Held'[p] = Held[p]
      <3>1. CASE p \in HandlePlaces(h)
        BY <2>1, <2>2, <3>1, PlacesOf
      <3>2. CASE p \notin HandlePlaces(h)
        BY <1>1, <3>2 DEF Changes
      <3> QED
        BY <3>1, <3>2
    <2> QED
      BY <2>1, <2>2
  <1>3. s \in Places /\ t \in Places /\ s # t
    BY DEF Places, Kinds
  <1> HIDE DEF s, t
  <1>4. Empty.device = Null /\ Empty.dev_ref_count = Null
    BY DEF Empty
  <1> QED
    BY <1>1, <1>2, <1>3, <1>4, Handed

\* Memory goes from the count of a crop to the handle that drops it.
LEMMA DeleteCounterMemory ==
  ASSUME Distinct, CountsInv, MemoryInv, NEW h \in Handles, DeleteCounter(h)
  PROVE  MemoryInv'
  <1> DEFINE id == Deleted[h].dev_ref_count
             b == CropOf(id)
             s == <<"crop", id>>
             t == <<"device", h>>
  <1>1. /\ TypesHold' /\ UNCHANGED <<refs, memory>>
        /\ id \in Counters /\ id # Null /\ counter[id] # Null
        /\ b \in Buffers
        /\ counter' = [counter EXCEPT ![id] = Null]
        /\ Held[s] = b /\ Held'[s] = Empty
        /\ Changes(Held, Held', h, {s})
        /\ Last[h] = Empty
        /\ Held[<<"host", h>>] = Empty /\ Held[<<"device", h>>] = Empty
        /\ Row(h, Held[<<"buffer", h>>], Held[<<"after", h>>],
               HostPart(b), DevicePart(b), Empty, Empty)
    BY DeleteCounterDoes
  <1>2. /\ DevicePart(b).device = b.device /\ DevicePart(b).dev_ref_count = b.dev_ref_count
        /\ HostPart(b).device = Null /\ HostPart(b).dev_ref_count = Null
        /\ Empty.device = Null /\ Empty.dev_ref_count = Null
    BY <1>1 DEF DevicePart, HostPart, Buffers, Empty
  <1>3. s \in Places /\ t \in Places /\ s # t /\ s \notin HandlePlaces(h)
    BY <1>1, CropPlace DEF Places, Kinds
  <1>4. counter[id].count = 0 /\ \A g \in Handles : Deleted[g].dev_ref_count = id => g = h
    BY <1>1, DeletedIs
  <1>5. \A c \in Counters : \/ counter'[c] = counter[c]
                            \/ /\ \A p \in Places : Held[p].dev_ref_count # c
                               /\ \A g \in Handles : Last[g].dev_ref_count # c
    <2>1. \A c \in Counters : c # id => counter'[c] = counter[c]
      BY <1>1 DEF CountsInv, HandleTypes
    <2>2. \A p \in Places : Held[p].dev_ref_count # id
      BY <1>1, <1>4, HolderCounted
    <2>3. \A g \in Handles : Last[g].dev_ref_count # id
      BY <1>1, <1>2, <1>4, MemoryHeld
    <2> QED
      BY <2>1, <2>2, <2>3
  <1>6. /\ Held'[t].device = b.device /\ Held'[t].dev_ref_count = b.dev_ref_count
        /\ \A g \in Handles : Last'[g] = Last[g]
        /\ \A p \in Places : p \notin {s, t} => /\ Held'[p].device = Held[p].device
                                                /\ Held'[p].dev_ref_count = Held[p].dev_ref_count
    <2>1. /\ Held'[t] = DevicePart(b) /\ Last'[h] = Last[h]
          /\ Held'[<<"host", h>>] = HostPart(b)
          /\ Held'[<<"buffer", h>>] = Held[<<"buffer", h>>]
          /\ Held'[<<"after", h>>] = Held[<<"after", h>>]
          /\ \A g \in Handles : g # h => Last'[g] = Last[g]
      BY <1>1 DEF Row, Has
    <2>2. ASSUME NEW p \in Places, p \notin {s, t}
          PROVE  /\ Held'[p].device = Held[p].device
                 /\ Held'[p].dev_ref_count = Held[p].dev_ref_count
      <3>1. CASE p \in HandlePlaces(h)
        <4>1. p \in {<<"buffer", h>>, <<"after", h>>, <<"host", h>>, <<"device", h>>}
          BY <3>1, PlacesOf
        <4> QED
          BY <1>1, <1>2, <2>1, <2>2, <4>1
      <3>2. CASE p \notin HandlePlaces(h)
        BY <1>1, <2>2, <3>2 DEF Changes
      <3> QED
        BY <3>1, <3>2
    <2> QED
      BY <1>2, <2>1, <2>2
  <1>7. Held[t].device = Null /\ Held'[s].device = Null /\ Held'[s].dev_ref_count = Null
        /\ Held[s].device = b.device /\ Held[s].dev_ref_count = b.dev_ref_count
    BY <1>1, <1>2
  <1> HIDE DEF s, t, b, id
  <1>8. Held'[t].device = Held[s].device /\ Held'[t].dev_ref_count = Held[s].dev_ref_count
    BY <1>6, <1>7
  <1> QED
    BY <1>1, <1>3, <1>5, <1>6, <1>7, <1>8, Handed

\* A count that is not one is held in another place too.
LEMMA Another ==
  ASSUME Distinct, NEW H \in [Places -> Buffers], NEW c \in Counters, Counting(H, c) # 1,
         NEW p \in Places, H[p].dev_ref_count = c
  PROVE  \E q \in Places : q # p /\ H[q].dev_ref_count = c
  <1> DEFINE S == {i \in Places : H[i].dev_ref_count = c}
  <1>1. IsFiniteSet({p}) /\ Cardinality({p}) = 1
    BY FS_Singleton
  <1>2. S # {p}
    BY <1>1 DEF Counting
  <1>3. p \in S
    OBVIOUS
  <1> QED
    BY <1>2, <1>3

\* Half of the memory is dropped: by the last holder, who is to free it, or not.
LEMMA DropDeviceMemory ==
  ASSUME Distinct, CountsInv, MemoryInv, NEW h \in Handles, DropDevice(h)
  PROVE  MemoryInv'
  <1> DEFINE z == <<"device", h>>
             y == Held[z]
             id == y.dev_ref_count
  <1>1. /\ TypesHold' /\ UNCHANGED <<refs, memory>>
        /\ y \in DeviceParts
        /\ counter' = IF y.dev_ref_count = Null THEN counter
                      ELSE [counter EXCEPT ![y.dev_ref_count].count = @ - 1]
        /\ y.dev_ref_count # Null =>
               /\ y.dev_ref_count \in Counters /\ counter[y.dev_ref_count] \in Counts
               /\ counter[y.dev_ref_count] # Null /\ counter[y.dev_ref_count].count >= 1
        /\ Changes(Held, Held', h, {})
        /\ Last[h] = Empty
        /\ Row(h, Held[<<"buffer", h>>], Held[<<"after", h>>], Empty, Empty,
               IF Gone(y) /\ y.device # Null THEN y ELSE Empty,
               IF Gone(y) /\ y.dev_ref_count # Null THEN y ELSE Empty)
        /\ Held[<<"host", h>>] = Empty
    BY DropDeviceDoes
  <1>2. z \in Places
    BY DEF Places, Kinds
  <1>3. /\ Held'[z] = Empty
        /\ \A p \in Places : p # z => Held'[p] = Held[p]
        /\ Last'[h] = IF Gone(y) /\ y.device # Null THEN y ELSE Empty
        /\ \A g \in Handles : g # h => Last'[g] = Last[g]
    <2>1. /\ Held'[z] = Empty
          /\ Held'[<<"host", h>>] = Held[<<"host", h>>]
          /\ Held'[<<"buffer", h>>] = Held[<<"buffer", h>>]
          /\ Held'[<<"after", h>>] = Held[<<"after", h>>]
          /\ Last'[h] = IF Gone(y) /\ y.device # Null THEN y ELSE Empty
          /\ \A g \in Handles : g # h => Last'[g] = Last[g]
      BY <1>1 DEF Row, Has
    <2>2. ASSUME NEW p \in Places, p # z PROVE Held'[p] = Held[p]
      <3>1. CASE p \in HandlePlaces(h)
        BY <2>1, <2>2, <3>1, PlacesOf
      <3>2. CASE p \notin HandlePlaces(h)
        BY <1>1, <3>2 DEF Changes
      <3> QED
        BY <3>1, <3>2
    <2> QED
      BY <2>1, <2>2
  <1>4. \A c \in Counters : counter[c] # Null /\ counter[c] \in Counts =>
            /\ counter'[c].ownership = counter[c].ownership
            /\ counter'[c].cropped_from = counter[c].cropped_from
    <2>1. counter \in [Counters -> Counts \cup {Null}]
      BY DEF CountsInv, HandleTypes
    <2> QED
      BY <1>1, <2>1 DEF Counts
  <1>5. Held \in [Places -> Buffers]
    BY HeldType DEF CountsInv, TypesHold, HeldTypes
  <1>6. SameDevice /\ OneWay /\ FreedOnce /\ DescribedInv /\ NotLost
    BY DEF MemoryInv
  <1>7. id # Null => Counting(Held, id) = counter[id].count
    BY <1>1 DEF CountsInv, CountInv
  <1>8. Empty.device = Null /\ Empty.dev_ref_count = Null
    BY DEF Empty
  <1>9. Gone(y) <=> id = Null \/ counter[id].count = 1
    BY DEF Gone
  <1>10. id # Null => id \in Counters /\ counter[id] # Null /\ counter[id] \in Counts
    BY <1>1
  <1> HIDE DEF z, y, id
  <1>11. SameDevice'
    BY <1>3, <1>6, <1>8 DEF SameDevice
  <1>12. OneWay'
    BY <1>3, <1>6, <1>8 DEF OneWay
  <1>13. ASSUME Gone(y), y.device \notin {Null, External}, NEW p \in Places, p # z
         PROVE  Held[p].device # y.device
    <2> SUFFICES ASSUME Held[p].device = y.device PROVE FALSE
      OBVIOUS
    <2>1. Held[p].dev_ref_count = id /\ (id = Null => p = z)
      BY <1>2, <1>6, <1>13 DEF OneWay, y, id
    <2>2. id # Null /\ counter[id].count = 1
      BY <1>9, <1>13, <2>1
    <2>3. \A i, j \in Places : Held[i].dev_ref_count = id /\ Held[j].dev_ref_count = id => i = j
      BY <1>5, <1>7, <1>10, <2>2, Counted0
    <2> QED
      BY <1>2, <1>13, <2>1, <2>3 DEF y, id
  <1>14. \A g \in Handles : Last[g].device \notin {Null, External} =>
             /\ \A p \in Places : Held[p].device # Last[g].device
             /\ \A i \in Handles : Last[i].device = Last[g].device => i = g
    BY <1>6 DEF FreedOnce
  <1>15. FreedOnce'
    <2>1. ASSUME NEW g \in Handles, Last'[g].device \notin {Null, External}
          PROVE  /\ \A p \in Places : Held'[p].device # Last'[g].device
                 /\ \A i \in Handles : Last'[i].device = Last'[g].device => i = g
      <3>1. CASE g = h
        <4>1. Last'[h] = y /\ Gone(y) /\ y.device \notin {Null, External}
          BY <1>3, <1>8, <2>1, <3>1
        <4>2. \A i \in Handles : Last[i].device # y.device
          BY <1>2, <1>14, <4>1 DEF y
        <4> QED
          BY <1>3, <1>8, <1>13, <3>1, <4>1, <4>2
      <3>2. CASE g # h
        <4>1. Last'[g] = Last[g]
          BY <1>3, <3>2
        <4>2. Last'[h].device # Last[g].device
          BY <1>2, <1>3, <1>8, <1>14, <2>1, <4>1 DEF y
        <4> QED
          BY <1>3, <1>8, <1>14, <2>1, <3>2, <4>1, <4>2
      <3> QED
        BY <3>1, <3>2
    <2> QED
      BY <2>1 DEF FreedOnce
  <1>16. DescribedInv'
    <2>1. ASSUME NEW b, Describes(b),
                 b.dev_ref_count # Null => /\ b.dev_ref_count \in Counters
                                           /\ counter[b.dev_ref_count] # Null
                                           /\ counter[b.dev_ref_count] \in Counts
          PROVE  b.device # Null =>
                   /\ memory'[b.device].how = IF b.dev_ref_count = Null THEN "Allocated"
                                              ELSE counter'[b.dev_ref_count].ownership
                   /\ b.dev_ref_count # Null
                        /\ counter'[b.dev_ref_count].ownership = "Cropped" =>
                          memory'[b.device].of = counter'[b.dev_ref_count].cropped_from.device
      BY <1>1, <1>4, <2>1 DEF Describes, device_ownership
    <2>2. ASSUME NEW p \in Places PROVE Describes(Held[p])'
      <3>1. CASE p = z
        BY <1>3, <1>8, <3>1 DEF Describes
      <3>2. CASE p # z
        <4>1. Held'[p] = Held[p] /\ Describes(Held[p])
          BY <1>3, <1>6, <3>2 DEF DescribedInv
        <4>2. Held[p].dev_ref_count # Null => /\ Held[p].dev_ref_count \in Counters
                                              /\ counter[Held[p].dev_ref_count] # Null
                                              /\ counter[Held[p].dev_ref_count] \in Counts
          BY HolderCounted
        <4> QED
          BY <2>1, <4>1, <4>2 DEF Describes, device_ownership
      <3> QED
        BY <3>1, <3>2
    <2>3. ASSUME NEW g \in Handles PROVE Describes(Last[g])'
      <3>1. CASE Last'[g] = Last[g]
        <4>1. Last[g].dev_ref_count # Null => /\ Last[g].dev_ref_count \in Counters
                                              /\ counter[Last[g].dev_ref_count] # Null
                                              /\ counter[Last[g].dev_ref_count] \in Counts
          BY MemoryHeld
        <4>2. Describes(Last[g])
          BY <1>6 DEF DescribedInv
        <4> QED
          BY <2>1, <3>1, <4>1, <4>2 DEF Describes, device_ownership
      <3>2. CASE Last'[g] = y
        <4>1. Describes(y)
          BY <1>2, <1>6 DEF DescribedInv, y
        <4> QED
          BY <1>10, <2>1, <3>2, <4>1 DEF Describes, device_ownership, id
      <3>3. CASE Last'[g] = Empty
        BY <1>8, <3>3 DEF Describes
      <3> QED
        BY <1>3, <3>1, <3>2, <3>3
    <2> QED
      BY <2>2, <2>3 DEF DescribedInv
  <1>17. NotLost'
    <2>1. ASSUME NEW p \in Places, Held[p].device # Null
          PROVE  \/ \E q \in Places : Held'[q].device = Held[p].device
                 \/ \E g \in Handles : Last'[g].device = Held[p].device
      <3>1. CASE p # z
        BY <1>3, <3>1
      <3>2. CASE p = z /\ Gone(y)
        BY <1>3, <2>1, <3>2 DEF y
      <3>3. CASE p = z /\ ~Gone(y)
        <4>1. id # Null /\ Counting(Held, id) # 1
          BY <1>7, <1>9, <3>3
        <4>2. PICK q \in Places : q # z /\ Held[q].dev_ref_count = id
          BY <1>2, <1>5, <1>10, <4>1, Another DEF y, id
        <4>3. Held[q].device = Held[z].device
          BY <1>2, <1>6, <4>1, <4>2 DEF SameDevice, y, id
        <4> QED
          BY <1>3, <3>3, <4>2, <4>3
      <3> QED
        BY <3>1, <3>2, <3>3
    <2>2. \A g \in Handles : Last[g].device # Null => Last'[g].device = Last[g].device
      BY <1>1, <1>3, <1>8
    <2>3. ASSUME NEW m \in Memories \ {External}
          PROVE  /\ memory[m].how # "Unmanaged"
                 /\ memory[m].how # "Free" => \/ \E p \in Places : Held'[p].device = m
                                              \/ \E g \in Handles : Last'[g].device = m
      <3>1. m # Null
        BY DEF Distinct
      <3> QED
        BY <1>6, <2>1, <2>2, <3>1 DEF NotLost
    <2> QED
      BY <1>1, <1>6, <2>3 DEF NotLost
  <1> QED
    BY <1>11, <1>12, <1>15, <1>16, <1>17 DEF MemoryInv

\* The memory is freed when nobody holds it, unless it is the program's.
LEMMA FreeDeviceMemory ==
  ASSUME Distinct, CountsInv, MemoryInv, NEW h \in Handles, FreeDevice(h)
  PROVE  MemoryInv'
  <1> DEFINE y == Last[h]
  <1>1. /\ TypesHold' /\ UNCHANGED <<refs, counter>>
        /\ y \in DeviceParts /\ y.device \in Memories /\ y.device # Null
        /\ memory' = IF device_ownership(y) = "Unmanaged" THEN memory
                     ELSE [memory EXCEPT ![y.device] = Free]
        /\ Changes(Held, Held', h, {})
        /\ Held[<<"host", h>>] = Empty /\ Held[<<"device", h>>] = Empty
        /\ Row(h, Held[<<"buffer", h>>], Held[<<"after", h>>], Empty, Empty,
               Empty, Deleted[h])
    BY FreeDeviceDoes
  <1>2. /\ \A p \in Places : Held'[p] = Held[p]
        /\ Last'[h] = Empty /\ \A g \in Handles : g # h => Last'[g] = Last[g]
    <2>1. /\ Held'[<<"device", h>>] = Held[<<"device", h>>]
          /\ Held'[<<"host", h>>] = Held[<<"host", h>>]
          /\ Held'[<<"buffer", h>>] = Held[<<"buffer", h>>]
          /\ Held'[<<"after", h>>] = Held[<<"after", h>>]
          /\ Last'[h] = Empty
          /\ \A g \in Handles : g # h => Last'[g] = Last[g]
      BY <1>1 DEF Row, Has
    <2>2. ASSUME NEW p \in Places PROVE Held'[p] = Held[p]
      <3>1. CASE p \in HandlePlaces(h)
        BY <2>1, <2>2, <3>1, PlacesOf
      <3>2. CASE p \notin HandlePlaces(h)
        BY <1>1, <3>2 DEF Changes
      <3> QED
        BY <3>1, <3>2
    <2> QED
      BY <2>1, <2>2
  <1>3. Empty.device = Null
    BY DEF Empty
  <1>4. SameDevice /\ OneWay /\ FreedOnce /\ DescribedInv /\ NotLost
    BY DEF MemoryInv
  <1>5. memory \in [Memories -> [how : Ownerships \cup {"Free"}, of : Memories \cup {Null}]]
    BY DEF CountsInv, HandleTypes
  <1>6. memory[y.device].how = device_ownership(y)
    BY <1>1, <1>4 DEF DescribedInv, Describes
  <1>7. \/ UNCHANGED memory /\ y.device = External
        \/ /\ y.device # External /\ memory'[y.device] = Free
           /\ \A m \in Memories : m # y.device => memory'[m] = memory[m]
    <2>1. CASE device_ownership(y) = "Unmanaged"
      BY <1>1, <1>4, <1>6, <2>1 DEF NotLost
    <2>2. CASE device_ownership(y) # "Unmanaged"
      BY <1>1, <1>4, <1>5, <1>6, <2>2 DEF NotLost
    <2> QED
      BY <2>1, <2>2
  <1>8. y.device # External =>
            /\ \A p \in Places : Held[p].device # y.device
            /\ \A g \in Handles : g # h => Last[g].device # y.device
    BY <1>1, <1>4 DEF FreedOnce
  <1> HIDE DEF y
  <1>9. SameDevice' /\ OneWay'
    BY <1>2, <1>4 DEF SameDevice, OneWay
  <1>10. FreedOnce'
    BY <1>2, <1>3, <1>4 DEF FreedOnce
  <1>11. DescribedInv'
    <2>1. ASSUME NEW b, Describes(b),
                 b.device # Null => b.device \in Memories
                                    /\ (y.device # External => b.device # y.device)
          PROVE  b.device # Null =>
                   /\ memory'[b.device].how = device_ownership(b)
                   /\ device_ownership(b) = "Cropped" =>
                          memory'[b.device].of = counter[b.dev_ref_count].cropped_from.device
      BY <1>7, <2>1 DEF Describes
    <2>2. \A p \in Places : Held[p].device # Null => Held[p].device \in Memories
      BY MemoryHeld
    <2>3. \A g \in Handles : Last[g].device # Null => Last[g].device \in Memories
      BY MemoryHeld
    <2>4. ASSUME NEW p \in Places PROVE Describes(Held[p])'
      <3>1. Held'[p] = Held[p] /\ Describes(Held[p])
        BY <1>2, <1>4 DEF DescribedInv
      <3>2. counter' = counter
        BY <1>1
      <3>3. Held[p].device # Null =>
                   /\ memory'[Held[p].device].how = device_ownership(Held[p])
                   /\ device_ownership(Held[p]) = "Cropped" =>
                          memory'[Held[p].device].of
                            = counter[Held[p].dev_ref_count].cropped_from.device
        BY <1>8, <2>1, <2>2, <3>1
      <3> QED
        BY <3>1, <3>2, <3>3 DEF Describes, device_ownership
    <2>5. ASSUME NEW g \in Handles PROVE Describes(Last[g])'
      <3>1. CASE g = h
        BY <1>2, <1>3, <3>1 DEF Describes
      <3>2. CASE g # h
        <4>1. Last'[g] = Last[g] /\ Describes(Last[g])
          BY <1>2, <1>4, <3>2 DEF DescribedInv
        <4>2. counter' = counter
          BY <1>1
        <4>3. Last[g].device # Null =>
                     /\ memory'[Last[g].device].how = device_ownership(Last[g])
                     /\ device_ownership(Last[g]) = "Cropped" =>
                            memory'[Last[g].device].of
                              = counter[Last[g].dev_ref_count].cropped_from.device
          BY <1>8, <2>1, <2>3, <3>2, <4>1
        <4> QED
          BY <4>1, <4>2, <4>3 DEF Describes, device_ownership
      <3> QED
        BY <3>1, <3>2
    <2> QED
      BY <2>4, <2>5 DEF DescribedInv
  <1>12. NotLost'
    <2>1. memory'[External] = memory[External]
      BY <1>7 DEF Distinct
    <2>2. ASSUME NEW m \in Memories \ {External}
          PROVE  /\ memory'[m].how # "Unmanaged"
                 /\ memory'[m].how # "Free" => \/ \E p \in Places : Held'[p].device = m
                                               \/ \E g \in Handles : Last'[g].device = m
      <3>1. CASE m = y.device
        BY <1>7, <2>2, <3>1 DEF Free
      <3>2. CASE m # y.device
        <4>1. memory'[m] = memory[m]
          BY <1>7, <3>2
        <4>2. \A g \in Handles : Last[g].device = m => Last'[g].device = m
          BY <1>2, <3>2 DEF y
        <4> QED
          BY <1>2, <1>4, <4>1, <4>2 DEF NotLost
      <3> QED
        BY <3>1, <3>2
    <2> QED
      BY <1>4, <2>1, <2>2 DEF NotLost
  <1> QED
    BY <1>9, <1>10, <1>11, <1>12 DEF MemoryInv

-----------------------------------------------------------------------------
(* The calls that change one handle, which is in no call afterwards *)

\* What such a call leaves: b, in the place of what h held.
LEMMA NowHolds ==
  ASSUME Distinct, CountsInv, NEW h \in Handles, Idle(h), NEW b \in Buffers,
         buffer' = [buffer EXCEPT ![h] = b], UNCHANGED <<todo, after>>, HandleTypes', SameCrops
  PROVE  /\ TypesHold' /\ Changes(Held, Held', h, {})
         /\ \A g \in Handles : Deleted'[g] = Deleted[g]
         /\ \A g \in Handles : Last'[g] = Last[g]
         /\ Has(Held, Last, Deleted, h, buffer[h], Empty, Empty, Empty, Empty, Empty)
         /\ Row(h, b, Empty, Empty, Empty, Empty, Empty)
         /\ \A a \in Allocs : /\ AllocsOf(Held, h, a) = One(buffer[h].alloc, a)
                              /\ AllocsOf(Held', h, a) = One(b.alloc, a)
         /\ \A c \in Counters : /\ CountsOf(Held, h, c) = One(buffer[h].dev_ref_count, c)
                                /\ CountsOf(Held', h, c) = One(b.dev_ref_count, c)
  <1>1. /\ after[h] = Null /\ todo[h] = <<>> /\ HandleTypes /\ TodoInv
        /\ after'[h] = Null /\ todo'[h] = <<>>
    BY DEF CountsInv, TodoInv, Idle
  <1>2. buffer'[h] = b /\ \A g \in Handles : g # h => buffer'[g] = buffer[g]
    BY <1>1 DEF HandleTypes
  <1>3. TodoInv'
    BY <1>1, <1>2, TodoKept DEF Shaped
  <1>4. /\ Changes(Held, Held', h, {})
        /\ \A g \in Handles : g # h => Last'[g] = Last[g] /\ Deleted'[g] = Deleted[g]
        /\ HandlesNow /\ HandlesNow'
    BY <1>2, ElsewhereSame DEF SameCrops
  <1>5. \A op : Of(<<>>, op) = Empty
    BY OfTasks
  <1>6. Has(Held, Last, Deleted, h, buffer[h], AfterOf(after[h]), Of(todo[h], "host"),
            Of(todo[h], "device"), Of(todo[h], "free"), Of(todo[h], "delete"))
    BY <1>4 DEF HandlesNow
  <1>7. Has(Held', Last', Deleted', h, buffer'[h], AfterOf(after'[h]), Of(todo'[h], "host"),
            Of(todo'[h], "device"), Of(todo'[h], "free"), Of(todo'[h], "delete"))
    BY <1>4 DEF HandlesNow
  <1>8. Has(Held, Last, Deleted, h, buffer[h], Empty, Empty, Empty, Empty, Empty)
    BY <1>1, <1>5, <1>6 DEF AfterOf
  <1>9. Has(Held', Last', Deleted', h, b, Empty, Empty, Empty, Empty, Empty)
    BY <1>1, <1>2, <1>5, <1>7 DEF AfterOf
  <1>10. Last'[h] = Last[h] /\ Deleted'[h] = Deleted[h]
    BY <1>8, <1>9 DEF Has
  <1>11. \A a \in Allocs \cup Counters : One(Null, a) = 0
    BY DEF One, Distinct
  <1>12. \A x, a : One(x, a) \in Int
    BY DEF One
  <1>13. Empty.alloc = Null /\ Empty.dev_ref_count = Null
    BY DEF Empty
  <1>14. \A a \in Allocs : /\ AllocsOf(Held, h, a) = One(buffer[h].alloc, a)
                           /\ AllocsOf(Held', h, a) = One(b.alloc, a)
    BY <1>8, <1>9, <1>11, <1>12, <1>13 DEF AllocsOf, Has
  <1>15. \A c \in Counters : /\ CountsOf(Held, h, c) = One(buffer[h].dev_ref_count, c)
                             /\ CountsOf(Held', h, c) = One(b.dev_ref_count, c)
    BY <1>8, <1>9, <1>11, <1>12, <1>13 DEF CountsOf, Has
  <1>16. TypesHold'
    BY <1>3 DEF TypesHold
  <1>17. Row(h, b, Empty, Empty, Empty, Empty, Empty)
    BY <1>4, <1>9 DEF Row
  <1>18. \A g \in Handles : Last'[g] = Last[g] /\ Deleted'[g] = Deleted[g]
    BY <1>4, <1>10
  <1> QED
    BY <1>4, <1>8, <1>14, <1>15, <1>16, <1>17, <1>18

\* It keeps the invariant when references and counts change as what h holds does.
LEMMA HoldsKeeps ==
  ASSUME Distinct, CountsInv, NEW h \in Handles, Idle(h), NEW b \in Buffers,
         buffer' = [buffer EXCEPT ![h] = b], UNCHANGED <<todo, after>>, HandleTypes', SameCrops,
         \A a \in Allocs : refs'[a] = refs[a] - One(buffer[h].alloc, a) + One(b.alloc, a),
         \A c \in Counters : Number(c)' = Number(c) - One(buffer[h].dev_ref_count, c)
                                                   + One(b.dev_ref_count, c),
         CropInv',
         \A c \in Counters : counter[c] # Null /\ counter[c].count = 0 =>
             counter'[c] = counter[c],
         \A c \in Counters : counter'[c] # Null /\ counter'[c].count = 0 =>
             counter[c] # Null /\ counter[c].count = 0
  PROVE  CountsInv'
  <1>1. /\ TypesHold' /\ Changes(Held, Held', h, {})
        /\ \A g \in Handles : Deleted'[g] = Deleted[g]
        /\ \A a \in Allocs : /\ AllocsOf(Held, h, a) = One(buffer[h].alloc, a)
                             /\ AllocsOf(Held', h, a) = One(b.alloc, a)
        /\ \A c \in Counters : /\ CountsOf(Held, h, c) = One(buffer[h].dev_ref_count, c)
                               /\ CountsOf(Held', h, c) = One(b.dev_ref_count, c)
    BY NowHolds
  <1>2. RefsInv'
    BY <1>1, RefsKept
  <1>3. CountInv'
    BY <1>1, NumbersKept
  <1>4. \A g \in Handles : Deleted[g].dev_ref_count # Null =>
             counter'[Deleted[g].dev_ref_count] = counter[Deleted[g].dev_ref_count]
    BY DeletedIs
  <1>5. DeleteInv'
    BY <1>1, <1>4, DeletesKept DEF CountsInv, TypesHold
  <1> QED
    BY <1>1, <1>2, <1>3, <1>5 DEF CountsInv, TypesHold

\* Such a call that makes a handle hold what nobody has held.
LEMMA HoldsCarries ==
  ASSUME Distinct, CountsInv, MemoryInv, NEW h \in Handles, Idle(h), NEW b \in Buffers,
         buffer' = [buffer EXCEPT ![h] = b], UNCHANGED <<todo, after>>, HandleTypes', SameCrops,
         buffer[h].device = Null, buffer[h].dev_ref_count = Null,
         b.dev_ref_count # Null => counter[b.dev_ref_count] = Null,
         b.device \notin {Null, External} => memory[b.device] = Free,
         b.device # Null =>
             /\ memory'[b.device].how = IF b.dev_ref_count = Null THEN "Allocated"
                                        ELSE counter'[b.dev_ref_count].ownership
             /\ b.dev_ref_count # Null => counter'[b.dev_ref_count].ownership # "Cropped",
         \A c \in Counters : counter[c] # Null => counter'[c] = counter[c],
         \A m \in Memories : /\ memory[m] # Free => memory'[m] = memory[m]
                             /\ memory[m] = Free => \/ memory'[m] = Free
                                                    \/ m = b.device /\ memory'[m].how # "Unmanaged"
  PROVE  MemoryInv'
  <1> DEFINE x == <<"buffer", h>>
             f == [p \in Places |-> p]
  <1>1. /\ TypesHold' /\ Changes(Held, Held', h, {})
        /\ \A g \in Handles : Last'[g] = Last[g]
        /\ Has(Held, Last, Deleted, h, buffer[h], Empty, Empty, Empty, Empty, Empty)
        /\ Row(h, b, Empty, Empty, Empty, Empty, Empty)
    BY NowHolds
  <1>2. x \in Places /\ Held[x] = buffer[h] /\ Held'[x] = b
    BY <1>1 DEF Has, Row, Places, Kinds
  <1>3. \A p \in Places : p # x => Held'[p] = Held[p]
    <2> TAKE p \in Places
    <2>1. CASE p \in HandlePlaces(h)
      <3>1. p \in {<<"buffer", h>>, <<"after", h>>, <<"host", h>>, <<"device", h>>}
        BY <2>1 DEF HandlePlaces, HandleKinds
      <3> QED
        BY <1>1, <3>1 DEF Has, Row
    <2>2. CASE p \notin HandlePlaces(h)
      BY <1>1, <2>2 DEF Changes
    <2> QED
      BY <2>1, <2>2
  <1> HIDE DEF x
  <1>4. Carries(f, x, Null, x)
    BY <1>2, <1>3 DEF Carries
  <1>5. Fresh(x, Null)
    <2>1. Describes(Held[x])'
      <3>1. Describes(Held[x])' <=>
              (Held'[x].device # Null =>
                 /\ memory'[Held'[x].device].how = IF Held'[x].dev_ref_count = Null THEN "Allocated"
                                                   ELSE counter'[Held'[x].dev_ref_count].ownership
                 /\ (IF Held'[x].dev_ref_count = Null THEN "Allocated"
                     ELSE counter'[Held'[x].dev_ref_count].ownership) = "Cropped" =>
                    memory'[Held'[x].device].of
                      = counter'[Held'[x].dev_ref_count].cropped_from.device)
        BY DEF Describes, device_ownership
      <3> QED
        BY <1>2, <3>1
    <2>2. b.dev_ref_count # Null => b.dev_ref_count \in Counters
      BY DEF Buffers
    <2> QED
      BY <1>2, <2>1, <2>2 DEF Fresh
  <1>6. Stays(x)
    <2>1. \A c \in Counters : (\E p \in Places : Held[p].dev_ref_count = c)
                              \/ (\E i \in Handles : Last[i].dev_ref_count = c) =>
                                 counter[c] # Null
      <3>1. /\ \A p \in Places : Held[p].dev_ref_count # Null =>
                    counter[Held[p].dev_ref_count] # Null
        BY HolderCounted
      <3>2. \A i \in Handles : Last[i].dev_ref_count # Null =>
                counter[Last[i].dev_ref_count] # Null
        BY MemoryHeld
      <3> QED
        BY <3>1, <3>2 DEF Distinct
    <2> QED
      BY <1>1, <1>2, <2>1 DEF Stays
  <1> QED
    BY <1>1, <1>2, <1>4, <1>5, <1>6, Carried

\* A new allocation has one reference.
LEMMA AllocateKeeps ==
  ASSUME Distinct, CountsInv, NEW h \in Handles, Allocate(h)
  PROVE  CountsInv' /\ (MemoryInv => MemoryInv')
  <1> DEFINE n == NewAlloc
             b == [Empty EXCEPT !.alloc = n]
  <1>1. n \in Allocs /\ refs[n] = 0
    BY DEF Allocate, NewAlloc
  <1>2. HandleTypes
    BY DEF CountsInv
  <1>3. /\ Idle(h) /\ buffer[h] = Empty /\ UNCHANGED <<memory, counter, todo, after>>
        /\ refs' = [refs EXCEPT ![n] = 1] /\ buffer' = [buffer EXCEPT ![h] = b]
    BY DEF Allocate
  <1>4. b \in Buffers /\ b.alloc = n /\ b.dev_ref_count = Null
    BY <1>1 DEF Buffers, Empty
  <1> HIDE DEF n, b
  <1>5. HandleTypes'
    BY <1>1, <1>2, <1>3, <1>4 DEF HandleTypes
  <1>6. SameCrops
    BY <1>3 DEF SameCrops, CropOf, Empty
  <1>7. \A a \in Allocs : refs'[a] = refs[a] - One(buffer[h].alloc, a) + One(b.alloc, a)
    BY <1>1, <1>2, <1>3, <1>4 DEF HandleTypes, One, Empty, Distinct
  <1>8. \A c \in Counters : Number(c)' = Number(c) - One(buffer[h].dev_ref_count, c)
                                                   + One(b.dev_ref_count, c)
    <2>1. \A c \in Counters : Number(c)' = Number(c) /\ Number(c) \in Int
      BY <1>2, <1>3 DEF HandleTypes, Counts, Number
    <2>2. buffer[h].dev_ref_count = Null
      BY <1>3 DEF Empty
    <2> QED
      BY <1>4, <2>1, <2>2 DEF One
  <1>9. CropInv'
    BY <1>3, CropsKept DEF CountsInv
  <1>10. CountsInv'
    BY <1>3, <1>4, <1>5, <1>6, <1>7, <1>8, <1>9, HoldsKeeps
  <1>11. ASSUME MemoryInv PROVE MemoryInv'
    <2>1. b.device = Null /\ buffer[h].device = Null /\ buffer[h].dev_ref_count = Null
      BY <1>3 DEF Empty, b
    <2> QED
      BY <1>3, <1>4, <1>5, <1>6, <1>11, <2>1, HoldsCarries
  <1> QED
    BY <1>10, <1>11

\* Device memory that no count has anything to do with comes and goes.
LEMMA DeviceMallocKeeps ==
  ASSUME Distinct, CountsInv, NEW h \in Handles, ~WrapFailed(h), DeviceMalloc(h)
  PROVE  CountsInv' /\ (MemoryInv => MemoryInv')
  <1> DEFINE n == NewMemory
             b == [buffer[h] EXCEPT !.device = n]
  <1>1. n \in Memories
    BY DEF DeviceMalloc, NewMemory
  <1>2. HandleTypes
    BY DEF CountsInv
  <1>3. /\ Idle(h) /\ UNCHANGED <<refs, counter, todo, after>>
        /\ memory' = [memory EXCEPT ![n] = [how |-> "Allocated", of |-> Null]]
        /\ buffer' = [buffer EXCEPT ![h] = b]
    BY <1>2 DEF DeviceMalloc, HandleTypes
  <1>4. buffer[h] \in Buffers
    BY <1>2 DEF HandleTypes
  <1>5. /\ b \in Buffers /\ b.alloc = buffer[h].alloc
        /\ b.dev_ref_count = buffer[h].dev_ref_count
    BY <1>1, <1>4 DEF Buffers
  <1> HIDE DEF n, b
  <1>6. HandleTypes'
    BY <1>1, <1>2, <1>3, <1>5 DEF HandleTypes, Ownerships
  <1>7. SameCrops
    BY <1>3 DEF SameCrops, CropOf, Empty
  <1>8. \A a \in Allocs : refs'[a] = refs[a] - One(buffer[h].alloc, a) + One(b.alloc, a)
    BY <1>2, <1>3, <1>5 DEF HandleTypes, One
  <1>9. \A c \in Counters : Number(c)' = Number(c) - One(buffer[h].dev_ref_count, c)
                                                   + One(b.dev_ref_count, c)
    <2>1. \A c \in Counters : Number(c)' = Number(c) /\ Number(c) \in Int
      BY <1>2, <1>3 DEF HandleTypes, Counts, Number
    <2> QED
      BY <1>5, <2>1 DEF One
  <1>10. CropInv'
    BY <1>3, CropsKept DEF CountsInv
  <1>11. CountsInv'
    BY <1>3, <1>5, <1>6, <1>7, <1>8, <1>9, <1>10, HoldsKeeps
  <1>12. ASSUME MemoryInv PROVE MemoryInv'
    <2>1. /\ buffer[h].device = Null /\ buffer[h].dev_ref_count = Null
          /\ memory[n] = Free /\ b.device = n
      BY <1>1, <1>4 DEF DeviceMalloc, WrapFailed, NewMemory, b, n, Buffers
    <2>2. /\ memory'[n].how = "Allocated"
          /\ \A m \in Memories : m # n => memory'[m] = memory[m]
      BY <1>1, <1>2, <1>3 DEF HandleTypes
    <2> QED
      BY <1>3, <1>5, <1>6, <1>7, <1>12, <2>1, <2>2, HoldsCarries
  <1> QED
    BY <1>11, <1>12

\* Memory that nobody else has is freed with its count.
LEMMA DeviceFreeKeeps ==
  ASSUME Distinct, CountsInv, NEW h \in Handles, NEW ownership,
         ownership \notin {"Cropped", "Unmanaged"}, DeviceFree(h, ownership)
  PROVE  CountsInv' /\ (MemoryInv => MemoryInv')
  <1> DEFINE id == buffer[h].dev_ref_count
             b == [buffer[h] EXCEPT !.device = Null, !.dev_ref_count = Null]
  <1>1. HandleTypes /\ buffer[h] \in Buffers
    BY DEF CountsInv, HandleTypes
  <1>2. /\ Idle(h) /\ UNCHANGED <<refs, todo, after>>
        /\ buffer[h].device # Null /\ device_ownership(buffer[h]) = ownership
        /\ id # Null => counter[id].count = 1
        /\ counter' = IF id = Null THEN counter ELSE [counter EXCEPT ![id] = Null]
        /\ memory' = [memory EXCEPT ![buffer[h].device] = Free]
    BY DEF DeviceFree
  <1>3. buffer' = [buffer EXCEPT ![h] = b]
    <2>1. buffer' = [buffer EXCEPT ![h].device = Null, ![h].dev_ref_count = Null]
      BY DEF DeviceFree
    <2> QED
      BY <1>1, <2>1 DEF HandleTypes
  <1>4. /\ b \in Buffers /\ b.alloc = buffer[h].alloc /\ b.dev_ref_count = Null
    BY <1>1 DEF Buffers
  <1>5. id # Null => id \in Counters
    BY <1>1 DEF Buffers
  <1>6. Held[<<"buffer", h>>] = buffer[h] /\ <<"buffer", h>> \in Places
    BY PlacesNow DEF HandlesNow, Has, Places, Kinds
  <1>7. id # Null => counter[id] # Null /\ counter[id] \in Counts
    BY <1>6, HolderCounted
  <1>8. id # Null => counter[id].cropped_from = Empty
    <2>1. id # Null => counter[id].ownership = ownership
      BY <1>2 DEF device_ownership
    <2> QED
      BY <1>5, <1>7, <2>1 DEF CountsInv, CropInv
  <1>9. /\ \A c \in Counters : c # id => counter'[c] = counter[c]
        /\ id # Null => counter'[id] = Null
    BY <1>1, <1>2, <1>5 DEF HandleTypes
  <1> HIDE DEF id, b
  <1>10. HandleTypes'
    BY <1>1, <1>2, <1>3, <1>4, <1>5 DEF HandleTypes, Free
  <1>11. SameCrops
    <2>1. ASSUME NEW c \in Counters PROVE CropOf(c)' = CropOf(c)
      <3>1. CASE c = id
        <4>1. id # Null
          BY <3>1 DEF Distinct
        <4>2. counter[c].cropped_from = Empty /\ counter'[c] = Null
          BY <1>8, <1>9, <3>1, <4>1
        <4> QED
          BY <4>2 DEF CropOf, Empty
      <3>2. CASE c # id
        BY <1>9, <3>2 DEF CropOf, Empty
      <3> QED
        BY <3>1, <3>2
    <2> QED
      BY <2>1 DEF SameCrops
  <1>12. \A a \in Allocs : refs'[a] = refs[a] - One(buffer[h].alloc, a) + One(b.alloc, a)
    BY <1>1, <1>2, <1>4 DEF HandleTypes, One
  <1>13. \A c \in Counters : Number(c)' = Number(c) - One(buffer[h].dev_ref_count, c)
                                                    + One(b.dev_ref_count, c)
    <2>1. \A c \in Counters : Number(c) \in Int
      BY <1>1 DEF HandleTypes, Counts, Number
    <2>2. \A c \in Counters : One(b.dev_ref_count, c) = 0
      BY <1>4 DEF One, Distinct
    <2>3. ASSUME NEW c \in Counters
          PROVE  Number(c)' = Number(c) - One(buffer[h].dev_ref_count, c)
      <3>1. CASE c = id
        <4>1. id # Null
          BY <3>1 DEF Distinct
        <4>2. Number(c) = 1
          BY <1>2, <1>7, <3>1, <4>1 DEF Number
        <4>3. Number(c)' = 0
          BY <1>9, <3>1, <4>1 DEF Number
        <4>4. One(buffer[h].dev_ref_count, c) = 1
          BY <3>1 DEF One, id
        <4> QED
          BY <4>2, <4>3, <4>4
      <3>2. CASE c # id
        <4>1. One(buffer[h].dev_ref_count, c) = 0
          BY <3>2 DEF One, id
        <4>2. Number(c)' = Number(c)
          BY <1>9, <3>2 DEF Number
        <4> QED
          BY <2>1, <4>1, <4>2
      <3> QED
        BY <3>1, <3>2
    <2>4. \A c \in Counters : One(buffer[h].dev_ref_count, c) \in Int
      BY DEF One
    <2> QED
      BY <2>1, <2>2, <2>3, <2>4
  <1>14. CropInv'
    <2>1. \A c \in Counters : counter'[c] # Null => counter'[c] = counter[c]
      BY <1>9 DEF Distinct
    <2> QED
      BY <2>1, CropsKept DEF CountsInv
  <1>15. \A c \in Counters : counter[c] # Null /\ counter[c].count = 0 =>
             counter'[c] = counter[c]
    BY <1>2, <1>9 DEF Distinct
  <1>16. \A c \in Counters : counter'[c] # Null /\ counter'[c].count = 0 =>
             counter[c] # Null /\ counter[c].count = 0
    BY <1>9 DEF Distinct
  <1>17. CountsInv'
    BY <1>2, <1>3, <1>4, <1>10, <1>11, <1>12, <1>13, <1>14, <1>15, <1>16, HoldsKeeps
  <1>18. ASSUME MemoryInv PROVE MemoryInv'
    <2> DEFINE z == <<"buffer", h>>
               m == buffer[h].device
    <2>1. SameDevice /\ OneWay /\ FreedOnce /\ DescribedInv /\ NotLost
      BY <1>18 DEF MemoryInv
    <2>2. z \in Places /\ Held[z] = buffer[h]
      BY <1>6
    <2>3. /\ Held'[z] = b /\ b.device = Null
          /\ \A p \in Places : p # z => Held'[p] = Held[p]
          /\ \A g \in Handles : Last'[g] = Last[g]
      <3>1. /\ Changes(Held, Held', h, {})
            /\ \A g \in Handles : Last'[g] = Last[g]
            /\ Has(Held, Last, Deleted, h, buffer[h], Empty, Empty, Empty, Empty, Empty)
            /\ Row(h, b, Empty, Empty, Empty, Empty, Empty)
        BY <1>2, <1>3, <1>4, <1>10, <1>11, NowHolds
      <3>2. ASSUME NEW p \in Places, p # z PROVE Held'[p] = Held[p]
        <4>1. CASE p \in HandlePlaces(h)
          BY <3>1, <3>2, <4>1, PlacesOf DEF Has, Row
        <4>2. CASE p \notin HandlePlaces(h)
          BY <3>1, <4>2 DEF Changes
        <4> QED
          BY <4>1, <4>2
      <3>3. b.device = Null
        BY <1>1 DEF b, Buffers
      <3> QED
        BY <3>1, <3>2, <3>3 DEF Row, Has
    <2>4. m \in Memories /\ m # Null /\ memory[m].how = ownership /\ m # External
      <3>1. m \in Memories
        BY <1>1, <1>2 DEF Buffers
      <3>2. memory[m].how = ownership
        BY <1>2, <2>1, <2>2 DEF DescribedInv, Describes
      <3> QED
        BY <1>2, <2>1, <3>1, <3>2 DEF NotLost
    <2>5. memory'[m] = Free /\ \A i \in Memories : i # m => memory'[i] = memory[i]
      BY <1>1, <1>2, <2>4 DEF HandleTypes
    <2> HIDE DEF m, z
    <2>6. ASSUME NEW p \in Places, id # Null, Held[p].dev_ref_count = id PROVE p = z
      <3>1. id \in Counters /\ Counting(Held, id) = 1 /\ Held \in [Places -> Buffers]
        <4>1. id \in Counters /\ counter[id] # Null /\ counter[id].count = 1
          BY <1>2, <1>5, <1>7, <2>6 DEF id
        <4> QED
          BY <4>1, HolderCounted, <2>2 DEF CountsInv, CountInv
      <3>2. Held[z].dev_ref_count = id
        BY <2>2 DEF id
      <3> QED
        BY <2>2, <2>6, <3>1, <3>2, Counted0
    <2>7. ASSUME NEW p \in Places, p # z PROVE Held[p].device # m
      <3> SUFFICES ASSUME Held[p].device = m PROVE FALSE
        OBVIOUS
      <3>1. Held[p].dev_ref_count = id /\ (id = Null => p = z)
        BY <2>1, <2>2, <2>4 DEF OneWay, m, id
      <3> QED
        BY <2>6, <2>7, <3>1
    <2>8. \A g \in Handles : Last[g].device # m
      BY <2>1, <2>2, <2>4 DEF FreedOnce, m
    <2>9. \A g \in Handles : Last[g].dev_ref_count # Null => Last[g].dev_ref_count # id
      <3>1. \A g \in Handles : Last[g].dev_ref_count # Null =>
                counter[Last[g].dev_ref_count].count = 0
        BY <1>18, MemoryHeld
      <3> QED
        BY <1>2, <3>1 DEF id
    <2>10. SameDevice' /\ OneWay'
      BY <1>4, <2>1, <2>3 DEF SameDevice, OneWay
    <2>11. FreedOnce'
      BY <2>1, <2>3 DEF FreedOnce
    <2>12. DescribedInv'
      <3>1. ASSUME NEW c, Describes(c), c.device # Null => c.device \in Memories /\ c.device # m,
                   c.dev_ref_count # Null => c.dev_ref_count \in Counters /\ c.dev_ref_count # id
            PROVE  c.device # Null =>
                     /\ memory'[c.device].how = IF c.dev_ref_count = Null THEN "Allocated"
                                                ELSE counter'[c.dev_ref_count].ownership
                     /\ c.dev_ref_count # Null
                          /\ counter'[c.dev_ref_count].ownership = "Cropped" =>
                            memory'[c.device].of = counter'[c.dev_ref_count].cropped_from.device
        BY <1>9, <2>5, <3>1 DEF Describes, device_ownership
      <3>2. \A p \in Places : Held[p].device # Null => Held[p].device \in Memories
        BY <1>18, MemoryHeld
      <3>5. \A g \in Handles : Last[g].device # Null => Last[g].device \in Memories
        BY <1>18, MemoryHeld
      <3>6. \A g \in Handles : Last[g].dev_ref_count # Null =>
                Last[g].dev_ref_count \in Counters
        BY <1>18, MemoryHeld
      <3>3. ASSUME NEW p \in Places PROVE Describes(Held[p])'
        <4>1. CASE p = z
          BY <2>3, <4>1 DEF Describes
        <4>2. CASE p # z
          <5>1. Held'[p] = Held[p] /\ Describes(Held[p])
            BY <2>1, <2>3, <4>2 DEF DescribedInv
          <5>2. Held[p].dev_ref_count # Null =>
                    Held[p].dev_ref_count \in Counters /\ Held[p].dev_ref_count # id
            BY <2>6, <4>2, HolderCounted
          <5>3. Held[p].device # Null => Held[p].device \in Memories /\ Held[p].device # m
            BY <2>7, <3>2, <4>2
          <5> QED
            BY <3>1, <5>1, <5>2, <5>3 DEF Describes, device_ownership
        <4> QED
          BY <4>1, <4>2
      <3>4. ASSUME NEW g \in Handles PROVE Describes(Last[g])'
        <4>1. Last'[g] = Last[g] /\ Describes(Last[g])
          BY <2>1, <2>3 DEF DescribedInv
        <4>2. Last[g].dev_ref_count # Null =>
                  Last[g].dev_ref_count \in Counters /\ Last[g].dev_ref_count # id
          BY <2>9, <3>6
        <4>3. Last[g].device # Null => Last[g].device \in Memories /\ Last[g].device # m
          BY <2>8, <3>5
        <4> QED
          BY <3>1, <4>1, <4>2, <4>3 DEF Describes, device_ownership
      <3> QED
        BY <3>3, <3>4 DEF DescribedInv
    <2>13. NotLost'
      <3>1. memory'[External] = memory[External]
        BY <2>4, <2>5 DEF Distinct
      <3>2. ASSUME NEW i \in Memories \ {External}
            PROVE  /\ memory'[i].how # "Unmanaged"
                   /\ memory'[i].how # "Free" => \/ \E p \in Places : Held'[p].device = i
                                                 \/ \E g \in Handles : Last'[g].device = i
        <4>1. CASE i = m
          BY <2>5, <4>1 DEF Free
        <4>2. CASE i # m
          <5>1. memory'[i] = memory[i]
            BY <2>5, <4>2
          <5>2. \A p \in Places : Held[p].device = i => Held'[p].device = i
            BY <2>2, <2>3, <4>2 DEF m
          <5> QED
            BY <2>1, <2>3, <5>1, <5>2 DEF NotLost
        <4> QED
          BY <4>1, <4>2
      <3> QED
        BY <2>1, <3>1, <3>2 DEF NotLost
    <2> QED
      BY <2>10, <2>11, <2>12, <2>13 DEF MemoryInv
  <1> QED
    BY <1>17, <1>18

\* The memory of b, if it has any, is the program's or new, and is what r says.
Obtains(b, r) ==
    /\ b.device \notin {Null, External} => memory[b.device] = Free
    /\ b.device # Null => memory'[b.device].how = r.ownership
    /\ \A m \in Memories : /\ memory[m] # Free => memory'[m] = memory[m]
                           /\ memory[m] = Free => \/ memory'[m] = Free
                                                  \/ m = b.device /\ memory'[m].how # "Unmanaged"

\* A count is made for memory that no count has.
LEMMA CounterMade ==
  ASSUME Distinct, CountsInv, NEW h \in Handles, Idle(h), NEW b \in Buffers, NEW n \in Counters,
         NEW r \in Counts, r.count = 1, r.ownership # "Cropped", r.cropped_from = Empty,
         counter[n] = Null, counter' = [counter EXCEPT ![n] = r],
         b.alloc = buffer[h].alloc, b.dev_ref_count = n, buffer[h].dev_ref_count = Null,
         buffer' = [buffer EXCEPT ![h] = b], UNCHANGED <<refs, todo, after>>,
         memory' \in [Memories -> [how : Ownerships \cup {"Free"}, of : Memories \cup {Null}]]
  PROVE  CountsInv' /\ (MemoryInv /\ buffer[h].device = Null /\ Obtains(b, r) => MemoryInv')
  <1>1. HandleTypes
    BY DEF CountsInv
  <1>2. counter'[n] = r /\ r # Null /\ \A c \in Counters : c # n => counter'[c] = counter[c]
    BY <1>1 DEF HandleTypes, Distinct
  <1>3. HandleTypes'
    BY <1>1 DEF HandleTypes
  <1>4. SameCrops
    <2>1. ASSUME NEW c \in Counters PROVE CropOf(c)' = CropOf(c)
      <3>1. CASE c = n
        BY <1>2, <3>1 DEF CropOf, Empty
      <3>2. CASE c # n
        BY <1>2, <3>2 DEF CropOf, Empty
      <3> QED
        BY <3>1, <3>2
    <2> QED
      BY <2>1 DEF SameCrops
  <1>5. \A a \in Allocs : refs'[a] = refs[a] - One(buffer[h].alloc, a) + One(b.alloc, a)
    BY <1>1 DEF HandleTypes, One
  <1>6. \A c \in Counters : Number(c)' = Number(c) - One(buffer[h].dev_ref_count, c)
                                                   + One(b.dev_ref_count, c)
    <2>1. \A c \in Counters : Number(c) \in Int
      BY <1>1 DEF HandleTypes, Counts, Number
    <2>2. \A c \in Counters : One(buffer[h].dev_ref_count, c) = 0
      BY DEF One, Distinct
    <2>3. \A c \in Counters : Number(c)' = Number(c) + One(n, c)
      BY <1>2, <2>1 DEF Number, One
    <2>4. \A c \in Counters : One(n, c) \in Int
      BY DEF One
    <2> QED
      BY <2>1, <2>2, <2>3, <2>4
  <1>7. CropInv'
    <2>1. \A c \in Counters : counter[c] # Null =>
            LET x == counter[c].cropped_from IN
            IF counter[c].ownership = "Cropped" THEN x.device # Null /\ x.dev_ref_count # Null
            ELSE x = Empty
      BY DEF CountsInv, CropInv
    <2>2. \A c \in Counters : counter'[c] # Null =>
            LET x == counter'[c].cropped_from IN
            IF counter'[c].ownership = "Cropped" THEN x.device # Null /\ x.dev_ref_count # Null
            ELSE x = Empty
      BY <1>2, <2>1
    <2> QED
      BY <2>2 DEF CropInv, Empty
  <1>8. \A c \in Counters : counter[c] # Null /\ counter[c].count = 0 => counter'[c] = counter[c]
    BY <1>2
  <1>9. \A c \in Counters : counter'[c] # Null /\ counter'[c].count = 0 =>
             counter[c] # Null /\ counter[c].count = 0
    BY <1>2
  <1>10. CountsInv'
    BY <1>3, <1>4, <1>5, <1>6, <1>7, <1>8, <1>9, HoldsKeeps
  <1>11. ASSUME MemoryInv, buffer[h].device = Null, Obtains(b, r) PROVE MemoryInv'
    <2>1. /\ b.dev_ref_count # Null /\ counter'[n].ownership = r.ownership
          /\ \A c \in Counters : counter[c] # Null => counter'[c] = counter[c]
      BY <1>2 DEF Distinct
    <2>2. b.device \notin {Null, External} => memory[b.device] = Free
      BY <1>11 DEF Obtains
    <2>3. b.device # Null => /\ memory'[b.device].how = IF b.dev_ref_count = Null THEN "Allocated"
                                                        ELSE counter'[b.dev_ref_count].ownership
                             /\ b.dev_ref_count # Null =>
                                    counter'[b.dev_ref_count].ownership # "Cropped"
      BY <1>11, <2>1 DEF Obtains
    <2>4. \A m \in Memories : /\ memory[m] # Free => memory'[m] = memory[m]
                              /\ memory[m] = Free =>
                                   \/ memory'[m] = Free
                                   \/ m = b.device /\ memory'[m].how # "Unmanaged"
      BY <1>11 DEF Obtains
    <2> QED
      BY <1>3, <1>4, <1>11, <2>1, <2>2, <2>3, <2>4, HoldsCarries
  <1> QED
    BY <1>10, <1>11

\* A wrap that fails leaves a count, held once, without memory.
LEMMA WrapKeeps ==
  ASSUME Distinct, CountsInv, NEW h \in Handles, NEW works \in BOOLEAN,
         buffer[h].device = Null, ~WrapFailed(h), Wrap(h, works)
  PROVE  CountsInv' /\ (MemoryInv => MemoryInv')
  <1> DEFINE n == NewCounter
             m == NewMemory
             r == [count |-> 1, ownership |-> "WrappedNative", cropped_from |-> Empty]
             b == [buffer[h] EXCEPT !.device = IF works THEN m ELSE Null, !.dev_ref_count = n]
  <1>1. HandleTypes /\ buffer[h] \in Buffers /\ Empty \in Buffers
    BY DEF CountsInv, HandleTypes, Empty, Buffers
  <1>2. n \in Counters /\ counter[n] = Null /\ m \in Memories
    BY DEF Wrap, NewCounter, NewMemory
  <1>3. /\ Idle(h) /\ UNCHANGED <<refs, todo, after>>
        /\ counter' = [counter EXCEPT ![n] = r]
    BY DEF Wrap
  <1>4. /\ b \in Buffers /\ b.alloc = buffer[h].alloc /\ b.dev_ref_count = n
        /\ buffer[h].dev_ref_count = Null
    BY <1>1, <1>2 DEF Buffers, WrapFailed
  <1>5. /\ buffer' = [buffer EXCEPT ![h] = b]
        /\ memory' \in [Memories -> [how : Ownerships \cup {"Free"}, of : Memories \cup {Null}]]
    <2>1. CASE works
      <3>1. /\ memory' = [memory EXCEPT ![m] = [how |-> "WrappedNative", of |-> Null]]
            /\ buffer' = [buffer EXCEPT ![h].device = m, ![h].dev_ref_count = n]
        BY <2>1 DEF Wrap
      <3> QED
        BY <1>1, <1>2, <2>1, <3>1 DEF HandleTypes, Ownerships
    <2>2. CASE ~works
      <3>1. UNCHANGED memory /\ buffer' = [buffer EXCEPT ![h].dev_ref_count = n]
        BY <2>2 DEF Wrap
      <3>2. [buffer[h] EXCEPT !.dev_ref_count = n] = b
        BY <1>1, <2>2 DEF Buffers
      <3> QED
        BY <1>1, <3>1, <3>2 DEF HandleTypes
    <2> QED
      BY <2>1, <2>2
  <1>6. r \in Counts /\ r.count = 1 /\ r.ownership # "Cropped" /\ r.cropped_from = Empty
    BY <1>1 DEF Counts, Ownerships
  <1>7. Obtains(b, r)
    <2>1. memory[m] = Free /\ m # Null
      BY <1>2 DEF Wrap, NewMemory, Distinct
    <2>2. b.device = IF works THEN m ELSE Null
      BY <1>1 DEF Buffers
    <2> HIDE DEF b, m
    <2>3. CASE works
      <3>1. memory' = [memory EXCEPT ![m] = [how |-> "WrappedNative", of |-> Null]]
        BY <2>3 DEF Wrap, m
      <3>2. /\ memory'[m].how = "WrappedNative"
            /\ \A i \in Memories : i # m => memory'[i] = memory[i]
        BY <1>1, <1>2, <3>1 DEF HandleTypes
      <3> QED
        BY <2>1, <2>2, <2>3, <3>2 DEF Obtains
    <2>4. CASE ~works
      BY <2>2, <2>4 DEF Obtains, Wrap
    <2> QED
      BY <2>3, <2>4
  <1> HIDE DEF n, m, r, b
  <1> QED
    BY <1>2, <1>3, <1>4, <1>5, <1>6, <1>7, CounterMade

\* Memory that is adopted is described by the count made for it.
LEMMA AdoptKeeps ==
  ASSUME Distinct, CountsInv, NEW h \in Handles,
         NEW ownership \in {"Unmanaged", "AllocatedDeviceAndHost"}, Adopt(h, ownership)
  PROVE  CountsInv' /\ (MemoryInv => MemoryInv')
  <1> DEFINE n == NewCounter
             m == IF ownership = "Unmanaged" THEN External ELSE NewMemory
             r == [count |-> 1, ownership |-> ownership, cropped_from |-> Empty]
             b == [buffer[h] EXCEPT !.device = m, !.dev_ref_count = n]
  <1>1. HandleTypes /\ buffer[h] \in Buffers /\ Empty \in Buffers
    BY DEF CountsInv, HandleTypes, Empty, Buffers
  <1>2. n \in Counters /\ counter[n] = Null /\ m \in Memories
    BY DEF Adopt, NewCounter, NewMemory, Distinct
  <1>3. /\ Idle(h) /\ buffer[h] = Empty /\ UNCHANGED <<refs, todo, after>>
        /\ counter' = [counter EXCEPT ![n] = r]
        /\ memory' = [memory EXCEPT ![m].how = ownership]
        /\ buffer' = [buffer EXCEPT ![h].device = m, ![h].dev_ref_count = n]
    BY DEF Adopt
  <1>4. /\ b \in Buffers /\ b.alloc = buffer[h].alloc /\ b.dev_ref_count = n
        /\ buffer[h].dev_ref_count = Null
    <2>1. buffer[h].dev_ref_count = Null
      BY <1>3 DEF Empty
    <2> QED
      BY <1>1, <1>2, <2>1 DEF Buffers
  <1>5. r \in Counts /\ r.count = 1 /\ r.ownership # "Cropped" /\ r.cropped_from = Empty
    BY <1>1 DEF Counts, Ownerships
  <1> HIDE DEF n, m, r
  <1>6. buffer' = [buffer EXCEPT ![h] = b]
    BY <1>1, <1>3 DEF HandleTypes
  <1> HIDE DEF b
  <1>7. memory' \in [Memories -> [how : Ownerships \cup {"Free"}, of : Memories \cup {Null}]]
    <2>1. memory[m] \in [how : Ownerships \cup {"Free"}, of : Memories \cup {Null}]
      BY <1>1, <1>2 DEF HandleTypes
    <2>2. [memory[m] EXCEPT !.how = ownership]
              \in [how : Ownerships \cup {"Free"}, of : Memories \cup {Null}]
      BY <2>1 DEF Ownerships
    <2>3. memory' = [memory EXCEPT ![m] = [memory[m] EXCEPT !.how = ownership]]
      BY <1>1, <1>3 DEF HandleTypes
    <2> QED
      BY <1>1, <2>2, <2>3 DEF HandleTypes
  <1>8. Idle(h) /\ UNCHANGED <<refs, todo, after>> /\ counter' = [counter EXCEPT ![n] = r]
    BY <1>3
  <1>9. n \in Counters /\ counter[n] = Null
    BY <1>2
  <1>10. CountsInv' /\ (MemoryInv /\ buffer[h].device = Null /\ Obtains(b, r) => MemoryInv')
    BY ONLY Distinct, CountsInv, h \in Handles, <1>4, <1>5, <1>6, <1>7, <1>8, <1>9, CounterMade
  <1>11. ASSUME MemoryInv PROVE Obtains(b, r)
    <2>1. /\ m = External => ownership = "Unmanaged" /\ memory[m].how = "Unmanaged"
          /\ m # External => memory[m] = Free /\ ownership # "Unmanaged"
      <3>1. memory[External].how = "Unmanaged"
        BY <1>11 DEF MemoryInv, NotLost
      <3>2. NewMemory \in Memories /\ memory[NewMemory] = Free
        BY DEF Adopt, NewMemory
      <3>3. NewMemory # External
        BY <3>1, <3>2 DEF Free
      <3> QED
        BY <3>1, <3>2, <3>3 DEF m
    <2>2. b.device = m /\ r.ownership = ownership
      BY <1>1 DEF b, r, Buffers
    <2>3. memory[m] \in [how : Ownerships \cup {"Free"}, of : Memories \cup {Null}]
      BY <1>1, <1>2 DEF HandleTypes
    <2>4. /\ \A i \in Memories : i # m => memory'[i] = memory[i]
          /\ memory'[m] = [memory[m] EXCEPT !.how = ownership]
      BY <1>1, <1>2, <1>3 DEF HandleTypes
    <2>5. memory'[m].how = ownership /\ (memory[m].how = ownership => memory'[m] = memory[m])
      BY <2>3, <2>4
    <2> QED
      BY <1>2, <2>1, <2>2, <2>4, <2>5 DEF Obtains, Free
  <1>12. buffer[h].device = Null
    BY <1>3 DEF Empty
  <1> QED
    BY <1>10, <1>11, <1>12

-----------------------------------------------------------------------------
(* The calls that drop what a handle held *)

\* h, which was in no call, drops d and is to become b; only the buffers of the handles D and
\* the crops of the counters K change besides.
HasBecome(h, d, b, device_only, D, K) ==
    /\ TypesHold' /\ Changes(Held, Held', h, ({"buffer"} \X D) \cup ({"crop"} \X K))
    /\ \A g \in Handles : Deleted'[g] = Deleted[g]
    /\ \A g \in Handles : Last'[g] = Last[g]
    /\ Has(Held, Last, Deleted, h, buffer[h], Empty, Empty, Empty, Empty, Empty)
    /\ Row(h, Empty, b, IF device_only THEN Empty ELSE HostPart(d), DevicePart(d),
           Empty, Empty)
    /\ \A a \in Allocs :
         /\ AllocsOf(Held, h, a) = One(buffer[h].alloc, a)
         /\ AllocsOf(Held', h, a)
              = One(b.alloc, a) + IF device_only THEN 0 ELSE One(d.alloc, a)
    /\ \A c \in Counters :
         /\ CountsOf(Held, h, c) = One(buffer[h].dev_ref_count, c)
         /\ CountsOf(Held', h, c) = One(b.dev_ref_count, c) + One(d.dev_ref_count, c)
    /\ HandlesNow /\ HandlesNow' /\ CropsNow /\ CropsNow'

\* Such a call drops d, the host memory of which may be kept; h is to become b.
LEMMA NowBecomes ==
  ASSUME Distinct, CountsInv, NEW h \in Handles, Idle(h), NEW d \in Buffers, NEW b \in Buffers,
         NEW device_only \in BOOLEAN, NEW D, NEW K,
         Becomes(h, Decref(d, device_only), b), buffer'[h] = Empty, HandleTypes',
         \A g \in Handles : g # h => buffer'[g] = buffer[g] \/ (g \in D /\ Idle(g)),
         \A c \in Counters : c \notin K => CropOf(c)' = CropOf(c)
  PROVE  HasBecome(h, d, b, device_only, D, K)
  <1> DEFINE s == Decref(d, device_only)
             x == IF device_only THEN Empty ELSE HostPart(d)
             y == DevicePart(d)
  <1>1. /\ after[h] = Null /\ todo[h] = <<>> /\ HandleTypes /\ TodoInv
    BY DEF CountsInv, TodoInv, Idle
  <1>2. /\ todo' = [todo EXCEPT ![h] = s] /\ after' = [after EXCEPT ![h] = b]
    BY DEF Becomes
  <1>3. /\ todo'[h] = s /\ after'[h] = b /\ b # Null
        /\ \A g \in Handles : g # h => todo'[g] = todo[g] /\ after'[g] = after[g]
    BY <1>1, <1>2 DEF HandleTypes, Distinct
  <1>4. /\ Shaped(s) /\ Of(s, "host") = x /\ Of(s, "device") = y
        /\ Of(s, "free") = Empty /\ Of(s, "delete") = Empty
    BY DecrefIs
  <1>5. /\ (IF device_only THEN x.alloc = Null ELSE x.alloc = d.alloc) /\ x.dev_ref_count = Null
        /\ y.alloc = Null /\ y.dev_ref_count = d.dev_ref_count
    BY DEF HostPart, DevicePart, Buffers, Empty
  <1> HIDE DEF s, x, y
  <1>6. TodoInv'
    BY <1>1, <1>3, <1>4, TodoKept DEF Idle
  <1>7. /\ Changes(Held, Held', h, ({"buffer"} \X D) \cup ({"crop"} \X K))
        /\ \A g \in Handles : g # h => Last'[g] = Last[g] /\ Deleted'[g] = Deleted[g]
        /\ HandlesNow /\ HandlesNow' /\ CropsNow /\ CropsNow'
    <2>1. \A g \in Handles : g # h => /\ todo'[g] = todo[g] /\ after'[g] = after[g]
                                      /\ g \notin D => buffer'[g] = buffer[g]
      BY <1>3
    <2> QED
      BY <2>1, Elsewhere
  <1>8. Has(Held, Last, Deleted, h, buffer[h], Empty, Empty, Empty, Empty, Empty)
    <2>1. \A op : Of(<<>>, op) = Empty
      BY OfTasks
    <2>2. Has(Held, Last, Deleted, h, buffer[h], AfterOf(after[h]), Of(todo[h], "host"),
              Of(todo[h], "device"), Of(todo[h], "free"), Of(todo[h], "delete"))
      BY <1>7 DEF HandlesNow
    <2> QED
      BY <1>1, <2>1, <2>2 DEF AfterOf
  <1>9. Has(Held', Last', Deleted', h, Empty, b, x, y, Empty, Empty)
    <2>1. Has(Held', Last', Deleted', h, buffer'[h], AfterOf(after'[h]), Of(todo'[h], "host"),
              Of(todo'[h], "device"), Of(todo'[h], "free"), Of(todo'[h], "delete"))
      BY <1>7 DEF HandlesNow
    <2> QED
      BY <1>3, <1>4, <2>1 DEF AfterOf
  <1>10. Last'[h] = Last[h] /\ Deleted'[h] = Deleted[h]
    BY <1>8, <1>9 DEF Has
  <1>11. \A a \in Allocs \cup Counters : One(Null, a) = 0
    BY DEF One, Distinct
  <1>12. \A u, a : One(u, a) \in Int
    BY DEF One
  <1>13. Empty.alloc = Null /\ Empty.dev_ref_count = Null
    BY DEF Empty
  <1>14. \A a \in Allocs :
            /\ AllocsOf(Held, h, a) = One(buffer[h].alloc, a)
            /\ AllocsOf(Held', h, a)
                 = One(b.alloc, a) + IF device_only THEN 0 ELSE One(d.alloc, a)
    BY <1>5, <1>8, <1>9, <1>11, <1>12, <1>13 DEF AllocsOf, Has
  <1>15. \A c \in Counters :
            /\ CountsOf(Held, h, c) = One(buffer[h].dev_ref_count, c)
            /\ CountsOf(Held', h, c) = One(b.dev_ref_count, c) + One(d.dev_ref_count, c)
    BY <1>5, <1>8, <1>9, <1>11, <1>12, <1>13 DEF CountsOf, Has
  <1>16. TypesHold'
    BY <1>6 DEF TypesHold
  <1>17. Row(h, Empty, b, x, y, Empty, Empty)
    BY <1>7, <1>9 DEF Row
  <1>18. /\ \A g \in Handles : Deleted'[g] = Deleted[g]
         /\ \A g \in Handles : Last'[g] = Last[g]
    BY <1>7, <1>10
  <1> QED
    BY <1>7, <1>8, <1>14, <1>15, <1>16, <1>17, <1>18 DEF x, y, HasBecome

\* The places of h then: the one of d is that of its device part.
LEMMA BecomesPlaces ==
  ASSUME NEW h \in Handles, NEW d \in Buffers, NEW b \in Buffers,
         NEW device_only \in BOOLEAN, NEW D, NEW K, HasBecome(h, d, b, device_only, D, K)
  PROVE  /\ Held[<<"buffer", h>>] = buffer[h]
         /\ \A p \in {<<"after", h>>, <<"host", h>>, <<"device", h>>} :
                Held[p].device = Null /\ Held[p].dev_ref_count = Null
         /\ \A p \in {<<"buffer", h>>, <<"host", h>>} :
                Held'[p].device = Null /\ Held'[p].dev_ref_count = Null
         /\ Held'[<<"after", h>>] = b
         /\ Held'[<<"device", h>>].device = d.device
         /\ Held'[<<"device", h>>].dev_ref_count = d.dev_ref_count
         /\ \A p \in Places : p \notin HandlePlaces(h) \cup ({"buffer"} \X D) \cup ({"crop"} \X K)
                => Held'[p] = Held[p]
         /\ \A g \in Handles : Last'[g] = Last[g]
         /\ TypesHold'
  <1>1. /\ Has(Held, Last, Deleted, h, buffer[h], Empty, Empty, Empty, Empty, Empty)
        /\ Row(h, Empty, b, IF device_only THEN Empty ELSE HostPart(d), DevicePart(d),
               Empty, Empty)
    BY Zenon DEF HasBecome
  <1>2. Changes(Held, Held', h, ({"buffer"} \X D) \cup ({"crop"} \X K))
        /\ (\A g \in Handles : Last'[g] = Last[g]) /\ TypesHold'
    BY Zenon DEF HasBecome
  <1>3. /\ Empty.device = Null /\ Empty.dev_ref_count = Null
        /\ HostPart(d).device = Null /\ HostPart(d).dev_ref_count = Null
        /\ DevicePart(d).device = d.device /\ DevicePart(d).dev_ref_count = d.dev_ref_count
    BY DEF Empty, HostPart, DevicePart, Buffers
  <1>4. \A p \in Places : p \notin HandlePlaces(h) \cup ({"buffer"} \X D) \cup ({"crop"} \X K)
            => Held'[p] = Held[p]
    BY <1>2 DEF Changes
  <1> QED
    BY <1>1, <1>2, <1>3, <1>4 DEF Has, Row

\* What a handle held goes to its drop.
LEMMA DeallocateKeeps ==
  ASSUME Distinct, CountsInv, NEW h \in Handles, NEW device_only \in BOOLEAN,
         Deallocate(h, device_only)
  PROVE  CountsInv' /\ (MemoryInv => MemoryInv')
  <1> DEFINE d == buffer[h]
             b == IF device_only THEN [Empty EXCEPT !.alloc = d.alloc] ELSE Empty
  <1>1. HandleTypes /\ d \in Buffers
    BY DEF CountsInv, HandleTypes
  <1>2. /\ Idle(h) /\ Becomes(h, Decref(d, device_only), b)
        /\ buffer' = [buffer EXCEPT ![h] = Empty] /\ UNCHANGED <<refs, memory, counter>>
    BY DEF Deallocate
  <1>3. /\ b \in Buffers /\ b.dev_ref_count = Null /\ b.device = Null
        /\ IF device_only THEN b.alloc = d.alloc ELSE b.alloc = Null
    BY <1>1 DEF Buffers, Empty
  <1>4. /\ buffer'[h] = Empty /\ Empty \in Buffers
        /\ \A g \in Handles : g # h => buffer'[g] = buffer[g]
    BY <1>1, <1>2 DEF HandleTypes, Buffers, Empty
  <1> HIDE DEF b
  <1>5. HandleTypes'
    BY <1>1, <1>2, <1>3, <1>4 DEF HandleTypes, Becomes
  <1>6. \A c \in Counters : CropOf(c)' = CropOf(c)
    BY <1>2 DEF CropOf, Empty
  <1> HIDE DEF d
  <1>70. PICK none : none = {}
    OBVIOUS
  <1>71. HasBecome(h, d, b, device_only, none, none)
    <2>1. /\ \A g \in Handles : g # h => buffer'[g] = buffer[g] \/ (g \in none /\ Idle(g))
          /\ \A c \in Counters : c \notin none => CropOf(c)' = CropOf(c)
      BY <1>4, <1>6
    <2>2. Idle(h) /\ Becomes(h, Decref(d, device_only), b) /\ buffer'[h] = Empty
          /\ b \in Buffers
      BY <1>2, <1>3, <1>4
    <2> QED
      BY ONLY Distinct, CountsInv, h \in Handles, device_only \in BOOLEAN,
              <1>1, <1>5, <2>1, <2>2, NowBecomes
  <1>7. /\ TypesHold' /\ Changes(Held, Held', h, ({"buffer"} \X none) \cup ({"crop"} \X none))
        /\ \A g \in Handles : Deleted'[g] = Deleted[g]
        /\ \A a \in Allocs :
              /\ AllocsOf(Held, h, a) = One(buffer[h].alloc, a)
              /\ AllocsOf(Held', h, a)
                   = One(b.alloc, a) + IF device_only THEN 0 ELSE One(d.alloc, a)
        /\ \A c \in Counters :
              /\ CountsOf(Held, h, c) = One(buffer[h].dev_ref_count, c)
              /\ CountsOf(Held', h, c) = One(b.dev_ref_count, c) + One(d.dev_ref_count, c)
    BY <1>71, Zenon DEF HasBecome
  <1>8. ({"buffer"} \X none) \cup ({"crop"} \X none) = {}
    BY <1>70
  <1>9. /\ \A a \in Allocs : AllocsOf(Held', h, a) = AllocsOf(Held, h, a)
        /\ \A c \in Counters : CountsOf(Held', h, c) = CountsOf(Held, h, c)
    BY <1>3, <1>7 DEF One, Distinct, d
  <1>10. RefsInv' /\ CountInv' /\ CropInv'
    BY <1>2, <1>7, <1>8, <1>9, SameCounts
  <1>11. DeleteInv'
    BY <1>2, <1>7, DeletesKept DEF CountsInv, TypesHold
  <1>12. CountsInv'
    BY <1>7, <1>10, <1>11 DEF CountsInv, TypesHold
  <1>13. ASSUME MemoryInv PROVE MemoryInv'
    <2> DEFINE s == <<"buffer", h>>
               t == <<"device", h>>
    <2>1. /\ Held[s] = buffer[h]
          /\ \A p \in {<<"after", h>>, <<"host", h>>, <<"device", h>>} :
                 Held[p].device = Null /\ Held[p].dev_ref_count = Null
          /\ \A p \in {<<"buffer", h>>, <<"host", h>>} :
                 Held'[p].device = Null /\ Held'[p].dev_ref_count = Null
          /\ Held'[<<"after", h>>] = b
          /\ Held'[t].device = d.device /\ Held'[t].dev_ref_count = d.dev_ref_count
          /\ \A p \in Places : p \notin HandlePlaces(h) \cup ({"buffer"} \X none)
                                                      \cup ({"crop"} \X none)
                 => Held'[p] = Held[p]
          /\ \A g \in Handles : Last'[g] = Last[g]
      BY ONLY h \in Handles, device_only \in BOOLEAN, <1>1, <1>3, <1>71, BecomesPlaces
    <2>2. s \in Places /\ t \in Places /\ s # t
      BY DEF Places, Kinds
    <2>3. ASSUME NEW p \in Places, p \notin {s, t}
          PROVE  /\ Held'[p].device = Held[p].device
                 /\ Held'[p].dev_ref_count = Held[p].dev_ref_count
      <3>1. CASE p \in HandlePlaces(h)
        <4>1. p \in {<<"buffer", h>>, <<"after", h>>, <<"host", h>>, <<"device", h>>}
          BY <3>1, PlacesOf
        <4> QED
          BY <1>3, <2>1, <2>3, <4>1
      <3>2. CASE p \notin HandlePlaces(h)
        BY <1>8, <2>1, <3>2
      <3> QED
        BY <3>1, <3>2
    <2>4. /\ Held[t].device = Null /\ Held'[s].device = Null /\ Held'[s].dev_ref_count = Null
          /\ Held'[t].device = Held[s].device /\ Held'[t].dev_ref_count = Held[s].dev_ref_count
      BY <2>1 DEF d
    <2> HIDE DEF s, t
    <2> QED
      BY <1>2, <1>7, <1>13, <2>1, <2>2, <2>3, <2>4, Handed
  <1> QED
    BY <1>12, <1>13

\* The buffer place of another handle is not one of h.
LEMMA BufferPlace ==
  ASSUME NEW g \in Handles, NEW h \in Handles, g # h
  PROVE  <<"buffer", g>> \in Places /\ <<"buffer", g>> \notin HandlePlaces(h)
  BY DEF Places, Kinds, HandlePlaces, HandleKinds

\* What h held goes to its drop, and what g held to h.
LEMMA MoveKeeps ==
  ASSUME Distinct, CountsInv, NEW h \in Handles, NEW g \in Handles, Move(h, g)
  PROVE  CountsInv' /\ (MemoryInv => MemoryInv')
  <1> DEFINE d == buffer[h]
             b == buffer[g]
             p == <<"buffer", g>>
  <1>1. HandleTypes /\ d \in Buffers /\ b \in Buffers /\ Empty \in Buffers
    BY DEF CountsInv, HandleTypes, Empty, Buffers
  <1>2. /\ Idle(h) /\ Idle(g) /\ h # g /\ Becomes(h, Decref(d, FALSE), b)
        /\ buffer' = [buffer EXCEPT ![h] = Empty, ![g] = Empty]
        /\ UNCHANGED <<refs, memory, counter>>
    BY DEF Move
  <1>3. /\ buffer'[h] = Empty /\ buffer'[g] = Empty
        /\ \A i \in Handles : i # h => buffer'[i] = buffer[i] \/ (i \in {g} /\ Idle(i))
    BY <1>1, <1>2 DEF HandleTypes
  <1>4. HandleTypes'
    BY <1>1, <1>2 DEF HandleTypes, Becomes
  <1>5. \A c \in Counters : CropOf(c)' = CropOf(c)
    BY <1>2 DEF CropOf, Empty
  <1> HIDE DEF d, b
  <1>6a. HasBecome(h, d, b, FALSE, {g}, {})
    <2>1. FALSE \in BOOLEAN
      OBVIOUS
    <2> QED
      BY <1>1, <1>2, <1>3, <1>4, <1>5, <2>1, NowBecomes
  <1>6. /\ TypesHold' /\ Changes(Held, Held', h, ({"buffer"} \X {g}) \cup ({"crop"} \X {}))
        /\ \A i \in Handles : Deleted'[i] = Deleted[i]
        /\ \A a \in Allocs :
              /\ AllocsOf(Held, h, a) = One(buffer[h].alloc, a)
              /\ AllocsOf(Held', h, a)
                   = One(b.alloc, a) + IF FALSE THEN 0 ELSE One(d.alloc, a)
        /\ \A c \in Counters :
              /\ CountsOf(Held, h, c) = One(buffer[h].dev_ref_count, c)
              /\ CountsOf(Held', h, c) = One(b.dev_ref_count, c) + One(d.dev_ref_count, c)
        /\ HandlesNow /\ HandlesNow'
    BY <1>6a, Zenon DEF HasBecome
  <1>7. ({"buffer"} \X {g}) \cup ({"crop"} \X {}) = {p}
    OBVIOUS
  <1>8. Held[p] = b /\ Held'[p] = Empty
    BY <1>3, <1>6 DEF HandlesNow, Has, b
  <1>9. p \in Places /\ p \notin HandlePlaces(h)
    BY <1>2, BufferPlace
  <1> HIDE DEF p
  <1>10. \A a \in Allocs : refs'[a] = refs[a] - AllocsOf(Held, h, a) + AllocsOf(Held', h, a)
                               - One(Held[p].alloc, a) + One(Held'[p].alloc, a)
    <2>1. \A a \in Allocs : refs[a] \in Int /\ refs'[a] = refs[a]
      BY <1>1, <1>2 DEF HandleTypes
    <2>2. \A u, a : One(u, a) \in Int
      BY DEF One
    <2>3. \A a \in Allocs : One(Held'[p].alloc, a) = 0
      BY <1>8 DEF One, Empty, Distinct
    <2> QED
      BY <1>6, <1>8, <2>1, <2>2, <2>3 DEF d
  <1>11. \A c \in Counters : Number(c)'
             = Number(c) - CountsOf(Held, h, c) + CountsOf(Held', h, c)
                               - One(Held[p].dev_ref_count, c) + One(Held'[p].dev_ref_count, c)
    <2>1. \A c \in Counters : Number(c) \in Int /\ Number(c)' = Number(c)
      BY <1>1, <1>2 DEF HandleTypes, Number, Counts
    <2>2. \A u, a : One(u, a) \in Int
      BY DEF One
    <2>3. \A c \in Counters : One(Held'[p].dev_ref_count, c) = 0
      BY <1>8 DEF One, Empty, Distinct
    <2> QED
      BY <1>6, <1>8, <2>1, <2>2, <2>3 DEF d
  <1>12. RefsInv' /\ CountInv'
    BY <1>6, <1>7, <1>9, <1>10, <1>11, KeptWith
  <1>13. CropInv'
    BY <1>2, CropsKept DEF CountsInv
  <1>14. DeleteInv'
    BY <1>2, <1>6, DeletesKept DEF CountsInv, TypesHold
  <1>15. CountsInv'
    BY <1>6, <1>12, <1>13, <1>14 DEF CountsInv, TypesHold
  <1>16. ASSUME MemoryInv PROVE MemoryInv'
    <2> DEFINE s == <<"buffer", h>>
               t == <<"device", h>>
               u == <<"after", h>>
               f == [i \in Places |-> IF i = t THEN s ELSE IF i = u THEN p ELSE i]
    <2>1. /\ Held[s] = d /\ Held[t].device = Null /\ Held[u].device = Null
          /\ Held'[s].device = Null /\ Held'[s].dev_ref_count = Null
          /\ Held'[<<"host", h>>].device = Null /\ Held'[<<"host", h>>].dev_ref_count = Null
          /\ Held[<<"host", h>>].device = Null
          /\ Held'[u] = b
          /\ Held'[t].device = d.device /\ Held'[t].dev_ref_count = d.dev_ref_count
          /\ \A i \in Places : i \notin HandlePlaces(h) \cup {p} => Held'[i] = Held[i]
          /\ \A i \in Handles : Last'[i] = Last[i]
      <3>1. PICK no, others, none : no = FALSE /\ others = {g} /\ none = {}
        OBVIOUS
      <3>2. HasBecome(h, d, b, no, others, none) /\ no \in BOOLEAN
        BY <1>6a, <3>1
      <3>3. ({"buffer"} \X others) \cup ({"crop"} \X none) = {p}
        BY <1>7, <3>1
      <3> HIDE DEF s, t, u
      <3>4. /\ Held[<<"buffer", h>>] = buffer[h]
            /\ \A i \in {<<"after", h>>, <<"host", h>>, <<"device", h>>} :
                   Held[i].device = Null /\ Held[i].dev_ref_count = Null
            /\ \A i \in {<<"buffer", h>>, <<"host", h>>} :
                   Held'[i].device = Null /\ Held'[i].dev_ref_count = Null
            /\ Held'[<<"after", h>>] = b
            /\ Held'[<<"device", h>>].device = d.device
            /\ Held'[<<"device", h>>].dev_ref_count = d.dev_ref_count
            /\ \A i \in Places : i \notin HandlePlaces(h) \cup ({"buffer"} \X others)
                                                        \cup ({"crop"} \X none)
                   => Held'[i] = Held[i]
            /\ \A i \in Handles : Last'[i] = Last[i]
        BY ONLY h \in Handles, <1>1, <3>2, BecomesPlaces
      <3> QED
        BY <3>3, <3>4 DEF s, t, u, d
    <2>2. s \in Places /\ t \in Places /\ u \in Places /\ s # t /\ s # u /\ t # u
      BY DEF Places, Kinds
    <2>3. s \in HandlePlaces(h) /\ t \in HandlePlaces(h) /\ u \in HandlePlaces(h)
      BY DEF HandlePlaces, HandleKinds
    <2>4. f \in [Places -> Places]
          /\ \A i \in Places : f[i] = IF i = t THEN s ELSE IF i = u THEN p ELSE i
      BY <1>9, <2>2
    <2>5. \A i \in HandlePlaces(h) : i \in {s, u, <<"host", h>>, t}
      BY PlacesOf
    <2> HIDE DEF s, t, u, f
    <2>6. Held[p] = b /\ Held'[p].device = Null /\ Held'[p].dev_ref_count = Null
      BY <1>8 DEF Empty
    <2>7. ASSUME NEW i \in Places, Held'[i].device # Null \/ Held'[i].dev_ref_count # Null
          PROVE  /\ i # s /\ i # p
                 /\ Held'[i].device = Held[f[i]].device
                 /\ Held'[i].dev_ref_count = Held[f[i]].dev_ref_count
      <3>1. CASE i \in HandlePlaces(h)
        BY <1>9, <2>1, <2>2, <2>4, <2>5, <2>6, <2>7, <3>1
      <3>2. CASE i \notin HandlePlaces(h)
        BY <2>1, <2>2, <2>3, <2>4, <2>6, <2>7, <3>2
      <3> QED
        BY <3>1, <3>2
    <2>8. \A i, j \in Places : i # s /\ j # s /\ f[i] = f[j]
                               /\ Held'[i].device # Null /\ Held'[j].device # Null => i = j
      BY <1>9, <2>2, <2>3, <2>4, <2>7
    <2>9. ASSUME NEW i \in Places, Held[i].device # Null
          PROVE  \E j \in Places : Held'[j].device = Held[i].device
      <3>1. CASE i = s
        BY <2>1, <2>2, <3>1
      <3>2. CASE i = p
        BY <2>1, <2>2, <2>6, <3>2
      <3>3. CASE i \notin HandlePlaces(h) \cup {p}
        BY <2>1, <3>3
      <3>4. CASE i \in HandlePlaces(h) /\ i # s
        BY <2>1, <2>5, <2>9, <3>4
      <3> QED
        BY <3>1, <3>2, <3>3, <3>4
    <2> QED
      BY <1>2, <1>6, <1>16, <2>1, <2>2, <2>4, <2>7, <2>8, <2>9, Relocated
  <1> QED
    BY <1>15, <1>16

\* What is copied has a count when it has device memory: a new one, or the one it had.
LEMMA CountedIs ==
  ASSUME Distinct, CountsInv, NEW g \in Handles, ~WrapFailed(g),
         \E c \in Counters : counter[c] = Null
  PROVE  LET b == Counted(buffer[g]) IN
         /\ b \in Buffers /\ b.alloc = buffer[g].alloc /\ b.device = buffer[g].device
         /\ b.device # Null <=> b.dev_ref_count # Null
         /\ b.dev_ref_count # Null => b.dev_ref_count \in Counters
         /\ buffer[g].dev_ref_count # Null =>
                /\ b = buffer[g] /\ counter[b.dev_ref_count] # Null
                /\ counter[b.dev_ref_count] \in Counts /\ counter[b.dev_ref_count].count >= 1
         /\ buffer[g].dev_ref_count = Null /\ b.dev_ref_count # Null =>
                counter[b.dev_ref_count] = Null
  <1> DEFINE e == buffer[g]
             b == Counted(e)
  <1>1. e \in Buffers
    BY DEF CountsInv, HandleTypes
  <1>2. NewCounter \in Counters /\ counter[NewCounter] = Null
    BY DEF NewCounter
  <1>3. e.dev_ref_count # Null => e.device # Null
    BY DEF WrapFailed
  <1>4. CASE e.device # Null /\ e.dev_ref_count = Null
    <2>1. b = [e EXCEPT !.dev_ref_count = NewCounter]
      BY <1>4 DEF Counted
    <2>2. /\ b \in Buffers /\ b.alloc = e.alloc /\ b.device = e.device
          /\ b.dev_ref_count = NewCounter
      BY <1>1, <1>2, <2>1 DEF Buffers
    <2> HIDE DEF b
    <2>3. NewCounter # Null
      BY <1>2 DEF Distinct
    <2> QED
      BY <1>2, <1>4, <2>2, <2>3 DEF b
  <1>5. CASE ~(e.device # Null /\ e.dev_ref_count = Null)
    <2>1. b = e
      BY <1>5 DEF Counted
    <2>2. e.device # Null <=> e.dev_ref_count # Null
      BY <1>3, <1>5
    <2>3. Held[<<"buffer", g>>] = e /\ <<"buffer", g>> \in Places
      BY PlacesNow DEF HandlesNow, Has, Places, Kinds
    <2>4. e.dev_ref_count # Null => /\ e.dev_ref_count \in Counters
                                    /\ counter[e.dev_ref_count] # Null
                                    /\ counter[e.dev_ref_count] \in Counts
                                    /\ counter[e.dev_ref_count].count >= 1
      BY <2>3, HolderCounted
    <2> HIDE DEF b
    <2> QED
      BY <1>1, <2>1, <2>2, <2>4 DEF b
  <1> QED
    BY <1>4, <1>5

\* One more holds it, n times.
More(b, n, c) == IF c # b.dev_ref_count THEN 0 ELSE n + IF counter[c] = Null THEN 1 ELSE 0

\* What is shared by n more is counted by n more, and once if it was not counted.
LEMMA SharedIs ==
  ASSUME Distinct, HandleTypes, NEW b \in Buffers, NEW n \in Nat,
         b.device # Null <=> b.dev_ref_count # Null,
         b.dev_ref_count # Null /\ counter[b.dev_ref_count] # Null =>
             counter[b.dev_ref_count].count >= 1
  PROVE  LET S == SharedCounters(b, n)
             k == b.dev_ref_count
         IN  /\ S \in [Counters -> Counts \cup {Null}]
             /\ \A c \in Counters : c # k => S[c] = counter[c]
             /\ \A c \in Counters : c = k =>
                    /\ S[c] \in Counts /\ S[c] # Null /\ S[c].count >= 1
                    /\ IF counter[c] = Null
                       THEN S[c].count = 1 + n /\ S[c].ownership = "Allocated"
                            /\ S[c].cropped_from = Empty
                       ELSE /\ S[c].count = counter[c].count + n
                            /\ S[c].ownership = counter[c].ownership
                            /\ S[c].cropped_from = counter[c].cropped_from
             /\ \A c \in Counters :
                    (IF S[c] = Null THEN 0 ELSE S[c].count) = Number(c) + More(b, n, c)
  <1> DEFINE S == SharedCounters(b, n)
             k == b.dev_ref_count
  <1>1. S = [c \in Counters |->
                IF b.device = Null \/ c # k THEN counter[c]
                ELSE IF counter[c] = Null
                THEN [count |-> 1 + n, ownership |-> "Allocated", cropped_from |-> Empty]
                ELSE [counter[c] EXCEPT !.count = @ + n]]
    BY DEF SharedCounters
  <1>2. Empty \in Buffers /\ \A c \in Counters : counter[c] \in Counts \cup {Null}
    BY DEF Empty, Buffers, HandleTypes
  <1>3. Null \notin Counts /\ Null \notin Counters
    BY DEF Distinct
  <1>4. ASSUME NEW c \in Counters, c # k PROVE S[c] = counter[c]
    BY <1>1, <1>4
  <1>5. ASSUME NEW c \in Counters, c = k
        PROVE  /\ S[c] \in Counts /\ S[c] # Null /\ S[c].count >= 1
               /\ IF counter[c] = Null
                  THEN S[c].count = 1 + n /\ S[c].ownership = "Allocated"
                       /\ S[c].cropped_from = Empty
                  ELSE /\ S[c].count = counter[c].count + n
                       /\ S[c].ownership = counter[c].ownership
                       /\ S[c].cropped_from = counter[c].cropped_from
    <2>1. b.device # Null /\ k # Null
      BY <1>3, <1>5
    <2>2. CASE counter[c] = Null
      <3>1. S[c] = [count |-> 1 + n, ownership |-> "Allocated", cropped_from |-> Empty]
        BY <1>1, <1>5, <2>1, <2>2
      <3>2. S[c] \in Counts
        BY <1>2, <3>1 DEF Counts, Ownerships
      <3> HIDE DEF S
      <3> QED
        BY <1>3, <2>2, <3>1, <3>2
    <2>3. CASE counter[c] # Null
      <3>1. S[c] = [counter[c] EXCEPT !.count = @ + n]
        BY <1>1, <1>5, <2>1, <2>3
      <3>2. counter[c] \in Counts /\ counter[c].count >= 1
        BY <1>2, <1>5, <2>1, <2>3
      <3> HIDE DEF S
      <3>3. S[c] \in Counts /\ S[c].count = counter[c].count + n
            /\ S[c].ownership = counter[c].ownership
            /\ S[c].cropped_from = counter[c].cropped_from
        BY <3>1, <3>2 DEF Counts
      <3> QED
        BY <1>3, <2>3, <3>2, <3>3 DEF Counts
    <2> QED
      BY <2>2, <2>3
  <1> HIDE DEF S
  <1>6. S \in [Counters -> Counts \cup {Null}]
    <2>1. \A c \in Counters : S[c] \in Counts \cup {Null}
      BY <1>2, <1>4, <1>5
    <2>2. S = [c \in Counters |-> S[c]]
      BY <1>1
    <2> QED
      BY <2>1, <2>2
  <1>7. ASSUME NEW c \in Counters
        PROVE  (IF S[c] = Null THEN 0 ELSE S[c].count) = Number(c) + More(b, n, c)
    <2>1. Number(c) \in Int
      BY <1>2 DEF Number, Counts
    <2>2. CASE c # k
      BY <1>4, <2>1, <2>2 DEF Number, More
    <2>3. CASE c = k
      BY <1>5, <2>1, <2>3 DEF Number, More
    <2> QED
      BY <2>2, <2>3
  <1> QED
    BY <1>4, <1>5, <1>6, <1>7 DEF S

\* A copy holds what g has, which is counted once more.
LEMMA CopyKeeps ==
  ASSUME Distinct, CountsInv, NEW h \in Handles, NEW g \in Handles, ~WrapFailed(g), Copy(h, g)
  PROVE  CountsInv' /\ (MemoryInv => MemoryInv')
  <1> DEFINE d == buffer[h]
             e == buffer[g]
             b == Counted(e)
             k == b.dev_ref_count
             p == <<"buffer", g>>
  <1>1. HandleTypes /\ d \in Buffers /\ Empty \in Buffers
    BY DEF CountsInv, HandleTypes, Empty, Buffers
  <1>2. /\ Idle(h) /\ Idle(g) /\ h # g /\ Becomes(h, Decref(d, FALSE), b)
        /\ buffer' = [buffer EXCEPT ![h] = Empty, ![g] = b]
        /\ refs' = SharedRefs(b, 1) /\ counter' = SharedCounters(b, 1) /\ UNCHANGED memory
        /\ \E c \in Counters : counter[c] = Null
    BY DEF Copy
  <1>3. /\ b \in Buffers /\ b.alloc = e.alloc /\ b.device = e.device
        /\ b.device # Null <=> k # Null
        /\ k # Null => k \in Counters
        /\ e.dev_ref_count # Null => /\ b = e /\ counter[k] # Null
                                     /\ counter[k] \in Counts /\ counter[k].count >= 1
        /\ e.dev_ref_count = Null /\ k # Null => counter[k] = Null
    BY <1>2, CountedIs
  <1> HIDE DEF b
  <1>4. /\ counter' \in [Counters -> Counts \cup {Null}]
        /\ \A c \in Counters : c # k => counter'[c] = counter[c]
        /\ \A c \in Counters : c = k =>
               /\ counter'[c] \in Counts /\ counter'[c] # Null /\ counter'[c].count >= 1
               /\ IF counter[c] = Null
                  THEN counter'[c].count = 2 /\ counter'[c].ownership = "Allocated"
                       /\ counter'[c].cropped_from = Empty
                  ELSE /\ counter'[c].count = counter[c].count + 1
                       /\ counter'[c].ownership = counter[c].ownership
                       /\ counter'[c].cropped_from = counter[c].cropped_from
        /\ \A c \in Counters :
               (IF counter'[c] = Null THEN 0 ELSE counter'[c].count) = Number(c) + More(b, 1, c)
    <2>1. 1 \in Nat
      OBVIOUS
    <2>2. k # Null /\ counter[k] # Null => counter[k].count >= 1
      BY <1>3
    <2> QED
      BY ONLY Distinct, <1>1, <1>2, <1>3, <2>1, <2>2, SharedIs
  <1>5. refs' \in [Allocs -> Int] /\ \A a \in Allocs : refs'[a] = refs[a] + One(b.alloc, a)
    BY <1>1, <1>2 DEF HandleTypes, SharedRefs, One
  <1>6. /\ buffer'[h] = Empty /\ buffer'[g] = b
        /\ \A i \in Handles : i # h => buffer'[i] = buffer[i] \/ (i \in {g} /\ Idle(i))
    BY <1>1, <1>2 DEF HandleTypes
  <1>7. HandleTypes'
    BY <1>1, <1>2, <1>3, <1>4, <1>5 DEF HandleTypes, Becomes
  <1>8. \A c \in Counters : CropOf(c)' = CropOf(c)
    BY <1>4 DEF CropOf, Empty
  <1>9. PICK others, none : others = {g} /\ none = {}
    OBVIOUS
  <1> HIDE DEF d, e, k
  <1>9a. HasBecome(h, d, b, FALSE, others, none)
    <2>1. /\ FALSE \in BOOLEAN /\ \A c \in Counters : c \notin none => CropOf(c)' = CropOf(c)
          /\ \A i \in Handles : i # h => buffer'[i] = buffer[i] \/ (i \in others /\ Idle(i))
      BY <1>6, <1>8, <1>9
    <2>2. Idle(h) /\ Becomes(h, Decref(d, FALSE), b) /\ buffer'[h] = Empty
          /\ b \in Buffers /\ d \in Buffers
      BY <1>1, <1>2, <1>3, <1>6
    <2> QED
      BY ONLY Distinct, CountsInv, h \in Handles, <1>7, <2>1, <2>2, NowBecomes
  <1>10. /\ TypesHold' /\ Changes(Held, Held', h, ({"buffer"} \X others) \cup ({"crop"} \X none))
         /\ \A i \in Handles : Deleted'[i] = Deleted[i]
         /\ \A a \in Allocs :
              /\ AllocsOf(Held, h, a) = One(buffer[h].alloc, a)
              /\ AllocsOf(Held', h, a)
                   = One(b.alloc, a) + IF FALSE THEN 0 ELSE One(d.alloc, a)
         /\ \A c \in Counters :
              /\ CountsOf(Held, h, c) = One(buffer[h].dev_ref_count, c)
              /\ CountsOf(Held', h, c) = One(b.dev_ref_count, c) + One(d.dev_ref_count, c)
         /\ HandlesNow /\ HandlesNow'
    BY <1>9a, Zenon DEF HasBecome
  <1>11. ({"buffer"} \X others) \cup ({"crop"} \X none) = {p}
    BY <1>9
  <1>12. Held[p] = e /\ Held'[p] = b
    BY <1>6, <1>10 DEF HandlesNow, Has, e
  <1>13. p \in Places /\ p \notin HandlePlaces(h)
    BY <1>2, BufferPlace
  <1> HIDE DEF p
  <1>14. \A u, a : One(u, a) \in Int
    BY DEF One
  <1>15. \A a \in Allocs : refs'[a] = refs[a] - AllocsOf(Held, h, a) + AllocsOf(Held', h, a)
                               - One(Held[p].alloc, a) + One(Held'[p].alloc, a)
    <2>1. \A a \in Allocs : refs[a] \in Int
      BY <1>1 DEF HandleTypes
    <2> QED
      BY <1>3, <1>5, <1>10, <1>12, <1>14, <2>1 DEF d
  <1>16. \A c \in Counters : Number(c)'
             = Number(c) - CountsOf(Held, h, c) + CountsOf(Held', h, c)
                               - One(Held[p].dev_ref_count, c) + One(Held'[p].dev_ref_count, c)
    <2>1. \A c \in Counters : Number(c) \in Int
      BY <1>1 DEF HandleTypes, Number, Counts
    <2>2. \A c \in Counters : Number(c)' = Number(c) + More(b, 1, c)
      BY <1>4 DEF Number
    <2>3. \A c \in Counters : More(b, 1, c) = One(k, c) - One(e.dev_ref_count, c) + One(k, c)
      BY <1>3 DEF More, One, Distinct, k
    <2> QED
      BY <1>10, <1>12, <1>14, <2>1, <2>2, <2>3 DEF d, k
  <1>17. RefsInv' /\ CountInv'
    BY <1>10, <1>11, <1>13, <1>15, <1>16, KeptWith
  <1>18. CropInv'
    <2>1. \A c \in Counters : counter[c] # Null =>
            LET x == counter[c].cropped_from IN
            IF counter[c].ownership = "Cropped" THEN x.device # Null /\ x.dev_ref_count # Null
            ELSE x = Empty
      BY DEF CountsInv, CropInv
    <2>2. \A c \in Counters : counter'[c] # Null =>
            LET x == counter'[c].cropped_from IN
            IF counter'[c].ownership = "Cropped" THEN x.device # Null /\ x.dev_ref_count # Null
            ELSE x = Empty
      BY <1>4, <2>1
    <2> QED
      BY <2>2 DEF CropInv, Empty
  <1>19. DeleteInv'
    <2>1. \A i \in Handles : Deleted[i].dev_ref_count # Null =>
             counter'[Deleted[i].dev_ref_count] = counter[Deleted[i].dev_ref_count]
      <3>1. \A c \in Counters : counter[c] # Null /\ counter[c].count = 0 =>
                counter'[c] = counter[c]
        BY <1>3, <1>4 DEF k, Distinct
      <3> QED
        BY <3>1, DeletedIs
    <2>2. \A c \in Counters : counter'[c] # Null /\ counter'[c].count = 0 =>
             counter[c] # Null /\ counter[c].count = 0
      BY <1>4
    <2> QED
      BY <1>10, <2>1, <2>2, DeletesKept DEF CountsInv, TypesHold
  <1>20. CountsInv'
    BY <1>10, <1>17, <1>18, <1>19 DEF CountsInv, TypesHold
  <1>21. ASSUME MemoryInv PROVE MemoryInv'
    <2>1. PICK no, s, t, u, w : /\ no = FALSE /\ s = <<"buffer", h>> /\ t = <<"device", h>>
                                /\ u = <<"after", h>> /\ w = <<"host", h>>
      OBVIOUS
    <2>2. /\ Held[s] = d /\ Held[t].device = Null /\ Held[u].device = Null
          /\ Held[w].device = Null
          /\ Held'[s].device = Null /\ Held'[s].dev_ref_count = Null
          /\ Held'[w].device = Null /\ Held'[w].dev_ref_count = Null
          /\ Held'[u] = b
          /\ Held'[t].device = d.device /\ Held'[t].dev_ref_count = d.dev_ref_count
          /\ \A i \in Places : i \notin HandlePlaces(h) \cup {p} => Held'[i] = Held[i]
          /\ \A i \in Handles : Last'[i] = Last[i]
      <3>1. HasBecome(h, d, b, no, others, none) /\ no \in BOOLEAN
        BY <1>9a, <2>1
      <3>2. b \in Buffers /\ d \in Buffers
        BY <1>1, <1>3
      <3>3. /\ Held[<<"buffer", h>>] = buffer[h]
            /\ \A i \in {<<"after", h>>, <<"host", h>>, <<"device", h>>} :
                   Held[i].device = Null /\ Held[i].dev_ref_count = Null
            /\ \A i \in {<<"buffer", h>>, <<"host", h>>} :
                   Held'[i].device = Null /\ Held'[i].dev_ref_count = Null
            /\ Held'[<<"after", h>>] = b
            /\ Held'[<<"device", h>>].device = d.device
            /\ Held'[<<"device", h>>].dev_ref_count = d.dev_ref_count
            /\ \A i \in Places : i \notin HandlePlaces(h) \cup ({"buffer"} \X others)
                                                        \cup ({"crop"} \X none)
                   => Held'[i] = Held[i]
            /\ \A i \in Handles : Last'[i] = Last[i]
        BY ONLY h \in Handles, <3>1, <3>2, BecomesPlaces
      <3> QED
        BY <1>11, <2>1, <3>3 DEF d
    <2>3. s \in Places /\ t \in Places /\ u \in Places /\ s # t /\ s # u /\ t # u
      BY <2>1 DEF Places, Kinds
    <2>4. s \in HandlePlaces(h) /\ t \in HandlePlaces(h) /\ u \in HandlePlaces(h)
      BY <2>1 DEF HandlePlaces, HandleKinds
    <2>5. \A i \in HandlePlaces(h) : i \in {s, u, w, t}
      BY <2>1, PlacesOf
    <2>6. PICK f : f \in [Places -> Places] /\ \A i \in Places :
                       f[i] = IF i = t THEN s ELSE IF i = u THEN p ELSE i
      <3> DEFINE F == [i \in Places |-> IF i = t THEN s ELSE IF i = u THEN p ELSE i]
      <3>1. F \in [Places -> Places] /\ \A i \in Places :
                F[i] = IF i = t THEN s ELSE IF i = u THEN p ELSE i
        BY <1>13, <2>3
      <3> QED
        BY <3>1
    <2>7. PICK q, n : q = p /\ n = k
      OBVIOUS
    <2>8. q \in Places /\ q \notin HandlePlaces(h) /\ Held[q] = e /\ Held'[q] = b
      BY <1>12, <1>13, <2>7
    <2>9. b.device = e.device /\ b.dev_ref_count = n /\ (n = Null => b.device = Null)
      BY <1>3, <2>7 DEF k
    <2>10. ASSUME NEW i \in Places, i # s,
                  Held'[i].device # Null \/ Held'[i].dev_ref_count # Null
           PROVE  /\ Held'[i].device = Held[f[i]].device
                  /\ Held'[i].dev_ref_count = IF f[i] = q THEN n ELSE Held[f[i]].dev_ref_count
      <3>1. CASE i \in HandlePlaces(h)
        BY <2>2, <2>3, <2>4, <2>5, <2>6, <2>7, <2>8, <2>9, <2>10, <3>1
      <3>2. CASE i \notin HandlePlaces(h)
        BY <2>2, <2>3, <2>4, <2>6, <2>7, <2>8, <2>9, <3>2
      <3> QED
        BY <3>1, <3>2
    <2>11. \A i, j \in Places : i # s /\ j # s /\ f[i] = f[j] /\ Held'[i].device # Null
              /\ Held'[j].device # Null /\ Held'[i].dev_ref_count = Null => i = j
      BY <2>2, <2>3, <2>4, <2>6, <2>7, <2>8, <2>9
    <2>12. ASSUME NEW i \in Places, Held[i].device # Null
           PROVE  \E j \in Places : Held'[j].device = Held[i].device
      <3>1. CASE i = s
        BY <2>2, <2>3, <3>1
      <3>2. CASE i = q
        BY <2>8, <2>9, <3>2
      <3>3. CASE i \notin HandlePlaces(h) \cup {q}
        BY <2>2, <2>7, <3>3
      <3>4. CASE i \in HandlePlaces(h) /\ i # s
        BY <2>2, <2>5, <2>12, <3>4
      <3> QED
        BY <3>1, <3>2, <3>3, <3>4
    <2>13. \/ n = Held[q].dev_ref_count
           \/ /\ Held[q].dev_ref_count = Null /\ n \in Counters /\ counter[n] = Null
              /\ Held[q].device # External
              /\ counter'[n] # Null /\ counter'[n].ownership = "Allocated"
      <3>1. Held[q].device = External => Held[q].dev_ref_count # Null
        BY <1>21, <2>8, MemoryHeld DEF Distinct
      <3>2. CASE e.dev_ref_count # Null
        BY <1>3, <2>7, <2>8, <3>2 DEF k
      <3>3. CASE e.dev_ref_count = Null /\ n # Null
        BY <1>3, <1>4, <2>7, <2>8, <3>1, <3>3
      <3>4. CASE e.dev_ref_count = Null /\ n = Null
        BY <2>8, <3>4
      <3> QED
        BY <3>2, <3>3, <3>4
    <2>14. Carries(f, q, n, s)
      BY <2>6, <2>8, <2>10, <2>11, <2>12, <2>13 DEF Carries
    <2>15. Fresh(s, n)
      <3>1. Describes(Held[s])'
        BY <2>2 DEF Describes
      <3> QED
        BY <2>2, <3>1 DEF Fresh
    <2>16. Stays(s)
      <3>1. \A c \in Counters : (\E i \in Places : Held[i].dev_ref_count = c)
                               \/ (\E i \in Handles : Last[i].dev_ref_count = c) =>
                counter[c] # Null
        BY <1>21, HolderCounted, MemoryHeld DEF Distinct
      <3>2. \A c \in Counters : counter[c] # Null =>
                /\ counter'[c].ownership = counter[c].ownership
                /\ counter'[c].cropped_from = counter[c].cropped_from
        BY <1>4
      <3> QED
        BY <1>2, <2>2, <3>1, <3>2 DEF Stays
    <2> QED
      BY ONLY Distinct, CountsInv, <1>10, <1>21, <2>3, <2>14, <2>15, <2>16, Carried
  <1> QED
    BY <1>20, <1>21

-----------------------------------------------------------------------------
(* Crops *)

\* The count of a crop is not that of what is cropped.
LEMMA AnotherCounter ==
  ASSUME Distinct, NEW k, Cardinality({c \in Counters : counter[c] = Null}) > 1
  PROVE  \E c \in Counters : counter[c] = Null /\ c # k
  <1> DEFINE Z == {c \in Counters : counter[c] = Null}
  <1>1. SUFFICES ASSUME \A c \in Z : c = k PROVE FALSE
    OBVIOUS
  <1>2. IsFiniteSet({k}) /\ Cardinality({k}) = 1 /\ Z \subseteq {k}
    BY <1>1, FS_Singleton
  <1>3. Cardinality(Z) <= 1 /\ Cardinality(Z) \in Nat
    BY <1>2, FS_Subset, FS_CardinalityType
  <1> QED
    BY <1>3

\* What g has, with its count, is b; the crop, when it is made, keeps root, which has a
\* count, in the count id, and has the memory mem.
Cropping(g, works, b, root, id, mem) ==
    /\ b \in Buffers /\ root \in Buffers /\ id \in Counters /\ mem \in Memories
    /\ b = Counted(buffer[g]) /\ root = Root(b)
    /\ b.alloc = buffer[g].alloc /\ b.device = buffer[g].device
    /\ b.device # Null <=> b.dev_ref_count # Null
    /\ b.dev_ref_count # Null => b.dev_ref_count \in Counters
    /\ buffer[g].dev_ref_count # Null =>
           /\ b = buffer[g] /\ counter[b.dev_ref_count] # Null
           /\ counter[b.dev_ref_count] \in Counts /\ counter[b.dev_ref_count].count >= 1
    /\ buffer[g].dev_ref_count = Null /\ b.dev_ref_count # Null =>
           counter[b.dev_ref_count] = Null
    /\ counter[id] = Null /\ id # b.dev_ref_count /\ id # root.dev_ref_count
    /\ works => /\ memory[mem] = Free
                /\ b.device # Null /\ root.device # Null /\ root.dev_ref_count # Null
                /\ root # b => /\ b = buffer[g] /\ counter[root.dev_ref_count] # Null
                               /\ counter[root.dev_ref_count] \in Counts
                               /\ counter[root.dev_ref_count].count >= 1
                               /\ counter[b.dev_ref_count].ownership = "Cropped"
                               /\ counter[b.dev_ref_count].cropped_from = root
Cropped(works, b, id, mem) == [alloc |-> b.alloc, device |-> IF works THEN mem ELSE Null,
                               dev_ref_count |-> IF works THEN id ELSE Null]

\* The step, by what it takes.
CropStep(h, g, works, b, root, id, mem) ==
    /\ Cropping(g, works, b, root, id, mem)
    /\ Idle(h) /\ Idle(g)
    /\ refs' = [a \in Allocs |-> refs[a] + (IF a = b.alloc THEN 1 ELSE 0)
                                         + (IF works /\ a = root.alloc THEN 1 ELSE 0)]
    /\ memory' = IF works
                 THEN [memory EXCEPT ![mem] = [how |-> "Cropped", of |-> root.device]]
                 ELSE memory
    /\ counter' =
         IF works
         THEN [SharedCounters(root, 1) EXCEPT ![id] =
                   [count |-> 1, ownership |-> "Cropped", cropped_from |-> root]]
         ELSE SharedCounters(b, 0)
    /\ Becomes(h, Decref(IF h = g THEN b ELSE buffer[h], FALSE),
               Cropped(works, b, id, mem))
    /\ buffer' = IF h = g THEN [buffer EXCEPT ![h] = Empty]
                 ELSE [buffer EXCEPT ![h] = Empty, ![g] = b]

\* The step of a crop, by what it takes.
LEMMA CropDoes ==
  ASSUME Distinct, CountsInv, NEW h \in Handles, NEW g \in Handles, NEW works \in BOOLEAN,
         ~WrapFailed(g), Crop(h, g, works)
  PROVE  \E b \in Buffers, root \in Buffers, id \in Counters, mem \in Memories :
           CropStep(h, g, works, b, root, id, mem)
  <1> DEFINE e == buffer[g]
             b == Counted(e)
             k == b.dev_ref_count
             root == Root(b)
             id == CHOOSE c \in Counters : counter[c] = Null /\ c # b.dev_ref_count
             mem == IF works THEN NewMemory ELSE External
  <1>1. id \in Counters /\ counter[id] = Null /\ id # k
    <2>1. Cardinality({c \in Counters : counter[c] = Null}) > 1
      BY DEF Crop
    <2>2. \E c \in Counters : counter[c] = Null /\ c # b.dev_ref_count
      BY <2>1, AnotherCounter
    <2> QED
      BY <2>2
  <1>2. works => b.device # Null /\ \E m \in Memories : memory[m] = Free
    BY DEF Crop
  <1>3. mem \in Memories /\ (works => memory[mem] = Free /\ mem = NewMemory)
    BY <1>2 DEF NewMemory, Distinct
  <1>4. /\ b \in Buffers /\ b.alloc = e.alloc /\ b.device = e.device
        /\ b.device # Null <=> k # Null
        /\ k # Null => k \in Counters
        /\ e.dev_ref_count # Null => /\ b = e /\ counter[k] # Null
                                     /\ counter[k] \in Counts /\ counter[k].count >= 1
        /\ e.dev_ref_count = Null /\ k # Null => counter[k] = Null
    BY <1>1, CountedIs
  <1>5. (works /\ b.device # Null) = works /\ Idle(h) /\ Idle(g)
    BY <1>2 DEF Crop
  <1>6. /\ refs' = [a \in Allocs |-> refs[a] + (IF a = b.alloc THEN 1 ELSE 0)
                                             + (IF works /\ a = root.alloc THEN 1 ELSE 0)]
        /\ memory' = IF works
                     THEN [memory EXCEPT ![mem] = [how |-> "Cropped", of |-> root.device]]
                     ELSE memory
        /\ counter' =
             IF works
             THEN [SharedCounters(root, 1) EXCEPT ![id] =
                       [count |-> 1, ownership |-> "Cropped", cropped_from |-> root]]
             ELSE SharedCounters(b, 0)
        /\ buffer' = IF h = g THEN [buffer EXCEPT ![h] = Empty]
                     ELSE [buffer EXCEPT ![h] = Empty, ![g] = b]
    BY <1>3, <1>5 DEF Crop
  <1>7. Becomes(h, Decref(IF h = g THEN b ELSE buffer[h], FALSE), Cropped(works, b, id, mem))
    BY <1>3, <1>5 DEF Crop, Cropped
  <1>8. /\ root \in Buffers /\ id # root.dev_ref_count
        /\ works => /\ root.device # Null /\ root.dev_ref_count # Null
                    /\ root # b => /\ b = e /\ counter[root.dev_ref_count] # Null
                                   /\ counter[root.dev_ref_count] \in Counts
                                   /\ counter[root.dev_ref_count].count >= 1
                                   /\ counter[k].ownership = "Cropped"
                                   /\ counter[k].cropped_from = root
    <2> HIDE DEF b, id, mem
    <2>1. CASE k # Null /\ counter[k] # Null /\ counter[k].ownership = "Cropped"
      <3>1. root = counter[k].cropped_from
        BY <2>1 DEF Root
      <3>2. e.dev_ref_count # Null /\ b = e /\ counter[k] \in Counts /\ k \in Counters
        BY <1>4, <2>1
      <3>3. root \in Buffers
        BY <3>1, <3>2 DEF Counts
      <3>4. root.device # Null /\ root.dev_ref_count # Null
        BY <2>1, <3>1, <3>2 DEF CountsInv, CropInv
      <3>5. Held[<<"crop", k>>] = root /\ <<"crop", k>> \in Places
        BY <2>1, <3>1, <3>2, PlacesNow DEF CropsNow, CropOf, Places, Kinds
      <3>6. /\ counter[root.dev_ref_count] # Null /\ counter[root.dev_ref_count] \in Counts
            /\ counter[root.dev_ref_count].count >= 1
        BY <3>4, <3>5, HolderCounted
      <3> QED
        BY <1>1, <2>1, <3>1, <3>2, <3>3, <3>4, <3>6
    <2>2. CASE ~(k # Null /\ counter[k] # Null /\ counter[k].ownership = "Cropped")
      <3>1. root = b
        BY <2>2 DEF Root
      <3> QED
        BY <1>1, <1>2, <1>4, <3>1
    <2> QED
      BY <2>1, <2>2
  <1>9. Cropping(g, works, b, root, id, mem)
    BY <1>1, <1>2, <1>3, <1>4, <1>8 DEF Cropping
  <1> HIDE DEF b, root, id, mem
  <1>10. CropStep(h, g, works, b, root, id, mem)
    BY <1>5, <1>6, <1>7, <1>9 DEF CropStep
  <1> QED
    BY <1>1, <1>3, <1>4, <1>8, <1>10

\* KeptWith for a step that changes two other places, y and z.
LEMMA KeptWithBoth ==
  ASSUME Distinct, CountsInv, NEW h \in Handles, TypesHold',
         NEW y \in Places, y \notin HandlePlaces(h), NEW z \in Places, z \notin HandlePlaces(h),
         y # z, Changes(Held, Held', h, {y, z}),
         \A a \in Allocs : refs'[a] = refs[a] - AllocsOf(Held, h, a) + AllocsOf(Held', h, a)
                               - One(Held[y].alloc, a) + One(Held'[y].alloc, a)
                               - One(Held[z].alloc, a) + One(Held'[z].alloc, a),
         \A c \in Counters : Number(c)'
             = Number(c) - CountsOf(Held, h, c) + CountsOf(Held', h, c)
                               - One(Held[y].dev_ref_count, c) + One(Held'[y].dev_ref_count, c)
                               - One(Held[z].dev_ref_count, c) + One(Held'[z].dev_ref_count, c)
  PROVE  RefsInv' /\ CountInv'
  <1>1. Held \in [Places -> Buffers] /\ Held' \in [Places -> Buffers]
    BY HeldNow
  <1>2. /\ \A a \in Allocs : Allocating(Held', a)
             = Allocating(Held, a) - AllocsOf(Held, h, a) + AllocsOf(Held', h, a)
               - One(Held[y].alloc, a) + One(Held'[y].alloc, a)
               - One(Held[z].alloc, a) + One(Held'[z].alloc, a)
        /\ \A c \in Counters : Counting(Held', c)
             = Counting(Held, c) - CountsOf(Held, h, c) + CountsOf(Held', h, c)
               - One(Held[y].dev_ref_count, c) + One(Held'[y].dev_ref_count, c)
               - One(Held[z].dev_ref_count, c) + One(Held'[z].dev_ref_count, c)
    BY ONLY <1>1, Distinct, h \in Handles, y \in Places, y \notin HandlePlaces(h),
            z \in Places, z \notin HandlePlaces(h), y # z,
            Changes(Held, Held', h, {y, z}), Moved2
  <1>3. \A a \in Allocs : refs'[a] = Allocating(Held', a)
    BY <1>2 DEF CountsInv, RefsInv
  <1>4. \A c \in Counters : Counting(Held, c) = Number(c)
    BY DEF CountsInv, CountInv, Number
  <1>5. \A c \in Counters : Counting(Held', c) = Number(c)'
    BY <1>2, <1>4
  <1>6. RefsInv'
    BY <1>3 DEF RefsInv, Allocating
  <1> QED
    BY <1>5, <1>6 DEF CountInv, Counting, Number

\* What a crop leaves of the counters: one more has q, and the crop has its own.
CropCounted(g, works, b, root, id) ==
    LET k == b.dev_ref_count
        q == IF works THEN root.dev_ref_count ELSE k
    IN  /\ counter' \in [Counters -> Counts \cup {Null}]
        /\ \A c \in Counters : c # q /\ (works => c # id) => counter'[c] = counter[c]
        /\ \A c \in Counters : c = q =>
               /\ counter'[c] # Null /\ counter'[c].count >= 1
               /\ IF counter[c] = Null
                  THEN counter'[c].ownership = "Allocated"
                       /\ counter'[c].cropped_from = Empty
                  ELSE /\ counter[c].count >= 1
                       /\ counter'[c].ownership = counter[c].ownership
                       /\ counter'[c].cropped_from = counter[c].cropped_from
        /\ works => counter'[id] = [count |-> 1, ownership |-> "Cropped",
                                    cropped_from |-> root]
        /\ \A c \in Counters :
               Number(c)' = Number(c) + One(k, c) - One(buffer[g].dev_ref_count, c)
                            + IF works THEN One(root.dev_ref_count, c) + One(id, c) ELSE 0

\* What a crop leaves of the counters.
LEMMA CropCounters ==
  ASSUME Distinct, CountsInv, NEW h, NEW g \in Handles, NEW works \in BOOLEAN,
         NEW b, NEW root, NEW id, NEW mem, CropStep(h, g, works, b, root, id, mem)
  PROVE  CropCounted(g, works, b, root, id)
  <1> DEFINE e == buffer[g]
             k == b.dev_ref_count
             x == IF works THEN root ELSE b
             q == x.dev_ref_count
             n == IF works THEN 1 ELSE 0
             S == SharedCounters(x, n)
             made == [count |-> 1, ownership |-> "Cropped", cropped_from |-> root]
  <1>1. HandleTypes /\ n \in Nat /\ id \in Counters /\ root \in Buffers
    BY DEF CountsInv, CropStep, Cropping
  <1>2. /\ x \in Buffers /\ (x.device # Null <=> q # Null)
        /\ q # Null /\ counter[q] # Null => counter[q].count >= 1
    BY DEF CropStep, Cropping
  <1>3. id # q /\ counter[id] = Null /\ id # k
    BY DEF CropStep, Cropping
  <1>4. /\ S \in [Counters -> Counts \cup {Null}]
        /\ \A c \in Counters : c # q => S[c] = counter[c]
        /\ \A c \in Counters : c = q =>
               /\ S[c] # Null /\ S[c].count >= 1
               /\ IF counter[c] = Null
                  THEN S[c].ownership = "Allocated" /\ S[c].cropped_from = Empty
                  ELSE /\ S[c].ownership = counter[c].ownership
                       /\ S[c].cropped_from = counter[c].cropped_from
        /\ \A c \in Counters :
               (IF S[c] = Null THEN 0 ELSE S[c].count) = Number(c) + More(x, n, c)
    <2> HIDE DEF x, n
    <2> QED
      BY ONLY Distinct, <1>1, <1>2, SharedIs
  <1>5. counter' = IF works THEN [S EXCEPT ![id] = made] ELSE S
    <2>1. CASE works
      BY <2>1 DEF CropStep
    <2>2. CASE ~works
      BY <2>2 DEF CropStep
    <2> QED
      BY <2>1, <2>2
  <1>6. made \in Counts /\ made # Null /\ made.count = 1
    BY <1>1 DEF Counts, Ownerships, Distinct
  <1>7. /\ \A c \in Counters : (works => c # id) => counter'[c] = S[c]
        /\ works => counter'[id] = made
    <2> HIDE DEF S, made
    <2> QED
      BY <1>1, <1>4, <1>5
  <1>8. ASSUME NEW c \in Counters
        PROVE  /\ More(x, n, c) = One(k, c) - One(e.dev_ref_count, c)
                                  + IF works THEN One(root.dev_ref_count, c) ELSE 0
               /\ Number(c) \in Int
    <2>1. Number(c) \in Int
      BY <1>1 DEF HandleTypes, Counts, Number
    <2>2. /\ e.dev_ref_count # Null => e.dev_ref_count = k /\ counter[k] # Null
          /\ e.dev_ref_count = Null /\ k # Null => counter[k] = Null
          /\ works /\ root # b => /\ counter[root.dev_ref_count] # Null
                                  /\ e.dev_ref_count = k
          /\ c # Null
      BY DEF CropStep, Cropping, Distinct
    <2>3. CASE ~works
      <3>1. q = k /\ n = 0
        BY <2>3
      <3> QED
        BY <2>1, <2>2, <2>3, <3>1 DEF More, One
    <2>4. CASE works /\ root = b
      <3>1. q = k /\ n = 1 /\ root.dev_ref_count = k
        BY <2>4
      <3> QED
        BY <2>1, <2>2, <2>4, <3>1 DEF More, One
    <2>5. CASE works /\ root # b
      <3>1. q = root.dev_ref_count /\ n = 1
        BY <2>5
      <3> QED
        BY <2>1, <2>2, <2>5, <3>1 DEF More, One
    <2> QED
      BY <2>3, <2>4, <2>5, <2>1
  <1> HIDE DEF x, n, S, made
  <1>9. ASSUME NEW c \in Counters
        PROVE  Number(c)' = Number(c) + One(k, c) - One(e.dev_ref_count, c)
                                 + IF works THEN One(root.dev_ref_count, c) + One(id, c) ELSE 0
    <2>1. One(k, c) \in Int /\ One(e.dev_ref_count, c) \in Int
          /\ One(root.dev_ref_count, c) \in Int
      BY DEF One
    <2>2. CASE works /\ c = id
      <3>1. Number(c)' = 1
        BY <1>6, <1>7, <2>2 DEF Number
      <3>2. Number(c) = 0 /\ One(id, c) = 1
        BY <1>3, <2>2 DEF Number, One
      <3>3. One(k, c) = 0 /\ One(root.dev_ref_count, c) = 0 /\ One(e.dev_ref_count, c) = 0
        <4>1. e.dev_ref_count # id
          BY <1>3, <2>2 DEF CropStep, Cropping, Distinct
        <4> QED
          BY <2>2, <4>1 DEF One, CropStep, Cropping
      <3> QED
        BY <2>2, <3>1, <3>2, <3>3
    <2>3. CASE ~(works /\ c = id)
      <3>1. Number(c)' = Number(c) + More(x, n, c)
        BY <1>4, <1>7, <2>3 DEF Number
      <3>2. works => One(id, c) = 0
        BY <2>3 DEF One
      <3> QED
        BY <1>8, <2>1, <3>1, <3>2
    <2> QED
      BY <2>2, <2>3
  <1>10. counter' \in [Counters -> Counts \cup {Null}]
    BY <1>1, <1>4, <1>5, <1>6
  <1>11. q = (IF works THEN root.dev_ref_count ELSE k)
    BY DEF x
  <1>12. \A c \in Counters : c = q /\ counter[c] # Null => counter[c].count >= 1
    BY <1>2 DEF Distinct
  <1> HIDE DEF q
  <1>13. \A c \in Counters : c # q /\ (works => c # id) => counter'[c] = counter[c]
    BY <1>4, <1>7
  <1>14. \A c \in Counters : c = q =>
             /\ counter'[c] # Null /\ counter'[c].count >= 1
             /\ IF counter[c] = Null
                THEN counter'[c].ownership = "Allocated" /\ counter'[c].cropped_from = Empty
                ELSE /\ counter[c].count >= 1
                     /\ counter'[c].ownership = counter[c].ownership
                     /\ counter'[c].cropped_from = counter[c].cropped_from
    <2>1. \A c \in Counters : c = q => counter'[c] = S[c]
      BY <1>3, <1>7
    <2> QED
      BY <1>4, <1>12, <2>1
  <1> QED
    BY <1>7, <1>9, <1>10, <1>11, <1>13, <1>14 DEF made, CropCounted

\* A crop has its own count and memory; its count keeps what it was cropped from.
LEMMA CropKeeps ==
  ASSUME Distinct, CountsInv, NEW h \in Handles, NEW g \in Handles, NEW works \in BOOLEAN,
         ~WrapFailed(g), Crop(h, g, works)
  PROVE  CountsInv' /\ (MemoryInv => MemoryInv')
  <1>1. PICK b \in Buffers, root \in Buffers, id \in Counters, mem \in Memories :
           CropStep(h, g, works, b, root, id, mem)
    BY CropDoes
  <1> DEFINE k  == b.dev_ref_count
             q  == IF works THEN root.dev_ref_count ELSE k
             d  == IF h = g THEN b ELSE buffer[h]
             im == Cropped(works, b, id, mem)
             x  == IF works THEN root ELSE Empty
             p  == <<"buffer", g>>
             z  == <<"crop", id>>
  <1>2. HandleTypes /\ buffer[h] \in Buffers /\ d \in Buffers /\ Empty \in Buffers
    BY DEF CountsInv, HandleTypes, Empty, Buffers
  <1>3. /\ im \in Buffers /\ im.alloc = b.alloc
        /\ im.dev_ref_count = IF works THEN id ELSE Null
    BY DEF Cropped, Buffers
  <1>4. /\ counter' \in [Counters -> Counts \cup {Null}]
        /\ \A c \in Counters : c # q /\ (works => c # id) => counter'[c] = counter[c]
        /\ \A c \in Counters : c = q =>
               /\ counter'[c] # Null /\ counter'[c].count >= 1
               /\ IF counter[c] = Null
                  THEN counter'[c].ownership = "Allocated"
                       /\ counter'[c].cropped_from = Empty
                  ELSE /\ counter[c].count >= 1
                       /\ counter'[c].ownership = counter[c].ownership
                       /\ counter'[c].cropped_from = counter[c].cropped_from
        /\ works => counter'[id] = [count |-> 1, ownership |-> "Cropped",
                                    cropped_from |-> root]
        /\ \A c \in Counters :
               Number(c)' = Number(c) + One(k, c) - One(buffer[g].dev_ref_count, c)
                            + IF works THEN One(root.dev_ref_count, c) + One(id, c) ELSE 0
    <2>1. CropCounted(g, works, b, root, id)
      BY <1>1, CropCounters
    <2> QED
      BY <2>1 DEF CropCounted
  <1>5. /\ counter[id] = Null /\ id # q /\ b.alloc = buffer[g].alloc
        /\ works => root.device # Null /\ root.dev_ref_count # Null
    BY <1>1 DEF CropStep, Cropping
  <1>6. d.alloc = buffer[h].alloc
        /\ d.dev_ref_count = IF h = g THEN k ELSE buffer[h].dev_ref_count
    BY <1>5
  <1>7. refs' \in [Allocs -> Int]
        /\ \A a \in Allocs : refs'[a] = refs[a] + One(b.alloc, a) + One(x.alloc, a)
    <2>1. \A a \in Allocs : One(Null, a) = 0
      BY DEF One, Distinct
    <2>2. x.alloc = IF works THEN root.alloc ELSE Null
      BY DEF Empty
    <2>3. \A a \in Allocs : One(x.alloc, a) = IF works /\ a = root.alloc THEN 1 ELSE 0
      BY <2>1, <2>2 DEF One
    <2>4. \A a \in Allocs : One(b.alloc, a) = IF a = b.alloc THEN 1 ELSE 0
      BY DEF One
    <2>5. \A a \in Allocs : refs[a] \in Int
      BY <1>2 DEF HandleTypes
    <2> HIDE DEF x
    <2> QED
      BY <1>1, <2>3, <2>4, <2>5 DEF CropStep
  <1>8. memory' \in [Memories -> [how : Ownerships \cup {"Free"}, of : Memories \cup {Null}]]
    <2>1. [how |-> "Cropped", of |-> root.device]
             \in [how : Ownerships \cup {"Free"}, of : Memories \cup {Null}]
      BY DEF Buffers, Ownerships
    <2> QED
      BY <1>1, <1>2, <2>1 DEF HandleTypes, CropStep
  <1>9. PICK others, new : /\ others = (IF h = g THEN {} ELSE {g}) /\ new = {id}
    OBVIOUS
  <1>10. /\ buffer' \in [Handles -> Buffers] /\ buffer'[h] = Empty
         /\ h # g => buffer'[g] = b
         /\ \A i \in Handles : i # h => buffer'[i] = buffer[i] \/ (i \in others /\ Idle(i))
    BY <1>1, <1>2, <1>9 DEF HandleTypes, CropStep
  <1> HIDE DEF d, im
  <1>11. HandleTypes'
    <2>1. /\ todo' = [todo EXCEPT ![h] = Decref(d, FALSE)]
          /\ after' = [after EXCEPT ![h] = im]
      BY <1>1 DEF CropStep, Becomes, d, im
    <2> QED
      BY <1>2, <1>3, <1>4, <1>7, <1>8, <1>10, <2>1 DEF HandleTypes
  <1>12. /\ \A c \in Counters : c # id => CropOf(c)' = CropOf(c)
         /\ CropOf(id) = Empty
         /\ \A c \in Counters : c = id => CropOf(c)' = x
    <2>1. ASSUME NEW c \in Counters, c # id PROVE CropOf(c)' = CropOf(c)
      BY <1>4, <2>1 DEF CropOf, Empty
    <2>2. CropOf(id) = Empty
      BY <1>5 DEF CropOf
    <2>3. ASSUME NEW c \in Counters, c = id PROVE CropOf(c)' = x
      <3>1. CASE works
        <4>1. counter'[c] = [count |-> 1, ownership |-> "Cropped", cropped_from |-> root]
          BY <1>4, <2>3, <3>1
        <4>2. counter'[c] # Null
          BY <1>2, <4>1 DEF Distinct, Counts, Ownerships
        <4> QED
          BY <3>1, <4>1, <4>2 DEF CropOf
      <3>2. CASE ~works
        <4>1. counter'[c] = Null
          BY <1>4, <1>5, <2>3, <3>2
        <4> QED
          BY <3>2, <4>1 DEF CropOf, Empty
      <3> QED
        BY <3>1, <3>2
    <2> QED
      BY <2>1, <2>2, <2>3
  <1>12a. HasBecome(h, d, im, FALSE, others, new)
    <2>1. FALSE \in BOOLEAN /\ \A c \in Counters : c \notin new => CropOf(c)' = CropOf(c)
      BY <1>9, <1>12
    <2>2. Idle(h) /\ Becomes(h, Decref(d, FALSE), im) /\ buffer'[h] = Empty
          /\ im \in Buffers /\ d \in Buffers
          /\ \A i \in Handles : i # h => buffer'[i] = buffer[i] \/ (i \in others /\ Idle(i))
      BY <1>1, <1>2, <1>3, <1>10 DEF CropStep, d, im
    <2> QED
      BY ONLY Distinct, CountsInv, h \in Handles, <1>11, <2>1, <2>2, NowBecomes
  <1>13. /\ TypesHold' /\ Changes(Held, Held', h, ({"buffer"} \X others) \cup ({"crop"} \X new))
         /\ \A i \in Handles : Deleted'[i] = Deleted[i]
         /\ \A a \in Allocs :
              /\ AllocsOf(Held, h, a) = One(buffer[h].alloc, a)
              /\ AllocsOf(Held', h, a)
                   = One(im.alloc, a) + IF FALSE THEN 0 ELSE One(d.alloc, a)
         /\ \A c \in Counters :
              /\ CountsOf(Held, h, c) = One(buffer[h].dev_ref_count, c)
              /\ CountsOf(Held', h, c) = One(im.dev_ref_count, c) + One(d.dev_ref_count, c)
         /\ HandlesNow /\ HandlesNow' /\ CropsNow /\ CropsNow'
    BY <1>12a, Zenon DEF HasBecome
  <1>14. z \in Places /\ z \notin HandlePlaces(h) /\ Held[z] = Empty /\ Held'[z] = x
    <2>1. Held[z] = Empty
      BY <1>12, <1>13 DEF CropsNow
    <2>2. \A c \in Counters : Held'[<<"crop", c>>] = CropOf(c)'
      BY <1>13 DEF CropsNow
    <2>3. Held'[z] = x
      BY <1>12, <2>2
    <2> QED
      BY <2>1, <2>3, CropPlace
  <1>15. h # g => /\ p \in Places /\ p \notin HandlePlaces(h) /\ p # z
                  /\ Held[p] = buffer[g] /\ Held'[p] = b
    <2>1. p # z
      OBVIOUS
    <2> QED
      BY <1>10, <1>13, <2>1, BufferPlace DEF HandlesNow, Has
  <1>16. ({"buffer"} \X others) \cup ({"crop"} \X new) = IF h = g THEN {z} ELSE {p, z}
    BY <1>9
  <1> HIDE DEF p, z
  <1>17. \A u, a : One(u, a) \in Int
    BY DEF One
  <1>18. \A c \in Counters :
            /\ One(x.dev_ref_count, c) = IF works THEN One(root.dev_ref_count, c) ELSE 0
            /\ One(im.dev_ref_count, c) = IF works THEN One(id, c) ELSE 0
    BY <1>3 DEF One, Empty, Distinct
  <1>19. /\ \A a \in Allocs : One(Empty.alloc, a) = 0
         /\ \A c \in Counters : One(Empty.dev_ref_count, c) = 0
    BY DEF One, Empty, Distinct
  <1>20. /\ \A a \in Allocs : refs[a] \in Int
         /\ \A c \in Counters : Number(c) \in Int
    BY <1>2 DEF HandleTypes, Counts, Number
  <1> HIDE DEF x, k, q
  <1>21. RefsInv' /\ CountInv'
    <2>1. CASE h = g
      <3>1. \A a \in Allocs : refs'[a] = refs[a] - AllocsOf(Held, h, a) + AllocsOf(Held', h, a)
                               - One(Held[z].alloc, a) + One(Held'[z].alloc, a)
        BY <1>3, <1>6, <1>7, <1>13, <1>14, <1>17, <1>19, <1>20
      <3>2. \A c \in Counters :
               Number(c)' = Number(c) - CountsOf(Held, h, c) + CountsOf(Held', h, c)
                               - One(Held[z].dev_ref_count, c) + One(Held'[z].dev_ref_count, c)
        BY <1>4, <1>6, <1>13, <1>14, <1>17, <1>18, <1>19, <1>20, <2>1
      <3> QED
        BY <1>13, <1>14, <1>16, <2>1, <3>1, <3>2, KeptWith
    <2>2. CASE h # g
      <3>1. \A a \in Allocs : refs'[a] = refs[a] - AllocsOf(Held, h, a) + AllocsOf(Held', h, a)
                               - One(Held[p].alloc, a) + One(Held'[p].alloc, a)
                               - One(Held[z].alloc, a) + One(Held'[z].alloc, a)
        BY <1>3, <1>5, <1>6, <1>7, <1>13, <1>14, <1>15, <1>17, <1>19, <1>20, <2>2
      <3>2. \A c \in Counters :
               Number(c)' = Number(c) - CountsOf(Held, h, c) + CountsOf(Held', h, c)
                               - One(Held[p].dev_ref_count, c) + One(Held'[p].dev_ref_count, c)
                               - One(Held[z].dev_ref_count, c) + One(Held'[z].dev_ref_count, c)
        BY <1>4, <1>6, <1>13, <1>14, <1>15, <1>17, <1>18, <1>19, <1>20, <2>2 DEF k
      <3> QED
        BY <1>13, <1>14, <1>15, <1>16, <2>2, <3>1, <3>2, KeptWithBoth
    <2> QED
      BY <2>1, <2>2
  <1>22. CropInv'
    <2>1. \A c \in Counters : counter[c] # Null =>
            LET y == counter[c].cropped_from IN
            IF counter[c].ownership = "Cropped" THEN y.device # Null /\ y.dev_ref_count # Null
            ELSE y = Empty
      BY DEF CountsInv, CropInv
    <2>2. \A c \in Counters : counter'[c] # Null =>
            LET y == counter'[c].cropped_from IN
            IF counter'[c].ownership = "Cropped" THEN y.device # Null /\ y.dev_ref_count # Null
            ELSE y = Empty
      <3> TAKE c \in Counters
      <3>1. CASE works /\ c = id
        BY <1>4, <1>5, <3>1
      <3>2. CASE ~(works /\ c = id) /\ c = q
        BY <1>4, <2>1, <3>2
      <3>3. CASE ~(works /\ c = id) /\ c # q
        BY <1>4, <2>1, <3>3
      <3> QED
        BY <3>1, <3>2, <3>3
    <2> QED
      BY <2>2 DEF CropInv, Empty
  <1>23. DeleteInv'
    <2>1. \A c \in Counters : counter[c] # Null /\ counter[c].count = 0 =>
              counter'[c] = counter[c]
      BY <1>4, <1>5
    <2>2. \A i \in Handles : Deleted[i].dev_ref_count # Null =>
             counter'[Deleted[i].dev_ref_count] = counter[Deleted[i].dev_ref_count]
      BY <2>1, DeletedIs
    <2>3. \A c \in Counters : counter'[c] # Null /\ counter'[c].count = 0 =>
             counter[c] # Null /\ counter[c].count = 0
      BY <1>4
    <2> QED
      BY <1>13, <2>2, <2>3, DeletesKept DEF CountsInv, TypesHold
  <1>24. CountsInv'
    BY <1>13, <1>21, <1>22, <1>23 DEF CountsInv, TypesHold
  <1>25. ASSUME MemoryInv PROVE MemoryInv'
    <2>1. PICK no, s, t, u, w, r, v, n :
              /\ no = FALSE /\ s = <<"buffer", h>> /\ t = <<"device", h>>
              /\ u = <<"after", h>> /\ w = <<"host", h>>
              /\ r = p /\ v = z /\ n = k
      OBVIOUS
    <2>2. /\ Held[s] = buffer[h] /\ Held[t].device = Null /\ Held[u].device = Null
          /\ Held[w].device = Null
          /\ Held'[s].device = Null /\ Held'[s].dev_ref_count = Null
          /\ Held'[w].device = Null /\ Held'[w].dev_ref_count = Null
          /\ Held'[u] = im
          /\ Held'[t].device = d.device /\ Held'[t].dev_ref_count = d.dev_ref_count
          /\ \A i \in Places : i \notin HandlePlaces(h) \cup (IF h = g THEN {v} ELSE {r, v})
                 => Held'[i] = Held[i]
          /\ \A i \in Handles : Last'[i] = Last[i]
      <3>1. HasBecome(h, d, im, no, others, new) /\ no \in BOOLEAN
        BY <1>12a, <2>1
      <3>2. im \in Buffers /\ d \in Buffers
        BY <1>2, <1>3
      <3>3. /\ Held[<<"buffer", h>>] = buffer[h]
            /\ \A i \in {<<"after", h>>, <<"host", h>>, <<"device", h>>} :
                   Held[i].device = Null /\ Held[i].dev_ref_count = Null
            /\ \A i \in {<<"buffer", h>>, <<"host", h>>} :
                   Held'[i].device = Null /\ Held'[i].dev_ref_count = Null
            /\ Held'[<<"after", h>>] = im
            /\ Held'[<<"device", h>>].device = d.device
            /\ Held'[<<"device", h>>].dev_ref_count = d.dev_ref_count
            /\ \A i \in Places : i \notin HandlePlaces(h) \cup ({"buffer"} \X others)
                                                        \cup ({"crop"} \X new)
                   => Held'[i] = Held[i]
            /\ \A i \in Handles : Last'[i] = Last[i]
        BY ONLY h \in Handles, <3>1, <3>2, BecomesPlaces
      <3> QED
        BY <1>16, <2>1, <3>3
    <2>3. /\ s \in Places /\ t \in Places /\ u \in Places /\ s # t /\ s # u /\ t # u
          /\ r \in Places /\ (h = g => r = s)
      BY <2>1 DEF Places, Kinds, p
    <2>4. s \in HandlePlaces(h) /\ t \in HandlePlaces(h) /\ u \in HandlePlaces(h)
      BY <2>1 DEF HandlePlaces, HandleKinds
    <2>5. \A i \in HandlePlaces(h) : i \in {s, u, w, t}
      BY <2>1, PlacesOf
    <2>6. /\ v \in Places /\ v \notin HandlePlaces(h) /\ Held[v] = Empty /\ Held'[v] = x
          /\ h # g => r \notin HandlePlaces(h) /\ r # v /\ Held'[r] = b
          /\ Held[r] = buffer[g] /\ b.dev_ref_count = n /\ b.device = buffer[g].device
      <3>1. Held[r] = buffer[g]
        BY <1>15, <2>1, <2>2, <2>3
      <3>2. b.device = buffer[g].device
        BY <1>1 DEF CropStep, Cropping
      <3> QED
        BY <1>14, <1>15, <2>1, <3>1, <3>2 DEF k
    <2>7. PICK o \in Places :
              works => /\ Held[o].device = root.device
                       /\ root.dev_ref_count = IF o = r THEN n ELSE Held[o].dev_ref_count
      <3>1. CASE works /\ root = b
        BY <2>3, <2>6, <3>1
      <3>2. CASE works /\ root # b
        <4>1. /\ b = buffer[g] /\ n # Null /\ n \in Counters /\ counter[n] # Null
              /\ counter[n].cropped_from = root
          BY <1>1, <2>6, <3>2 DEF CropStep, Cropping
        <4>2. /\ <<"crop", n>> \in Places /\ Held[<<"crop", n>>] = root
              /\ <<"crop", n>> # r
          BY <1>13, <2>1, <4>1 DEF CropsNow, CropOf, Places, Kinds, p
        <4> QED
          BY <4>2
      <3>3. CASE ~works
        BY <2>3, <3>3
      <3> QED
        BY <3>1, <3>2, <3>3
    <2>8. PICK f : f \in [Places -> Places] /\ \A i \in Places :
                       f[i] = IF i = t THEN s ELSE IF i = v THEN o ELSE i
      <3> DEFINE F == [i \in Places |-> IF i = t THEN s ELSE IF i = v THEN o ELSE i]
      <3>1. F \in [Places -> Places] /\ \A i \in Places :
                F[i] = IF i = t THEN s ELSE IF i = v THEN o ELSE i
        BY <2>3
      <3> QED
        BY <3>1
    <2>9. /\ works => x = root /\ root.device # Null /\ root.dev_ref_count # Null
          /\ ~works => x.device = Null /\ x.dev_ref_count = Null
      BY <1>5 DEF x, Empty
    <2>10. /\ d.device = buffer[h].device
           /\ d.dev_ref_count = IF h = g THEN n ELSE buffer[h].dev_ref_count
      BY <1>6, <2>1, <2>6 DEF d
    <2>11. ASSUME NEW i \in Places, i # u,
                  Held'[i].device # Null \/ Held'[i].dev_ref_count # Null
           PROVE  /\ Held'[i].device = Held[f[i]].device
                  /\ Held'[i].dev_ref_count = IF f[i] = r THEN n ELSE Held[f[i]].dev_ref_count
      <3>1. CASE i = v
        BY <2>3, <2>4, <2>6, <2>7, <2>8, <2>9, <2>11, <3>1
      <3>2. CASE i = t
        <4>1. f[i] = s /\ (s = r <=> h = g)
          BY <2>3, <2>4, <2>6, <2>8, <3>2
        <4> QED
          BY <2>2, <2>10, <3>2, <4>1
      <3>3. CASE i \in HandlePlaces(h) /\ i # t
        BY <2>2, <2>5, <2>11, <3>3
      <3>4. CASE i \notin HandlePlaces(h) /\ i # v
        <4>1. f[i] = i /\ i # t
          BY <2>4, <2>8, <3>4
        <4>2. CASE i = r
          BY <2>3, <2>4, <2>6, <3>4, <4>1, <4>2
        <4>3. CASE i # r
          BY <2>2, <3>4, <4>1, <4>3
        <4> QED
          BY <4>2, <4>3
      <3> QED
        BY <3>1, <3>2, <3>3, <3>4
    <2>12. ASSUME NEW i \in Places, NEW j \in Places, i # u, j # u, f[i] = f[j],
                  Held'[i].device # Null, Held'[j].device # Null, Held'[i].dev_ref_count = Null
           PROVE  i = j
      <3>1. Held'[j].dev_ref_count = Null
        BY <2>11, <2>12
      <3>2. i # v /\ j # v
        BY <2>6, <2>9, <2>12, <3>1
      <3>3. i # s /\ j # s
        BY <2>2, <2>12
      <3> QED
        BY <2>8, <2>12, <3>2, <3>3
    <2>13. ASSUME NEW i \in Places, Held[i].device # Null
           PROVE  \E j \in Places : Held'[j].device = Held[i].device
      <3>1. CASE i = s
        BY <2>2, <2>3, <2>10, <3>1
      <3>2. CASE h # g /\ i = r
        BY <2>6, <3>2
      <3>3. CASE i = v
        BY <2>6, <2>13, <3>3 DEF Empty
      <3>4. CASE i \notin HandlePlaces(h) \cup (IF h = g THEN {v} ELSE {r, v})
        BY <2>2, <3>4
      <3>5. CASE i \in HandlePlaces(h) /\ i # s
        BY <2>2, <2>5, <2>13, <3>5
      <3> QED
        BY <3>1, <3>2, <3>3, <3>4, <3>5
    <2>14. \/ n = Held[r].dev_ref_count
           \/ /\ Held[r].dev_ref_count = Null /\ n \in Counters /\ counter[n] = Null
              /\ Held[r].device # External
              /\ counter'[n] # Null /\ counter'[n].ownership = "Allocated"
      <3>1. Held[r].device = External => Held[r].dev_ref_count # Null
        BY <1>25, <2>3, MemoryHeld DEF Distinct
      <3>2. /\ buffer[g].dev_ref_count # Null => b = buffer[g]
            /\ n # Null => n \in Counters
            /\ buffer[g].dev_ref_count = Null /\ n # Null => counter[n] = Null
            /\ works /\ root # b => b = buffer[g]
        BY <1>1, <2>6 DEF CropStep, Cropping
      <3>3. CASE buffer[g].dev_ref_count # Null
        BY <2>6, <3>2, <3>3
      <3>4. CASE buffer[g].dev_ref_count = Null /\ n # Null
        <4>1. q = n
          BY <2>6, <3>2, <3>4 DEF q, k
        <4> QED
          BY <1>4, <2>6, <3>1, <3>2, <3>4, <4>1
      <3>5. CASE buffer[g].dev_ref_count = Null /\ n = Null
        BY <2>6, <3>5
      <3> QED
        BY <3>3, <3>4, <3>5
    <2>15. Carries(f, r, n, u)
      BY <2>3, <2>8, <2>11, <2>12, <2>13, <2>14 DEF Carries
    <2>16. works => /\ memory[mem] = Free /\ mem # Null
                    /\ memory'[mem] = [how |-> "Cropped", of |-> root.device]
                    /\ \A m \in Memories : m # mem => memory'[m] = memory[m]
      BY <1>1, <1>2 DEF CropStep, Cropping, HandleTypes, Distinct
    <2>17. im.device = (IF works THEN mem ELSE Null) /\ counter[id] = Null /\ id # n
      BY <1>1, <2>6 DEF im, Cropped, CropStep, Cropping
    <2>18. Fresh(u, n)
      <3>1. Describes(Held[u])'
        <4>1. CASE works
          <5>1. /\ counter'[id].ownership = "Cropped" /\ counter'[id].cropped_from = root
                /\ id # Null
            BY <1>4, <4>1 DEF Distinct
          <5> QED
            BY <1>3, <2>2, <2>16, <2>17, <4>1, <5>1 DEF Describes, device_ownership
        <4>2. CASE ~works
          BY <2>2, <2>17, <4>2 DEF Describes
        <4> QED
          BY <4>1, <4>2
      <3> QED
        BY <1>3, <2>2, <2>16, <2>17, <3>1 DEF Fresh
    <2>19. Stays(u)
      <3>1. \A c \in Counters : (\E i \in Places : Held[i].dev_ref_count = c)
                               \/ (\E i \in Handles : Last[i].dev_ref_count = c) =>
                counter[c] # Null
        BY <1>25, HolderCounted, MemoryHeld DEF Distinct
      <3>2. \A c \in Counters : counter[c] # Null =>
                /\ counter'[c].ownership = counter[c].ownership
                /\ counter'[c].cropped_from = counter[c].cropped_from
        BY <1>4, <2>17
      <3>3. \A m \in Memories : /\ memory[m] # Free => memory'[m] = memory[m]
                                /\ memory[m] = Free =>
                                     \/ memory'[m] = Free
                                     \/ /\ m = Held'[u].device
                                        /\ memory'[m].how # "Unmanaged"
        <4>1. CASE works
          BY <2>2, <2>16, <2>17, <4>1
        <4>2. CASE ~works
          <5>1. memory' = memory
            BY <1>1, <4>2 DEF CropStep
          <5> QED
            BY <5>1
        <4> QED
          BY <4>1, <4>2
      <3> QED
        BY <2>2, <3>1, <3>2, <3>3 DEF Stays
    <2> QED
      BY ONLY Distinct, CountsInv, <1>13, <1>25, <2>3, <2>15, <2>18, <2>19, Carried
  <1> QED
    BY <1>24, <1>25

-----------------------------------------------------------------------------
(* The theorem *)

\* Every careful call keeps the invariant.
LEMMA CallKeeps ==
  ASSUME Distinct, CountsInv, NEW h \in Handles, CarefulCall(h)
  PROVE  CountsInv' /\ (MemoryInv => MemoryInv')
  <1>1. CASE Allocate(h)
    BY <1>1, AllocateKeeps
  <1>2. CASE ~WrapFailed(h) /\ DeviceMalloc(h)
    BY <1>2, DeviceMallocKeeps
  <1>3. CASE \E ownership \in {"Unmanaged", "AllocatedDeviceAndHost"} : Adopt(h, ownership)
    BY <1>3, AdoptKeeps
  <1>4. CASE \E ownership \in {"Allocated", "WrappedNative", "AllocatedDeviceAndHost"} :
                 DeviceFree(h, ownership)
    <2>1. PICK ownership \in {"Allocated", "WrappedNative", "AllocatedDeviceAndHost"} :
                 DeviceFree(h, ownership)
      BY <1>4
    <2>2. ownership \notin {"Cropped", "Unmanaged"}
      BY <2>1
    <2> QED
      BY <2>1, <2>2, DeviceFreeKeeps
  <1>5. ASSUME NEW choice \in BOOLEAN, Deallocate(h, choice)
        PROVE  CountsInv' /\ (MemoryInv => MemoryInv')
    BY <1>5, DeallocateKeeps
  <1>6. ASSUME NEW choice \in BOOLEAN,
               buffer[h].device = Null /\ ~WrapFailed(h) /\ Wrap(h, choice)
        PROVE  CountsInv' /\ (MemoryInv => MemoryInv')
    BY <1>6, WrapKeeps
  <1>7. ASSUME NEW choice \in BOOLEAN, NEW g \in Handles, ~WrapFailed(g) /\ Crop(h, g, choice)
        PROVE  CountsInv' /\ (MemoryInv => MemoryInv')
    BY <1>7, CropKeeps
  <1>8. ASSUME NEW g \in Handles, ~WrapFailed(g) /\ Copy(h, g)
        PROVE  CountsInv' /\ (MemoryInv => MemoryInv')
    BY <1>8, CopyKeeps
  <1>9. ASSUME NEW g \in Handles, Move(h, g) PROVE CountsInv' /\ (MemoryInv => MemoryInv')
    BY <1>9, MoveKeeps
  <1> QED
    BY <1>1, <1>2, <1>3, <1>4, <1>5, <1>6, <1>7, <1>8, <1>9 DEF CarefulCall

\* A drop that goes on keeps what is said of memory.
LEMMA DropMemory ==
  ASSUME Distinct, CountsInv, MemoryInv, NEW h \in Handles, Drop(h)
  PROVE  MemoryInv'
  BY DropHostMemory, DropDeviceMemory, FreeDeviceMemory, DeleteCounterMemory, DroppedMemory
     DEF Drop

\* At first nothing is held.
LEMMA InitHolds == ASSUME Distinct, Init PROVE CountsInv /\ MemoryInv
  <1>1. /\ \A h \in Handles : buffer[h] = Empty /\ after[h] = Null /\ todo[h] = <<>>
        /\ \A a \in Allocs : refs[a] = 0
        /\ \A c \in Counters : counter[c] = Null
    BY DEF Init
  <1>2. Empty \in Buffers
    BY DEF Empty, Buffers
  <1>3. HandleTypes
    BY <1>2 DEF Init, HandleTypes, Free, Ownerships
  <1>4. TodoInv
    BY <1>1 DEF TodoInv, Shaped, Idle
  <1>5. CropInv
    BY <1>1 DEF CropInv
  <1>6. \A op : Of(<<>>, op) = Empty
    BY OfTasks
  <1>7. \A p \in Places : Held[p] = Empty
    <2> TAKE p \in Places
    <2>1. /\ p[1] \in Kinds /\ p = <<p[1], p[2]>>
          /\ IF p[1] = "crop" THEN p[2] \notin Counters => Held[p] = Empty
             ELSE p[2] \notin Handles => Held[p] = Empty
      BY ByPlace DEF HeldByPlace
    <2>2. CASE p[1] = "crop"
      BY <1>1, <2>1, <2>2, ByPlace DEF HeldByPlace
    <2>3. CASE p[1] # "crop" /\ p[2] \in Handles
      <3>1. PICK h \in Handles : h = p[2]
        BY <2>3
      <3>2. /\ Held[<<"buffer", h>>] = Empty /\ Held[<<"after", h>>] = Empty
            /\ Held[<<"host", h>>] = Empty /\ Held[<<"device", h>>] = Empty
        BY <1>1, <1>6, ByPlace DEF HeldByPlace
      <3>3. p[1] \in {"buffer", "after", "host", "device"} /\ p = <<p[1], h>>
        BY <2>1, <2>3, <3>1 DEF Kinds
      <3> QED
        BY <3>2, <3>3
    <2> QED
      BY <2>1, <2>2, <2>3
  <1>8. \A h \in Handles : Deleted[h] = Empty /\ Last[h] = Empty
    <2>1. \A h \in Handles : /\ Last[h] = Of(todo[h], "free")
                             /\ Deleted[h] = Of(todo[h], "delete")
      BY PlacesNow DEF HandlesNow, Has
    <2> QED
      BY <1>1, <1>6, <2>1
  <1>9. RefsInv
    <2>1. ASSUME NEW a \in Allocs PROVE Allocating(Held, a) = 0
      <3>1. {p \in Places : Held[p].alloc = a} = {}
        BY <1>7 DEF Empty, Distinct
      <3> QED
        BY <3>1, FS_EmptySet DEF Allocating
    <2> QED
      BY <1>1, <2>1 DEF RefsInv
  <1>10. CountInv
    <2>1. ASSUME NEW c \in Counters PROVE Counting(Held, c) = 0
      <3>1. {p \in Places : Held[p].dev_ref_count = c} = {}
        BY <1>7 DEF Empty, Distinct
      <3> QED
        BY <3>1, FS_EmptySet DEF Counting
    <2> QED
      BY <1>1, <2>1 DEF CountInv
  <1>11. DeleteInv
    BY <1>1, <1>8 DEF DeleteInv, Empty
  <1>12. NotLost
    <2>1. \A m \in Memories : memory[m] = IF m = External THEN [how |-> "Unmanaged", of |-> Null]
                                          ELSE Free
      BY DEF Init
    <2>2. memory[External].how = "Unmanaged"
      BY <2>1 DEF Distinct
    <2>3. \A m \in Memories \ {External} : memory[m].how = "Free"
      BY <2>1 DEF Free
    <2> QED
      BY <2>2, <2>3 DEF NotLost
  <1>13. MemoryInv
    BY <1>7, <1>8, <1>12
       DEF MemoryInv, SameDevice, OneWay, FreedOnce, DescribedInv, Describes, Empty
  <1> QED
    BY <1>3, <1>4, <1>5, <1>9, <1>10, <1>11, <1>13 DEF CountsInv

\* What is held depends on the variables alone.
LEMMA SameHeld ==
  ASSUME UNCHANGED vars
  PROVE  Held' = Held /\ Last' = Last /\ Deleted' = Deleted
  <1>1. \A h, op : Tasks(h, op)' = Tasks(h, op)
    BY DEF Tasks, vars
  <1>2. \A op : During(op)' = During(op)
    BY DEF During, Tasks, vars
  <1>3. Holders' = Holders
    BY DEF Holders, During, Tasks, Idle, vars
  <1>4. \A p : At(p)' = At(p)
    BY DEF At, Tasks, vars
  <1>5. Held' = Held
    BY <1>3, <1>4 DEF Held
  <1>6. \A op : Doing(op)' = Doing(op)
    BY DEF Doing, At, Tasks, vars
  <1> QED
    BY <1>5, <1>6 DEF Last, Deleted

\* A step that changes nothing keeps the invariant.
LEMMA StutterKeeps == ASSUME CountsInv, UNCHANGED vars PROVE CountsInv'
  <1>1. Held' = Held /\ Deleted' = Deleted
    BY SameHeld
  <1>2. HandleTypes' /\ TodoInv' /\ CropInv'
    BY DEF CountsInv, HandleTypes, TodoInv, CropInv, Idle, Empty, vars
  <1>3. RefsInv'
    BY <1>1 DEF CountsInv, RefsInv, Allocating, vars
  <1>4. CountInv'
    BY <1>1 DEF CountsInv, CountInv, Counting, vars
  <1>5. DeleteInv'
    BY <1>1 DEF CountsInv, DeleteInv, vars
  <1> QED
    BY <1>2, <1>3, <1>4, <1>5 DEF CountsInv

\* ... and what is said of memory.
LEMMA StutterMemory == ASSUME MemoryInv, UNCHANGED vars PROVE MemoryInv'
  <1>1. Held' = Held /\ Last' = Last /\ counter' = counter /\ memory' = memory
    BY SameHeld DEF vars
  <1>2. SameDevice' /\ OneWay' /\ FreedOnce' /\ NotLost'
    BY <1>1 DEF MemoryInv, SameDevice, OneWay, FreedOnce, NotLost
  <1>3. DescribedInv'
    BY <1>1 DEF MemoryInv, DescribedInv, Describes, device_ownership
  <1> QED
    BY <1>2, <1>3 DEF MemoryInv

\* The inductive invariant holds in every state of careful callers.
LEMMA InvariantHolds == Distinct => (CarefulSpec => [](CountsInv /\ MemoryInv))
  <1> SUFFICES ASSUME Distinct PROVE CarefulSpec => [](CountsInv /\ MemoryInv)
    OBVIOUS
  <1>1. Init => CountsInv /\ MemoryInv
    BY InitHolds
  <1>2. CountsInv /\ MemoryInv /\ [CarefulNext]_vars => (CountsInv /\ MemoryInv)'
    <2> SUFFICES ASSUME CountsInv, MemoryInv, [CarefulNext]_vars PROVE (CountsInv /\ MemoryInv)'
      OBVIOUS
    <2>1. ASSUME NEW h \in Handles, Drop(h) PROVE (CountsInv /\ MemoryInv)'
      BY <2>1, DropKeeps, DropMemory
    <2>2. ASSUME NEW h \in Handles, CarefulCall(h) PROVE (CountsInv /\ MemoryInv)'
      BY <2>2, CallKeeps
    <2>3. CASE UNCHANGED vars
      BY <2>3, StutterKeeps, StutterMemory
    <2> QED
      BY <2>1, <2>2, <2>3 DEF CarefulNext
  <1> QED
    BY <1>1, <1>2, PTL DEF CarefulSpec

\* The numbers of holders are numbers, and zero where there are none.
LEMMA NumberOf ==
  ASSUME Distinct, NEW H \in [Places -> Buffers], NEW S \in SUBSET Places
  PROVE  /\ IsFiniteSet(S) /\ Cardinality(S) \in Nat
         /\ Cardinality(S) = 0 <=> S = {}
  <1>1. IsFiniteSet(S)
    BY PlacesFinite, FS_Subset
  <1> QED
    BY <1>1, FS_CardinalityType, FS_EmptySet

\* Tasks of what is left of a drop: one for each operation.
LEMMA OneTask ==
  ASSUME NEW s, Shaped(s), NEW i \in DOMAIN s, NEW j \in DOMAIN s, s[i].op = s[j].op
  PROVE  i = j
  <1>1. CASE s = <<>>
    BY <1>1
  <1>2. ASSUME NEW t, s = <<t>> PROVE i = j
    BY <1>2
  <1>3. ASSUME NEW o, NEW x, NEW q, NEW y, o # q, s = <<Task(o, x), Task(q, y)>> PROVE i = j
    <2>1. i \in {1, 2} /\ j \in {1, 2} /\ s[1].op = o /\ s[2].op = q
      BY <1>3 DEF Task
    <2> QED
      BY <1>3, <2>1
  <1>4. "host" # "device" /\ "free" # "delete"
    OBVIOUS
  <1> QED
    BY <1>1, <1>2, <1>3, <1>4 DEF Shaped

\* The invariant says what the model calls well typed.
LEMMA TypesFollow == ASSUME Distinct, CountsInv PROVE TypeOK
  <1>1. HandleTypes /\ TodoInv
    BY DEF CountsInv
  <1>2. \A h \in Handles : \A b \in {buffer[h], after[h]} \ {Null} :
           /\ b.alloc \in Allocs \cup {Null} /\ b.device \in Memories \cup {Null}
           /\ b.dev_ref_count \in Counters \cup {Null}
    BY <1>1 DEF HandleTypes, Buffers
  <1>3. Held \in [Places -> Buffers]
    BY <1>1, HeldType DEF TypesHold, HeldTypes
  <1>4. \A a \in Allocs : refs[a] \in Nat
    <2> TAKE a \in Allocs
    <2>1. {p \in Places : Held[p].alloc = a} \in SUBSET Places
      OBVIOUS
    <2>2. Allocating(Held, a) \in Nat
      BY <1>3, <2>1, NumberOf DEF Allocating
    <2> QED
      BY <2>2 DEF CountsInv, RefsInv
  <1>5. \A h \in Handles :
           /\ Idle(h) => todo[h] = <<>>
           /\ \A i, j \in DOMAIN todo[h] : todo[h][i].op = todo[h][j].op => i = j
    BY <1>1, OneTask DEF TodoInv
  <1> QED
    BY <1>1, <1>2, <1>4, <1>5 DEF TypeOK, HandleTypes

\* Those who hold a thing are the places where it is held.
LEMMA HolderPlaces ==
  ASSUME Distinct
  PROVE  /\ \A a \in Allocs : {p \in Holders : At(p).alloc = a}
                                = {p \in Places : Held[p].alloc = a}
         /\ \A c \in Counters : {p \in Holders : At(p).dev_ref_count = c}
                                  = {p \in Places : Held[p].dev_ref_count = c}
         /\ \A m \in Memories : m # Null => {p \in Holders : At(p).device = m}
                                  = {p \in Places : Held[p].device = m}
  <1>1. Holders \subseteq Places
    BY DEF Holders, During, Places, Kinds
  <1>2. \A p \in Places : Held[p] = IF p \in Holders THEN At(p) ELSE Empty
    BY DEF Held
  <1>3. /\ Empty.alloc = Null /\ Empty.dev_ref_count = Null /\ Empty.device = Null
        /\ Null \notin Allocs /\ Null \notin Counters
    BY DEF Empty, Distinct
  <1> QED
    BY <1>1, <1>2, <1>3

\* The invariant says that the counts are exact.
LEMMA ExactFollows == ASSUME Distinct, CountsInv PROVE CountsExact
  <1>1. Held \in [Places -> Buffers]
    BY HeldType DEF CountsInv, TypesHold, HeldTypes
  <1>2. \A a \in Allocs : refs[a] = Cardinality({p \in Holders : At(p).alloc = a})
    BY HolderPlaces DEF CountsInv, RefsInv, Allocating
  <1>3. ASSUME NEW c \in Counters
        PROVE  LET holders == {p \in Holders : At(p).dev_ref_count = c} IN
               IF counter[c] = Null THEN holders = {}
               ELSE /\ counter[c].count = Cardinality(holders)
                    /\ holders = {} => \E p \in During("delete") : At(p).dev_ref_count = c
    <2> DEFINE S == {p \in Places : Held[p].dev_ref_count = c}
    <2>1. {p \in Holders : At(p).dev_ref_count = c} = S
      BY HolderPlaces
    <2>2. Cardinality(S) = IF counter[c] = Null THEN 0 ELSE counter[c].count
      BY DEF CountsInv, CountInv, Counting
    <2>3. Cardinality(S) = 0 <=> S = {}
      <3>1. S \in SUBSET Places
        OBVIOUS
      <3> QED
        BY <1>1, <3>1, NumberOf
    <2>4. ASSUME counter[c] # Null, S = {}
          PROVE  \E p \in During("delete") : At(p).dev_ref_count = c
      <3>1. PICK h \in Handles : Deleted[h].dev_ref_count = c
        BY <2>2, <2>3, <2>4 DEF CountsInv, DeleteInv
      <3>2. Deleted[h] # Empty
        BY <3>1 DEF Empty, Distinct
      <3>3. Tasks(h, "delete") # {} /\ Deleted[h] = At(<<"delete", h>>)
        BY <3>2 DEF Deleted, Doing
      <3>4. <<"delete", h>> \in During("delete")
        BY <3>3 DEF During
      <3> QED
        BY <3>1, <3>3, <3>4
    <2> HIDE DEF S
    <2> QED
      BY <2>1, <2>2, <2>3, <2>4
  <1> QED
    BY <1>2, <1>3 DEF CountsExact

\* Those who have a piece of memory are the places where it is, and the handles that free it.
LEMMA UserPlaces ==
  ASSUME Distinct, NEW m \in Memories
  PROVE  /\ {p \in Holders : At(p).device = m} = {p \in Places : Held[p].device = m}
         /\ {p \in Ending : At(p).device = m} = {"free"} \X {h \in Handles : Last[h].device = m}
         /\ \A p \in Places : Held[p].device = m => At(p) = Held[p]
         /\ \A h \in Handles : Last[h].device = m => At(<<"free", h>>) = Last[h]
  <1>1. m # Null /\ Empty.device = Null
    BY DEF Distinct, Empty
  <1>2. {p \in Holders : At(p).device = m} = {p \in Places : Held[p].device = m}
    BY <1>1, HolderPlaces
  <1>3. \A h \in Handles : Last[h] = IF Tasks(h, "free") = {} THEN Empty ELSE At(<<"free", h>>)
    BY DEF Last, Doing
  <1>4. \A p : p \in Ending <=> \E h \in Handles : Tasks(h, "free") # {} /\ p = <<"free", h>>
    BY DEF Ending, During
  <1>5. {p \in Ending : At(p).device = m} = {"free"} \X {h \in Handles : Last[h].device = m}
    BY <1>1, <1>3, <1>4
  <1> QED
    BY <1>1, <1>2, <1>3, <1>5 DEF Held

\* Crops have memory of what is not yet free.
LEMMA CropBefore ==
  ASSUME Distinct, CountsInv, MemoryInv, NEW m \in Memories, memory[m].how = "Cropped"
  PROVE  memory[memory[m].of].how # "Free"
  <1>1. m # External /\ m # Null
    BY DEF MemoryInv, NotLost, Distinct
  <1>2. PICK b : /\ b.device = m /\ Describes(b)
                 /\ \/ \E p \in Places : b = Held[p]
                    \/ \E h \in Handles : b = Last[h]
    BY <1>1 DEF MemoryInv, NotLost, DescribedInv
  <1>3. /\ device_ownership(b) = "Cropped"
        /\ memory[m].of = counter[b.dev_ref_count].cropped_from.device
    BY <1>1, <1>2 DEF Describes
  <1>4. b.dev_ref_count # Null /\ counter[b.dev_ref_count].ownership = "Cropped"
    BY <1>3 DEF device_ownership
  <1>5. PICK c \in Counters : c = b.dev_ref_count /\ counter[c] # Null
    BY <1>2, <1>4, HolderCounted, MemoryHeld
  <1>6. CropOf(c) = counter[c].cropped_from /\ CropOf(c).device # Null
    BY <1>4, <1>5 DEF CropOf, CountsInv, CropInv
  <1>7. <<"crop", c>> \in Places /\ Held[<<"crop", c>>] = CropOf(c)
    BY PlacesNow DEF CropsNow, Places, Kinds
  <1> QED
    BY <1>3, <1>5, <1>6, <1>7, MemoryHeld

\* The invariant says that memory is owned.
LEMMA OwnedFollows == ASSUME Distinct, CountsInv, MemoryInv PROVE MemoryOwned
  <1> SUFFICES ASSUME NEW m \in Memories
               PROVE  LET users  == {p \in Holders : At(p).device = m}
                          last   == {p \in Ending : At(p).device = m}
                          counts == {At(p).dev_ref_count : p \in users \cup last}
                      IN  /\ users \cup last # {} =>
                                 /\ m = External
                                    \/ (Cardinality(counts) = 1 /\ Cardinality(last) <= 1)
                                 /\ last # {} => m = External \/ users = {}
                                 /\ counts = {Null} => Cardinality(users \cup last) = 1
                                 /\ \A p \in users \cup last :
                                        memory[m].how = device_ownership(At(p))
                          /\ m # External /\ memory[m].how # "Free" => users \cup last # {}
                          /\ memory[m].how = "Cropped" => memory[memory[m].of].how # "Free"
    BY DEF MemoryOwned
  <1> DEFINE users  == {p \in Holders : At(p).device = m}
             last   == {p \in Ending : At(p).device = m}
             counts == {At(p).dev_ref_count : p \in users \cup last}
  <1>1. /\ users = {p \in Places : Held[p].device = m}
        /\ last = {"free"} \X {h \in Handles : Last[h].device = m}
        /\ \A p \in Places : Held[p].device = m => At(p) = Held[p]
        /\ \A h \in Handles : Last[h].device = m => At(<<"free", h>>) = Last[h]
    BY UserPlaces
  <1>2. /\ \A p \in users : p \in Places /\ Held[p].device = m /\ At(p) = Held[p]
        /\ \A p \in last : \E h \in Handles : p = <<"free", h>> /\ Last[h].device = m
                                            /\ At(p) = Last[h]
        /\ \A p \in Places : Held[p].device = m => p \in users
        /\ \A h \in Handles : Last[h].device = m => <<"free", h>> \in last
        /\ \A x : x \in counts <=> \E p \in users \cup last : x = At(p).dev_ref_count
    BY <1>1
  <1> HIDE DEF users, last, counts
  <1>3. /\ m # Null /\ SameDevice /\ OneWay /\ FreedOnce /\ DescribedInv /\ NotLost
    BY DEF MemoryInv, Distinct
  <1>4. m = External => \A p \in users \cup last : At(p).dev_ref_count # Null
    BY <1>2, <1>3, MemoryHeld
  <1>5. ASSUME m # External, NEW p \in last PROVE users = {} /\ \A q \in last : q = p
    <2>1. PICK h \in Handles : p = <<"free", h>> /\ Last[h].device = m
      BY <1>2, <1>5
    <2>2. /\ \A q \in Places : Held[q].device # m
          /\ \A i \in Handles : Last[i].device = m => i = h
      BY <1>3, <1>5, <2>1 DEF FreedOnce
    <2> QED
      BY <1>2, <2>1, <2>2
  <1>6. ASSUME m # External, NEW p \in users \cup last, NEW q \in users \cup last
        PROVE  /\ At(q).dev_ref_count = At(p).dev_ref_count
               /\ At(p).dev_ref_count = Null => q = p
    <2>1. CASE p \in users /\ q \in users
      BY <1>2, <1>3, <1>6, <2>1 DEF OneWay
    <2>2. CASE p \in last \/ q \in last
      BY <1>5, <1>6, <2>2
    <2> QED
      BY <2>1, <2>2
  <1>7. \A x : Cardinality({x}) = 1
    BY FS_Singleton
  <1>8. ASSUME m # External, users \cup last # {}
        PROVE  Cardinality(counts) = 1 /\ Cardinality(last) <= 1
    <2>1. PICK p \in users \cup last : TRUE
      BY <1>8
    <2>2. counts = {At(p).dev_ref_count}
      BY <1>2, <1>6, <1>8, <2>1
    <2>3. Cardinality(last) <= 1
      <3>1. CASE last = {}
        BY <3>1, FS_EmptySet
      <3>2. CASE last # {}
        <4>1. PICK q \in last : TRUE
          BY <3>2
        <4>2. last = {q}
          BY <1>5, <1>8, <4>1
        <4> QED
          BY <1>7, <4>2
      <3> QED
        BY <3>1, <3>2
    <2> QED
      BY <1>7, <2>2, <2>3
  <1>9. last # {} => m = External \/ users = {}
    BY <1>5
  <1>10. ASSUME users \cup last # {}, counts = {Null} PROVE Cardinality(users \cup last) = 1
    <2>1. PICK p \in users \cup last : TRUE
      BY <1>10
    <2>2. \A q \in users \cup last : At(q).dev_ref_count = Null
      BY <1>2, <1>10
    <2>3. users \cup last = {p}
      BY <1>4, <1>6, <2>1, <2>2
    <2> QED
      BY <1>7, <2>3
  <1>11. \A p \in users \cup last : memory[m].how = device_ownership(At(p))
    BY <1>2, <1>3 DEF DescribedInv, Describes
  <1>12. m # External /\ memory[m].how # "Free" => users \cup last # {}
    BY <1>2, <1>3 DEF NotLost
  <1>13. memory[m].how = "Cropped" => memory[memory[m].of].how # "Free"
    BY CropBefore
  <1> QED
    BY <1>8, <1>9, <1>10, <1>11, <1>12, <1>13 DEF users, last, counts

\* Every reference count of the handles is the number of those who hold what it counts: of
\* handles, of drops and calls under way and of crops; and a count that nobody holds any more
\* is being deleted.  For any number of handles and any order of their steps.
THEOREM HandleCounts == Distinct => (CarefulSpec => [](TypeOK /\ CountsExact))
  <1> SUFFICES ASSUME Distinct PROVE CarefulSpec => [](TypeOK /\ CountsExact)
    OBVIOUS
  <1>1. CarefulSpec => [](CountsInv /\ MemoryInv)
    BY InvariantHolds
  <1>2. CountsInv => TypeOK /\ CountsExact
    BY TypesFollow, ExactFollows
  <1> QED
    BY <1>1, <1>2, PTL

\* Device memory stays while somebody has it and is freed once, by the call for the way in
\* which it was obtained, when nobody has it any more; and a crop goes before what it is a crop
\* of.  For any number of handles and any order of their steps.
THEOREM HandleMemory == Distinct => (CarefulSpec => []MemoryOwned)
  <1> SUFFICES ASSUME Distinct PROVE CarefulSpec => []MemoryOwned
    OBVIOUS
  <1>1. CarefulSpec => [](CountsInv /\ MemoryInv)
    BY InvariantHolds
  <1>2. CountsInv /\ MemoryInv => MemoryOwned
    BY OwnedFollows
  <1> QED
    BY <1>1, <1>2, PTL
=============================================================================
