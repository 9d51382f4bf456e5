---------------------------- MODULE BufferHandles ----------------------------
(* src/src/runtime/HalideBuffer.h: Halide::Runtime::Buffer, the handles with which a   *)
(* program owns host and device memory.  Copies share both through reference counts,  *)
(* and a crop keeps what it was cropped from.  Dropping a handle takes several atomic *)
(* accesses, between which other threads drop, copy and crop theirs.                  *)
EXTENDS Integers, FiniteSets, Sequences

CONSTANTS
    Handles,                     \* the Buffer objects of the program
    Allocs, Memories, Counters,  \* addresses of host memory, device memory, DeviceRefCounts
    External,                    \* device memory that the program manages by itself
    Null

VARIABLES
    buffer,      \* what each handle holds
    refs,        \* ref_count of each host allocation; 0 when it is free
    memory,      \* device memory: how it was obtained, and what it is a crop of
    counter,     \* the DeviceRefCounts; Null when free
    todo,        \* what is left to do of the drop that a handle is in
    after        \* what the handle holds then; Null when it is in no call

vars == <<buffer, refs, memory, counter, todo, after>>

Empty == [alloc |-> Null, device |-> Null, dev_ref_count |-> Null]
Free == [how |-> "Free", of |-> Null]

Idle(h) == after[h] = Null

device_ownership(b) ==
    IF b.dev_ref_count = Null THEN "Allocated" ELSE counter[b.dev_ref_count].ownership

\* An address that is not in use.
NewCounter == CHOOSE c \in Counters : counter[c] = Null
NewMemory  == CHOOSE m \in Memories : memory[m] = Free
NewAlloc   == CHOOSE a \in Allocs : refs[a] = 0

\* The first copy of a buffer that was given device memory makes the count.
Counted(b) ==
    IF b.device # Null /\ b.dev_ref_count = Null THEN [b EXCEPT !.dev_ref_count = NewCounter]
    ELSE b

\* The counters and references once b, which is Counted, is copied into `copies` more.
SharedCounters(b, copies) ==
    [c \in Counters |->
        IF b.device = Null \/ c # b.dev_ref_count THEN counter[c]
        ELSE IF counter[c] = Null
        THEN [count |-> 1 + copies, ownership |-> "Allocated", cropped_from |-> Empty]
        ELSE [counter[c] EXCEPT !.count = @ + copies]]
SharedRefs(b, copies) == [a \in Allocs |-> refs[a] + IF a = b.alloc THEN copies ELSE 0]

\* decref: the host memory, unless it is kept, and then the device memory.
Decref(b, device_only) ==
    LET Task(what, x) == <<[op |-> what, b |-> x]>> IN
    (IF b.alloc # Null /\ ~device_only
     THEN Task("host", [Empty EXCEPT !.alloc = b.alloc]) ELSE <<>>)
    \o (IF b.device # Null \/ b.dev_ref_count # Null
        THEN Task("device", [b EXCEPT !.alloc = Null]) ELSE <<>>)

\* h drops `tasks` and then becomes b.
Becomes(h, tasks, b) ==
    /\ todo'  = [todo EXCEPT ![h] = tasks]
    /\ after' = [after EXCEPT ![h] = b]
-----------------------------------------------------------------------------
(* The steps of a drop *)

Does(h, op) == todo[h] # <<>> /\ Head(todo[h]).op = op
Part(h) == Head(todo[h]).b
Goes(h, more) == todo' = [todo EXCEPT ![h] = more \o Tail(@)]

DropHost(h) ==
    /\ Does(h, "host")
    /\ refs' = [refs EXCEPT ![Part(h).alloc] = @ - 1]
    /\ Goes(h, <<>>)
    /\ UNCHANGED <<buffer, memory, counter, after>>

\* What a count of zero leads to.
LastGone(b) ==
    (IF b.device # Null THEN <<[op |-> "free", b |-> b]>> ELSE <<>>)
    \o (IF b.dev_ref_count # Null THEN <<[op |-> "delete", b |-> b]>> ELSE <<>>)

DropDevice(h) ==
    /\ Does(h, "device")
    /\ LET id == Part(h).dev_ref_count IN
       IF id = Null THEN Goes(h, LastGone(Part(h))) /\ UNCHANGED counter
       ELSE /\ counter' = [counter EXCEPT ![id].count = @ - 1]
            /\ Goes(h, IF counter[id].count = 1 THEN LastGone(Part(h)) ELSE <<>>)
    /\ UNCHANGED <<buffer, refs, memory, after>>

\* One call of four, by the ownership; none for memory that is not managed.
FreeDevice(h) ==
    /\ Does(h, "free")
    /\ memory' = IF device_ownership(Part(h)) = "Unmanaged" THEN memory
                 ELSE [memory EXCEPT ![Part(h).device] = Free]
    /\ Goes(h, <<>>)
    /\ UNCHANGED <<buffer, refs, counter, after>>

\* With the count of a crop goes the buffer it was cropped from.
DeleteCounter(h) ==
    /\ Does(h, "delete")
    /\ LET id == Part(h).dev_ref_count IN
       /\ Goes(h, Decref(counter[id].cropped_from, FALSE))
       /\ counter' = [counter EXCEPT ![id] = Null]
    /\ UNCHANGED <<buffer, refs, memory, after>>

Dropped(h) ==
    /\ ~Idle(h) /\ todo[h] = <<>>
    /\ buffer' = [buffer EXCEPT ![h] = after[h]]
    /\ after'  = [after EXCEPT ![h] = Null]
    /\ UNCHANGED <<refs, memory, counter, todo>>
-----------------------------------------------------------------------------
(* The calls.  No two threads use one handle at a time. *)

\* allocate, of a handle that has been deallocated.
Allocate(h) ==
    /\ Idle(h) /\ buffer[h] = Empty /\ \E a \in Allocs : refs[a] = 0
    /\ refs' = [refs EXCEPT ![NewAlloc] = 1]
    /\ buffer' = [buffer EXCEPT ![h].alloc = NewAlloc]
    /\ UNCHANGED <<memory, counter, todo, after>>

\* The destructor, deallocate and reset; or only the device memory.
Deallocate(h, device_only) ==
    /\ Idle(h) /\ buffer[h] # Empty
    /\ Becomes(h, Decref(buffer[h], device_only),
               IF device_only THEN [Empty EXCEPT !.alloc = buffer[h].alloc] ELSE Empty)
    /\ buffer' = [buffer EXCEPT ![h] = Empty]
    /\ UNCHANGED <<refs, memory, counter>>

Copy(h, g) ==
    /\ Idle(h) /\ Idle(g) /\ h # g /\ buffer[g] # Empty
    /\ \E c \in Counters : counter[c] = Null
    /\ LET b == Counted(buffer[g]) IN
       /\ refs' = SharedRefs(b, 1)
       /\ counter' = SharedCounters(b, 1)
       /\ Becomes(h, Decref(buffer[h], FALSE), b)
       /\ buffer' = [buffer EXCEPT ![h] = Empty, ![g] = b]
    /\ UNCHANGED memory

Move(h, g) ==
    /\ Idle(h) /\ Idle(g) /\ h # g /\ buffer[g] # Empty
    /\ Becomes(h, Decref(buffer[h], FALSE), buffer[g])
    /\ buffer' = [buffer EXCEPT ![h] = Empty, ![g] = Empty]
    /\ UNCHANGED <<refs, memory, counter>>

\* device_malloc, or a pipeline that computes the buffer on a device.
DeviceMalloc(h) ==
    /\ Idle(h) /\ buffer[h].device = Null /\ \E m \in Memories : memory[m] = Free
    /\ memory' = [memory EXCEPT ![NewMemory] = [how |-> "Allocated", of |-> Null]]
    /\ buffer' = [buffer EXCEPT ![h].device = NewMemory]
    /\ UNCHANGED <<refs, counter, todo, after>>

\* The memory of a buffer that nobody else holds is freed, or given back to whom it is of.
DeviceFree(h, ownership) ==
    /\ Idle(h) /\ buffer[h].device # Null
    /\ device_ownership(buffer[h]) = ownership
    /\ LET id == buffer[h].dev_ref_count IN
       /\ ownership = "Allocated" \/ id # Null
       /\ id # Null => counter[id].count = 1
       /\ counter' = IF id = Null THEN counter ELSE [counter EXCEPT ![id] = Null]
    /\ memory' = [memory EXCEPT ![buffer[h].device] = Free]
    /\ buffer' = [buffer EXCEPT ![h].device = Null, ![h].dev_ref_count = Null]
    /\ UNCHANGED <<refs, todo, after>>

\* device_wrap_native: the count is made first, and stays if the call fails.
Wrap(h, works) ==
    /\ Idle(h)
    /\ \E c \in Counters : counter[c] = Null
    /\ \E m \in Memories : memory[m] = Free
    /\ works => buffer[h].device = Null
    /\ counter' = [counter EXCEPT ![NewCounter] =
                      [count |-> 1, ownership |-> "WrappedNative", cropped_from |-> Empty]]
    /\ IF works
       THEN /\ memory' = [memory EXCEPT ![NewMemory] = [how |-> "WrappedNative", of |-> Null]]
            /\ buffer' = [buffer EXCEPT ![h].device = NewMemory,
                                        ![h].dev_ref_count = NewCounter]
       ELSE buffer' = [buffer EXCEPT ![h].dev_ref_count = NewCounter] /\ UNCHANGED memory
    /\ UNCHANGED <<refs, todo, after>>

\* A Buffer made of a halide_buffer_t that has device memory, which it is to manage or not.
Adopt(h, ownership) ==
    /\ Idle(h) /\ buffer[h] = Empty
    /\ \E c \in Counters : counter[c] = Null
    /\ \E m \in Memories : memory[m] = Free
    /\ counter' = [counter EXCEPT ![NewCounter] =
                      [count |-> 1, ownership |-> ownership, cropped_from |-> Empty]]
    /\ LET mem == IF ownership = "Unmanaged" THEN External ELSE NewMemory IN
       /\ memory' = [memory EXCEPT ![mem].how = ownership]
       /\ buffer' = [buffer EXCEPT ![h].device = mem, ![h].dev_ref_count = NewCounter]
    /\ UNCHANGED <<refs, todo, after>>

\* The buffer a crop of b keeps: the one that b was cropped from, if it was.
Root(b) ==
    IF b.dev_ref_count # Null /\ counter[b.dev_ref_count] # Null
            /\ counter[b.dev_ref_count].ownership = "Cropped"
    THEN counter[b.dev_ref_count].cropped_from ELSE b

\* h becomes the crop or slice of g.  It has the host memory, and the device memory too
\* when the device can make the crop; the copy of g that is made on the way drops its part.
Crop(h, g, works) ==
    /\ Idle(h) /\ Idle(g) /\ buffer[g] # Empty
    /\ Cardinality({c \in Counters : counter[c] = Null}) > 1
    /\ LET b    == Counted(buffer[g])
           root == Root(b)
           made == works /\ b.device # Null
           id   == CHOOSE c \in Counters : counter[c] = Null /\ c # b.dev_ref_count
           im   == [alloc |-> b.alloc, device |-> IF made THEN NewMemory ELSE Null,
                    dev_ref_count |-> IF made THEN id ELSE Null]
           kept == [a \in Allocs |-> refs[a] + (IF a = b.alloc THEN 1 ELSE 0)
                                             + (IF made /\ a = root.alloc THEN 1 ELSE 0)]
       IN  /\ works => b.device # Null /\ \E m \in Memories : memory[m] = Free
           /\ refs' = kept
           /\ memory' = IF made THEN [memory EXCEPT ![NewMemory] =
                                         [how |-> "Cropped", of |-> root.device]] ELSE memory
           /\ counter' =
                IF made THEN [SharedCounters(root, 1) EXCEPT ![id] =
                                 [count |-> 1, ownership |-> "Cropped", cropped_from |-> root]]
                ELSE SharedCounters(b, 0)
           /\ Becomes(h, Decref(IF h = g THEN b ELSE buffer[h], FALSE), im)
           /\ buffer' = IF h = g THEN [buffer EXCEPT ![h] = Empty]
                        ELSE [buffer EXCEPT ![h] = Empty, ![g] = b]
-----------------------------------------------------------------------------
Init ==
    /\ buffer  = [h \in Handles |-> Empty]
    /\ refs    = [a \in Allocs |-> 0]
    /\ memory  = [m \in Memories |->
                      IF m = External THEN [how |-> "Unmanaged", of |-> Null] ELSE Free]
    /\ counter = [c \in Counters |-> Null]
    /\ todo    = [h \in Handles |-> <<>>]
    /\ after   = [h \in Handles |-> Null]

Drop(h) == DropHost(h) \/ DropDevice(h) \/ FreeDevice(h) \/ DeleteCounter(h) \/ Dropped(h)

Call(h) ==
    \/ Allocate(h) \/ DeviceMalloc(h)
    \/ \E ownership \in {"Unmanaged", "AllocatedDeviceAndHost"} : Adopt(h, ownership)
    \/ \E ownership \in {"Allocated", "WrappedNative", "AllocatedDeviceAndHost"} :
           DeviceFree(h, ownership)
    \/ \E choice \in BOOLEAN :
        \/ Deallocate(h, choice) \/ Wrap(h, choice)
        \/ \E g \in Handles : Crop(h, g, choice)
    \/ \E g \in Handles : Copy(h, g) \/ Move(h, g)

Next == \E h \in Handles : Drop(h) \/ Call(h)

Spec == Init /\ [][Next]_vars

\* A wrap that failed has left a count without memory.
WrapFailed(h) == buffer[h].dev_ref_count # Null /\ buffer[h].device = Null

\* What callers may do that leaves every count exact: nothing is wrapped but by a buffer
\* that has no device memory, and one for which that failed is only moved and dropped.
CarefulCall(h) ==
    \/ Allocate(h) \/ (~WrapFailed(h) /\ DeviceMalloc(h))
    \/ \E ownership \in {"Unmanaged", "AllocatedDeviceAndHost"} : Adopt(h, ownership)
    \/ \E ownership \in {"Allocated", "WrappedNative", "AllocatedDeviceAndHost"} :
           DeviceFree(h, ownership)
    \/ \E choice \in BOOLEAN :
        \/ Deallocate(h, choice)
        \/ buffer[h].device = Null /\ ~WrapFailed(h) /\ Wrap(h, choice)
        \/ \E g \in Handles : ~WrapFailed(g) /\ Crop(h, g, choice)
    \/ \E g \in Handles : (~WrapFailed(g) /\ Copy(h, g)) \/ Move(h, g)

CarefulNext == \E h \in Handles : Drop(h) \/ CarefulCall(h)

CarefulSpec == Init /\ [][CarefulNext]_vars
-----------------------------------------------------------------------------
Tasks(h, op) == {i \in DOMAIN todo[h] : todo[h][i].op = op}

TypeOK ==
    /\ \A h \in Handles : \A b \in {buffer[h], after[h]} \ {Null} :
        /\ b.alloc \in Allocs \cup {Null} /\ b.device \in Memories \cup {Null}
        /\ b.dev_ref_count \in Counters \cup {Null}
    /\ refs \in [Allocs -> Nat]
    /\ \A h \in Handles :
        /\ Idle(h) => todo[h] = <<>>
        /\ \A i, j \in DOMAIN todo[h] : todo[h][i].op = todo[h][j].op => i = j

\* The places in which memory is held: handles, calls under way, and the counts of crops.
During(op) == {op} \X {h \in Handles : Tasks(h, op) # {}}

Holders ==
    ({"buffer"} \X Handles) \cup ({"after"} \X {h \in Handles : ~Idle(h)})
    \cup ({"crop"} \X {c \in Counters : counter[c] # Null})
    \cup During("host") \cup During("device")

\* Those who found a count at zero, and are to free the memory.
Ending == During("free")

\* What is held in a place.
At(p) ==
    CASE p[1] = "buffer" -> buffer[p[2]]
      [] p[1] = "after"  -> after[p[2]]
      [] p[1] = "crop"   -> counter[p[2]].cropped_from
      [] OTHER           -> todo[p[2]][CHOOSE i \in Tasks(p[2], p[1]) : TRUE].b

\* A count is the number of those who hold it, and what nobody holds is gone or going.
CountsExact ==
    /\ \A a \in Allocs : refs[a] = Cardinality({p \in Holders : At(p).alloc = a})
    /\ \A c \in Counters :
        LET holders == {p \in Holders : At(p).dev_ref_count = c} IN
        IF counter[c] = Null THEN holders = {}
        ELSE /\ counter[c].count = Cardinality(holders)
             /\ holders = {} => \E p \in During("delete") : At(p).dev_ref_count = c

\* Device memory is there while a buffer has it, lost by nobody, and there is one way to its
\* end: through one count, or through one buffer without a count.  The call that frees it
\* is the one it was obtained for, made once, and a crop goes before what it is a crop of.
MemoryOwned ==
    \A m \in Memories :
        LET users  == {p \in Holders : At(p).device = m}
            last   == {p \in Ending : At(p).device = m}
            counts == {At(p).dev_ref_count : p \in users \cup last}
        IN  /\ users \cup last # {} =>
                   /\ m = External \/ (Cardinality(counts) = 1 /\ Cardinality(last) <= 1)
                   /\ last # {} => m = External \/ users = {}
                   /\ counts = {Null} => Cardinality(users \cup last) = 1
                   /\ \A p \in users \cup last : memory[m].how = device_ownership(At(p))
            /\ m # External /\ memory[m].how # "Free" => users \cup last # {}
            /\ memory[m].how = "Cropped" => memory[memory[m].of].how # "Free"
=============================================================================
