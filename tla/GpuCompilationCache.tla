------------------------ MODULE GpuCompilationCache ------------------------
(* src/runtime/gpu_context_common.h: the modules a GPU back end has compiled, in *)
(* an open-addressing table under one mutex.  A pipeline holds a kernel's module *)
(* from its initialize_kernels to its finalize_kernels.  Every call is one step. *)
EXTENDS Integers, FiniteSetsExt

CONSTANTS Threads, Contexts, Kernels,
          Null,
          Hash,             \* of a context and an id: kernel_hash for MaxSize slots
          InitialSize,      \* 1 << kInitialTableBits
          MaxSize,          \* bound: a larger table does not fit into memory
          MaxLost,          \* bound on modules that are compiled and then not cached
          MaxDebt           \* bound on how far below zero count may fall

VARIABLES
    compilations,   \* slot -> context, kernel_id, module_state, use_count
    size,           \* 1 << log2_compilations_size, or 0 without a table
    count,
    ids,            \* *state_ptr of a kernel, 0 before its first setup
    unique_id,
    loaded,         \* modules of the driver: compiled and not yet unloaded
    lost,           \* those that were compiled and could not be cached
    at, ctx, kern   \* is a thread inside a pipeline, in which context, of which kernel

table == <<compilations, size, count>>
names == <<ids, unique_id>>
modules == <<loaded, lost>>
clients == <<at, ctx, kern>>
vars == <<table, names, modules, clients>>

kInvalidId == 0
kDeletedId == 1

FreeSlot == [context |-> Null, id |-> kInvalidId, module |-> FALSE, uses |-> 0]
FreeTable(n) == [i \in 0..(n - 1) |-> FreeSlot]

Modules == Contexts \X (2..(Cardinality(Kernels) + 1))

\* The slot that step j of a walk visits in a table of n slots: the hash keeps the
\* uppermost bits.
Probe(c, id, n, j) == (Hash[<<c, id>>] \div (MaxSize \div n) + j) % n

\* Mutant: a walk ends at a deleted slot.
StopsEarly(s) == s.id <= kDeletedId

Stops(s) == s.id = kInvalidId

Is(s, c, id) == s.context = c /\ s.id = id

\* find_internal: the step at which the walk meets the entry.
Found(c, id) ==
    LET Slot(j) == compilations[Probe(c, id, size, j)]
    IN  {j \in 0..(size - 1) : /\ Is(Slot(j), c, id)
                               /\ \A i \in 0..j : ~Stops(Slot(i))
                               /\ \A i \in 0..(j - 1) : ~Is(Slot(i), c, id)}

Cached(c, id) == Found(c, id) # {}
SlotOf(c, id) == Probe(c, id, size, Min(Found(c, id)))

Live(s) == s.id > kDeletedId

LiveSlots == {i \in DOMAIN compilations : Live(compilations[i])}

\* insert takes the first slot without an entry.
RoomFor(tab, n, c, id) == {j \in 0..(n - 1) : ~Live(tab[Probe(c, id, n, j)])}

Put(tab, n, s) ==
    [tab EXCEPT ![Probe(s.context, s.id, n, Min(RoomFor(tab, n, s.context, s.id)))] = s]

\* resize_table: the entries move to the new table in the order of their slots.
Rehashed(n) ==
    LET Moved[i \in 0..size] ==
            IF i = 0 THEN FreeTable(n)
            ELSE IF Live(compilations[i - 1]) THEN Put(Moved[i - 1], n, compilations[i - 1])
            ELSE Moved[i - 1]
    IN  IF count > 0 THEN Moved[size] ELSE FreeTable(n)

\* insert grows the table when it would be more than half full.
NewSize == IF size = 0 THEN InitialSize
           ELSE IF 2 * (count + 1) > size THEN 2 * size ELSE size

NewTable == IF size = 0 THEN FreeTable(InitialSize)
            ELSE IF NewSize # size THEN Rehashed(NewSize) ELSE compilations

\* insert counts the entries that move once more.
Recounted == IF size # 0 /\ NewSize # size /\ count > 0 THEN count + Cardinality(LiveSlots)
             ELSE count

Init ==
    /\ compilations = FreeTable(0)
    /\ size = 0
    /\ count = 0
    /\ ids = [k \in Kernels |-> 0]
    /\ unique_id = 2
    /\ loaded = [m \in Modules |-> 0]
    /\ lost = [m \in Modules |-> 0]
    /\ at = [t \in Threads |-> "out"]
    /\ ctx = [t \in Threads |-> Null]
    /\ kern = [t \in Threads |-> Null]
-----------------------------------------------------------------------------
(* kernel_state_setup and release_hold *)

\* The first setup of a kernel gives it an id.
Named(k) == IF ids[k] = 0 THEN unique_id ELSE ids[k]

Name(k) ==
    /\ ids' = [ids EXCEPT ![k] = Named(k)]
    /\ unique_id' = IF ids[k] = 0 THEN unique_id + 1 ELSE unique_id

Enter(t, c, k) ==
    /\ at' = [at EXCEPT ![t] = "in"]
    /\ ctx' = [ctx EXCEPT ![t] = c]
    /\ kern' = [kern EXCEPT ![t] = k]

SetupCached(t, c, k) ==
    /\ at[t] = "out"
    /\ Cached(c, Named(k))
    /\ Name(k)
    /\ compilations' = [compilations EXCEPT ![SlotOf(c, Named(k))].uses = @ + 1]
    /\ Enter(t, c, k)
    /\ UNCHANGED <<size, count, modules>>

\* The kernel is compiled and inserted.
SetupCompiled(t, c, k) ==
    LET id == Named(k)
    IN  /\ at[t] = "out"
        /\ ~Cached(c, id)
        /\ NewSize <= MaxSize
        /\ RoomFor(NewTable, NewSize, c, id) # {}
        /\ Name(k)
        /\ size' = NewSize
        /\ count' = Recounted + 1
        /\ compilations' = Put(NewTable, NewSize,
                               [context |-> c, id |-> id, module |-> TRUE, uses |-> 1])
        /\ loaded' = [loaded EXCEPT ![<<c, id>>] = @ + 1]
        /\ Enter(t, c, k)
        /\ UNCHANGED lost

\* There is no memory for a table: the call fails, and nobody unloads the module.
SetupLost(t, c, k) ==
    LET id == Named(k)
    IN  /\ at[t] = "out"
        /\ ~Cached(c, id)
        /\ NewSize # size
        /\ lost[<<c, id>>] < MaxLost
        /\ Name(k)
        /\ loaded' = [loaded EXCEPT ![<<c, id>>] = @ + 1]
        /\ lost' = [lost EXCEPT ![<<c, id>>] = @ + 1]
        /\ UNCHANGED <<table, clients>>

\* The kernel does not compile.
SetupFails(t, c, k) ==
    /\ at[t] = "out"
    /\ ids[k] = 0
    /\ Name(k)
    /\ UNCHANGED <<table, modules, clients>>

ReleaseHold(t) ==
    LET id == ids[kern[t]]
    IN  /\ at[t] = "in"
        /\ \/ /\ Cached(ctx[t], id)
              /\ compilations' = [compilations EXCEPT ![SlotOf(ctx[t], id)].uses = @ - 1]
           \/ /\ ~Cached(ctx[t], id)        \* the assertion; without it, nothing
              /\ UNCHANGED compilations
        /\ at' = [at EXCEPT ![t] = "out"]
        /\ ctx' = [ctx EXCEPT ![t] = Null]
        /\ kern' = [kern EXCEPT ![t] = Null]
        /\ UNCHANGED <<size, count, names, modules>>
-----------------------------------------------------------------------------
(* release_context, delete_context and release_all *)

\* A deleted slot passes this test as well.
Releasable(s) == s.id > kInvalidId /\ s.uses = 0

Unused(cs) == {i \in DOMAIN compilations :
                  Releasable(compilations[i]) /\ compilations[i].context \in cs}

\* release_context_already_locked for the contexts cs.
Swept(cs) ==
    IF count = 0 THEN compilations
    ELSE [i \in DOMAIN compilations |->
             IF i \in Unused(cs)
             THEN [compilations[i] EXCEPT !.module = FALSE, !.id = kDeletedId]
             ELSE compilations[i]]

CountAfter(cs) == IF count = 0 THEN 0 ELSE count - Cardinality(Unused(cs))

Unload(cs) ==
    loaded' = [m \in Modules |->
                  loaded[m] - IF count = 0 THEN 0
                              ELSE Cardinality({i \in Unused(cs) :
                                       /\ compilations[i].module
                                       /\ <<compilations[i].context, compilations[i].id>> = m})]

DeleteContext(c) ==
    /\ Unused({c}) # {} /\ CountAfter({c}) >= -MaxDebt
    /\ compilations' = Swept({c})
    /\ count' = CountAfter({c})
    /\ Unload({c})
    /\ UNCHANGED <<size, names, lost, clients>>

\* "Some items may have been in use, so can't free."
ReleaseAll ==
    /\ size # 0 /\ CountAfter(Contexts) >= -MaxDebt
    /\ count' = CountAfter(Contexts)
    /\ \/ /\ count' = 0
          /\ compilations' = FreeTable(0)
          /\ size' = 0
       \/ /\ count' # 0
          /\ compilations' = Swept(Contexts)
          /\ UNCHANGED size
    /\ Unload(Contexts)
    /\ UNCHANGED <<names, lost, clients>>

Pipelines ==
    \E t \in Threads :
        \/ \E c \in Contexts, k \in Kernels :
            SetupCached(t, c, k) \/ SetupCompiled(t, c, k) \/ SetupLost(t, c, k)
            \/ SetupFails(t, c, k)
        \/ ReleaseHold(t)

Next ==
    \/ Pipelines
    \/ \E c \in Contexts : DeleteContext(c)
    \/ ReleaseAll

Spec == Init /\ [][Next]_vars

\* Nothing is swept that was deleted before: it passes the test of release_context a second
\* time, and count falls below the number of entries.
OnceNext ==
    \/ Pipelines
    \/ \E c \in Contexts : Unused({c}) \subseteq LiveSlots /\ DeleteContext(c)
    \/ Unused(Contexts) \subseteq LiveSlots /\ ReleaseAll

OnceSpec == Init /\ [][OnceNext]_vars
-----------------------------------------------------------------------------
TypeOK ==
    /\ size \in {0} \cup (InitialSize..MaxSize)
    /\ DOMAIN compilations = 0..(size - 1)
    /\ \A i \in DOMAIN compilations :
        compilations[i] \in [context : Contexts \cup {Null}, module : BOOLEAN, uses : Nat,
                             id : 0..(Cardinality(Kernels) + 1)]
    /\ count \in Int
    /\ loaded \in [Modules -> Nat]

\* Whatever was deleted before it and however often the table has grown, the walk for
\* an entry finds it, and no context has a kernel twice.
Findable ==
    /\ \A i \in LiveSlots :
        LET s == compilations[i] IN Cached(s.context, s.id) /\ i = SlotOf(s.context, s.id)
    /\ \A i, j \in LiveSlots :
        compilations[i].context = compilations[j].context
            /\ compilations[i].id = compilations[j].id => i = j

\* A pipeline between setup and release finds its module, which the driver still has;
\* use_count is the number of such pipelines.
HeldStays ==
    \A t \in Threads : at[t] = "in" =>
        LET id == ids[kern[t]] IN
        /\ Cached(ctx[t], id)
        /\ compilations[SlotOf(ctx[t], id)].module
        /\ compilations[SlotOf(ctx[t], id)].uses =
               Cardinality({u \in Threads : at[u] = "in" /\ ctx[u] = ctx[t] /\ kern[u] = kern[t]})
        /\ loaded[<<ctx[t], id>>] > 0

\* Every module of the driver is cached once, or was lost when the table could not
\* grow: none is unloaded twice and none forgotten.
LoadedIsCached ==
    \A m \in Modules :
        loaded[m] - lost[m] = Cardinality({i \in LiveSlots :
            /\ compilations[i].module
            /\ <<compilations[i].context, compilations[i].id>> = m})

\* count is never below the number of entries, so a table that is freed is empty.
CountCovers == count >= Cardinality(LiveSlots)

\* The assertions of insert: the entries that a growing table moves do not make it grow
\* again, although each is counted once more, and there is always room.
InsertSucceeds ==
    /\ size # 0 /\ NewSize # size => 2 * (count + Cardinality(LiveSlots)) <= NewSize
    /\ NewSize <= MaxSize => \A m \in Modules : RoomFor(NewTable, NewSize, m[1], m[2]) # {}

KernelsExact == Findable /\ HeldStays /\ LoadedIsCached /\ CountCovers /\ InsertSucceeds
=============================================================================
