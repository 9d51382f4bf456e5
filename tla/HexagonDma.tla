----------------------------- MODULE HexagonDma -----------------------------
(* DMA engines and descriptors of a Hexagon DSP                                         *)
(* (src/runtime/hexagon_dma_pool.cpp and src/runtime/hexagon_dma.cpp).  A pipeline is    *)
(* given a virtual engine; each transfer of it takes a descriptor and a real engine,    *)
(* which the virtual engine keeps until it is freed.  The pools have a mutex each; a    *)
(* transfer takes and gives back in steps of its own.                                   *)
EXTENDS Integers, Sequences, FiniteSets

CONSTANTS
    Threads,
    MAX_NUMBER_OF_DMA_ENGINES,   \* real engines, and virtual ones (8 in the code)
    MAX_NUMBER_OF_WORK_UNITS,    \* of a virtual engine (4 in the code)
    Lines,                       \* of the cache that the system can lock
    Null

VARIABLES
    hexagon_dma_pool,    \* Null, or both lists
    dma_desc_pool,       \* pairs of descriptors, each pair in one line
    locked,              \* lines
    leaving,             \* virtual engines that are being freed
    transfer             \* by thread

vars == <<hexagon_dma_pool, dma_desc_pool, locked, leaving, transfer>>

Engines == 1..MAX_NUMBER_OF_DMA_ENGINES

NoTransfer == [pc |-> "none", virtual |-> Null, desc |-> 0, engine |-> 0]

Init ==
    /\ hexagon_dma_pool = Null
    /\ dma_desc_pool = <<>>
    /\ locked = {}
    /\ leaving = {}
    /\ transfer = [t \in Threads |-> NoTransfer]

First(S) == CHOOSE i \in S : \A j \in S : i <= j

Mapped(v) == hexagon_dma_pool.virtual_engine_list[v].mapped_engines

InUse == IF hexagon_dma_pool = Null THEN {}
         ELSE {v \in Engines : hexagon_dma_pool.virtual_engine_list[v].in_use}

Transfers(v) == {t \in Threads : transfer[t].virtual = v}
-----------------------------------------------------------------------------
(* Virtual engines *)

NewPool ==
    [dma_engine_list     |-> [e \in Engines |->
                                 [used |-> FALSE, assigned |-> FALSE, engine_addr |-> FALSE]],
     virtual_engine_list |-> [v \in Engines |-> [in_use |-> FALSE, mapped_engines |-> <<>>]]]

\* halide_hexagon_allocate_dma_resource; it fails when all are in use.
AllocateResource ==
    /\ Engines \ InUse # {}
    /\ LET p == IF hexagon_dma_pool = Null THEN NewPool ELSE hexagon_dma_pool
           v == First(Engines \ InUse)
       IN  hexagon_dma_pool' = [p EXCEPT !.virtual_engine_list[v].in_use = TRUE]
    /\ UNCHANGED <<dma_desc_pool, locked, leaving, transfer>>

\* halide_hexagon_dma_deallocate_engine frees all descriptors, of whatever virtual engine,
\* a pair at a time ...
FreeDescriptors(v) ==
    /\ v \in InUse \ leaving /\ Transfers(v) = {}
    /\ LET firsts == {i \in DOMAIN dma_desc_pool : i % 2 = 1} IN
       locked' = locked \ {dma_desc_pool[i].line : i \in firsts}
    /\ dma_desc_pool' = <<>>
    /\ leaving' = leaving \cup {v}
    /\ UNCHANGED <<hexagon_dma_pool, transfer>>

\* ... and then, under another mutex, the virtual engine, and the pool with the last one.
FreeResource(v) ==
    /\ v \in leaving
    /\ LET mine == {Mapped(v)[i] : i \in DOMAIN Mapped(v)} IN
       hexagon_dma_pool' =
           IF InUse = {v} THEN Null
           ELSE [hexagon_dma_pool EXCEPT
                     !.virtual_engine_list[v] = [in_use |-> FALSE, mapped_engines |-> <<>>],
                     !.dma_engine_list = [e \in Engines |->
                         IF e \in mine THEN [@[e] EXCEPT !.used = FALSE, !.assigned = FALSE]
                         ELSE @[e]]]
    /\ leaving' = leaving \ {v}
    /\ UNCHANGED <<dma_desc_pool, locked, transfer>>
-----------------------------------------------------------------------------
(* halide_hexagon_dma_wrapper *)

Goes(t, pc) == transfer' = [transfer EXCEPT ![t].pc = pc]

\* A call that fails gives nothing back.
Fails(t) == transfer' = [transfer EXCEPT ![t] = NoTransfer]

\* desc_pool_get: a descriptor that is not used, or the first one of a new pair.
DescPoolGet(t, v) ==
    LET unused == {i \in DOMAIN dma_desc_pool : ~dma_desc_pool[i].used}
        new    == Len(dma_desc_pool) + 1
        Lent(i) == transfer' = [transfer EXCEPT ![t] =
                                   [pc |-> "engine", virtual |-> v, desc |-> i, engine |-> 0]]
    IN  /\ transfer[t].pc = "none" /\ v \in InUse \ leaving
        /\ \/ /\ unused # {}
              /\ dma_desc_pool' = [dma_desc_pool EXCEPT ![First(unused)].used = TRUE]
              /\ Lent(First(unused))
              /\ UNCHANGED locked
           \/ /\ unused = {}
              /\ \E line \in Lines \ locked :
                     /\ locked' = locked \cup {line}
                     /\ dma_desc_pool' = dma_desc_pool \o <<[line |-> line, used |-> TRUE],
                                                            [line |-> line, used |-> FALSE]>>
              /\ Lent(new)
        /\ UNCHANGED <<hexagon_dma_pool, leaving>>

\* hexagon_dma_pool_get: an engine the virtual engine has and does not use; or one that
\* nobody has, which is not marked used; or none.
DmaPoolGet(t) ==
    LET v    == transfer[t].virtual
        list == hexagon_dma_pool.dma_engine_list
        free == {j \in DOMAIN Mapped(v) : ~list[Mapped(v)[j]].used}
        open == {e \in Engines : ~list[e].assigned}
        Lent(e) == transfer' = [transfer EXCEPT ![t].pc = "move", ![t].engine = e]
    IN  /\ transfer[t].pc = "engine"
        /\ IF free # {}
           THEN LET e == Mapped(v)[First(free)] IN
                /\ hexagon_dma_pool' =
                       [hexagon_dma_pool EXCEPT !.dma_engine_list[e].used = TRUE]
                /\ Lent(e)
           ELSE IF Len(Mapped(v)) < MAX_NUMBER_OF_WORK_UNITS /\ open # {}
           THEN LET e == First(open) IN
                /\ hexagon_dma_pool' =
                       [hexagon_dma_pool EXCEPT
                            !.virtual_engine_list[v].mapped_engines = Append(@, e),
                            !.dma_engine_list[e].assigned = TRUE,
                            !.dma_engine_list[e].engine_addr = TRUE]
                /\ Lent(e)
           ELSE Fails(t) /\ UNCHANGED hexagon_dma_pool
        /\ UNCHANGED <<dma_desc_pool, locked, leaving>>

\* The transfer is set up, begun and waited for, each of which may fail.
Move(t) ==
    /\ transfer[t].pc = "move"
    /\ Goes(t, "put") \/ Fails(t)
    /\ UNCHANGED <<hexagon_dma_pool, dma_desc_pool, locked, leaving>>

DescPoolPut(t) ==
    /\ transfer[t].pc = "put"
    /\ dma_desc_pool' = IF transfer[t].desc \in DOMAIN dma_desc_pool
                        THEN [dma_desc_pool EXCEPT ![transfer[t].desc].used = FALSE]
                        ELSE dma_desc_pool
    /\ transfer' = [transfer EXCEPT ![t].pc = "free", ![t].desc = 0]
    /\ UNCHANGED <<hexagon_dma_pool, locked, leaving>>

\* hexagon_dma_pool_put, which finds the engine: the virtual one is freed after its transfers.
DmaPoolPut(t) ==
    /\ transfer[t].pc = "free"
    /\ hexagon_dma_pool' = [hexagon_dma_pool EXCEPT
                                !.dma_engine_list[transfer[t].engine].used = FALSE]
    /\ transfer' = [transfer EXCEPT ![t] = NoTransfer]
    /\ UNCHANGED <<dma_desc_pool, locked, leaving>>

Step(t) ==
    \/ \E v \in Engines : DescPoolGet(t, v)
    \/ DmaPoolGet(t) \/ Move(t) \/ DescPoolPut(t) \/ DmaPoolPut(t)

Next ==
    \/ AllocateResource
    \/ \E v \in Engines : FreeDescriptors(v) \/ FreeResource(v)
    \/ \E t \in Threads : Step(t)

Spec == Init /\ [][Next]_vars
-----------------------------------------------------------------------------
(* Properties *)

Using(e)      == {t \in Threads : transfer[t].engine = e}
Describing(i) == {t \in Threads : transfer[t].desc = i}

\* A transfer has a descriptor that is marked and that no other one has, in a line that is
\* locked; every line that is locked is in the list, once.
DescriptorsExact ==
    /\ \A t \in Threads : transfer[t].desc # 0 =>
           /\ transfer[t].desc \in DOMAIN dma_desc_pool
           /\ dma_desc_pool[transfer[t].desc].used
           /\ Describing(transfer[t].desc) = {t}
    /\ locked = {dma_desc_pool[i].line : i \in DOMAIN dma_desc_pool}
    /\ Len(dma_desc_pool) = 2 * Cardinality(locked)

\* A real engine is of one virtual engine, of that of the transfers that use it, and
\* there is at most one transfer more than its mark says.
EnginesExact ==
    /\ hexagon_dma_pool = Null => \A t \in Threads : transfer[t].virtual = Null
    /\ hexagon_dma_pool # Null =>
        \A e \in Engines :
            LET engine == hexagon_dma_pool.dma_engine_list[e]
                of     == {x \in Engines \X (1..MAX_NUMBER_OF_WORK_UNITS) :
                              x[2] \in DOMAIN Mapped(x[1]) /\ Mapped(x[1])[x[2]] = e}
            IN  /\ Cardinality(of) = IF engine.assigned THEN 1 ELSE 0
                /\ engine.used => engine.assigned
                /\ engine.assigned => engine.engine_addr
                /\ \A x \in of : x[1] \in InUse
                /\ \A t \in Using(e) : \E x \in of : x[1] = transfer[t].virtual
                /\ Cardinality(Using(e)) <= IF engine.used THEN 2 ELSE 1
=============================================================================
