---------------------------- MODULE MCThreadPool ----------------------------
(* Programs for ThreadPool, as LowerParallelTasks.cpp would emit them, for TLC. *)
EXTENDS ThreadPool, TLC

CONSTANTS loop_twice, resize_loop, async_ring, shut_down, nest, fork_rows, fork_tiles, fill_pairs

Tsk(extent, min_threads, serial, sems, body) ==
    [extent |-> extent, min_threads |-> min_threads, serial |-> serial, sems |-> sems,
     body |-> body]

ParFor(k)      == [op |-> "par_for", task |-> k]
Fork(ks, init) == [op |-> "parallel_tasks", tasks |-> ks, init |-> init]
Release1(s)    == [op |-> "release", sem |-> s, n |-> 1]
MayFail        == [op |-> "may_fail"]
SetThreads(n)  == [op |-> "set_num_threads", n |-> n]
ShutdownPool   == [op |-> "shutdown"]
One(s)         == [s |-> s, n |-> 1]

RingSlots == 1

\* produce and consume: f.async().store_root().fold_storage(), a ring between two
\* serial loops.
CallsTask == [
    loop    |-> Tsk(2, 0, FALSE, <<>>, <<>>),
    produce |-> Tsk(3, 0, TRUE, <<One("space")>>, <<Release1("full")>>),
    consume |-> Tsk(3, 0, TRUE, <<One("full")>>, <<Release1("space")>>)]

\* The ring, whose consumer may fail.
FailRingTask == [CallsTask EXCEPT !.consume.body = <<MayFail, Release1("space")>>]

\* A fork within parallel loops over x and y: an iteration over y needs two threads.
DeepTask == [
    tiles |-> Tsk(2, 2, FALSE, <<>>, <<Fork(<<"cols">>, {})>>),
    cols  |-> Tsk(2, 1, FALSE, <<>>, <<Fork(<<"left", "right">>, {<<"half", 0>>})>>),
    left  |-> Tsk(1, 0, FALSE, <<>>, <<Release1("half")>>),
    right |-> Tsk(1, 0, FALSE, <<One("half")>>, <<>>)]

\* The same with four columns, for a client that leaves the pool as large as it is.
WideTask == [rows |-> DeepTask.tiles] @@ [DeepTask EXCEPT !.cols.extent = 4]

\* g.parallel(y) around f.parallel(x), where a stage of f may fail; and
\* f.async().compute_at(g, y) with g.parallel(y), where every iteration forks and the
\* producer and the consumer may fail.
FailTask == [
    outer |-> Tsk(2, 0, FALSE, <<>>, <<ParFor("inner")>>),
    inner |-> Tsk(2, 0, FALSE, <<>>, <<MayFail>>),
    rows  |-> Tsk(2, 1, FALSE, <<>>, <<Fork(<<"make", "use">>, {<<"full", 0>>})>>),
    make  |-> Tsk(1, 0, FALSE, <<>>, <<MayFail, Release1("full"), MayFail>>),
    use   |-> Tsk(1, 0, FALSE, <<One("full")>>, <<MayFail>>)] @@ DeepTask

\* A producer that fills two slots at a time, each time with a fork of its own, and a
\* consumer with a stage after the loop that frees them one by one.
PairsTask == [
    produce |-> Tsk(1, 2, FALSE, <<>>, <<Fork(<<"fill">>, {}), Fork(<<"fill">>, {})>>),
    fill    |-> Tsk(1, 1, FALSE, <<[s |-> "space", n |-> 2]>>,
                    <<Fork(<<"left", "right">>, {<<"half", 0>>}),
                      [Release1("full") EXCEPT !.n = 2]>>),
    left    |-> DeepTask.left,
    right   |-> DeepTask.right,
    consume |-> Tsk(1, 1, FALSE, <<>>, <<Fork(<<"free">>, {})>>),
    free    |-> Tsk(4, 0, TRUE, <<One("full")>>, <<Release1("space")>>)]

\* The first two run at the same time; shut_down releases the pool, runs a pipeline on
\* the pool made anew, and does so again with fewer threads.
Pipelines ==
    (loop_twice  :> <<ParFor("loop"), ParFor("loop")>>) @@
    (resize_loop :> <<SetThreads(2), ParFor("loop")>>) @@
    (async_ring  :> <<Fork(<<"produce", "consume">>,
                           {<<"space", RingSlots>>, <<"full", 0>>})>>) @@
    (shut_down   :> <<ShutdownPool, ParFor("loop"), ShutdownPool, SetThreads(2),
                      ParFor("loop")>>) @@
    (nest        :> <<ParFor("outer")>>) @@
    (fork_rows   :> <<Fork(<<"rows">>, {})>>) @@
    (fork_tiles  :> <<SetThreads(1), Fork(<<"tiles">>, {})>>) @@
    (fill_pairs  :> <<Fork(<<"produce", "consume">>,
                           {<<"space", 2>>, <<"full", 0>>})>>)

\* Those of the run that passes.  The stages that may fail have a pool of three.
PoolTask == CallsTask @@ FailTask

PoolPipelines ==
    [Pipelines EXCEPT ![nest] = <<SetThreads(3)>> \o @, ![fork_rows] = <<SetThreads(3)>> \o @]

\* The consumer reads a slot only after it is full and the producer fills it again only
\* after it has been read, each operation being the first of its task's body.
RingInOrder ==
    LET p == <<<<async_ring>>, 0, "produce">>
        c == <<<<async_ring>>, 0, "consume">>
    IN p \in DOMAIN job =>
        /\ Begun(c) <= Passed(p, 1)
        /\ Begun(p) <= Passed(c, 1) + RingSlots
=============================================================================
