----------------------------- MODULE ThreadPool -----------------------------
(***************************************************************************)
(* The work queue of src/src/runtime/thread_pool_common.h: parallel loops  *)
(* and tasks, the workers and owners that run them, the semaphores they    *)
(* wait for, failure, and the start and shutdown of the pool.              *)
(*                                                                         *)
(* Grain of atomicity.  work_queue.mutex and the condition variables are   *)
(* those of Monitor.tla.  The lock is kept in a variable because one       *)
(* critical section can go round the loop of worker_thread_already_locked  *)
(* several times; within it a round is one action.  Releases of semaphores *)
(* and a serial job's acquires happen outside the lock and are actions of  *)
(* their own.  halide_cond_with_spinning wakes a thread, asleep or         *)
(* spinning, exactly when it is broadcast after the thread let go of the   *)
(* lock, so both kinds of waiter are one set (SpinningCond.tla).           *)
(*                                                                         *)
(* The program run on the pool is given by constants: Task is the table of *)
(* halide_parallel_task_t, Main what each client thread calls, Together    *)
(* which clients may be there at once.                                     *)
(***************************************************************************)
EXTENDS Integers, Sequences, FiniteSets, FiniteSetsExt

CONSTANTS
    Clients,            \* the threads that call pipelines
    MaxThreads,         \* MAX_THREADS; worker n is work_queue.threads[n - 1]
    DefaultThreads,     \* default_desired_num_threads
    Task,               \* [extent, min_threads, serial, sems, body] of each task
    Main,               \* the operations of each client
    Together            \* sets of clients

Workers == 1..MaxThreads
Threads == Clients \cup Workers

NoJob    == <<>>
NoThread == 0

\* The programs the compiler emits and the clients write.  A fork names tasks with
\* iterations, each once (do_parallel_tasks skips the others, TaskGather.tla); only
\* clients shut the pool down, and then nobody else is in a pipeline.  Semaphores count
\* what there is, never less than nothing.
Operation(o) ==
    /\ o.op \in {"par_for", "parallel_tasks", "release", "may_fail", "set_num_threads",
                 "shutdown"}
    /\ o.op = "par_for" => o.task \in DOMAIN Task
    /\ o.op = "parallel_tasks" =>
          /\ o.tasks \in Seq(DOMAIN Task) /\ o.tasks # <<>>
          /\ \A i \in 1..Len(o.tasks) : Task[o.tasks[i]].extent > 0
          /\ \A i, j \in 1..Len(o.tasks) : o.tasks[i] = o.tasks[j] => i = j
          /\ \A x \in o.init : x[2] \in Nat
    /\ o.op = "release" => o.n \in Nat

Program(ops)   == Len(ops) \in Nat /\ \A o \in 1..Len(ops) : Operation(ops[o])
ShutsDown(ops) == \E o \in 1..Len(ops) : ops[o].op = "shutdown"

ASSUME ThreadsAssumption ==
    /\ MaxThreads \in Nat
    /\ IsFiniteSet(Clients) /\ Clients \cap (0..MaxThreads) = {}
ASSUME TaskAssumption ==
    \A k \in DOMAIN Task :
        /\ Task[k].extent \in Int /\ Task[k].min_threads \in Nat
        /\ Task[k].serial \in BOOLEAN
        /\ Len(Task[k].sems) \in Nat
        /\ \A i \in 1..Len(Task[k].sems) : Task[k].sems[i].n \in Nat
        /\ Program(Task[k].body) /\ ~ShutsDown(Task[k].body)
ASSUME MainAssumption ==
    /\ \A c \in Clients : Program(Main[c])
    /\ \A S \in Together : S \subseteq Clients /\ \A c \in S : ShutsDown(Main[c]) => S = {c}
Conds    == {"a_team", "b_team", "owners"}

VARIABLES
    wq,         \* work_queue_t, its scalar fields and the stack of jobs
    waiting,    \* the threads waiting on wake_a_team, wake_b_team, wake_owners
    lock,       \* the holder of work_queue.mutex
    job,        \* the work structures alive on the stacks of owners
    sem,        \* the semaphores alive on the stacks of owners
    stack,      \* the call stack of each thread, innermost frame first
    aborted     \* halide_abort_if_false has fired: no thread is left

vars == <<wq, waiting, lock, job, sem, stack, aborted>>
----------------------------------------------------------------------------
(* Stack frames *)

Top(t) == Head(stack[t])
At(t, l) == stack[t] # <<>> /\ Top(t).at = l

SetTop(t, f)   == stack' = [stack EXCEPT ![t] = <<f>> \o Tail(@)]
Push(t, f, g)  == stack' = [stack EXCEPT ![t] = <<g, f>> \o Tail(@)]

\* A closure running iterations it..it+left of a job, or a client's pipeline; op is
\* the next operation.
Body(J, it, left) == [at |-> "body", job |-> J, it |-> it, left |-> left, op |-> 1]

\* worker_thread_already_locked(owned), with its locals.
Loop(J, at) == [at |-> at, owned |-> J, work |-> NoJob, min |-> 0, total |-> 0,
                iters |-> 0, result |-> 0]

\* halide_default_do_parallel_tasks joining its i-th job.
Join(jobs, i, status) == [at |-> "join", jobs |-> jobs, i |-> i, status |-> status]

\* A job is named by the body that created it and its task; a semaphore likewise.  A
\* closure captures the semaphores of the bodies around it (two are enough here).
TaskOf(J)     == Task[J[3]]
Child(f, k)   == <<f.job, f.it, k>>
SemOf(J, s)   == IF <<J[1], J[2], s>> \in DOMAIN sem THEN <<J[1], J[2], s>>
                 ELSE <<J[1][1], J[1][2], s>>
IsClient(J)   == Len(J) = 1
Ops(J)        == IF IsClient(J) THEN Main[J[1]] ELSE TaskOf(J).body
NoParent      == <<>>

\* The task_parent a closure has: halide_task_t, the kind of halide_do_par_for, has none.
TaskParent(J) == IF IsClient(J) \/ job[J].par_for THEN NoParent ELSE J
----------------------------------------------------------------------------
(* Jobs *)

Running(J) == job[J].extent > 0 \/ job[J].active > 0

\* make_runnable: the semaphores still to be acquired, up to the first that lacks its
\* count.  No two jobs acquire the same semaphore.
AvailableAlmost(J, i) ==                                   \* mutant
    LET a == TaskOf(J).sems[i] IN sem[SemOf(J, a.s)] >= a.n - 1
Available(J, i) ==
    LET a == TaskOf(J).sems[i] IN sem[SemOf(J, a.s)] >= a.n

MakeRunnable(J) ==
    \A i \in job[J].next + 1 .. Len(TaskOf(J).sems) : Available(J, i)

Acquired(J) ==
    {i \in job[J].next + 1 .. Len(TaskOf(J).sems) :
        \A j \in job[J].next + 1 .. i : Available(J, j)}

NextSemaphore(J) ==
    IF MakeRunnable(J) THEN 0 ELSE job[J].next + Cardinality(Acquired(J))

\* The semaphores after make_runnable has been called on the jobs of a set.
Acquire(js) ==
    sem' = [s \in DOMAIN sem |->
              LET by == {p \in UNION {{J} \X Acquired(J) : J \in js} :
                            SemOf(p[1], TaskOf(p[1]).sems[p[2]].s) = s}
              IN IF by = {} THEN sem[s]
                 ELSE LET p == CHOOSE p \in by : TRUE IN sem[s] - TaskOf(p[1]).sems[p[2]].n]

Parent(J) == job[J].parent

\* Threads that a job's parent, or the pool, has left to give.
ThreadsAvailable(J) ==
    LET P == Parent(J) IN
    IF P = NoParent
    THEN wq.threads_created + 1 - wq.threads_reserved
    ELSE (IF job[P].active = 0 THEN 1 ELSE job[P].active) * TaskOf(P).min_threads
            - job[P].reserved

Eligible(J, owned) ==
    /\ ThreadsAvailable(J) >= TaskOf(J).min_threads
    /\ \/ owned = NoJob
       \/ job[J].siblings = job[owned].siblings
       \/ TaskOf(J).min_threads = 0
    /\ ~TaskOf(J).serial \/ job[J].active = 0

\* The first job on the stack that can be worked on, or 0.
Candidates(owned) ==
    {p \in 1..Len(wq.jobs) : Eligible(wq.jobs[p], owned) /\ MakeRunnable(wq.jobs[p])}

Found(owned) ==
    IF Candidates(owned) = {} THEN 0
    ELSE CHOOSE p \in Candidates(owned) : \A q \in Candidates(owned) : p <= q

\* The jobs on which the search has called make_runnable.
Considered(owned) ==
    LET last == IF Found(owned) = 0 THEN Len(wq.jobs) ELSE Found(owned) IN
    {wq.jobs[p] : p \in {q \in 1..last : Eligible(wq.jobs[q], owned)}}

\* The stack without a job that is on it.
WithoutJob(js, J) ==
    IF \E p \in 1..Len(js) : js[p] = J
    THEN LET p == CHOOSE p \in 1..Len(js) : js[p] = J
         IN  SubSeq(js, 1, p - 1) \o SubSeq(js, p + 1, Len(js))
    ELSE js

\* threads_reserved of the job's parent or of the pool.
ReserveAll(jobs, queue, J, delta) ==                       \* mutant
    job' = jobs /\ wq' = [queue EXCEPT !.threads_reserved = @ + delta]
ReserveForGood(jobs, queue, J, delta) ==                   \* mutant
    IF Parent(J) = NoParent
    THEN job' = jobs /\ wq' = [queue EXCEPT !.threads_reserved = @ + delta]
    ELSE /\ job' = [jobs EXCEPT ![Parent(J)].reserved = IF delta > 0 THEN @ + delta ELSE @]
         /\ wq' = queue
Reserve(jobs, queue, J, delta) ==
    LET P == Parent(J) IN
    IF P = NoParent
    THEN /\ job' = jobs
         /\ wq' = [queue EXCEPT !.threads_reserved = @ + delta]
    ELSE /\ job' = [jobs EXCEPT ![P].reserved = @ + delta]
         /\ wq' = queue

Broadcast(cs) == waiting' = [c \in Conds |-> IF c \in cs THEN {} ELSE waiting[c]]
----------------------------------------------------------------------------
(* worker_thread_already_locked *)

Scanning(t) == lock = t /\ At(t, "scan")

LoopDone(owned) == IF owned = NoJob THEN wq.shutdown ELSE ~Running(owned)

\* The owned job has failed and nobody works on it: take it off the stack.
Failed(owned) ==
    /\ owned # NoJob
    /\ job[owned].exit # 0
    /\ job[owned].active = 0

ParentFailed(owned) ==
    /\ owned # NoJob
    /\ job[owned].exit = 0
    /\ Parent(owned) # NoParent
    /\ job[Parent(owned)].exit # 0

DropFailedLeavesIt(t) ==                                \* mutant
    LET J == Top(t).owned IN
    /\ Scanning(t) /\ ~LoopDone(J) /\ Failed(J)
    /\ job' = [job EXCEPT ![J].extent = 0]
    /\ UNCHANGED <<wq, waiting, lock, sem, stack, aborted>>
DropFailed(t) ==
    LET J == Top(t).owned IN
    /\ Scanning(t) /\ ~LoopDone(J) /\ Failed(J)
    /\ wq' = [wq EXCEPT !.jobs = WithoutJob(@, J)]
    /\ job' = [job EXCEPT ![J].extent = 0]
    /\ UNCHANGED <<waiting, lock, sem, stack, aborted>>

InheritFailure(t) ==
    LET J == Top(t).owned IN
    /\ Scanning(t) /\ ~LoopDone(J) /\ ParentFailed(J)
    /\ job' = [job EXCEPT ![J].exit = job[Parent(J)].exit]
    /\ Broadcast({"owners"})
    /\ UNCHANGED <<wq, lock, sem, stack, aborted>>

Searching(t) ==
    LET J == Top(t).owned IN
    Scanning(t) /\ ~LoopDone(J) /\ ~Failed(J) /\ ~ParentFailed(J)

\* make_runnable's effect on the jobs of a set.
WithNext(js) == [J \in DOMAIN job |->
                    IF J \in js THEN [job[J] EXCEPT !.next = NextSemaphore(J)] ELSE job[J]]

\* No runnable job: wait, and let go of the lock.
Sleep(t) ==
    LET f == Top(t)
        c == IF f.owned # NoJob THEN "owners"
             ELSE IF wq.a_team_size > wq.target_a_team_size THEN "b_team" ELSE "a_team"
        js == Considered(f.owned)
    IN
    /\ Searching(t)
    /\ Found(f.owned) = 0
    /\ Acquire(js)
    /\ job' = IF f.owned = NoJob THEN WithNext(js)
              ELSE [WithNext(js) EXCEPT ![f.owned].sleeping = TRUE]
    /\ wq' = IF c = "owners" THEN [wq EXCEPT !.owners_sleeping = @ + 1]
             ELSE [wq EXCEPT !.workers_sleeping = @ + 1,
                             !.a_team_size = IF c = "b_team" THEN @ - 1 ELSE @]
    /\ waiting' = [waiting EXCEPT ![c] = @ \cup {t}]
    /\ SetTop(t, [f EXCEPT !.at = c])
    /\ lock' = NoThread
    /\ UNCHANGED aborted

WorkerBackInTeam(c) == [wq EXCEPT !.workers_sleeping = @ - 1]  \* mutant
WorkerBack(c) == [wq EXCEPT !.workers_sleeping = @ - 1,
                            !.a_team_size = IF c = "b_team" THEN @ + 1 ELSE @]

\* Return from a wait, or the start of worker_thread.
Wake(t) ==
    LET f == Top(t) IN
    /\ lock = NoThread
    /\ stack[t] # <<>>
    /\ \/ f.at = "start" /\ UNCHANGED <<job, wq>>
       \/ /\ f.at = "owners" /\ t \notin waiting["owners"]
          /\ job' = [job EXCEPT ![f.owned].sleeping = FALSE]
          /\ wq' = [wq EXCEPT !.owners_sleeping = @ - 1]
       \/ /\ f.at \in {"a_team", "b_team"} /\ t \notin waiting[f.at]
          /\ wq' = WorkerBack(f.at)
          /\ UNCHANGED job
    /\ SetTop(t, [f EXCEPT !.at = "scan"])
    /\ lock' = t
    /\ UNCHANGED <<waiting, sem, aborted>>

\* Whether starting on a job takes it off the stack.
LastLate(J) == TaskOf(J).serial \/ job[J].extent = 0       \* mutant
Last(J) == TaskOf(J).serial \/ job[J].extent = 1

\* Work on the job found: a serial job leaves the stack while it is worked on, any
\* other gives up one iteration and leaves with its last.
Start(t) ==
    LET f == Top(t)
        J == wq.jobs[Found(f.owned)]
        serial == TaskOf(J).serial
        js == Considered(f.owned)
        jobs == [WithNext(js) EXCEPT ![J].active = @ + 1,
                                     ![J].min = IF serial THEN @ ELSE @ + 1,
                                     ![J].extent = IF serial THEN @ ELSE @ - 1]
        queue == [wq EXCEPT !.jobs = IF Last(J) THEN WithoutJob(@, J) ELSE @]
    IN
    /\ Searching(t)
    /\ Found(f.owned) # 0
    /\ Acquire(js)
    /\ Reserve(jobs, queue, J, TaskOf(J).min_threads)
    /\ \/ serial /\ SetTop(t, [f EXCEPT !.at = "claim", !.work = J, !.iters = 1,
                                        !.total = 0, !.result = 0])
       \/ ~serial /\ Push(t, [f EXCEPT !.at = "working", !.work = J, !.min = job[J].min],
                       Body(J, job[J].min, 0))
    /\ lock' = NoThread
    /\ UNCHANGED <<waiting, aborted>>

\* A serial job claims as many iterations as its semaphores allow ...
Claim(t) ==
    LET f == Top(t) IN
    /\ At(t, "claim")
    /\ job[f.work].extent - f.total > f.iters
    /\ MakeRunnable(f.work)
    /\ Acquire({f.work})
    /\ job' = WithNext({f.work})
    /\ SetTop(t, [f EXCEPT !.iters = @ + 1])
    /\ UNCHANGED <<wq, waiting, lock, aborted>>

NextIterationAgain(f) == job[f.work].min                   \* mutant
NextIteration(f) == job[f.work].min + f.total

\* ... and does them, or stops if there are none.
RunClaimed(t) ==
    LET f == Top(t)
        more == job[f.work].extent - f.total > f.iters
    IN
    /\ At(t, "claim")
    /\ ~(more /\ MakeRunnable(f.work))
    /\ IF more THEN Acquire({f.work}) /\ job' = WithNext({f.work})
               ELSE UNCHANGED <<sem, job>>
    /\ IF f.iters = 0
       THEN SetTop(t, [f EXCEPT !.at = "working"])
       ELSE Push(t, [f EXCEPT !.at = "working"],
                 Body(f.work, NextIteration(f), f.iters - 1))
    /\ UNCHANGED <<wq, waiting, lock, aborted>>

\* The closure has returned r to worker_thread_already_locked.
Return(t, r) ==
    LET f == stack[t][2]
        serial == TaskOf(f.work).serial
        g == [f EXCEPT !.result = r,
                       !.total = IF serial THEN @ + f.iters ELSE @,
                       !.iters = 0,
                       !.at = IF serial /\ r = 0 THEN "claim" ELSE "working"]
    IN stack' = [stack EXCEPT ![t] = <<g>> \o Tail(Tail(@))]

OutcomeOfLast(J, r) == r                                   \* mutant
Outcome(J, r) == IF r # 0 THEN r ELSE job[J].exit

\* The owner of J is to be woken once the thread at work on it has left.
WakesOwnerTooSoon(J, extent, exit) ==                       \* mutant
    job[J].active = 0 /\ (extent = 0 \/ exit # 0) /\ job[J].sleeping
WakesOwner(J, extent, exit) ==
    job[J].active = 1 /\ (extent = 0 \/ exit # 0) /\ job[J].sleeping

\* The iterations just completed.
Iterations(f, r) ==
    IF TaskOf(f.work).serial THEN job[f.work].min .. job[f.work].min + f.total - 1
    ELSE IF r = 0 THEN {f.min} ELSE {}

\* The end of a round: with the lock again, account for what was done, mark the
\* siblings of a failed job and wake owners.
Finish(t) ==
    LET f == Top(t)
        J == f.work
        r == f.result
        serial == TaskOf(J).serial
        mates == {job[J].siblings[i] : i \in 1..Len(job[J].siblings)}
        extent == IF ~serial THEN job[J].extent
                  ELSE IF r # 0 THEN 0 ELSE job[J].extent - f.total
        marked == {K \in mates \ {J} : r # 0 /\ job[K].exit = 0}
        exit == Outcome(J, r)
        wakeOwners == \E K \in marked : job[J].active = 0 /\ job[K].sleeping
        jobs == [K \in DOMAIN job |->
                    IF K = J THEN [job[J] EXCEPT !.extent = extent, !.exit = exit,
                                     !.active = @ - 1,
                                     !.min = IF serial THEN @ + f.total ELSE @,
                                     !.done = @ \cup Iterations(f, r)]
                    ELSE IF K \in marked THEN [job[K] EXCEPT !.exit = r]
                    ELSE job[K]]
        queue == [wq EXCEPT !.jobs = IF serial /\ extent > 0 THEN <<J>> \o @ ELSE @]
    IN
    /\ lock = NoThread
    /\ At(t, "working")
    /\ Reserve(jobs, queue, J, 0 - TaskOf(J).min_threads)
    /\ IF wakeOwners \/ WakesOwner(J, extent, exit) THEN Broadcast({"owners"}) ELSE UNCHANGED waiting
    /\ SetTop(t, [f EXCEPT !.at = "scan", !.work = NoJob, !.min = 0, !.result = 0,
                        !.total = 0])
    /\ lock' = t
    /\ UNCHANGED <<sem, aborted>>

\* The loop is over: a worker thread ends, an owner goes on to join the next job.
Leave(t) ==
    LET f == Top(t) IN
    /\ Scanning(t)
    /\ LoopDone(f.owned)
    /\ IF f.owned = NoJob
       THEN stack' = [stack EXCEPT ![t] = <<>>] /\ lock' = NoThread
       ELSE stack' = [stack EXCEPT ![t] = Tail(@)] /\ UNCHANGED lock
    /\ UNCHANGED <<wq, waiting, job, sem, aborted>>
----------------------------------------------------------------------------
(* halide_do_parallel_tasks and halide_do_par_for *)

\* The body below the top frame of t continues after a call that returned r: the code
\* the compiler emits asserts that r is zero.
Resumed(f, r) == IF r = 0 THEN [f EXCEPT !.op = @ + 1] ELSE [f EXCEPT !.at = "failing"]

JoinNext(t) ==
    LET f == Top(t)
        status == IF job[f.jobs[f.i]].exit # 0 THEN job[f.jobs[f.i]].exit ELSE f.status
        gone == {f.jobs[i] : i \in 1..Len(f.jobs)}
    IN
    /\ lock = t
    /\ At(t, "join")
    /\ \/ /\ f.i < Len(f.jobs)
          /\ Push(t, Join(f.jobs, f.i + 1, status), Loop(f.jobs[f.i + 1], "scan"))
          /\ UNCHANGED <<lock, job, sem>>
       \/ /\ f.i = Len(f.jobs)
          /\ stack' = [stack EXCEPT ![t] = <<Resumed(stack[t][2], status)>> \o Tail(Tail(@))]
          /\ lock' = NoThread
          /\ job' = [J \in DOMAIN job \ gone |-> job[J]]
          /\ sem' = [s \in {s \in DOMAIN sem : <<s[1], s[2]>> # <<f.jobs[1][1], f.jobs[1][2]>>}
                        |-> sem[s]]
    /\ UNCHANGED <<wq, waiting, aborted>>

Clamp(n) == IF n > MaxThreads THEN MaxThreads ELSE IF n < 1 THEN 1 ELSE n

NewJob(siblings, parent, par_for, k) ==
    [extent |-> Task[k].extent, min |-> 0, active |-> 0, exit |-> 0, next |-> 0,
     sleeping |-> FALSE, reserved |-> 0, siblings |-> siblings, parent |-> parent,
     par_for |-> par_for, done |-> {}]

\* Enough worker threads for a call that needs n of the desired ones.
Enough(n, desired, min_threads) ==
    n >= desired - 1 /\ n + 1 - wq.threads_reserved >= min_threads

\* enqueue_work_already_locked for the tasks ks with the semaphores of inits; then the
\* caller starts to join the first.  What it adds to threads_reserved it takes back
\* before it lets go of the lock.
Enqueue(t, ks, inits, parent, par_for) ==
    LET f == Top(t)
        ids == [i \in 1..Len(ks) |-> Child(f, ks[i])]
        blocking == \E i \in 1..Len(ks) :
                        Task[ks[i]].min_threads > 0 \/ Task[ks[i]].sems # <<>>
        stealable == \E i \in 1..Len(ks) : Task[ks[i]].min_threads = 0
        min_threads == MapThenSumSet(LAMBDA i : Task[ks[i]].min_threads, 1..Len(ks))
                        + IF parent = NoParent /\ blocking THEN 1 ELSE 0
        workers_to_wake ==
            MapThenSumSet(LAMBDA i : IF Task[ks[i]].serial THEN 1 ELSE Task[ks[i]].extent,
                          1..Len(ks)) - 1
        desired == IF wq.initialized THEN wq.desired_threads_working
                   ELSE Clamp(IF wq.desired_threads_working = 0 THEN DefaultThreads
                              ELSE wq.desired_threads_working)
        created == IF parent # NoParent THEN wq.threads_created
                   ELSE CHOOSE n \in wq.threads_created..MaxThreads :
                          /\ n = MaxThreads \/ Enough(n, desired, min_threads)
                          /\ \A m \in wq.threads_created..(n - 1) : ~Enough(m, desired, min_threads)
        a_team_size == wq.a_team_size + created - wq.threads_created
        nested == wq.owners_sleeping > 0 \/ wq.workers_sleeping < created
        target == IF nested \/ workers_to_wake > wq.workers_sleeping THEN created
                  ELSE workers_to_wake
        overcommit == parent # NoParent /\
            min_threads > Task[parent[3]].min_threads * job[parent].active
                            - job[parent].reserved
    IN
    /\ lock = NoThread
    /\ aborted' = overcommit
    /\ wq' = [wq EXCEPT !.initialized = TRUE, !.desired_threads_working = desired,
                        !.threads_created = created, !.a_team_size = a_team_size,
                        !.target_a_team_size = target, !.jobs = ids \o @]
    /\ job' = [J \in DOMAIN job \cup {ids[i] : i \in 1..Len(ids)} |->
                  IF J \in DOMAIN job THEN job[J] ELSE NewJob(ids, parent, par_for, J[3])]
    /\ sem' = [s \in DOMAIN sem \cup {<<f.job, f.it, x[1]>> : x \in inits} |->
                  IF s \in DOMAIN sem THEN sem[s]
                  ELSE (CHOOSE x \in inits : x[1] = s[3])[2]]
    /\ Broadcast({"a_team"}
          \cup (IF target > a_team_size THEN {"b_team"} ELSE {})
          \cup (IF target > a_team_size /\ stealable THEN {"owners"} ELSE {}))
    /\ stack' = [u \in Threads |->
                  IF overcommit THEN <<>>
                  ELSE IF u = t THEN <<Loop(ids[1], "scan"), Join(ids, 1, 0)>> \o stack[t]
                  ELSE IF u \in (wq.threads_created + 1)..created THEN <<Loop(NoJob, "start")>>
                  ELSE stack[u]]
    /\ lock' = t
----------------------------------------------------------------------------
(* Bodies: what the compiled closures and the clients call *)

Op(t) == Ops(Top(t).job)[Top(t).op]
InBody(t) == At(t, "body")
HasOp(t, name) ==
    InBody(t) /\ Top(t).op <= Len(Ops(Top(t).job)) /\ Op(t).op = name

Advance(t) == SetTop(t, [Top(t) EXCEPT !.op = @ + 1])

\* halide_do_parallel_tasks; inside a task the task is the parent.
CallParallelTasks(t) ==
    /\ HasOp(t, "parallel_tasks")
    /\ Enqueue(t, Op(t).tasks, Op(t).init, TaskParent(Top(t).job), FALSE)

\* halide_do_par_for never has a parent; a size of zero or less returns at once.
CallParFor(t) ==
    /\ HasOp(t, "par_for")
    /\ IF Task[Op(t).task].extent <= 0
       THEN Advance(t) /\ UNCHANGED <<wq, waiting, lock, job, sem, aborted>>
       ELSE Enqueue(t, <<Op(t).task>>, {}, NoParent, TRUE)

Wakes(s, n) == sem[s] = 0 /\ n # 0

\* halide_semaphore_release: wakes the pool, with the lock, only if the count was zero.
Release(t) ==
    LET s == SemOf(Top(t).job, Op(t).sem) IN
    /\ HasOp(t, "release")
    /\ sem' = [sem EXCEPT ![s] = @ + Op(t).n]
    /\ IF Wakes(s, Op(t).n) THEN SetTop(t, [Top(t) EXCEPT !.at = "released"])
                                    ELSE Advance(t)
    /\ UNCHANGED <<wq, waiting, lock, job, aborted>>

ReleaseBroadcast(t) ==
    /\ lock = NoThread
    /\ At(t, "released")
    /\ Broadcast({"a_team", "owners"})
    /\ SetTop(t, [Top(t) EXCEPT !.at = "body", !.op = @ + 1])
    /\ UNCHANGED <<wq, lock, job, sem, aborted>>

\* A pipeline stage that may fail.
Work(t) ==
    /\ HasOp(t, "may_fail")
    /\ Advance(t) \/ SetTop(t, [Top(t) EXCEPT !.at = "failing"])
    /\ UNCHANGED <<wq, waiting, lock, job, sem, aborted>>

SetNumThreads(t) ==
    /\ HasOp(t, "set_num_threads")
    /\ lock = NoThread
    /\ wq' = [wq EXCEPT !.desired_threads_working =
                    Clamp(IF Op(t).n = 0 THEN DefaultThreads ELSE Op(t).n)]
    /\ Advance(t)
    /\ UNCHANGED <<waiting, lock, job, sem, aborted>>

\* The end of an iteration, of a closure, and of a client's call that failed.
EndBody(t) ==
    LET f == Top(t) IN
    /\ \/ InBody(t) /\ f.op > Len(Ops(f.job)) /\ ~IsClient(f.job)
       \/ At(t, "failing")
    /\ IF IsClient(f.job) THEN SetTop(t, [f EXCEPT !.at = "body", !.op = @ + 1])
       ELSE IF f.at = "failing" THEN Return(t, 1)
       ELSE IF f.left = 0 THEN Return(t, 0)
       ELSE SetTop(t, Body(f.job, f.it + 1, f.left - 1))
    /\ UNCHANGED <<wq, waiting, lock, job, sem, aborted>>
----------------------------------------------------------------------------
(* halide_shutdown_thread_pool *)

Shutdown(t) ==
    /\ HasOp(t, "shutdown")
    /\ IF ~wq.initialized THEN Advance(t) /\ UNCHANGED <<wq, waiting>>
       ELSE /\ lock = NoThread
            /\ wq' = [wq EXCEPT !.shutdown = TRUE]
            /\ Broadcast(Conds)
            /\ SetTop(t, [Top(t) EXCEPT !.at = "joining"])
    /\ UNCHANGED <<lock, job, sem, aborted>>

ResetQueue == [jobs |-> <<>>, threads_created |-> 0, a_team_size |-> 0,
               target_a_team_size |-> 0, workers_sleeping |-> 0, owners_sleeping |-> 0,
               shutdown |-> FALSE, initialized |-> FALSE, threads_reserved |-> 0]

\* All workers have been joined: reset everything but the desired number of threads.
Joined(t) ==
    /\ At(t, "joining")
    /\ \A n \in 1..wq.threads_created : stack[n] = <<>>
    /\ wq' = [f \in DOMAIN wq |->
                IF f = "desired_threads_working" THEN wq[f] ELSE ResetQueue[f]]
    /\ SetTop(t, [Top(t) EXCEPT !.at = "body", !.op = @ + 1])
    /\ UNCHANGED <<waiting, lock, job, sem, aborted>>
----------------------------------------------------------------------------
Init ==
    /\ wq = [f \in DOMAIN ResetQueue \cup {"desired_threads_working"} |->
                IF f = "desired_threads_working" THEN 0 ELSE ResetQueue[f]]
    /\ waiting = [c \in Conds |-> {}]
    /\ lock = NoThread
    /\ job = <<>>
    /\ sem = <<>>
    /\ \E running \in Together :
          stack = [t \in Threads |-> IF t \in running THEN <<Body(<<t>>, 0, 0)>> ELSE <<>>]
    /\ aborted = FALSE

Step(t) ==
    \/ DropFailed(t) \/ InheritFailure(t) \/ Sleep(t) \/ Wake(t) \/ Start(t)
    \/ Claim(t) \/ RunClaimed(t) \/ Finish(t) \/ Leave(t) \/ JoinNext(t)
    \/ CallParallelTasks(t) \/ CallParFor(t) \/ Release(t) \/ ReleaseBroadcast(t)
    \/ Work(t) \/ SetNumThreads(t) \/ EndBody(t) \/ Shutdown(t) \/ Joined(t)

Next == \E t \in Threads : Step(t)

Spec == Init /\ [][Next]_vars

\* Every thread inside the library, or in a closure, keeps running.
FairSpec == Spec /\ \A t \in Threads : WF_vars(Step(t))
----------------------------------------------------------------------------
(* Correctness *)

\* The frames of all threads, counted from the outermost.
Frames   == UNION {{t} \X (1..Len(stack[t])) : t \in Threads}
Frame(p) == stack[p[1]][Len(stack[p[1]]) + 1 - p[2]]

\* The frames that are at work on a job, and the calls of its closure.
Working(p)   == Frame(p).at \in {"claim", "working"}
WorkersOn(J) == {p \in Frames : Working(p) /\ Frame(p).work = J}
Calling(p)   == Frame(p).at \in {"body", "released", "failing"}
Calls(J)     == {p \in Frames : Calling(p) /\ Frame(p).job = J}

TypeOK ==
    /\ \A J \in DOMAIN job :
          /\ job[J].extent \in 0..TaskOf(J).extent
          /\ job[J].active \in 0..TaskOf(J).extent
          /\ job[J].next \in 0..Len(TaskOf(J).sems)
          /\ job[J].exit \in {0, 1}
    /\ lock \in Threads \cup {NoThread}
    /\ \A s \in DOMAIN sem : sem[s] \in Nat
    /\ wq.threads_created \in 0..MaxThreads
    /\ \A c \in Conds : waiting[c] \subseteq Threads

\* A job with iterations left is on the stack exactly once, unless it is serial and
\* being worked on; the owner of a failed job that looks for it there finds it.
StackHoldsJobs ==
    \A J \in DOMAIN job :
        LET places == {p \in 1..Len(wq.jobs) : wq.jobs[p] = J} IN
        Cardinality(places) =
            IF job[J].extent > 0 /\ ~(TaskOf(J).serial /\ job[J].active > 0) THEN 1 ELSE 0

\* work structures live on their owner's stack: nothing on the job stack, no thread at
\* work, no child job and no sibling refers to one whose owner has returned; and the
\* stack holds all that can be worked on.
NoDanglingJob ==
    /\ StackHoldsJobs
    /\ \A p \in 1..Len(wq.jobs) : wq.jobs[p] \in DOMAIN job
    /\ \A p \in Frames : Working(p) => Frame(p).work \in DOMAIN job
    /\ \A J \in DOMAIN job :
          /\ Parent(J) # NoParent => Parent(J) \in DOMAIN job /\ job[Parent(J)].active > 0
          /\ \A i \in 1..Len(job[J].siblings) : job[J].siblings[i] \in DOMAIN job

\* active_workers and both kinds of threads_reserved count exactly the threads at work.
CountsExact ==
    LET ReservedFrom(P) == MapThenSumSet(LAMBDA K : job[K].active * TaskOf(K).min_threads,
                                         {K \in DOMAIN job : Parent(K) = P})
    IN
    /\ \A J \in DOMAIN job :
          /\ job[J].active = Cardinality(WorkersOn(J))
          /\ job[J].reserved = ReservedFrom(J)
    /\ wq.threads_reserved = ReservedFrom(NoParent)

\* How many iterations of a serial job have begun, and how many have got past their
\* o-th operation.
CallOf(J) == Frame(CHOOSE p \in Calls(J) : TRUE)
Ended(J)  == job[J].min + (IF WorkersOn(J) = {} THEN 0
                           ELSE Frame(CHOOSE p \in WorkersOn(J) : TRUE).total)
Begun(J)  == IF Calls(J) = {} THEN Ended(J) ELSE CallOf(J).it + 1
Passed(J, o) ==
    IF Calls(J) = {} THEN Ended(J)
    ELSE CallOf(J).it + (IF CallOf(J).op > o \/ (CallOf(J).op = o /\ CallOf(J).at = "released")
                         THEN 1 ELSE 0)

\* A serial job is worked on by one thread at a time, which takes its iterations in
\* order and calls the closure for one slice at a time.
SerialInOrder ==
    \A J \in DOMAIN job : TaskOf(J).serial =>
        /\ Cardinality(WorkersOn(J)) <= 1
        /\ Cardinality(Calls(J)) <= 1
        /\ Calls(J) # {} => CallOf(J).it >= Ended(J)

\* The sleep counters, which decide whom an enqueue wakes, count the threads that wait
\* or are about to return from a wait; the A team is the rest.
Sleeping(l) == {t \in Threads : stack[t] # <<>> /\ Top(t).at \in l}
TeamsExact ==
    /\ wq.workers_sleeping = Cardinality(Sleeping({"a_team", "b_team"}))
    /\ wq.owners_sleeping = Cardinality(Sleeping({"owners"}))
    /\ wq.initialized /\ ~wq.shutdown =>
          wq.a_team_size = wq.threads_created - Cardinality(Sleeping({"b_team"}))

\* A call returns success only when every iteration of every task has been completed.
CompleteOnReturn ==
    \A t \in Threads :
        At(t, "join") /\ Top(t).i = Len(Top(t).jobs) /\ Top(t).status = 0
            /\ job[Top(t).jobs[Top(t).i]].exit = 0 =>
          \A i \in 1..Len(Top(t).jobs) :
              LET J == Top(t).jobs[i] IN job[J].done = 0..TaskOf(J).extent - 1

\* "Logic error: thread over commit." never fires.
NeverAborts == ~aborted

\* Every call returns, whatever the order in which threads, releases and failures
\* interleave: the clients that run get through their programs, and stay there.
ClientDone(c) == Len(stack[c]) = 1 /\ At(c, "body") /\ Top(c).op > Len(Main[c])
EveryCallReturns == <>(\A c \in Clients : stack[c] = <<>> \/ ClientDone(c))
=============================================================================
