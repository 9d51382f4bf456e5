----------------------------- MODULE TaskGather -----------------------------
(***************************************************************************)
(* The loop with which halide_default_do_parallel_tasks copies the tasks   *)
(* it is given into the jobs on its stack, leaving out those with nothing  *)
(* to do.  ThreadPool takes the loop's result where every task has work.   *)
(***************************************************************************)
EXTENDS Integers, Sequences

CONSTANTS
    MaxTasks,       \* the longest array of tasks
    Extents         \* the extents a task may have

VARIABLES
    extent,         \* the extents of the array of tasks
    tasks,          \* the index of the task the pointer is at
    num_tasks,
    i,
    jobs            \* jobs[j] is the index of the task in job j, 0 if not written

vars == <<extent, tasks, num_tasks, i, jobs>>

Init ==
    /\ extent \in UNION {[1..n -> Extents] : n \in 1..MaxTasks}
    /\ tasks = 1
    /\ num_tasks = Len(extent)
    /\ i = 1
    /\ jobs = [j \in 1..Len(extent) |-> 0]

Skip ==
    /\ i <= num_tasks
    /\ extent[tasks] <= 0
    /\ num_tasks' = num_tasks - 1
    /\ i' = i + 1
    /\ UNCHANGED <<extent, tasks, jobs>>

Copy ==
    /\ i <= num_tasks
    /\ extent[tasks] > 0
    /\ jobs' = [jobs EXCEPT ![i] = tasks]
    /\ tasks' = tasks + 1
    /\ i' = i + 1
    /\ UNCHANGED <<extent, num_tasks>>

Next == Skip \/ Copy

Spec == Init /\ [][Next]_vars

\* "Skip extent zero jobs": the jobs enqueued are those with iterations to run.
SkipsEmptyTasksOnly ==
    i > num_tasks =>
        SubSeq(jobs, 1, num_tasks)
            = SelectSeq([j \in 1..Len(extent) |-> j], LAMBDA j : extent[j] > 0)
=============================================================================
