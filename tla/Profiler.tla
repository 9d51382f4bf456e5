------------------------------ MODULE Profiler ------------------------------
(* src/runtime/profiler_common.cpp and profiler_inlined.cpp: the instances of    *)
(* pipelines that run, in a doubly linked list under the profiler's lock; the    *)
(* thread that samples them; and what the threads of an instance count without   *)
(* the lock.  A pipeline does what Profiling.cpp injects into it: here, one      *)
(* parallel loop or one call of a remote device.                                 *)
EXTENDS Integers, FiniteSetsExt

CONSTANTS Instances, Threads,
          ListHead, Null,           \* the address of halide_profiler_state::instances
          Iterations            \* of a parallel loop

VARIABLES
    first,              \* instances
    next, prev_next,    \* next; whose next, or ListHead, points to the instance
    stats,              \* there are statistics of the pipeline
    remote,             \* get_remote_profiler_state is set
    sampler,            \* is there a sampling_thread: "none", "running", "done"
    shutdown,
    exit,               \* where the thread that shuts the profiler down is
    run,                \* where the main thread of each instance is
    left,               \* iterations that nobody has begun
    active,             \* active_threads
    token,              \* shared sampling token, 0 when it is free
    memory, peak,       \* memory_current, memory_peak
    task,               \* where each thread is in its iteration, of which instance
    local,              \* its local sampling token
    sum,                \* memory_current after its allocation
    high                \* the most memory an instance ever had

list == <<first, next, prev_next>>
state == <<stats, remote, sampler, shutdown, exit>>
counters == <<active, token, memory, peak, high>>
tasks == <<task, local, sum>>
vars == <<list, state, run, left, counters, tasks>>

Outside == [at |-> "outside", of |-> Null]

Init ==
    /\ first = Null
    /\ next = [i \in Instances |-> Null] /\ prev_next = [i \in Instances |-> Null]
    /\ stats = FALSE /\ remote = FALSE
    /\ sampler = "none" /\ shutdown = FALSE /\ exit = "not_yet"
    /\ run = [i \in Instances |-> "idle"]
    /\ left = [i \in Instances |-> 0]
    /\ active = [i \in Instances |-> 0] /\ token = [i \in Instances |-> 0]
    /\ memory = [i \in Instances |-> 0] /\ peak = [i \in Instances |-> 0]
    /\ high = [i \in Instances |-> 0]
    /\ task = [t \in Threads |-> Outside]
    /\ local = [t \in Threads |-> 1]
    /\ sum = [t \in Threads |-> 0]
-----------------------------------------------------------------------------
(* halide_profiler_instance_start and halide_profiler_instance_end *)

Cleared(f, i) == [f EXCEPT ![i] = 0]

\* The instance is pushed on the list; its first statistics may find no memory.  The
\* pipeline counts its main thread.
Start(i) ==
    /\ run[i] = "idle"
    /\ first = Null \/ ~remote
    /\ next' = [next EXCEPT ![i] = first]
    /\ prev_next' = [j \in Instances |-> IF j = first THEN i ELSE IF j = i THEN ListHead ELSE prev_next[j]]
    /\ first' = i
    /\ \/ /\ stats' = TRUE
          /\ sampler' = IF sampler = "none" THEN "running" ELSE sampler
          /\ run' = [run EXCEPT ![i] = "running"]
          /\ active' = [active EXCEPT ![i] = 1]
       \/ /\ ~stats
          /\ run' = [run EXCEPT ![i] = "ending"]
          /\ active' = Cleared(active, i)
          /\ UNCHANGED <<stats, sampler>>
    /\ left' = [left EXCEPT ![i] = Iterations]
    /\ token' = Cleared(token, i)
    /\ memory' = Cleared(memory, i) /\ peak' = Cleared(peak, i) /\ high' = Cleared(high, i)
    /\ UNCHANGED <<remote, shutdown, exit, tasks>>

\* Another pipeline runs remotely.  The first instance already points back to this one,
\* whose destructor goes on to End.
Refuse(i) ==
    /\ run[i] = "idle"
    /\ first # Null /\ remote
    /\ prev_next' = [prev_next EXCEPT ![first] = i, ![i] = Null]
    /\ next' = [next EXCEPT ![i] = Null]
    /\ run' = [run EXCEPT ![i] = "ending"]
    /\ UNCHANGED <<first, state, left, counters, tasks>>

\* The next instance points back past i.
Relinked(i) == [j \in Instances |-> IF j = next[i] THEN prev_next[i] ELSE prev_next[j]]

End(i) ==
    /\ run[i] = "ending"
    /\ prev_next[i] # Null              \* a store through a null pointer
    /\ first' = IF prev_next[i] = ListHead THEN next[i] ELSE first
    /\ next' = [j \in Instances |-> IF j = prev_next[i] THEN next[i] ELSE next[j]]
    /\ prev_next' = Relinked(i)
    /\ run' = [run EXCEPT ![i] = "idle"]
    /\ UNCHANGED <<state, left, counters, tasks>>
-----------------------------------------------------------------------------
(* A parallel loop: suspend_thread, activate_thread and claim_sampling_token *)

Add(f, i, n) == [f EXCEPT ![i] = @ + n]

Work(i) == {t \in Threads : task[t].of = i}

EnterLoop(i) ==
    /\ run[i] = "running"
    /\ run' = [run EXCEPT ![i] = "loop"]
    /\ active' = Add(active, i, -1)
    /\ UNCHANGED <<list, state, left, token, memory, peak, high, tasks>>

LeaveLoop(i) ==
    /\ run[i] = "loop" /\ left[i] = 0 /\ Work(i) = {}
    /\ run' = [run EXCEPT ![i] = "finishing"]
    /\ active' = Add(active, i, 1)
    /\ UNCHANGED <<list, state, left, token, memory, peak, high, tasks>>

\* The last thing that the main thread does before its destructors.
Finish(i) ==
    /\ run[i] \in {"finishing", "returned"}
    /\ run' = [run EXCEPT ![i] = "ending"]
    /\ active' = Add(active, i, -1)
    /\ UNCHANGED <<list, state, left, token, memory, peak, high, tasks>>

Goto(t, label) == task' = [task EXCEPT ![t].at = label]

BeginTask(t, i) ==
    /\ task[t] = Outside
    /\ run[i] = "loop" /\ left[i] > 0
    /\ left' = Add(left, i, -1)
    /\ active' = Add(active, i, 1)
    /\ task' = [task EXCEPT ![t] = [at |-> "claim", of |-> i]]
    /\ UNCHANGED <<list, state, run, token, memory, peak, high, local, sum>>

\* halide_profiler_acquire_sampling_token
ClaimToken(t) ==
    LET i == task[t].of IN
    /\ task[t].at = "claim"
    /\ local' = [local EXCEPT ![t] = token[i]]
    /\ token' = [token EXCEPT ![i] = 1]
    /\ Goto(t, "work")
    /\ UNCHANGED <<list, state, run, left, active, memory, peak, high, sum>>

\* halide_profiler_memory_allocate, of one unit: the sum first ...
Allocate(t) ==
    LET i == task[t].of IN
    /\ task[t].at = "work"
    /\ memory' = Add(memory, i, 1)
    /\ high' = [high EXCEPT ![i] = Max({@, memory'[i]})]
    /\ sum' = [sum EXCEPT ![t] = memory'[i]]
    /\ Goto(t, "swap")
    /\ UNCHANGED <<list, state, run, left, active, token, peak, local>>

\* ... and then sync_compare_max_and_swap.
Peak(i, n) == Max({peak[i], n})

Swap(t) ==
    LET i == task[t].of IN
    /\ task[t].at = "swap"
    /\ peak' = [peak EXCEPT ![i] = Peak(i, sum[t])]
    /\ sum' = [sum EXCEPT ![t] = 0]
    /\ Goto(t, "hold")
    /\ UNCHANGED <<list, state, run, left, active, token, memory, high, local>>

\* halide_profiler_memory_free
FreeMemory(t) ==
    /\ task[t].at = "hold"
    /\ memory' = Add(memory, task[t].of, -1)
    /\ Goto(t, "release")
    /\ UNCHANGED <<list, state, run, left, active, token, peak, high, local, sum>>

\* halide_profiler_release_sampling_token
ReleaseToken(t) ==
    LET i == task[t].of IN
    /\ task[t].at = "release"
    /\ token' = [token EXCEPT ![i] = IF local[t] = 0 THEN 0 ELSE @]
    /\ local' = [local EXCEPT ![t] = 1]
    /\ Goto(t, "leave")
    /\ UNCHANGED <<list, state, run, left, active, memory, peak, high, sum>>

EndTask(t) ==
    /\ task[t].at = "leave"
    /\ active' = Add(active, task[t].of, -1)
    /\ task' = [task EXCEPT ![t] = Outside]
    /\ UNCHANGED <<list, state, run, left, token, memory, peak, high, local, sum>>
-----------------------------------------------------------------------------
(* A call of a remote device (hexagon_host.cpp), which suspends the thread too *)

CallRemote(i) ==
    /\ run[i] = "running"
    /\ active' = Add(active, i, -1)
    /\ \/ next[first] # Null
          /\ run' = [run EXCEPT ![i] = "ending"]
          /\ UNCHANGED remote
       \/ next[first] = Null
          /\ run' = [run EXCEPT ![i] = "remote"]
          /\ remote' = TRUE
    /\ UNCHANGED <<list, stats, sampler, shutdown, exit, left, token, memory, peak, high, tasks>>

\* A remote pipeline that fails leaves the flag set.
ReturnRemote(i) ==
    /\ run[i] = "remote"
    /\ \/ /\ remote' = FALSE
          /\ run' = [run EXCEPT ![i] = "returned"]
          /\ active' = Add(active, i, 1)
       \/ /\ run' = [run EXCEPT ![i] = "ending"]
          /\ UNCHANGED <<remote, active>>
    /\ UNCHANGED <<list, stats, sampler, shutdown, exit, left, token, memory, peak, high, tasks>>

\* The sampling thread has the device overwrite the count of the first instance.
Poll ==
    /\ sampler = "running" /\ remote /\ first # Null
    /\ \E n \in {0, 1} : active' = [active EXCEPT ![first] = n]
    /\ UNCHANGED <<list, state, run, left, token, memory, peak, high, tasks>>
-----------------------------------------------------------------------------
(* The sampling thread, reset and shutdown *)

StopSampling ==
    /\ sampler = "running"
    /\ shutdown /\ first = Null
    /\ sampler' = "done"
    /\ UNCHANGED <<list, stats, remote, shutdown, exit, run, left, counters, tasks>>

\* It asserts that no pipeline runs.
Reset ==
    /\ first = Null /\ stats
    /\ stats' = FALSE
    /\ UNCHANGED <<list, remote, sampler, shutdown, exit, run, left, counters, tasks>>

Shutdown ==
    /\ exit = "not_yet"
    /\ \/ sampler = "none" /\ exit' = "over" /\ UNCHANGED shutdown
       \/ sampler # "none" /\ exit' = "join" /\ shutdown' = TRUE
    /\ UNCHANGED <<list, stats, remote, sampler, run, left, counters, tasks>>

\* The thread has ended; the report, and the statistics are freed.
Joined ==
    /\ exit = "join" /\ sampler = "done"
    /\ sampler' = "none"
    /\ stats' = FALSE
    /\ exit' = "over"
    /\ UNCHANGED <<list, remote, shutdown, run, left, counters, tasks>>

Sampling == Poll \/ StopSampling

Main(i) ==
    EnterLoop(i) \/ LeaveLoop(i) \/ Finish(i) \/ CallRemote(i) \/ ReturnRemote(i) \/ End(i)

Step(t) ==
    \/ ClaimToken(t) \/ Allocate(t) \/ Swap(t) \/ FreeMemory(t) \/ ReleaseToken(t) \/ EndTask(t)
    \/ \E i \in Instances : BeginTask(t, i)

Next ==
    \/ \E i \in Instances : Start(i) \/ Refuse(i) \/ Main(i)
    \/ \E t \in Threads : Step(t)
    \/ Sampling \/ Reset \/ Shutdown \/ Joined

Spec == Init /\ [][Next]_vars

\* Somebody goes on while a pipeline, or the end of the sampling thread, is under way.
GoesOn ==
    \/ \E i \in Instances : Main(i)
    \/ \E t \in Threads : Step(t)
    \/ StopSampling \/ Joined

Fairness == WF_vars(GoesOn)
-----------------------------------------------------------------------------
\* The instances between start and end.
Started == {i \in Instances : run[i] # "idle"}

Listed ==
    LET L[n \in Nat] == IF n = 0 THEN {first}
                        ELSE L[n - 1] \cup {next[i] : i \in L[n - 1] \ {Null}}
    IN  L[Cardinality(Instances)] \ {Null}

\* Whatever order pipelines start and end in, the list holds those that run, which the
\* sampling thread writes to and which live on the stacks of their threads, and each
\* knows the pointer that points to it.  The statistics they will add to are there, and
\* no other pipeline runs beside a remote one (the assertion in halide_profiler_sample).
ListExact ==
    /\ Listed = Started
    /\ \A i \in Started :
        LET pointer == IF prev_next[i] = ListHead THEN first ELSE next[prev_next[i]] IN
        prev_next[i] # Null /\ pointer = i
    /\ \A i \in Started : run[i] # "ending" => stats
    /\ remote => Cardinality(Started) <= 1

\* "Invariant: shared xor local": one thread at most of an instance says what it is
\* doing.  No peak is missed, and the counters are those of its threads, but the count
\* that is taken from a device.
CountsExact ==
    \A i \in Started :
        LET Allocated == {t \in Work(i) : task[t].at \in {"swap", "hold"}} IN
        /\ Cardinality({t \in Work(i) : local[t] = 0}) = token[i]
        /\ memory[i] = Cardinality(Allocated)
        /\ high[i] = Max({peak[i]} \cup {sum[t] : t \in Allocated})
        /\ remote \/ run[i] \in {"returned", "ending"}
           \/ active[i] = Cardinality(Work(i)) + IF run[i] = "loop" THEN 0 ELSE 1

\* The shutdown, which waits for the pipelines that run, ends.
ShutdownReturns == exit = "join" ~> exit = "over"
=============================================================================
