---------------------------- MODULE SpinningCond ----------------------------
(***************************************************************************)
(* halide_cond_with_spinning of thread_pool_common.h: a condition variable *)
(* whose waiters watch a counter for a while before they sleep.  The mutex *)
(* and the condition below it are those of Monitor; every broadcast is     *)
(* made with the mutex held, as all of the thread pool's are.              *)
(***************************************************************************)
EXTENDS Integers

CONSTANTS
    Threads,
    Spins,              \* how often a waiter looks before it gives up (40)
    MaxBroadcasts,      \* bound on the counter
    NoThread

VARIABLES
    holder,             \* the thread that holds the mutex
    counter,
    asleep,             \* the threads in halide_cond_wait
    pc,
    initial,            \* the counter a waiter began with
    spin

vars == <<holder, counter, asleep, pc, initial, spin>>

Go(t, l) == pc' = [pc EXCEPT ![t] = l]

Init ==
    /\ holder = NoThread
    /\ counter = 0
    /\ asleep = {}
    /\ pc = [t \in Threads |-> "outside"]
    /\ initial = [t \in Threads |-> 0]
    /\ spin = [t \in Threads |-> 0]

Lock(t) ==
    /\ pc[t] = "outside"
    /\ holder = NoThread
    /\ holder' = t
    /\ Go(t, "inside")
    /\ UNCHANGED <<counter, asleep, initial, spin>>

Unlock(t) ==
    /\ pc[t] = "inside"
    /\ holder' = NoThread
    /\ Go(t, "outside")
    /\ UNCHANGED <<counter, asleep, initial, spin>>

\* The counter is read before the mutex is given up.
BeginWait(t) ==
    /\ pc[t] = "inside"
    /\ initial' = [initial EXCEPT ![t] = counter]
    /\ Go(t, "begin")
    /\ UNCHANGED <<holder, counter, asleep, spin>>

StartSpinning(t) ==
    /\ pc[t] = "begin"
    /\ holder' = NoThread
    /\ spin' = [spin EXCEPT ![t] = 0]
    /\ Go(t, "spin")
    /\ UNCHANGED <<counter, asleep, initial>>

SpinAndReturn(t) ==                                        \* mutant
    /\ pc[t] = "spin"
    /\ spin' = [spin EXCEPT ![t] = @ + 1]
    /\ Go(t, IF spin[t] + 1 < Spins THEN "spin" ELSE "relock")
    /\ UNCHANGED <<holder, counter, asleep, initial>>
\* One look at the counter.
Spin(t) ==
    /\ pc[t] = "spin"
    /\ IF counter # initial[t] THEN Go(t, "relock") /\ UNCHANGED spin
       ELSE /\ spin' = [spin EXCEPT ![t] = @ + 1]
            /\ Go(t, IF spin[t] + 1 < Spins THEN "spin" ELSE "give_up")
    /\ UNCHANGED <<holder, counter, asleep, initial>>

Return(t) ==
    /\ pc[t] = "relock"
    /\ holder = NoThread
    /\ holder' = t
    /\ Go(t, "inside")
    /\ UNCHANGED <<counter, asleep, initial, spin>>

\* The last look, with the mutex held again.
Recheck(t) ==
    /\ pc[t] = "give_up"
    /\ holder = NoThread
    /\ holder' = t
    /\ Go(t, IF counter # initial[t] THEN "inside" ELSE "sleep")
    /\ UNCHANGED <<counter, asleep, initial, spin>>

\* halide_cond_wait: asleep and without the mutex at once.
Sleep(t) ==
    /\ pc[t] = "sleep"
    /\ holder' = NoThread
    /\ asleep' = asleep \cup {t}
    /\ Go(t, "asleep")
    /\ UNCHANGED <<counter, initial, spin>>

Awake(t) ==
    /\ pc[t] = "asleep"
    /\ t \notin asleep
    /\ holder = NoThread
    /\ holder' = t
    /\ Go(t, "inside")
    /\ UNCHANGED <<counter, asleep, initial, spin>>

CallBroadcast(t) ==
    /\ pc[t] = "inside"
    /\ counter < MaxBroadcasts
    /\ Go(t, "broadcast")
    /\ UNCHANGED <<holder, counter, asleep, initial, spin>>

ReleaseSpinning(t) ==
    /\ pc[t] = "broadcast"
    /\ counter' = counter + 1
    /\ Go(t, "broadcast_cond")
    /\ UNCHANGED <<holder, asleep, initial, spin>>

ReleaseSleeping(t) ==
    /\ pc[t] = "broadcast_cond"
    /\ asleep' = {}
    /\ Go(t, "inside")
    /\ UNCHANGED <<holder, counter, initial, spin>>

Waiting(t) ==
    BeginWait(t) \/ StartSpinning(t) \/ Spin(t) \/ Return(t) \/ Recheck(t) \/ Sleep(t)
        \/ Awake(t)

Broadcasting(t) == CallBroadcast(t) \/ ReleaseSpinning(t) \/ ReleaseSleeping(t)

Next == \E t \in Threads : Lock(t) \/ Unlock(t) \/ Waiting(t) \/ Broadcasting(t)

Spec == Init /\ [][Next]_vars
----------------------------------------------------------------------------
\* Nobody sleeps through a broadcast: a thread asleep has seen every increment of the
\* counter, but for that of a broadcast that is about to wake it.
NoSleeperMissed ==
    \A t \in asleep : counter # initial[t] => \E u \in Threads : pc[u] = "broadcast_cond"

\* A waiter is registered from its look at the counter to the next increment, whether it
\* spins or sleeps; while it makes the last look it holds the mutex only to sleep.
WaitersNow ==
    {t \in Threads : /\ pc[t] \in {"begin", "spin", "give_up", "sleep", "asleep"}
                     /\ counter = initial[t]}

M == INSTANCE Monitor WITH
        Mutexes   <- {"mutex"},
        Conds     <- {"cond"},
        holder    <- [m \in {"mutex"} |->
                        IF \E t \in Threads : pc[t] = "sleep" THEN NoThread ELSE holder],
        waiting   <- [c \in {"cond"} |-> WaitersNow \X {"mutex"}],
        notifying <- [t \in Threads |-> IF pc[t] = "broadcast" THEN <<"broadcast", "cond">>
                                        ELSE <<"no">>]

\* The spinning variant is a condition variable as the others are: a waiter does not
\* have the mutex again before a broadcast, and a broadcast takes all waiters.
MonitorSpec == M!MonitorSpec
=============================================================================
