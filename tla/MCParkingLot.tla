---------------------------- MODULE MCParkingLot ----------------------------
(***************************************************************************)
(* Two instances of ParkingLot in one run, chosen at the start.            *)
(*                                                                         *)
(* "shared": four threads use one mutex and one condition of different     *)
(* buckets; the fourth only locks, waits and unlocks.                      *)
(* "crossed": three threads use two mutexes and two conditions whose       *)
(* hashes cross, and any condition with any mutex, but notify only by      *)
(* broadcasts, which lock the pair of buckets in opposite directions.      *)
(***************************************************************************)
EXTENDS ParkingLotMonitor, TLC

CONSTANTS t1, t2, t3, t4, m1, m2, c1, c2

VARIABLE instance

Crossing == (m1 :> 1) @@ (c1 :> 2) @@ (c2 :> 1) @@ (m2 :> 2)

\* Every thread may call everything, as far as the instance goes.
AnyCall  == [t \in Threads |-> Calls]

InInstance(t) ==
    \/ /\ instance = "shared"
       /\ mx[t] \in {m2, NoMutex} /\ cv[t] \in {c2, NoCond}
       /\ t = t4 => pc[t] \notin Notifying
    \/ /\ instance = "crossed"
       /\ t # t4 /\ pc[t] # "signal"

MCInit == Init /\ instance \in {"shared", "crossed"}

MCNext ==
    /\ UNCHANGED instance
    /\ \E t \in Threads : Internal(t) \/ (Call(t) /\ InInstance(t)')

MCSpec ==
    /\ MCInit /\ [][MCNext]_<<vars, instance>>
    /\ \A t \in Threads : WF_vars(Internal(t))

\* Progress, when there is one mutex.  A thread that parks on a mutex of a bucket
\* which others lock again and again, for another mutex, may starve: word_lock lets
\* them overtake.
ProgressWhenShared ==
    \A m \in Mutexes : (instance = "shared" /\ Wanted(m)) ~> Held(m)

\* The state without what the locals of calls that have returned last held.
LiveState ==
    LET Live(t, f, labels) == IF pc[t] \in labels THEN f[t] ELSE "dead" IN
    <<instance, words, queue, bucket, should_park, pc, unparkee,
      [t \in Threads |->
         << Live(t, val, {"lock_first", "lock_second", "validate", "mark", "requeue"}),
            Live(t, one, {"requeue"}),
            Live(t, cv, {"wait"} \cup (Notifying \ {"unpark"})),
            Live(t, ret, {"unlock", "unlock_full"} \cup Notifying),
            IF pc[t] = "idle" \/ (pc[t] \in Notifying /\ ret[t] = "idle")
              THEN NoMutex ELSE mx[t] >>]>>
=============================================================================
