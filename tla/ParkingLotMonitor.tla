------------------------- MODULE ParkingLotMonitor -------------------------
(***************************************************************************)
(* The refinement mapping from ParkingLot to Monitor.  A mutex is held by  *)
(* its owner.  The registered threads are those asleep on the condition; a *)
(* broadcast takes them all when its validate succeeds, since from then on *)
(* to the end of its requeue the bucket is locked and nobody can join.     *)
(***************************************************************************)
EXTENDS ParkingLot

HolderOf(m) ==
    IF Held(m) THEN CHOOSE t \in Threads : Owns(t) /\ mx[t] = m ELSE NoThread

Taken(c) == \E t \in Threads : pc[t] \in {"mark", "requeue"} /\ cv[t] = c

WaitingOn(c) ==
    IF Taken(c) THEN {} ELSE {<<u, mx[u]>> : u \in {u \in Threads : Queued(c, u)}}

CallInProgress(t) ==
    CASE pc[t] \in {"signal", "signal_one"} -> <<"signal", cv[t]>>
      [] pc[t] = "broadcast" -> <<"broadcast", cv[t]>>
      [] pc[t] \in {"lock_first", "lock_second", "validate"} -> <<"broadcast", cv[t], val[t]>>
      [] OTHER -> <<"no">>

M == INSTANCE Monitor WITH
        holder    <- [m \in Mutexes |-> HolderOf(m)],
        waiting   <- [c \in Conds |-> WaitingOn(c)],
        notifying <- [t \in Threads |-> CallInProgress(t)]

\* halide_mutex and halide_cond are a monitor: no waiter gets the mutex before it was
\* notified, a signal takes a waiter if there is one, a broadcast all of them unless
\* the condition has passed to another mutex since it looked, and the early returns
\* for an unassociated condition happen only when nobody waits.
MonitorSpec == M!MonitorSpec
=============================================================================
