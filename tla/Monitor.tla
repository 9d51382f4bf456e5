------------------------------ MODULE Monitor ------------------------------
(***************************************************************************)
(* What halide_mutex and halide_cond promise their callers (the thread     *)
(* pool, the memoization cache, device_interface.cpp): a Mesa monitor.  A  *)
(* thread that waits is registered with the condition variable, together   *)
(* with the mutex it is going to release, before it lets go of that mutex. *)
(* All the threads of one condition wait with one mutex at a time.  A      *)
(* signal takes one registered thread.  A broadcast looks at the condition *)
(* and later takes all its threads, unless by then they are others, that   *)
(* wait with another mutex.  A registered thread does not own a mutex      *)
(* again until somebody has taken it off.  ParkingLot.tla is shown to      *)
(* implement this specification.                                           *)
(***************************************************************************)
CONSTANTS Threads, Mutexes, Conds,
          NoThread      \* a mutex nobody holds

VARIABLES holder,       \* [Mutexes -> Threads \cup {NoThread}]
          waiting,      \* [Conds -> SUBSET (Threads \X Mutexes)]
          notifying     \* [Threads -> the signal or broadcast in progress]

monitorVars == <<holder, waiting, notifying>>

MonitorTypeOK ==
    /\ holder \in [Mutexes -> Threads \cup {NoThread}]
    /\ waiting \in [Conds -> SUBSET (Threads \X Mutexes)]
    /\ notifying \in [Threads ->
            {<<"no">>} \cup ({"signal", "broadcast"} \X Conds)
                       \cup ({"broadcast"} \X Conds \X Mutexes)]

Registered(t) == \E c \in Conds, m \in Mutexes : <<t, m>> \in waiting[c]

MonitorInit ==
    /\ holder = [m \in Mutexes |-> NoThread]
    /\ waiting = [c \in Conds |-> {}]
    /\ notifying = [t \in Threads |-> <<"no">>]

Enter(t, m) ==
    /\ holder[m] = NoThread
    /\ ~Registered(t)
    /\ holder' = [holder EXCEPT ![m] = t]
    /\ UNCHANGED <<waiting, notifying>>

Leave(t, m) ==
    /\ holder[m] = t
    /\ holder' = [holder EXCEPT ![m] = NoThread]
    /\ UNCHANGED <<waiting, notifying>>

\* The threads registered with c, if any, wait with m.
WaitsWith(c, m) == waiting[c] \subseteq Threads \X {m}

\* The first half of a wait: t still holds the mutex it will release.
Register(t, c, m) ==
    /\ ~Registered(t)
    /\ holder[m] = t
    /\ WaitsWith(c, m)
    /\ waiting' = [waiting EXCEPT ![c] = @ \cup {<<t, m>>}]
    /\ UNCHANGED <<holder, notifying>>

CallNotify(t, op, c) ==
    /\ notifying[t] = <<"no">>
    /\ notifying' = [notifying EXCEPT ![t] = <<op, c>>]
    /\ UNCHANGED <<holder, waiting>>

Return(t) == notifying' = [notifying EXCEPT ![t] = <<"no">>]

Signal(t, c) ==
    /\ notifying[t] = <<"signal", c>>
    /\ Return(t)
    /\ \/ waiting[c] = {} /\ UNCHANGED waiting
       \/ \E w \in waiting[c] : waiting' = [waiting EXCEPT ![c] = @ \ {w}]
    /\ UNCHANGED holder

\* The first half of a broadcast that takes two looks: all wait with one mutex.
Look(t, c) ==
    /\ notifying[t] = <<"broadcast", c>>
    /\ \E w \in waiting[c] :
          notifying' = [notifying EXCEPT ![t] = <<"broadcast", c, w[2]>>]
    /\ UNCHANGED <<holder, waiting>>

Broadcast(t, c) ==
    /\ \/ /\ notifying[t] = <<"broadcast", c>>
          /\ waiting' = [waiting EXCEPT ![c] = {}]
       \/ \E m \in Mutexes :
          /\ notifying[t] = <<"broadcast", c, m>>
          /\ waiting' = [waiting EXCEPT ![c] = IF WaitsWith(c, m) THEN {} ELSE @]
    /\ Return(t)
    /\ UNCHANGED holder

MonitorNext ==
    \E t \in Threads :
        \/ \E m \in Mutexes : Enter(t, m) \/ Leave(t, m)
        \/ \E c \in Conds :
              \/ Signal(t, c) \/ Look(t, c) \/ Broadcast(t, c)
              \/ \E m \in Mutexes : Register(t, c, m)
              \/ \E op \in {"signal", "broadcast"} : CallNotify(t, op, c)

MonitorSpec == MonitorInit /\ [][MonitorNext]_monitorVars
============================================================================
