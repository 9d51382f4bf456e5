----------------------------- MODULE MCWordLock -----------------------------
EXTENDS WordLock

CONSTANTS t1, t2, t3, t4

\* Variables that every path writes before it reads them.
Live ==
    <<state, should_park, pc,
      [t \in Threads |-> IF should_park[t] THEN node[t] ELSE <<>>],
      [t \in Threads |-> IF pc[t] \in {"lock_full", "unlock_full", "walk", "wake"}
                         THEN expected[t] ELSE <<>>],
      [t \in Threads |-> IF pc[t] = "lock_full" THEN spins[t] ELSE Spins],
      [t \in Threads |-> IF pc[t] = "walk" THEN current[t] ELSE Null],
      [t \in Threads |-> IF pc[t] \in {"wake", "unpark"} THEN tail[t] ELSE Null]>>
=============================================================================
