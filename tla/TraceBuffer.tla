---------------------------- MODULE TraceBuffer ----------------------------
(* src/runtime/tracing.cpp: threads claim spans of one buffer by adding to its   *)
(* cursor and fill them side by side; whoever finds it full writes it out.       *)
(* SharedExclusiveSpinLock separates the two.  An access to an atomic word is a  *)
(* step; writing out is two, with the exclusive lock held.                       *)
EXTENDS Integers, FiniteSetsExt

CONSTANTS Threads,
          BufferSize,      \* buffer_size
          Sizes,           \* of packets
          MaxPackets       \* bound on the packets of all threads

VARIABLES
    shared, waiting, exclusive,   \* the fields of the lock's word
    cursor, overage,
    pc,
    expected,                     \* the word's shared count, as acquire_shared read it
    size,                         \* of the packet that the thread is to write
    left,                         \* packets still to come
    spans                         \* what was claimed since the buffer was last written out

word == <<shared, waiting, exclusive>>
space == <<cursor, overage, spans>>
call == <<size, left>>
vars == <<word, space, pc, expected, call>>

Goto(t, label) == pc' = [pc EXCEPT ![t] = label]

Init ==
    /\ shared = 0 /\ waiting = FALSE /\ exclusive = FALSE
    /\ cursor = 0 /\ overage = 0
    /\ pc = [t \in Threads |-> "idle"]
    /\ expected = [t \in Threads |-> 0]
    /\ size = [t \in Threads |-> 0]
    /\ left = MaxPackets
    /\ spans = {}

\* halide_default_trace, when it writes to a file.
CallTrace(t) ==
    /\ pc[t] = "idle"
    /\ left > 0
    /\ left' = left - 1
    /\ \E s \in Sizes : size' = [size EXCEPT ![t] = s]
    /\ Goto(t, "load")
    /\ UNCHANGED <<word, space, expected>>
-----------------------------------------------------------------------------
(* try_acquire_packet and release_packet *)

LoadShared(t) ==
    /\ pc[t] = "load"
    /\ expected' = [expected EXCEPT ![t] = shared]
    /\ Goto(t, "enter")
    /\ UNCHANGED <<word, space, call>>

WordIs(n) == shared = n /\ ~waiting /\ ~exclusive

AcquireShared(t) ==
    /\ pc[t] = "enter"
    /\ \/ /\ WordIs(expected[t])
          /\ shared' = shared + 1
          /\ Goto(t, "claim")
       \/ /\ ~WordIs(expected[t])
          /\ Goto(t, "load")
          /\ UNCHANGED shared
    /\ expected' = [expected EXCEPT ![t] = 0]
    /\ UNCHANGED <<waiting, exclusive, space, call>>

\* "Don't try to back it out": a request that does not fit makes those after it fail.
Claim(t) ==
    /\ pc[t] = "claim"
    /\ cursor' = cursor + size[t]
    /\ \/ /\ cursor' > BufferSize
          /\ Goto(t, "over")
          /\ UNCHANGED spans
       \/ /\ cursor' <= BufferSize
          /\ spans' = spans \cup {cursor .. (cursor' - 1)}
          /\ Goto(t, "fill")
    /\ UNCHANGED <<word, overage, expected, call>>

RecordOverage(t) ==
    /\ pc[t] = "over"
    /\ overage' = overage + size[t]
    /\ Goto(t, "leave")
    /\ UNCHANGED <<word, cursor, spans, expected, call>>

GiveUp(t) ==
    /\ pc[t] = "leave"
    /\ shared' = shared - 1
    /\ Goto(t, "request")
    /\ UNCHANGED <<waiting, exclusive, space, expected, call>>

\* release_packet, once the packet is filled.  The end of a pipeline is flushed.
ReleasePacket(t) ==
    /\ pc[t] = "fill"
    /\ shared' = shared - 1
    /\ size' = [size EXCEPT ![t] = 0]
    /\ Goto(t, "idle") \/ Goto(t, "request")
    /\ UNCHANGED <<waiting, exclusive, space, expected, left>>
-----------------------------------------------------------------------------
(* flush *)

Request(t) ==
    /\ pc[t] = "request"
    /\ waiting' = TRUE
    /\ Goto(t, "take")
    /\ UNCHANGED <<shared, exclusive, space, expected, call>>

\* Mutant: the request is not repeated.
TakeAgain == "take"

Again == "request"

AcquireExclusive(t) ==
    /\ pc[t] = "take"
    /\ \/ /\ shared = 0 /\ waiting /\ ~exclusive
          /\ waiting' = FALSE /\ exclusive' = TRUE
          /\ Goto(t, "write")
       \/ /\ ~ (shared = 0 /\ waiting /\ ~exclusive)
          /\ Goto(t, Again)
          /\ UNCHANGED <<waiting, exclusive>>
    /\ UNCHANGED <<shared, space, expected, call>>

\* Mutant: what did not fit is written as well.
AllOfIt == cursor

Filled == cursor - overage

\* An empty buffer is left alone.
WriteOut(t) ==
    /\ pc[t] = "write"
    /\ cursor' = Filled
    /\ Goto(t, IF cursor = 0 THEN "unlock" ELSE "reset")
    /\ UNCHANGED <<word, overage, spans, expected, call>>

Reset(t) ==
    /\ pc[t] = "reset"
    /\ cursor' = 0
    /\ overage' = 0
    /\ spans' = {}
    /\ Goto(t, "unlock")
    /\ UNCHANGED <<word, expected, call>>

\* The thread tries again if it has its packet still to write.
ReleaseExclusive(t) ==
    /\ pc[t] = "unlock"
    /\ exclusive' = FALSE
    /\ Goto(t, IF size[t] > 0 THEN "load" ELSE "idle")
    /\ UNCHANGED <<shared, waiting, space, expected, call>>

Step(t) ==
    \/ LoadShared(t) \/ AcquireShared(t) \/ Claim(t) \/ RecordOverage(t) \/ GiveUp(t)
    \/ ReleasePacket(t) \/ Request(t) \/ AcquireExclusive(t) \/ WriteOut(t) \/ Reset(t)
    \/ ReleaseExclusive(t)

Next == \E t \in Threads : CallTrace(t) \/ Step(t)

Spec == Init /\ [][Next]_vars

\* Running threads keep running.
Fairness == \A t \in Threads : WF_vars(Step(t))

FairSpec == Spec /\ Fairness
-----------------------------------------------------------------------------
TypeOK ==
    /\ shared \in Nat
    /\ {waiting, exclusive} \subseteq BOOLEAN
    /\ {cursor, overage} \subseteq Nat
    /\ pc \in [Threads -> {"idle", "load", "enter", "claim", "over", "leave", "fill",
                           "request", "take", "write", "reset", "unlock"}]
    /\ expected \in [Threads -> Nat]
    /\ size \in [Threads -> Sizes \cup {0}]
    /\ left \in 0..MaxPackets
    /\ spans \subseteq SUBSET (0..(BufferSize - 1))

Writing == {t \in Threads : pc[t] \in {"write", "reset", "unlock"}}
Sharing == {t \in Threads : pc[t] \in {"claim", "over", "leave", "fill"}}

\* The comments on the masks: nobody writes the buffer out while others fill it, and a
\* waiting bit that stops new packets belongs to a thread that will take the lock.
Excludes ==
    /\ Cardinality(Writing) = IF exclusive THEN 1 ELSE 0
    /\ shared = Cardinality(Sharing)
    /\ exclusive => shared = 0
    /\ waiting => \E t \in Threads : pc[t] \in {"request", "take"}

\* What goes to the file is all packets claimed since the last time, one after the
\* other, each of them filled, and no byte that nobody wrote.
WritesPackets ==
    \A t \in Threads : pc[t] = "reset" =>
        /\ UNION spans = 0..(cursor - 1)
        /\ MapThenSumSet(Cardinality, spans) = cursor
        /\ \A u \in Threads : pc[u] # "fill"

\* However small the packet, a thread is over the end at most once between two writes:
\* the cursor does not wrap around.
CursorBounded == cursor <= BufferSize + Cardinality(Threads) * Max(Sizes)

\* Every call of halide_trace returns.
Answered(t) == pc[t] # "idle" ~> pc[t] = "idle"
Returns == \A t \in Threads : Answered(t)
=============================================================================
