-------------------------- MODULE ThreadPoolProofs --------------------------
(***************************************************************************)
(* The call stacks of the thread pool and its counters of sleeping         *)
(* threads, for any number of threads and any program: frames nest as the  *)
(* C++ calls do, and the counters that decide whom to wake are exact.      *)
(***************************************************************************)
EXTENDS ThreadPool, TLAPS, FiniteSetTheorems, WellFoundedInduction

LoopAt == {"start", "scan", "a_team", "b_team", "owners", "claim", "working"}
BodyAt == {"body", "released", "failing", "joining"}

\* The three kinds of frames, as the records they are.
IsLoop(f) ==
    /\ f.at \in LoopAt
    /\ f = [at |-> f.at, owned |-> f.owned, work |-> f.work, min |-> f.min,
            total |-> f.total, iters |-> f.iters, result |-> f.result]
IsJoin(f) ==
    /\ f.at = "join"
    /\ f = [at |-> f.at, jobs |-> f.jobs, i |-> f.i, status |-> f.status]
IsBody(f) ==
    /\ f.at \in BodyAt
    /\ f = [at |-> f.at, job |-> f.job, it |-> f.it, left |-> f.left, op |-> f.op]

\* The name of a job is its creator, the iteration, and the task.
IsTask(J) == J = <<J[1], J[2], J[3]>> /\ J[3] \in DOMAIN Task

IsSeq(s) == s \in Seq({s[i] : i \in 1..Len(s)})

\* The frame at depth d of a stack, 1 the outermost.
Fr(s, d) == s[Len(s) + 1 - d]

\* The frames of worker_thread_already_locked: on top of the stack, or calling a closure.
LoopOK(t, s, d) ==
    LET f == Fr(s, d) IN
    /\ f.at \in {"claim", "working"} => IsTask(f.work)
    /\ d < Len(s) => f.at = "working"
    /\ IF f.owned = NoJob
       THEN t \in Workers /\ d = 1 /\ f.at # "owners"
       ELSE /\ d > 1 /\ f.at \notin {"start", "a_team", "b_team"}
            /\ IsJoin(Fr(s, d - 1)) /\ f.owned = Fr(s, d - 1).jobs[Fr(s, d - 1).i]

\* halide_default_do_parallel_tasks: called by a closure, joins its jobs in order.
JoinOK(t, s, d) ==
    LET f == Fr(s, d) IN
    /\ d > 1 /\ IsBody(Fr(s, d - 1)) /\ Fr(s, d - 1).at = "body"
    /\ IsSeq(f.jobs) /\ f.i \in 1..Len(f.jobs)
    /\ \A i \in 1..Len(f.jobs) : IsTask(f.jobs[i])

\* A client's pipeline, or a closure that the loop below has called.
BodyOK(t, s, d) ==
    LET f == Fr(s, d) IN
    /\ d < Len(s) => f.at = "body"
    /\ f.op \in Nat \ {0}
    /\ f.at = "joining" => f.op \in 1..Len(Ops(f.job)) /\ Ops(f.job)[f.op].op = "shutdown"
    /\ IF d = 1 THEN t \in Clients /\ f.job = <<t>>
       ELSE IsTask(f.job) /\ IsLoop(Fr(s, d - 1)) /\ f.job = Fr(s, d - 1).work

FrameOK(t, s, d) ==
    \/ IsLoop(Fr(s, d)) /\ LoopOK(t, s, d)
    \/ IsJoin(Fr(s, d)) /\ JoinOK(t, s, d)
    \/ IsBody(Fr(s, d)) /\ BodyOK(t, s, d)

Shape(t, s) == IsSeq(s) /\ \A d \in 1..Len(s) : FrameOK(t, s, d)

IsQueue(q) ==
    q = [jobs |-> q.jobs, threads_created |-> q.threads_created,
         a_team_size |-> q.a_team_size, target_a_team_size |-> q.target_a_team_size,
         workers_sleeping |-> q.workers_sleeping, owners_sleeping |-> q.owners_sleeping,
         shutdown |-> q.shutdown, initialized |-> q.initialized,
         threads_reserved |-> q.threads_reserved,
         desired_threads_working |-> q.desired_threads_working]

\* A stack of jobs.
TaskSeq(js) == IsSeq(js) /\ \A p \in 1..Len(js) : IsTask(js[p])

ShapeInv ==
    /\ stack \in [Threads -> {stack[t] : t \in Threads}]
    /\ \A t \in Threads : Shape(t, stack[t])
    /\ IsQueue(wq) /\ TaskSeq(wq.jobs)

\* Threads that have not been created have no stack; the teams are counted from there.
TeamInv ==
    /\ wq.threads_created \in 0..MaxThreads
    /\ \A n \in Workers : n > wq.threads_created => stack[n] = <<>>
    /\ ~wq.initialized => wq.threads_created = 0 /\ wq.a_team_size = 0
    /\ \E S \in Together : \A c \in Clients : stack[c] # <<>> => c \in S
    /\ aborted => \A t \in Threads : stack[t] = <<>>

----------------------------------------------------------------------------
(* Stacks as sequences *)

\* What is known of the elements makes a sequence of any kind one of its own.
LEMMA SeqOwn ==
  ASSUME NEW S, NEW s \in Seq(S)
  PROVE  IsSeq(s)
  BY DEF IsSeq

\* What the C++ calls and returns do to a stack.
LEMMA SeqTail ==
  ASSUME NEW s, IsSeq(s)
  PROVE  /\ Len(s) \in Nat
         /\ s # <<>> <=> Len(s) > 0
         /\ s # <<>> =>
               /\ Head(s) = s[1]
               /\ IsSeq(Tail(s)) /\ Len(Tail(s)) = Len(s) - 1
               /\ \A i \in 1..(Len(s) - 1) : Tail(s)[i] = s[i + 1]
  <1> DEFINE S == {s[i] : i \in 1..Len(s)}
  <1>1. s \in Seq(S)
    BY DEF IsSeq
  <1> HIDE DEF S
  <1>2. Len(s) \in Nat /\ (s # <<>> <=> Len(s) > 0)
    BY <1>1
  <1>3. ASSUME s # <<>>
        PROVE  /\ Head(s) = s[1]
               /\ Tail(s) \in Seq(S) /\ Len(Tail(s)) = Len(s) - 1
               /\ \A i \in 1..(Len(s) - 1) : Tail(s)[i] = s[i + 1]
    BY <1>1, <1>3
  <1> QED
    BY <1>2, <1>3, SeqOwn

\* What pushing one frame does to a stack.
LEMMA SeqPut ==
  ASSUME NEW s, IsSeq(s), NEW f
  PROVE  /\ IsSeq(<<f>> \o s) /\ Len(<<f>> \o s) = Len(s) + 1
         /\ (<<f>> \o s)[1] = f
         /\ \A i \in 2..(Len(s) + 1) : (<<f>> \o s)[i] = s[i - 1]
  <1> DEFINE S == {s[i] : i \in 1..Len(s)} \cup {f}
  <1>1. s \in Seq(S) /\ f \in S
    BY DEF IsSeq
  <1> HIDE DEF S
  <1>2. IsSeq(<<f>> \o s)
    <2>1. <<f>> \o s \in Seq(S)
      BY <1>1
    <2> QED
      BY <2>1, SeqOwn
  <1> QED
    BY <1>1, <1>2

\* What pushing two frames does to a stack.
LEMMA SeqPutTwo ==
  ASSUME NEW s, IsSeq(s), NEW f, NEW g
  PROVE  /\ IsSeq(<<g, f>> \o s) /\ Len(<<g, f>> \o s) = Len(s) + 2
         /\ (<<g, f>> \o s)[1] = g /\ (<<g, f>> \o s)[2] = f
         /\ \A i \in 3..(Len(s) + 2) : (<<g, f>> \o s)[i] = s[i - 2]
  <1> DEFINE S == {s[i] : i \in 1..Len(s)} \cup {f, g}
  <1>1. s \in Seq(S) /\ f \in S /\ g \in S
    BY DEF IsSeq
  <1> HIDE DEF S
  <1>2. IsSeq(<<g, f>> \o s)
    <2>1. <<g, f>> \o s \in Seq(S)
      BY <1>1
    <2> QED
      BY <2>1, SeqOwn
  <1> QED
    BY <1>1, <1>2

\* r is s up to depth k, with m frames in all.
Keeps(r, s, k, m) ==
    IsSeq(r) /\ Len(r) = m /\ \A d \in 1..k : Fr(r, d) = Fr(s, d)

\* The same by depth: a change at the top leaves the frames below alone.
LEMMA FrOps ==
  ASSUME NEW s, IsSeq(s), s # <<>>, NEW f
  PROVE  /\ Len(s) \in Nat \ {0} /\ Head(s) = Fr(s, Len(s))
         /\ Keeps(Tail(s), s, Len(s) - 1, Len(s) - 1)
         /\ Keeps(<<f>> \o Tail(s), s, Len(s) - 1, Len(s))
         /\ Fr(<<f>> \o Tail(s), Len(s)) = f
  <1> DEFINE n == Len(s)
  <1>1. /\ n \in Nat /\ n > 0
        /\ Head(s) = s[1]
        /\ IsSeq(Tail(s)) /\ Len(Tail(s)) = n - 1
        /\ \A i \in 1..(n - 1) : Tail(s)[i] = s[i + 1]
    BY SeqTail
  <1>2. /\ IsSeq(<<f>> \o Tail(s)) /\ Len(<<f>> \o Tail(s)) = n
        /\ (<<f>> \o Tail(s))[1] = f
        /\ \A i \in 2..n : (<<f>> \o Tail(s))[i] = s[i]
    <2>1. \A i \in 2..n : i - 1 \in 1..(n - 1) /\ (i - 1) + 1 = i
      BY <1>1
    <2> HIDE DEF n
    <2> QED
      BY <1>1, <2>1, SeqPut
  <1> HIDE DEF n
  <1>3. ASSUME NEW d \in 1..(n - 1)
        PROVE  /\ n - d \in 1..(n - 1) /\ (n - d) + 1 = n + 1 - d /\ (n - 1) + 1 - d = n - d
               /\ n + 1 - d \in 2..n
    BY <1>1
  <1>4. n + 1 - n = 1
    BY <1>1
  <1>5. Keeps(Tail(s), s, n - 1, n - 1)
    BY <1>1, <1>3 DEF Keeps, Fr, n
  <1>6. Keeps(<<f>> \o Tail(s), s, n - 1, n)
    BY <1>2, <1>3 DEF Keeps, Fr, n
  <1>7. Head(s) = Fr(s, n) /\ Fr(<<f>> \o Tail(s), n) = f
    BY <1>1, <1>2, <1>4 DEF Fr, n
  <1> QED
    BY <1>1, <1>5, <1>6, <1>7 DEF n

\* The caller goes on as f, the frame that it calls is g.
LEMMA FrPush ==
  ASSUME NEW s, IsSeq(s), s # <<>>, NEW f, NEW g
  PROVE  /\ Keeps(<<g, f>> \o Tail(s), s, Len(s) - 1, Len(s) + 1)
         /\ Fr(<<g, f>> \o Tail(s), Len(s)) = f
         /\ Fr(<<g, f>> \o Tail(s), Len(s) + 1) = g
  <1> DEFINE n == Len(s)
  <1>1. /\ n \in Nat /\ n > 0
        /\ IsSeq(Tail(s)) /\ Len(Tail(s)) = n - 1
        /\ \A i \in 1..(n - 1) : Tail(s)[i] = s[i + 1]
    BY SeqTail
  <1>2. /\ IsSeq(<<g, f>> \o Tail(s)) /\ Len(<<g, f>> \o Tail(s)) = n + 1
        /\ (<<g, f>> \o Tail(s))[1] = g /\ (<<g, f>> \o Tail(s))[2] = f
        /\ \A i \in 3..(n + 1) : (<<g, f>> \o Tail(s))[i] = s[i - 1]
    <2>1. \A i \in 3..(n + 1) : i - 2 \in 1..(n - 1) /\ (i - 2) + 1 = i - 1
      BY <1>1
    <2> HIDE DEF n
    <2> QED
      BY <1>1, <2>1, SeqPutTwo
  <1> HIDE DEF n
  <1>3. ASSUME NEW d \in 1..(n - 1)
        PROVE  (n + 1) + 1 - d \in 3..(n + 1) /\ ((n + 1) + 1 - d) - 1 = n + 1 - d
    BY <1>1
  <1>4. (n + 1) + 1 - n = 2 /\ (n + 1) + 1 - (n + 1) = 1
    BY <1>1
  <1>5. Keeps(<<g, f>> \o Tail(s), s, n - 1, n + 1)
    BY <1>2, <1>3 DEF Keeps, Fr, n
  <1>6. Fr(<<g, f>> \o Tail(s), n) = f /\ Fr(<<g, f>> \o Tail(s), n + 1) = g
    BY <1>2, <1>4 DEF Fr
  <1> QED
    BY <1>5, <1>6 DEF n

\* Two calls at once, of halide_default_do_parallel_tasks and its first loop.
LEMMA FrEnter ==
  ASSUME NEW s, IsSeq(s), NEW f, NEW g
  PROVE  /\ Keeps(<<g, f>> \o s, s, Len(s), Len(s) + 2)
         /\ Fr(<<g, f>> \o s, Len(s) + 1) = f
         /\ Fr(<<g, f>> \o s, Len(s) + 2) = g
  <1> DEFINE n == Len(s)
  <1>1. n \in Nat
    BY SeqTail
  <1>2. /\ IsSeq(<<g, f>> \o s) /\ Len(<<g, f>> \o s) = n + 2
        /\ (<<g, f>> \o s)[1] = g /\ (<<g, f>> \o s)[2] = f
        /\ \A i \in 3..(n + 2) : (<<g, f>> \o s)[i] = s[i - 2]
    BY SeqPutTwo
  <1> HIDE DEF n
  <1>3. ASSUME NEW d \in 1..n
        PROVE  (n + 2) + 1 - d \in 3..(n + 2) /\ ((n + 2) + 1 - d) - 2 = n + 1 - d
    BY <1>1
  <1>4. (n + 2) + 1 - (n + 1) = 2 /\ (n + 2) + 1 - (n + 2) = 1
    BY <1>1
  <1>5. Keeps(<<g, f>> \o s, s, n, n + 2)
    BY <1>2, <1>3 DEF Keeps, Fr, n
  <1>6. Fr(<<g, f>> \o s, n + 1) = f /\ Fr(<<g, f>> \o s, n + 2) = g
    BY <1>2, <1>4 DEF Fr
  <1> QED
    BY <1>5, <1>6 DEF n

\* A return: the frame below the top one goes on as f.
LEMMA FrReturn ==
  ASSUME NEW s, IsSeq(s), Len(s) > 1, NEW f
  PROVE  /\ Len(s) \in Nat /\ s[2] = Fr(s, Len(s) - 1)
         /\ Keeps(<<f>> \o Tail(Tail(s)), s, Len(s) - 2, Len(s) - 1)
         /\ Fr(<<f>> \o Tail(Tail(s)), Len(s) - 1) = f
  <1>1. s # <<>> /\ Len(s) \in Nat
    BY SeqTail
  <1>2. Keeps(Tail(s), s, Len(s) - 1, Len(s) - 1)
    BY <1>1, FrOps
  <1>3. IsSeq(Tail(s)) /\ Len(Tail(s)) = Len(s) - 1
    BY <1>2 DEF Keeps
  <1>4. Tail(s) # <<>>
    <2>1. Len(Tail(s)) > 0
      BY <1>1, <1>3
    <2> HIDE <1>1
    <2> QED
      BY <1>3, <2>1, SeqTail
  <1>5. /\ Keeps(<<f>> \o Tail(Tail(s)), Tail(s), Len(Tail(s)) - 1, Len(Tail(s)))
        /\ Fr(<<f>> \o Tail(Tail(s)), Len(Tail(s))) = f
    BY <1>3, <1>4, FrOps
  <1>6. Keeps(<<f>> \o Tail(Tail(s)), s, Len(s) - 2, Len(s) - 1)
    BY <1>1, <1>2, <1>3, <1>5 DEF Keeps
  <1>7. s[2] = Fr(s, Len(s) - 1)
    <2>1. Len(s) + 1 - (Len(s) - 1) = 2
      BY <1>1
    <2> QED
      BY <2>1 DEF Fr
  <1> QED
    BY <1>1, <1>3, <1>5, <1>6, <1>7

----------------------------------------------------------------------------
(* Stacks of frames *)

\* A frame stays well formed when only frames above it change.
LEMMA FrameKept ==
  ASSUME NEW t, NEW s, NEW r, NEW k \in Nat, NEW m \in Nat, IsSeq(s), Keeps(r, s, k, m),
         k <= m, k <= Len(s), NEW d \in 1..k, FrameOK(t, s, d),
         d < Len(s) \/ Fr(s, d).at \in {"working", "body", "join"}
  PROVE  FrameOK(t, r, d)
  <1>1. Fr(r, d) = Fr(s, d) /\ (d > 1 => Fr(r, d - 1) = Fr(s, d - 1))
    BY DEF Keeps
  <1>2. Len(s) \in Nat /\ Len(r) = m /\ (d < Len(r) => d < Len(s) \/ Fr(s, d).at \in {"working", "body", "join"})
    BY SeqTail DEF Keeps
  <1>3. CASE IsLoop(Fr(s, d)) /\ LoopOK(t, s, d)
    <2>1. d < Len(s) => Fr(s, d).at = "working"
      BY <1>3 DEF LoopOK
    <2>2. d < Len(r) => Fr(s, d).at = "working"
      BY <1>2, <1>3, <2>1 DEF IsLoop, LoopAt
    <2> QED
      BY <1>1, <1>3, <2>2 DEF LoopOK, FrameOK
  <1>4. CASE IsJoin(Fr(s, d)) /\ JoinOK(t, s, d)
    BY <1>1, <1>4 DEF JoinOK, FrameOK
  <1>5. CASE IsBody(Fr(s, d)) /\ BodyOK(t, s, d)
    <2>1. d < Len(s) => Fr(s, d).at = "body"
      BY <1>5 DEF BodyOK
    <2>2. d < Len(r) => Fr(s, d).at = "body"
      BY <1>2, <1>5, <2>1 DEF IsBody, BodyAt
    <2> QED
      BY <1>1, <1>5, <2>2 DEF BodyOK, FrameOK
  <1> QED
    BY <1>3, <1>4, <1>5 DEF FrameOK

\* A stack that keeps what is below depth k has the shape if the frames above do.
LEMMA ShapeKept ==
  ASSUME NEW t, NEW s, NEW r, NEW k \in Nat, NEW m \in Nat, Shape(t, s), Keeps(r, s, k, m),
         k <= m, k <= Len(s), k < Len(s) \/ Fr(s, k).at \in {"working", "body", "join"},
         \A d \in (k + 1)..m : FrameOK(t, r, d)
  PROVE  Shape(t, r)
  <1>1. IsSeq(r) /\ Len(r) = m /\ IsSeq(s) /\ Len(s) \in Nat
    BY SeqTail DEF Keeps, Shape
  <1>2. ASSUME NEW d \in 1..m
        PROVE  FrameOK(t, r, d)
    <2>1. CASE d <= k
      <3>1. d \in 1..k /\ d \in 1..Len(s)
        BY <1>1, <2>1
      <3>2. FrameOK(t, s, d)
        BY <3>1 DEF Shape
      <3>3. d < Len(s) \/ Fr(s, d).at \in {"working", "body", "join"}
        BY <1>1, <2>1
      <3> QED
        BY <1>1, <3>1, <3>2, <3>3, FrameKept
    <2>2. CASE d > k
      BY <2>2
    <2> QED
      BY <2>1, <2>2
  <1> QED
    BY <1>1, <1>2 DEF Shape

\* The frame on top, and the one it has been called by.
LEMMA ShapeTop ==
  ASSUME NEW t, NEW s, Shape(t, s), s # <<>>
  PROVE  /\ Len(s) \in Nat \ {0} /\ Len(s) \in 1..Len(s) /\ IsSeq(s)
         /\ Head(s) = Fr(s, Len(s)) /\ FrameOK(t, s, Len(s))
         /\ Len(s) > 1 => /\ Len(s) - 1 \in 1..Len(s) /\ s[2] = Fr(s, Len(s) - 1)
                          /\ FrameOK(t, s, Len(s) - 1)
  <1>1. IsSeq(s) /\ Len(s) \in Nat \ {0} /\ Head(s) = Fr(s, Len(s))
    BY FrOps DEF Shape
  <1>2. Len(s) > 1 => s[2] = Fr(s, Len(s) - 1)
    BY <1>1, FrReturn
  <1> QED
    BY <1>1, <1>2 DEF Shape

\* worker_thread_already_locked goes on in its loop.
LEMMA ShapeLoop ==
  ASSUME NEW t, NEW s, Shape(t, s), s # <<>>, IsLoop(Head(s)),
         NEW g, IsLoop(g), g.owned = Head(s).owned,
         g.at \in {"claim", "working"} => IsTask(g.work),
         g.owned = NoJob => g.at # "owners",
         g.owned # NoJob => g.at \notin {"start", "a_team", "b_team"}
  PROVE  Shape(t, <<g>> \o Tail(s))
  <1> DEFINE r == <<g>> \o Tail(s)
             n == Len(s)
  <1>1. /\ n \in Nat \ {0} /\ IsSeq(s) /\ Head(s) = Fr(s, n) /\ FrameOK(t, s, n)
    BY ShapeTop
  <1>2. Keeps(r, s, n - 1, n) /\ Fr(r, n) = g
    BY <1>1, FrOps
  <1>3. LoopOK(t, s, n)
    BY <1>1 DEF FrameOK, IsLoop, IsJoin, IsBody, LoopAt, BodyAt
  <1>4. LoopOK(t, r, n)
    <2>1. Len(r) = n /\ (n > 1 => Fr(r, n - 1) = Fr(s, n - 1))
      BY <1>1, <1>2 DEF Keeps
    <2> HIDE DEF r, n
    <2> QED
      BY <1>1, <1>2, <1>3, <2>1 DEF LoopOK
  <1> HIDE DEF r, n
  <1>5. FrameOK(t, r, n)
    BY <1>2, <1>4 DEF FrameOK
  <1>6. n = Len(s)
    BY DEF n
  <1>7. /\ n - 1 \in Nat /\ n \in Nat /\ n - 1 <= n /\ n - 1 <= Len(s) /\ n - 1 < Len(s)
        /\ \A d \in ((n - 1) + 1)..n : FrameOK(t, r, d)
    BY <1>1, <1>5, <1>6
  <1>8. Shape(t, r)
    BY <1>2, <1>7, ShapeKept
  <1> QED
    BY <1>8 DEF r

\* A closure or a pipeline goes on to its next operation.
LEMMA ShapeBody ==
  ASSUME NEW t, NEW s, Shape(t, s), s # <<>>, IsBody(Head(s)),
         NEW g, IsBody(g), g.job = Head(s).job, g.op \in Nat \ {0},
         g.at = "joining" => g.op \in 1..Len(Ops(g.job)) /\ Ops(g.job)[g.op].op = "shutdown"
  PROVE  Shape(t, <<g>> \o Tail(s))
  <1> DEFINE r == <<g>> \o Tail(s)
             n == Len(s)
  <1>1. /\ n \in Nat \ {0} /\ IsSeq(s) /\ Head(s) = Fr(s, n) /\ FrameOK(t, s, n)
    BY ShapeTop
  <1>2. Keeps(r, s, n - 1, n) /\ Fr(r, n) = g
    BY <1>1, FrOps
  <1>3. BodyOK(t, s, n)
    BY <1>1 DEF FrameOK, IsLoop, IsJoin, IsBody, LoopAt, BodyAt
  <1>4. BodyOK(t, r, n)
    <2>1. Len(r) = n /\ (n > 1 => Fr(r, n - 1) = Fr(s, n - 1))
      BY <1>1, <1>2 DEF Keeps
    <2> HIDE DEF r, n
    <2> QED
      BY <1>1, <1>2, <1>3, <2>1 DEF BodyOK
  <1> HIDE DEF r, n
  <1>5. FrameOK(t, r, n)
    BY <1>2, <1>4 DEF FrameOK
  <1>6. n = Len(s)
    BY DEF n
  <1>7. /\ n - 1 \in Nat /\ n \in Nat /\ n - 1 <= n /\ n - 1 <= Len(s) /\ n - 1 < Len(s)
        /\ \A d \in ((n - 1) + 1)..n : FrameOK(t, r, d)
    BY <1>1, <1>5, <1>6
  <1>8. Shape(t, r)
    BY <1>2, <1>7, ShapeKept
  <1> QED
    BY <1>8 DEF r

\* worker_thread_already_locked calls a closure of the job it works on.
LEMMA ShapeCall ==
  ASSUME NEW t, NEW s, Shape(t, s), s # <<>>, IsLoop(Head(s)),
         NEW g, IsLoop(g), g.owned = Head(s).owned, g.at = "working", IsTask(g.work),
         NEW b, IsBody(b), b.at = "body", b.op \in Nat \ {0}, b.job = g.work
  PROVE  Shape(t, <<b, g>> \o Tail(s))
  <1> DEFINE r == <<b, g>> \o Tail(s)
             n == Len(s)
  <1>1. /\ n \in Nat \ {0} /\ IsSeq(s) /\ Head(s) = Fr(s, n) /\ FrameOK(t, s, n)
    BY ShapeTop
  <1>2. Keeps(r, s, n - 1, n + 1) /\ Fr(r, n) = g /\ Fr(r, n + 1) = b
    BY <1>1, FrPush
  <1>3. LoopOK(t, s, n)
    BY <1>1 DEF FrameOK, IsLoop, IsJoin, IsBody, LoopAt, BodyAt
  <1>4. Len(r) = n + 1 /\ (n > 1 => Fr(r, n - 1) = Fr(s, n - 1))
    BY <1>1, <1>2 DEF Keeps
  <1>5. n = Len(s)
    OBVIOUS
  <1> HIDE DEF r, n
  <1>6. LoopOK(t, r, n)
    BY <1>1, <1>2, <1>3, <1>4 DEF LoopOK
  <1>7. BodyOK(t, r, n + 1)
    <2>1. (n + 1) - 1 = n /\ n + 1 # 1 /\ ~(n + 1 < Len(r))
      BY <1>1, <1>4
    <2> QED
      BY <1>2, <2>1 DEF BodyOK
  <1>8. FrameOK(t, r, n) /\ FrameOK(t, r, n + 1)
    BY <1>2, <1>6, <1>7 DEF FrameOK
  <1>9. \A d \in ((n - 1) + 1)..(n + 1) : d = n \/ d = n + 1
    BY <1>1
  <1>10. /\ n - 1 \in Nat /\ n + 1 \in Nat /\ n - 1 <= n + 1 /\ n - 1 <= Len(s) /\ n - 1 < Len(s)
         /\ \A d \in ((n - 1) + 1)..(n + 1) : FrameOK(t, r, d)
    BY <1>1, <1>5, <1>8, <1>9
  <1>11. Shape(t, r)
    BY <1>2, <1>10, ShapeKept
  <1> QED
    BY <1>11 DEF r

\* worker_thread_already_locked returns to the loop that joins.
LEMMA ShapeLeave ==
  ASSUME NEW t, NEW s, Shape(t, s), s # <<>>
  PROVE  Shape(t, Tail(s))
  <1> DEFINE r == Tail(s)
             n == Len(s)
  <1>1. n \in Nat \ {0} /\ IsSeq(s)
    BY ShapeTop
  <1>2. Keeps(r, s, n - 1, n - 1)
    BY <1>1, FrOps
  <1>3. n = Len(s)
    OBVIOUS
  <1> HIDE DEF r, n
  <1>4. /\ n - 1 \in Nat /\ n - 1 <= n - 1 /\ n - 1 <= Len(s) /\ n - 1 < Len(s)
        /\ \A d \in ((n - 1) + 1)..(n - 1) : FrameOK(t, r, d)
    BY <1>1, <1>3
  <1>5. Shape(t, r)
    BY <1>2, <1>4, ShapeKept
  <1> QED
    BY <1>5 DEF r

\* The next job is joined.
LEMMA ShapeJoin ==
  ASSUME NEW t, NEW s, Shape(t, s), s # <<>>, IsJoin(Head(s)),
         NEW g, IsJoin(g), g.jobs = Head(s).jobs, g.i \in 1..Len(g.jobs),
         NEW b, IsLoop(b), b.at = "scan", b.owned = g.jobs[g.i]
  PROVE  Shape(t, <<b, g>> \o Tail(s))
  <1> DEFINE r == <<b, g>> \o Tail(s)
             n == Len(s)
  <1>1. /\ n \in Nat \ {0} /\ IsSeq(s) /\ Head(s) = Fr(s, n) /\ FrameOK(t, s, n)
    BY ShapeTop
  <1>2. Keeps(r, s, n - 1, n + 1) /\ Fr(r, n) = g /\ Fr(r, n + 1) = b
    BY <1>1, FrPush
  <1>3. JoinOK(t, s, n)
    BY <1>1 DEF FrameOK, IsLoop, IsJoin, IsBody, LoopAt, BodyAt
  <1>4. Len(r) = n + 1 /\ (n > 1 => Fr(r, n - 1) = Fr(s, n - 1))
    BY <1>1, <1>2 DEF Keeps
  <1>5. n = Len(s)
    OBVIOUS
  <1> HIDE DEF r, n
  <1>6. JoinOK(t, r, n)
    BY <1>1, <1>2, <1>3, <1>4 DEF JoinOK
  <1>7. LoopOK(t, r, n + 1)
    <2>1. (n + 1) - 1 = n /\ n + 1 > 1 /\ ~(n + 1 < Len(r))
      BY <1>1, <1>4
    <2>2. b.owned # NoJob
      BY <1>1, <1>3 DEF JoinOK, IsTask, NoJob
    <2> QED
      BY <1>2, <2>1, <2>2 DEF LoopOK
  <1>8. FrameOK(t, r, n) /\ FrameOK(t, r, n + 1)
    BY <1>2, <1>6, <1>7 DEF FrameOK
  <1>9. \A d \in ((n - 1) + 1)..(n + 1) : d = n \/ d = n + 1
    BY <1>1
  <1>10. /\ n - 1 \in Nat /\ n + 1 \in Nat /\ n - 1 <= n + 1 /\ n - 1 <= Len(s) /\ n - 1 < Len(s)
         /\ \A d \in ((n - 1) + 1)..(n + 1) : FrameOK(t, r, d)
    BY <1>1, <1>5, <1>8, <1>9
  <1>11. Shape(t, r)
    BY <1>2, <1>10, ShapeKept
  <1> QED
    BY <1>11 DEF r

\* The closure that called halide_default_do_parallel_tasks goes on, or fails.
LEMMA ShapeJoined ==
  ASSUME NEW t, NEW s, Shape(t, s), s # <<>>, IsJoin(Head(s))
  PROVE  /\ Len(s) > 1 /\ IsBody(s[2]) /\ s[2].at = "body" /\ s[2].op \in Nat \ {0}
         /\ \A g : IsBody(g) /\ g.at \in {"body", "failing"} /\ g.job = s[2].job
                     /\ g.op \in Nat \ {0}
               => Shape(t, <<g>> \o Tail(Tail(s)))
  <1> DEFINE n == Len(s)
  <1>1. /\ n \in Nat \ {0} /\ IsSeq(s) /\ Head(s) = Fr(s, n) /\ FrameOK(t, s, n)
    BY ShapeTop
  <1>2. JoinOK(t, s, n)
    BY <1>1 DEF FrameOK, IsLoop, IsJoin, IsBody, LoopAt, BodyAt
  <1>3. n > 1 /\ s[2] = Fr(s, n - 1) /\ FrameOK(t, s, n - 1)
    BY <1>1, <1>2, ShapeTop DEF JoinOK
  <1>4. IsBody(s[2]) /\ s[2].at = "body"
    BY <1>2, <1>3 DEF JoinOK
  <1>5. BodyOK(t, s, n - 1)
    BY <1>3, <1>4 DEF FrameOK, IsLoop, IsJoin, IsBody, LoopAt, BodyAt
  <1>6. s[2].op \in Nat \ {0}
    BY <1>3, <1>5 DEF BodyOK
  <1>7. ASSUME NEW g, IsBody(g), g.at \in {"body", "failing"}, g.job = s[2].job,
               g.op \in Nat \ {0}
        PROVE  Shape(t, <<g>> \o Tail(Tail(s)))
    <2> DEFINE r == <<g>> \o Tail(Tail(s))
    <2>1. Keeps(r, s, n - 2, n - 1) /\ Fr(r, n - 1) = g
      BY <1>1, <1>3, FrReturn
    <2>2. Len(r) = n - 1 /\ (n - 1 > 1 => Fr(r, (n - 1) - 1) = Fr(s, (n - 1) - 1))
      <3>1. Len(r) = n - 1 /\ \A d \in 1..(n - 2) : Fr(r, d) = Fr(s, d)
        BY <2>1 DEF Keeps
      <3>2. n - 1 > 1 => (n - 1) - 1 \in 1..(n - 2)
        BY <1>1
      <3> HIDE DEF r, n
      <3> QED
        BY <3>1, <3>2
    <2>3. n = Len(s)
      OBVIOUS
    <2> HIDE DEF r, n
    <2>4. n - 1 # 1 => n - 1 > 1
      BY <1>1, <1>3
    <2>5. BodyOK(t, r, n - 1)
      BY <1>1, <1>3, <1>5, <1>7, <2>1, <2>2, <2>4 DEF BodyOK
    <2>6. FrameOK(t, r, n - 1)
      BY <1>7, <2>1, <2>5 DEF FrameOK
    <2>7. /\ n - 2 \in Nat /\ n - 1 \in Nat /\ n - 2 <= n - 1 /\ n - 2 <= Len(s) /\ n - 2 < Len(s)
          /\ \A d \in ((n - 2) + 1)..(n - 1) : d = n - 1
      BY <1>1, <1>3, <2>3
    <2>8. \A d \in ((n - 2) + 1)..(n - 1) : FrameOK(t, r, d)
      BY <2>6, <2>7
    <2>9. Shape(t, r)
      BY <2>1, <2>7, <2>8, ShapeKept
    <2> QED
      BY <2>9 DEF r
  <1> QED
    BY <1>3, <1>4, <1>6, <1>7

\* A closure returns to worker_thread_already_locked.
LEMMA ShapeReturn ==
  ASSUME NEW t, NEW s, Shape(t, s), s # <<>>, IsBody(Head(s)), ~IsClient(Head(s).job)
  PROVE  /\ Len(s) > 1 /\ IsLoop(s[2]) /\ s[2].at = "working" /\ s[2].work = Head(s).job
         /\ IsTask(s[2].work)
         /\ \A g : IsLoop(g) /\ g.at \in {"claim", "working"} /\ g.work = s[2].work
                     /\ g.owned = s[2].owned
               => Shape(t, <<g>> \o Tail(Tail(s)))
  <1> DEFINE n == Len(s)
  <1>1. /\ n \in Nat \ {0} /\ IsSeq(s) /\ Head(s) = Fr(s, n) /\ FrameOK(t, s, n)
    BY ShapeTop
  <1>2. BodyOK(t, s, n)
    BY <1>1 DEF FrameOK, IsLoop, IsJoin, IsBody, LoopAt, BodyAt
  <1>3. n # 1
    <2>1. ASSUME n = 1
          PROVE  FALSE
      <3>1. Head(s).job = <<t>>
        BY <1>1, <1>2, <2>1 DEF BodyOK
      <3>2. Len(<<t>>) = 1
        OBVIOUS
      <3> QED
        BY <3>1, <3>2 DEF IsClient
    <2> QED
      BY <2>1
  <1>4. n > 1 /\ s[2] = Fr(s, n - 1) /\ FrameOK(t, s, n - 1) /\ n - 1 < Len(s)
    <2>1. n \in Nat \ {0} /\ n # 1
      BY <1>1, <1>3
    <2>2. n > 1 /\ n - 1 < n
      <3> HIDE DEF n
      <3> QED
        BY <2>1
    <2> QED
      BY <1>1, <2>2, ShapeTop
  <1>5. IsLoop(s[2]) /\ s[2].work = Head(s).job /\ IsTask(s[2].work)
    BY <1>1, <1>2, <1>3, <1>4 DEF BodyOK
  <1>6. LoopOK(t, s, n - 1)
    BY <1>4, <1>5 DEF FrameOK, IsLoop, IsJoin, IsBody, LoopAt, BodyAt
  <1>7. s[2].at = "working"
    BY <1>4, <1>6 DEF LoopOK
  <1>8. ASSUME NEW g, IsLoop(g), g.at \in {"claim", "working"}, g.work = s[2].work,
               g.owned = s[2].owned
        PROVE  Shape(t, <<g>> \o Tail(Tail(s)))
    <2> DEFINE r == <<g>> \o Tail(Tail(s))
    <2>1. Keeps(r, s, n - 2, n - 1) /\ Fr(r, n - 1) = g
      BY <1>1, <1>4, FrReturn
    <2>2. Len(r) = n - 1 /\ (n - 1 > 1 => Fr(r, (n - 1) - 1) = Fr(s, (n - 1) - 1))
      <3>1. Len(r) = n - 1 /\ \A d \in 1..(n - 2) : Fr(r, d) = Fr(s, d)
        BY <2>1 DEF Keeps
      <3>2. n - 1 > 1 => (n - 1) - 1 \in 1..(n - 2)
        BY <1>1
      <3> HIDE DEF r, n
      <3> QED
        BY <3>1, <3>2
    <2>3. n = Len(s)
      OBVIOUS
    <2> HIDE DEF r, n
    <2>4. n - 1 # 1 => n - 1 > 1
      BY <1>1, <1>4
    <2>5. LoopOK(t, r, n - 1)
      BY <1>1, <1>4, <1>5, <1>6, <1>8, <2>1, <2>2, <2>4 DEF LoopOK
    <2>6. FrameOK(t, r, n - 1)
      BY <1>8, <2>1, <2>5 DEF FrameOK
    <2>7. /\ n - 2 \in Nat /\ n - 1 \in Nat /\ n - 2 <= n - 1 /\ n - 2 <= Len(s) /\ n - 2 < Len(s)
          /\ \A d \in ((n - 2) + 1)..(n - 1) : d = n - 1
      BY <1>1, <1>4, <2>3
    <2>8. \A d \in ((n - 2) + 1)..(n - 1) : FrameOK(t, r, d)
      BY <2>6, <2>7
    <2>9. Shape(t, r)
      BY <2>1, <2>7, <2>8, ShapeKept
    <2> QED
      BY <2>9 DEF r
  <1> QED
    BY <1>4, <1>5, <1>7, <1>8

\* A closure calls halide_default_do_parallel_tasks, which begins to join.
LEMMA ShapeEnter ==
  ASSUME NEW t, NEW s, Shape(t, s), s # <<>>, IsBody(Head(s)), Head(s).at = "body",
         NEW g, IsJoin(g), IsSeq(g.jobs), g.i \in 1..Len(g.jobs),
         \A i \in 1..Len(g.jobs) : IsTask(g.jobs[i]),
         NEW b, IsLoop(b), b.at = "scan", b.owned = g.jobs[g.i]
  PROVE  Shape(t, <<b, g>> \o s)
  <1> DEFINE r == <<b, g>> \o s
             n == Len(s)
  <1>1. /\ n \in Nat \ {0} /\ IsSeq(s) /\ Head(s) = Fr(s, n) /\ FrameOK(t, s, n)
    BY ShapeTop
  <1>2. Keeps(r, s, n, n + 2) /\ Fr(r, n + 1) = g /\ Fr(r, n + 2) = b
    BY <1>1, FrEnter
  <1>3. Len(r) = n + 2 /\ Fr(r, n) = Fr(s, n)
    BY <1>1, <1>2 DEF Keeps
  <1>4. n = Len(s)
    OBVIOUS
  <1> HIDE DEF r, n
  <1>5. JoinOK(t, r, n + 1)
    <2>1. (n + 1) - 1 = n /\ n + 1 > 1
      BY <1>1
    <2> QED
      BY <1>1, <1>2, <1>3, <2>1 DEF JoinOK
  <1>6. LoopOK(t, r, n + 2)
    <2>1. (n + 2) - 1 = n + 1 /\ n + 2 > 1 /\ ~(n + 2 < Len(r))
      BY <1>1, <1>3
    <2>2. b.owned # NoJob
      BY DEF IsTask, NoJob
    <2> QED
      BY <1>2, <2>1, <2>2 DEF LoopOK
  <1>7. FrameOK(t, r, n + 1) /\ FrameOK(t, r, n + 2)
    BY <1>2, <1>5, <1>6 DEF FrameOK
  <1>8. /\ n \in Nat /\ n + 2 \in Nat /\ n <= n + 2 /\ n <= Len(s)
        /\ \A d \in (n + 1)..(n + 2) : d = n + 1 \/ d = n + 2
    BY <1>1, <1>4
  <1>9. \A d \in (n + 1)..(n + 2) : FrameOK(t, r, d)
    BY <1>7, <1>8
  <1>10. Fr(s, n).at \in {"working", "body", "join"}
    BY <1>1
  <1>11. Shape(t, r)
    BY <1>2, <1>4, <1>8, <1>9, <1>10, ShapeKept
  <1> QED
    BY <1>11 DEF r

\* A thread that has just been created.
LEMMA ShapeThread ==
  ASSUME NEW t \in Workers
  PROVE  Shape(t, <<Loop(NoJob, "start")>>) /\ Shape(t, <<>>)
  <1>1. IsSeq(<<Loop(NoJob, "start")>>) /\ Len(<<Loop(NoJob, "start")>>) = 1
    BY DEF IsSeq
  <1>2. Fr(<<Loop(NoJob, "start")>>, 1) = Loop(NoJob, "start")
    BY <1>1 DEF Fr
  <1>3. IsLoop(Loop(NoJob, "start"))
    BY DEF IsLoop, Loop, LoopAt
  <1>4. LoopOK(t, <<Loop(NoJob, "start")>>, 1)
    BY <1>1, <1>2 DEF LoopOK, Loop
  <1>5. \A d \in 1..1 : d = 1
    OBVIOUS
  <1>6. Shape(t, <<Loop(NoJob, "start")>>)
    BY <1>1, <1>2, <1>3, <1>4, <1>5 DEF Shape, FrameOK
  <1>7. Shape(t, <<>>)
    BY DEF Shape, IsSeq
  <1> QED
    BY <1>6, <1>7

----------------------------------------------------------------------------
(* The stack of jobs *)

\* Every set of numbers that is not empty has a least one.
LEMMA LeastNat ==
  ASSUME NEW T \in SUBSET Nat, T # {}
  PROVE  \E n \in T : \A m \in T : n <= m
  <1> DEFINE R == OpToRel(<, Nat)
  <1>1. IsWellFoundedOn(R, Nat)
    BY NatLessThanWellFounded, Zenon
  <1>2. \A x, y \in Nat : x < y => <<x, y>> \in R
    BY DEF OpToRel
  <1> HIDE DEF R
  <1>3. PICK n \in T : \A m \in T : ~ (<<m, n>> \in R)
    BY <1>1, WFMin
  <1>4. \A m \in T : m \in Nat /\ n \in Nat /\ ~ (m < n)
    BY <1>2, <1>3
  <1> QED
    BY <1>4

\* Whatever is put together from the elements of a stack of jobs is one.
LEMMA TaskSeqOf ==
  ASSUME NEW S, \A J \in S : IsTask(J), NEW js \in Seq(S)
  PROVE  TaskSeq(js)
  <1>1. IsSeq(js)
    BY SeqOwn
  <1>2. \A p \in 1..Len(js) : js[p] \in S
    OBVIOUS
  <1> QED
    BY <1>1, <1>2 DEF TaskSeq

\* A sequence of jobs is one over the set of its members.
LEMMA TaskSeqIn ==
  ASSUME NEW js, TaskSeq(js)
  PROVE  /\ js \in Seq({js[p] : p \in 1..Len(js)})
         /\ \A J \in {js[p] : p \in 1..Len(js)} : IsTask(J)
  BY DEF TaskSeq, IsSeq

\* Putting one list of jobs in front of another.
LEMMA TaskSeqJoined ==
  ASSUME NEW js, TaskSeq(js), NEW ks, TaskSeq(ks)
  PROVE  TaskSeq(ks \o js)
  <1> DEFINE A == {js[p] : p \in 1..Len(js)}
             B == {ks[p] : p \in 1..Len(ks)}
  <1>1. /\ js \in Seq(A) /\ \A J \in A : IsTask(J)
        /\ ks \in Seq(B) /\ \A J \in B : IsTask(J)
    BY TaskSeqIn
  <1> HIDE DEF A, B
  <1>2. js \in Seq(A \cup B) /\ ks \in Seq(A \cup B)
    BY <1>1
  <1>3. ks \o js \in Seq(A \cup B)
    BY <1>2
  <1> QED
    BY <1>1, <1>3, TaskSeqOf

\* Taking a job off the list leaves a list of jobs.
LEMMA TaskSeqWithout ==
  ASSUME NEW js, TaskSeq(js), NEW J
  PROVE  TaskSeq(WithoutJob(js, J))
  <1>1. CASE \E p \in 1..Len(js) : js[p] = J
    <2> DEFINE A == {js[p] : p \in 1..Len(js)}
               p == CHOOSE p \in 1..Len(js) : js[p] = J
    <2>1. p \in 1..Len(js)
      BY <1>1
    <2>2. js \in Seq(A) /\ \A K \in A : IsTask(K)
      BY TaskSeqIn
    <2>3. WithoutJob(js, J) = SubSeq(js, 1, p - 1) \o SubSeq(js, p + 1, Len(js))
      BY <1>1 DEF WithoutJob
    <2> HIDE DEF A, p
    <2>4. SubSeq(js, 1, p - 1) \in Seq(A)
      BY <2>1, <2>2
    <2>5. SubSeq(js, p + 1, Len(js)) \in Seq(A)
      BY <2>1, <2>2
    <2>6. WithoutJob(js, J) \in Seq(A)
      BY <2>3, <2>4, <2>5
    <2> QED
      BY <2>2, <2>6, TaskSeqOf
  <1>2. CASE ~ \E p \in 1..Len(js) : js[p] = J
    BY <1>2 DEF WithoutJob
  <1> QED
    BY <1>1, <1>2

\* Putting one job back in front of the list.
LEMMA TaskSeqOne ==
  ASSUME NEW J, IsTask(J), NEW js, TaskSeq(js)
  PROVE  TaskSeq(<<J>> \o js)
  <1>1. <<J>> \in Seq({J}) /\ \A K \in {J} : IsTask(K)
    OBVIOUS
  <1>2. TaskSeq(<<J>>)
    BY <1>1, TaskSeqOf
  <1> QED
    BY <1>2, TaskSeqJoined

\* The search ends at a job on the stack.
LEMMA FoundJob ==
  ASSUME TaskSeq(wq.jobs), NEW owned, Found(owned) # 0
  PROVE  /\ Found(owned) \in 1..Len(wq.jobs)
         /\ Found(owned) \in Candidates(owned)
         /\ IsTask(wq.jobs[Found(owned)])
  <1>1. Candidates(owned) # {}
    BY DEF Found
  <1>2. Candidates(owned) \in SUBSET Nat
    BY DEF Candidates
  <1>3. \E p \in Candidates(owned) : \A q \in Candidates(owned) : p <= q
    BY <1>1, <1>2, LeastNat
  <1>4. Found(owned) = CHOOSE p \in Candidates(owned) : \A q \in Candidates(owned) : p <= q
    BY <1>1 DEF Found
  <1>5. Found(owned) \in Candidates(owned)
    BY <1>3, <1>4
  <1>6. Found(owned) \in 1..Len(wq.jobs)
    BY <1>5 DEF Candidates
  <1> QED
    BY <1>5, <1>6 DEF TaskSeq

----------------------------------------------------------------------------
(* The steps of one thread *)

SleepAt == {"a_team", "b_team", "owners"}

\* The thread is not in a wait.
Awake(s) == s # <<>> => Head(s).at \notin SleepAt

\* The counters of threads are untouched.
SameTeams(q, r) ==
    /\ r.threads_created = q.threads_created /\ r.a_team_size = q.a_team_size
    /\ r.workers_sleeping = q.workers_sleeping /\ r.owners_sleeping = q.owners_sleeping
    /\ r.shutdown = q.shutdown /\ r.initialized = q.initialized

QueueOK(q) == IsQueue(q) /\ TaskSeq(q.jobs)

Acts(t, s) ==
    /\ t \in Threads /\ stack[t] # <<>> /\ Shape(t, s)
    /\ stack' = [stack EXCEPT ![t] = s]
    /\ QueueOK(wq') /\ aborted' = aborted

\* A step of a thread that neither falls asleep nor wakes.
Quiet(t, s) == Acts(t, s) /\ Awake(stack[t]) /\ Awake(s) /\ SameTeams(wq, wq')

\* What the code can rely on in a frame that is on top.
LEMMA LoopTop ==
  ASSUME ShapeInv, NEW t \in Threads, stack[t] # <<>>, Top(t).at \in LoopAt
  PROVE  /\ Shape(t, stack[t]) /\ IsLoop(Head(stack[t])) /\ Top(t) = Head(stack[t])
         /\ Top(t).at \in {"claim", "working"} => IsTask(Top(t).work)
         /\ Top(t).owned = NoJob => t \in Workers /\ Top(t).at # "owners"
         /\ Top(t).owned # NoJob => Top(t).at \notin {"start", "a_team", "b_team"}
  <1>1. Shape(t, stack[t])
    BY DEF ShapeInv
  <1> DEFINE s == stack[t]
  <1>2. /\ Len(s) \in Nat \ {0} /\ Head(s) = Fr(s, Len(s)) /\ FrameOK(t, s, Len(s))
    BY <1>1, ShapeTop
  <1>3. Head(s) = Top(t)
    BY DEF Top
  <1> HIDE DEF s
  <1>4. IsLoop(Head(s)) /\ LoopOK(t, s, Len(s))
    BY <1>2, <1>3 DEF FrameOK, IsJoin, IsBody, LoopAt, BodyAt
  <1>5. /\ Top(t).at \in {"claim", "working"} => IsTask(Top(t).work)
        /\ Top(t).owned = NoJob => t \in Workers /\ Top(t).at # "owners"
        /\ Top(t).owned # NoJob => Top(t).at \notin {"start", "a_team", "b_team"}
    BY <1>2, <1>3, <1>4 DEF LoopOK
  <1> QED
    BY <1>1, <1>3, <1>4, <1>5 DEF s

\* What is known of a thread that is about to join the jobs of its fork.
LEMMA JoinTop ==
  ASSUME ShapeInv, NEW t \in Threads, At(t, "join")
  PROVE  /\ Shape(t, stack[t]) /\ stack[t] # <<>> /\ IsJoin(Head(stack[t]))
         /\ Top(t) = Head(stack[t]) /\ Top(t).i \in 1..Len(Top(t).jobs)
         /\ IsSeq(Top(t).jobs)
         /\ \A i \in 1..Len(Top(t).jobs) : IsTask(Top(t).jobs[i])
  <1>1. Shape(t, stack[t]) /\ stack[t] # <<>>
    BY DEF ShapeInv, At
  <1> DEFINE s == stack[t]
  <1>2. /\ Len(s) \in Nat \ {0} /\ Head(s) = Fr(s, Len(s)) /\ FrameOK(t, s, Len(s))
    BY <1>1, ShapeTop
  <1>3. Head(s) = Top(t) /\ Top(t).at = "join"
    BY DEF Top, At
  <1> HIDE DEF s
  <1>4. IsJoin(Head(s)) /\ JoinOK(t, s, Len(s))
    BY <1>2, <1>3 DEF FrameOK, IsLoop, IsBody, LoopAt, BodyAt
  <1>5. /\ Top(t).i \in 1..Len(Top(t).jobs) /\ IsSeq(Top(t).jobs)
        /\ \A i \in 1..Len(Top(t).jobs) : IsTask(Top(t).jobs[i])
    BY <1>2, <1>3, <1>4 DEF JoinOK
  <1> QED
    BY <1>1, <1>3, <1>4, <1>5 DEF s

\* What is known of a thread that runs a closure or a program.
LEMMA BodyTop ==
  ASSUME ShapeInv, NEW t \in Threads, stack[t] # <<>>, Top(t).at \in BodyAt
  PROVE  /\ Shape(t, stack[t]) /\ IsBody(Head(stack[t])) /\ Top(t) = Head(stack[t])
         /\ Top(t).op \in Nat \ {0}
         /\ Top(t).at = "joining" => /\ Top(t).op \in 1..Len(Ops(Top(t).job))
                                     /\ Ops(Top(t).job)[Top(t).op].op = "shutdown"
         /\ \/ t \in Clients /\ Top(t).job = <<t>>
            \/ IsTask(Top(t).job)
  <1>1. Shape(t, stack[t])
    BY DEF ShapeInv
  <1> DEFINE s == stack[t]
  <1>2. /\ Len(s) \in Nat \ {0} /\ Head(s) = Fr(s, Len(s)) /\ FrameOK(t, s, Len(s))
    BY <1>1, ShapeTop
  <1>3. Head(s) = Top(t)
    BY DEF Top
  <1> HIDE DEF s
  <1>4. IsBody(Head(s)) /\ BodyOK(t, s, Len(s))
    BY <1>2, <1>3 DEF FrameOK, IsLoop, IsJoin, LoopAt, BodyAt
  <1>5. /\ Top(t).op \in Nat \ {0}
        /\ Top(t).at = "joining" => /\ Top(t).op \in 1..Len(Ops(Top(t).job))
                                    /\ Ops(Top(t).job)[Top(t).op].op = "shutdown"
        /\ \/ t \in Clients /\ Top(t).job = <<t>>
           \/ IsTask(Top(t).job)
    BY <1>2, <1>3, <1>4 DEF BodyOK
  <1> QED
    BY <1>1, <1>3, <1>4, <1>5 DEF s

\* A step that does not touch the stacks.
LEMMA StandStill ==
  ASSUME ShapeInv, NEW t \in Threads, stack[t] # <<>>, Awake(stack[t]), UNCHANGED <<stack, aborted>>,
         QueueOK(wq'), SameTeams(wq, wq')
  PROVE  Quiet(t, stack[t])
  <1>1. stack = [stack EXCEPT ![t] = stack[t]] /\ Shape(t, stack[t])
    BY DEF ShapeInv
  <1> QED
    BY <1>1 DEF Quiet, Acts

\* Taking a failed job off the list moves no thread between teams.
LEMMA DropFailedQuiet ==
  ASSUME ShapeInv, NEW t \in Threads, DropFailed(t)
  PROVE  Quiet(t, stack[t])
  <1>1. stack[t] # <<>> /\ Awake(stack[t]) /\ UNCHANGED <<stack, aborted>>
    BY DEF DropFailed, Scanning, At, Awake, Top, SleepAt
  <1>2. PICK J : wq' = [wq EXCEPT !.jobs = WithoutJob(@, J)]
    BY DEF DropFailed
  <1>3. TaskSeq(WithoutJob(wq.jobs, J))
    BY TaskSeqWithout DEF ShapeInv
  <1>4. IsQueue(wq)
    BY DEF ShapeInv
  <1>5. IsQueue(wq') /\ wq'.jobs = WithoutJob(wq.jobs, J) /\ SameTeams(wq, wq')
    BY <1>2, <1>4 DEF IsQueue, SameTeams
  <1> QED
    BY <1>1, <1>3, <1>5, StandStill DEF QueueOK

\* A step that leaves the work queue alone leaves its counters alone.
LEMMA QueueStays ==
  ASSUME ShapeInv, UNCHANGED wq
  PROVE  QueueOK(wq') /\ SameTeams(wq, wq')
  BY DEF ShapeInv, QueueOK, SameTeams

\* Taking over the failure of a sibling moves no thread between teams.
LEMMA InheritFailureQuiet ==
  ASSUME ShapeInv, NEW t \in Threads, InheritFailure(t)
  PROVE  Quiet(t, stack[t])
  <1>1. /\ stack[t] # <<>> /\ Awake(stack[t]) /\ UNCHANGED <<stack, aborted>> /\ UNCHANGED wq
    BY DEF InheritFailure, Scanning, At, Awake, Top, SleepAt
  <1> QED
    BY <1>1, QueueStays, StandStill

\* What is known of a stack with new frames on top.
LEMMA HeadPut ==
  ASSUME NEW s, IsSeq(s), NEW f, NEW g
  PROVE  /\ Head(<<f>> \o s) = f /\ Head(<<g, f>> \o s) = g
  <1>1. /\ IsSeq(<<f>> \o s) /\ Len(<<f>> \o s) = Len(s) + 1 /\ (<<f>> \o s)[1] = f
    BY SeqPut
  <1>2. /\ IsSeq(<<g, f>> \o s) /\ Len(<<g, f>> \o s) = Len(s) + 2 /\ (<<g, f>> \o s)[1] = g
    BY SeqPutTwo
  <1>3. Len(s) \in Nat /\ Len(s) + 1 > 0 /\ Len(s) + 2 > 0
    BY SeqTail
  <1>4. <<f>> \o s # <<>> /\ <<g, f>> \o s # <<>>
    BY <1>1, <1>2, <1>3, SeqTail
  <1> QED
    BY <1>1, <1>2, <1>4, SeqTail

\* worker_thread_already_locked changes its locals.
LEMMA LoopGoes ==
  ASSUME ShapeInv, NEW t \in Threads, stack[t] # <<>>, Top(t).at \in LoopAt,
         NEW g, IsLoop(g), g.owned = Top(t).owned,
         g.at \in {"claim", "working"} => IsTask(g.work),
         g.owned = NoJob => g.at # "owners",
         g.owned # NoJob => g.at \notin {"start", "a_team", "b_team"},
         SetTop(t, g), UNCHANGED aborted, QueueOK(wq')
  PROVE  /\ Acts(t, <<g>> \o Tail(stack[t]))
         /\ Head(<<g>> \o Tail(stack[t])) = g
  <1>1. Shape(t, stack[t]) /\ IsLoop(Head(stack[t])) /\ Top(t) = Head(stack[t])
    BY LoopTop
  <1>2. Shape(t, <<g>> \o Tail(stack[t]))
    BY <1>1, ShapeLoop
  <1>3. IsSeq(Tail(stack[t]))
    BY <1>1, SeqTail DEF Shape
  <1>4. stack' = [stack EXCEPT ![t] = <<g>> \o Tail(stack[t])]
    BY DEF SetTop
  <1> QED
    BY <1>2, <1>3, <1>4, HeadPut DEF Acts

\* It calls the closure of a job.
LEMMA LoopCalls ==
  ASSUME ShapeInv, NEW t \in Threads, stack[t] # <<>>, Top(t).at \in LoopAt,
         NEW g, IsLoop(g), g.owned = Top(t).owned, g.at = "working", IsTask(g.work),
         NEW b, IsBody(b), b.at = "body", b.op \in Nat \ {0}, b.job = g.work,
         Push(t, g, b), UNCHANGED aborted, QueueOK(wq')
  PROVE  /\ Acts(t, <<b, g>> \o Tail(stack[t]))
         /\ Head(<<b, g>> \o Tail(stack[t])) = b
  <1>1. Shape(t, stack[t]) /\ IsLoop(Head(stack[t])) /\ Top(t) = Head(stack[t])
    BY LoopTop
  <1>2. Shape(t, <<b, g>> \o Tail(stack[t]))
    BY <1>1, ShapeCall
  <1>3. IsSeq(Tail(stack[t]))
    BY <1>1, SeqTail DEF Shape
  <1>4. stack' = [stack EXCEPT ![t] = <<b, g>> \o Tail(stack[t])]
    BY DEF Push
  <1> QED
    BY <1>2, <1>3, <1>4, HeadPut DEF Acts

\* A closure or a client goes on.
LEMMA BodyGoes ==
  ASSUME ShapeInv, NEW t \in Threads, stack[t] # <<>>, Top(t).at \in BodyAt,
         NEW g, IsBody(g), g.job = Top(t).job, g.op \in Nat \ {0},
         g.at = "joining" => g.op \in 1..Len(Ops(g.job)) /\ Ops(g.job)[g.op].op = "shutdown",
         SetTop(t, g), UNCHANGED aborted, QueueOK(wq')
  PROVE  /\ Acts(t, <<g>> \o Tail(stack[t]))
         /\ Head(<<g>> \o Tail(stack[t])) = g
  <1>1. Shape(t, stack[t]) /\ IsBody(Head(stack[t])) /\ Top(t) = Head(stack[t])
    BY BodyTop
  <1>2. Shape(t, <<g>> \o Tail(stack[t]))
    BY <1>1, ShapeBody
  <1>3. IsSeq(Tail(stack[t]))
    BY <1>1, SeqTail DEF Shape
  <1>4. stack' = [stack EXCEPT ![t] = <<g>> \o Tail(stack[t])]
    BY DEF SetTop
  <1> QED
    BY <1>2, <1>3, <1>4, HeadPut DEF Acts

\* Reserving threads for a job does not touch the counters of the teams.
LEMMA ReserveQueue ==
  ASSUME NEW jobs, NEW queue, NEW J, NEW delta, QueueOK(queue), Reserve(jobs, queue, J, delta)
  PROVE  QueueOK(wq') /\ SameTeams(queue, wq')
  <1>1. wq' = queue \/ wq' = [queue EXCEPT !.threads_reserved = @ + delta]
    BY DEF Reserve
  <1>2. IsQueue(wq') /\ wq'.jobs = queue.jobs /\ SameTeams(queue, wq')
    BY <1>1 DEF QueueOK, IsQueue, SameTeams
  <1> QED
    BY <1>2 DEF QueueOK

\* The locals of worker_thread_already_locked, assigned one by one.
LoopFrame(at, owned, work, min, total, iters, result) ==
    [at |-> at, owned |-> owned, work |-> work, min |-> min, total |-> total,
     iters |-> iters, result |-> result]

\* The fields of a worker's frame, and what changing one of them gives.
LEMMA LoopFields ==
  ASSUME NEW a, NEW b, NEW c, NEW d, NEW e, NEW i, NEW r, NEW f, f = LoopFrame(a, b, c, d, e, i, r)
  PROVE  /\ f.at = a /\ f.owned = b /\ f.work = c /\ f.min = d /\ f.total = e
         /\ f.iters = i /\ f.result = r
         /\ \A x : [f EXCEPT !.at = x] = LoopFrame(x, b, c, d, e, i, r)
         /\ \A x : [f EXCEPT !.work = x] = LoopFrame(a, b, x, d, e, i, r)
         /\ \A x : [f EXCEPT !.min = x] = LoopFrame(a, b, c, x, e, i, r)
         /\ \A x : [f EXCEPT !.total = x] = LoopFrame(a, b, c, d, x, i, r)
         /\ \A x : [f EXCEPT !.iters = x] = LoopFrame(a, b, c, d, e, x, r)
         /\ \A x : [f EXCEPT !.result = x] = LoopFrame(a, b, c, d, e, i, x)
  <1>1. /\ f.at = a /\ f.owned = b /\ f.work = c /\ f.min = d /\ f.total = e
        /\ f.iters = i /\ f.result = r
    BY DEF LoopFrame
  <1> SUFFICES ASSUME NEW x
               PROVE  /\ [f EXCEPT !.at = x] = LoopFrame(x, b, c, d, e, i, r)
                      /\ [f EXCEPT !.work = x] = LoopFrame(a, b, x, d, e, i, r)
                      /\ [f EXCEPT !.min = x] = LoopFrame(a, b, c, x, e, i, r)
                      /\ [f EXCEPT !.total = x] = LoopFrame(a, b, c, d, x, i, r)
                      /\ [f EXCEPT !.iters = x] = LoopFrame(a, b, c, d, e, x, r)
                      /\ [f EXCEPT !.result = x] = LoopFrame(a, b, c, d, e, i, x)
    BY <1>1
  <1>2. [f EXCEPT !.at = x] = LoopFrame(x, b, c, d, e, i, r)
    BY DEF LoopFrame
  <1>3. [f EXCEPT !.work = x] = LoopFrame(a, b, x, d, e, i, r)
    BY DEF LoopFrame
  <1>4. [f EXCEPT !.min = x] = LoopFrame(a, b, c, x, e, i, r)
    BY DEF LoopFrame
  <1>5. [f EXCEPT !.total = x] = LoopFrame(a, b, c, d, x, i, r)
    BY DEF LoopFrame
  <1>6. [f EXCEPT !.iters = x] = LoopFrame(a, b, c, d, e, x, r)
    BY DEF LoopFrame
  <1>7. [f EXCEPT !.result = x] = LoopFrame(a, b, c, d, e, i, x)
    BY DEF LoopFrame
  <1> QED
    BY <1>2, <1>3, <1>4, <1>5, <1>6, <1>7

\* The frame of a worker that claims a job.
LEMMA LoopClaims ==
  ASSUME NEW f, IsLoop(f), NEW J
  PROVE  [f EXCEPT !.at = "claim", !.work = J, !.iters = 1, !.total = 0, !.result = 0]
           = LoopFrame("claim", f.owned, J, f.min, 0, 1, 0)
  <1> DEFINE g == [f EXCEPT !.at = "claim"]
             h == [g EXCEPT !.work = J]
             i == [h EXCEPT !.iters = 1]
             j == [i EXCEPT !.total = 0]
             k == [j EXCEPT !.result = 0]
  <1>1. f = LoopFrame(f.at, f.owned, f.work, f.min, f.total, f.iters, f.result)
    BY DEF IsLoop, LoopFrame
  <1>2. k = [f EXCEPT !.at = "claim", !.work = J, !.iters = 1, !.total = 0, !.result = 0]
    OBVIOUS
  <1>3. g = LoopFrame("claim", f.owned, f.work, f.min, f.total, f.iters, f.result)
    BY <1>1, LoopFields
  <1> HIDE DEF g
  <1>4. h = LoopFrame("claim", f.owned, J, f.min, f.total, f.iters, f.result)
    BY <1>3, LoopFields
  <1> HIDE DEF h
  <1>5. i = LoopFrame("claim", f.owned, J, f.min, f.total, 1, f.result)
    BY <1>4, LoopFields
  <1> HIDE DEF i
  <1>6. j = LoopFrame("claim", f.owned, J, f.min, 0, 1, f.result)
    BY <1>5, LoopFields
  <1> HIDE DEF j
  <1>7. k = LoopFrame("claim", f.owned, J, f.min, 0, 1, 0)
    BY <1>6, LoopFields
  <1> QED
    BY <1>2, <1>7

\* The frame of a worker that begins an iteration.
LEMMA LoopWorks ==
  ASSUME NEW f, IsLoop(f), NEW J, NEW n
  PROVE  [f EXCEPT !.at = "working", !.work = J, !.min = n]
           = LoopFrame("working", f.owned, J, n, f.total, f.iters, f.result)
  <1> DEFINE g == [f EXCEPT !.at = "working"]
             h == [g EXCEPT !.work = J]
             i == [h EXCEPT !.min = n]
  <1>1. f = LoopFrame(f.at, f.owned, f.work, f.min, f.total, f.iters, f.result)
    BY DEF IsLoop, LoopFrame
  <1>2. i = [f EXCEPT !.at = "working", !.work = J, !.min = n]
    OBVIOUS
  <1>3. g = LoopFrame("working", f.owned, f.work, f.min, f.total, f.iters, f.result)
    BY <1>1, LoopFields
  <1> HIDE DEF g
  <1>4. h = LoopFrame("working", f.owned, J, f.min, f.total, f.iters, f.result)
    BY <1>3, LoopFields
  <1> HIDE DEF h
  <1>5. i = LoopFrame("working", f.owned, J, n, f.total, f.iters, f.result)
    BY <1>4, LoopFields
  <1> QED
    BY <1>2, <1>5

\* The frame of a worker that is done with a job.
LEMMA LoopFinishes ==
  ASSUME NEW f, IsLoop(f)
  PROVE  [f EXCEPT !.at = "scan", !.work = NoJob, !.min = 0, !.result = 0, !.total = 0]
           = LoopFrame("scan", f.owned, NoJob, 0, 0, f.iters, 0)
  <1> DEFINE g == [f EXCEPT !.at = "scan"]
             h == [g EXCEPT !.work = NoJob]
             i == [h EXCEPT !.min = 0]
             j == [i EXCEPT !.result = 0]
             k == [j EXCEPT !.total = 0]
  <1>1. f = LoopFrame(f.at, f.owned, f.work, f.min, f.total, f.iters, f.result)
    BY DEF IsLoop, LoopFrame
  <1>2. k = [f EXCEPT !.at = "scan", !.work = NoJob, !.min = 0, !.result = 0, !.total = 0]
    OBVIOUS
  <1>3. g = LoopFrame("scan", f.owned, f.work, f.min, f.total, f.iters, f.result)
    BY <1>1, LoopFields
  <1> HIDE DEF g
  <1>4. h = LoopFrame("scan", f.owned, NoJob, f.min, f.total, f.iters, f.result)
    BY <1>3, LoopFields
  <1> HIDE DEF h
  <1>5. i = LoopFrame("scan", f.owned, NoJob, 0, f.total, f.iters, f.result)
    BY <1>4, LoopFields
  <1> HIDE DEF i
  <1>6. j = LoopFrame("scan", f.owned, NoJob, 0, f.total, f.iters, 0)
    BY <1>5, LoopFields
  <1> HIDE DEF j
  <1>7. k = LoopFrame("scan", f.owned, NoJob, 0, 0, f.iters, 0)
    BY <1>6, LoopFields
  <1> QED
    BY <1>2, <1>7

\* The frame of a worker whose closure has returned.
LEMMA LoopReturns ==
  ASSUME NEW f, IsLoop(f), NEW r, NEW n, NEW a,
         NEW k, k = [f EXCEPT !.result = r, !.total = n, !.iters = 0, !.at = a]
  PROVE  k = LoopFrame(a, f.owned, f.work, f.min, n, 0, r)
  <1> DEFINE g == [f EXCEPT !.result = r]
             h == [g EXCEPT !.total = n]
             i == [h EXCEPT !.iters = 0]
             j == [i EXCEPT !.at = a]
  <1>1. f = LoopFrame(f.at, f.owned, f.work, f.min, f.total, f.iters, f.result)
    BY DEF IsLoop, LoopFrame
  <1>2. j = [f EXCEPT !.result = r, !.total = n, !.iters = 0, !.at = a]
    OBVIOUS
  <1>3. g = LoopFrame(f.at, f.owned, f.work, f.min, f.total, f.iters, r)
    BY <1>1, LoopFields
  <1> HIDE DEF g
  <1>4. h = LoopFrame(f.at, f.owned, f.work, f.min, n, f.iters, r)
    BY <1>3, LoopFields
  <1> HIDE DEF h
  <1>5. i = LoopFrame(f.at, f.owned, f.work, f.min, n, 0, r)
    BY <1>4, LoopFields
  <1> HIDE DEF i
  <1>6. j = LoopFrame(a, f.owned, f.work, f.min, n, 0, r)
    BY <1>5, LoopFields
  <1> QED
    BY <1>2, <1>6

\* Frames made by LoopFrame are frames of a worker.
LEMMA LoopFrameIs ==
  ASSUME NEW a \in LoopAt, NEW b, NEW c, NEW d, NEW e, NEW i, NEW r
  PROVE  IsLoop(LoopFrame(a, b, c, d, e, i, r))
  BY DEF IsLoop, LoopFrame

\* A thread that starts on a job stays in its team.
LEMMA StartQuiet ==
  ASSUME ShapeInv, NEW t \in Threads, Start(t)
  PROVE  \E s : Quiet(t, s)
  <1> DEFINE f == Top(t)
             J == wq.jobs[Found(f.owned)]
             queue == [wq EXCEPT !.jobs = IF Last(J) THEN WithoutJob(@, J) ELSE @]
  <1>1. stack[t] # <<>> /\ f.at = "scan" /\ Found(f.owned) # 0
    BY DEF Start, Searching, Scanning, At
  <1>2. IsLoop(f) /\ f = Head(stack[t])
    BY <1>1, LoopTop DEF LoopAt
  <1>3. IsTask(J)
    BY <1>1, FoundJob DEF ShapeInv
  <1>4. QueueOK(queue) /\ SameTeams(wq, queue)
    <2>1. TaskSeq(wq.jobs) /\ IsQueue(wq) /\ TaskSeq(WithoutJob(wq.jobs, J))
      BY TaskSeqWithout DEF ShapeInv
    <2>2. queue.jobs = IF Last(J) THEN WithoutJob(wq.jobs, J) ELSE wq.jobs
      BY <2>1 DEF IsQueue
    <2>3. IsQueue(queue) /\ SameTeams(wq, queue)
      BY <2>1 DEF IsQueue, SameTeams
    <2> QED
      BY <2>1, <2>2, <2>3 DEF QueueOK
  <1>5. PICK jobs, d : Reserve(jobs, queue, J, d)
    BY DEF Start
  <1>6. QueueOK(wq') /\ SameTeams(wq, wq')
    BY <1>4, <1>5, ReserveQueue DEF SameTeams
  <1>7. UNCHANGED aborted
    BY DEF Start
  <1>8. Awake(stack[t])
    BY <1>1, <1>2 DEF Awake, SleepAt
  <1>9. CASE SetTop(t, [f EXCEPT !.at = "claim", !.work = J, !.iters = 1, !.total = 0, !.result = 0])
    <2> DEFINE g == [f EXCEPT !.at = "claim", !.work = J, !.iters = 1, !.total = 0, !.result = 0]
    <2>1. IsLoop(g) /\ g.owned = f.owned /\ g.at = "claim" /\ g.work = J
      <3>1. g = LoopFrame("claim", f.owned, J, f.min, 0, 1, 0)
        BY <1>2, LoopClaims
      <3> HIDE DEF g, f, J
      <3> QED
        BY <3>1, LoopFields, LoopFrameIs DEF LoopAt
    <2>2. SetTop(t, g)
      BY <1>9
    <2> HIDE DEF g
    <2>3. Acts(t, <<g>> \o Tail(stack[t])) /\ Head(<<g>> \o Tail(stack[t])) = g
      BY <1>1, <1>3, <1>6, <1>7, <2>1, <2>2, LoopGoes DEF LoopAt
    <2>4. Awake(<<g>> \o Tail(stack[t]))
      BY <2>1, <2>3 DEF Awake, SleepAt
    <2> QED
      BY <1>6, <1>8, <2>3, <2>4 DEF Quiet
  <1>10. CASE Push(t, [f EXCEPT !.at = "working", !.work = J, !.min = job[J].min],
                   Body(J, job[J].min, 0))
    <2> DEFINE g == [f EXCEPT !.at = "working", !.work = J, !.min = job[J].min]
               b == Body(J, job[J].min, 0)
    <2>1. IsLoop(g) /\ g.owned = f.owned /\ g.at = "working" /\ g.work = J
      <3>1. g = LoopFrame("working", f.owned, J, job[J].min, f.total, f.iters, f.result)
        BY <1>2, LoopWorks
      <3> HIDE DEF g, f, J
      <3> QED
        BY <3>1, LoopFields, LoopFrameIs DEF LoopAt
    <2>2. Push(t, g, b)
      BY <1>10
    <2>3. IsBody(b) /\ b.at = "body" /\ b.op \in Nat \ {0} /\ b.job = J
      BY DEF IsBody, Body, BodyAt
    <2> HIDE DEF g, b
    <2>4. Acts(t, <<b, g>> \o Tail(stack[t])) /\ Head(<<b, g>> \o Tail(stack[t])) = b
      BY <1>1, <1>3, <1>6, <1>7, <2>1, <2>2, <2>3, LoopCalls DEF LoopAt
    <2>5. Awake(<<b, g>> \o Tail(stack[t]))
      BY <2>3, <2>4 DEF Awake, SleepAt
    <2> QED
      BY <1>6, <1>8, <2>4, <2>5 DEF Quiet
  <1> QED
    BY <1>9, <1>10 DEF Start

\* Changing the place or the iterations of a worker's frame keeps the rest.
LEMMA LoopFieldsOf ==
  ASSUME NEW f, IsLoop(f)
  PROVE  /\ \A x : [f EXCEPT !.at = x] =
                      LoopFrame(x, f.owned, f.work, f.min, f.total, f.iters, f.result)
         /\ \A x : [f EXCEPT !.iters = x] =
                      LoopFrame(f.at, f.owned, f.work, f.min, f.total, x, f.result)
  <1>1. f = LoopFrame(f.at, f.owned, f.work, f.min, f.total, f.iters, f.result)
    BY DEF IsLoop, LoopFrame
  <1> QED
    BY <1>1, LoopFields

\* A thread that claims iterations of a job stays in its team.
LEMMA ClaimQuiet ==
  ASSUME ShapeInv, NEW t \in Threads, Claim(t)
  PROVE  \E s : Quiet(t, s)
  <1> DEFINE f == Top(t)
             g == [f EXCEPT !.iters = @ + 1]
  <1>1. stack[t] # <<>> /\ f.at = "claim" /\ SetTop(t, g) /\ UNCHANGED aborted /\ UNCHANGED wq
    BY DEF Claim, At
  <1>2. IsLoop(f) /\ f = Head(stack[t]) /\ IsTask(f.work)
    BY <1>1, LoopTop DEF LoopAt
  <1>3. g = LoopFrame(f.at, f.owned, f.work, f.min, f.total, f.iters + 1, f.result)
    BY <1>2, LoopFieldsOf
  <1>4. IsLoop(g) /\ g.owned = f.owned /\ g.at = "claim" /\ g.work = f.work
    <2> HIDE DEF f, g
    <2> QED
      BY <1>1, <1>3, LoopFields, LoopFrameIs DEF LoopAt
  <1>5. QueueOK(wq') /\ SameTeams(wq, wq')
    BY <1>1, QueueStays
  <1> HIDE DEF g
  <1>6. Acts(t, <<g>> \o Tail(stack[t])) /\ Head(<<g>> \o Tail(stack[t])) = g
    BY <1>1, <1>2, <1>4, <1>5, LoopGoes DEF LoopAt
  <1>7. Awake(<<g>> \o Tail(stack[t])) /\ Awake(stack[t])
    BY <1>1, <1>2, <1>4, <1>6 DEF Awake, SleepAt
  <1> QED
    BY <1>5, <1>6, <1>7 DEF Quiet

\* A thread that runs what it claimed stays in its team.
LEMMA RunClaimedQuiet ==
  ASSUME ShapeInv, NEW t \in Threads, RunClaimed(t)
  PROVE  \E s : Quiet(t, s)
  <1> DEFINE f == Top(t)
             g == [f EXCEPT !.at = "working"]
             b == Body(f.work, NextIteration(f), f.iters - 1)
  <1>1. /\ stack[t] # <<>> /\ f.at = "claim" /\ (SetTop(t, g) \/ Push(t, g, b))
        /\ UNCHANGED aborted /\ UNCHANGED wq
    BY DEF RunClaimed, At
  <1>2. IsLoop(f) /\ f = Head(stack[t]) /\ IsTask(f.work)
    BY <1>1, LoopTop DEF LoopAt
  <1>3. g = LoopFrame("working", f.owned, f.work, f.min, f.total, f.iters, f.result)
    BY <1>2, LoopFieldsOf
  <1>4. IsLoop(g) /\ g.owned = f.owned /\ g.at = "working" /\ g.work = f.work
    <2> HIDE DEF f, g
    <2> QED
      BY <1>3, LoopFields, LoopFrameIs DEF LoopAt
  <1>5. QueueOK(wq') /\ SameTeams(wq, wq')
    BY <1>1, QueueStays
  <1>6. IsBody(b) /\ b.at = "body" /\ b.op \in Nat \ {0} /\ b.job = f.work
    BY DEF IsBody, Body, BodyAt
  <1> HIDE DEF g, b
  <1>7. Awake(stack[t])
    BY <1>1, <1>2 DEF Awake, SleepAt
  <1>8. CASE SetTop(t, g)
    <2>1. Acts(t, <<g>> \o Tail(stack[t])) /\ Head(<<g>> \o Tail(stack[t])) = g
      BY <1>1, <1>2, <1>4, <1>5, <1>8, LoopGoes DEF LoopAt
    <2>2. Awake(<<g>> \o Tail(stack[t]))
      BY <1>4, <2>1 DEF Awake, SleepAt
    <2> QED
      BY <1>5, <1>7, <2>1, <2>2 DEF Quiet
  <1>9. CASE Push(t, g, b)
    <2>1. Acts(t, <<b, g>> \o Tail(stack[t])) /\ Head(<<b, g>> \o Tail(stack[t])) = b
      BY <1>1, <1>2, <1>4, <1>5, <1>6, <1>9, LoopCalls DEF LoopAt
    <2>2. Awake(<<b, g>> \o Tail(stack[t]))
      BY <1>6, <2>1 DEF Awake, SleepAt
    <2> QED
      BY <1>5, <1>7, <2>1, <2>2 DEF Quiet
  <1> QED
    BY <1>1, <1>8, <1>9

\* A thread that is done with a job stays in its team.
LEMMA FinishQuiet ==
  ASSUME ShapeInv, NEW t \in Threads, Finish(t)
  PROVE  \E s : Quiet(t, s)
  <1> DEFINE f == Top(t)
             J == f.work
             g == [f EXCEPT !.at = "scan", !.work = NoJob, !.min = 0, !.result = 0,
                            !.total = 0]
  <1>1. stack[t] # <<>> /\ f.at = "working" /\ SetTop(t, g) /\ UNCHANGED aborted
    BY DEF Finish, At
  <1>2. IsLoop(f) /\ f = Head(stack[t]) /\ IsTask(f.work)
    BY <1>1, LoopTop DEF LoopAt
  <1>3. g = LoopFrame("scan", f.owned, NoJob, 0, 0, f.iters, 0)
    BY <1>2, LoopFinishes
  <1>4. IsLoop(g) /\ g.owned = f.owned /\ g.at = "scan"
    <2> HIDE DEF f, g
    <2> QED
      BY <1>3, LoopFields, LoopFrameIs DEF LoopAt
  <1> HIDE DEF g
  <1>5. PICK jobs, c, d : Reserve(jobs, [wq EXCEPT !.jobs = IF c THEN <<J>> \o @ ELSE @], J, d)
    BY DEF Finish
  <1> DEFINE queue == [wq EXCEPT !.jobs = IF c THEN <<J>> \o @ ELSE @]
  <1>6. QueueOK(queue) /\ SameTeams(wq, queue)
    <2>1. TaskSeq(wq.jobs) /\ IsQueue(wq) /\ TaskSeq(<<J>> \o wq.jobs)
      BY <1>2, TaskSeqOne DEF ShapeInv
    <2>2. queue.jobs = IF c THEN <<J>> \o wq.jobs ELSE wq.jobs
      BY <2>1 DEF IsQueue
    <2>3. IsQueue(queue) /\ SameTeams(wq, queue)
      BY <2>1 DEF IsQueue, SameTeams
    <2> QED
      BY <2>1, <2>2, <2>3 DEF QueueOK
  <1> HIDE DEF queue
  <1>7. QueueOK(wq') /\ SameTeams(wq, wq')
    <2>1. Reserve(jobs, queue, J, d)
      BY <1>5 DEF queue
    <2>2. QueueOK(wq') /\ SameTeams(queue, wq')
      BY <1>6, <2>1, ReserveQueue
    <2> QED
      BY <1>6, <2>2 DEF SameTeams
  <1>8. Acts(t, <<g>> \o Tail(stack[t])) /\ Head(<<g>> \o Tail(stack[t])) = g
    BY <1>1, <1>2, <1>4, <1>7, LoopGoes DEF LoopAt
  <1>9. Awake(<<g>> \o Tail(stack[t])) /\ Awake(stack[t])
    BY <1>1, <1>2, <1>4, <1>8 DEF Awake, SleepAt
  <1> QED
    BY <1>7, <1>8, <1>9 DEF Quiet

\* Below the loop of an owner is the call that joins its job.
LEMMA OwnerBelow ==
  ASSUME ShapeInv, NEW t \in Threads, stack[t] # <<>>, Top(t).at \in LoopAt, Top(t).owned # NoJob
  PROVE  /\ Tail(stack[t]) # <<>> /\ Head(Tail(stack[t])).at = "join"
         /\ IsJoin(Head(Tail(stack[t])))
         /\ Top(t).owned = Head(Tail(stack[t])).jobs[Head(Tail(stack[t])).i]
  <1>1. Shape(t, stack[t])
    BY DEF ShapeInv
  <1> DEFINE s == stack[t]
             n == Len(s)
  <1>2. /\ IsSeq(s) /\ n \in Nat \ {0} /\ Head(s) = Fr(s, n) /\ FrameOK(t, s, n)
    BY <1>1, ShapeTop
  <1>3. Head(s) = Top(t) /\ s # <<>>
    BY DEF Top
  <1>4. Keeps(Tail(s), s, n - 1, n - 1)
    BY <1>2, FrOps
  <1> HIDE DEF s, n
  <1>5. LoopOK(t, s, n)
    BY <1>2, <1>3 DEF FrameOK, IsJoin, IsBody, LoopAt, BodyAt
  <1>6. n > 1 /\ IsJoin(Fr(s, n - 1)) /\ Top(t).owned = Fr(s, n - 1).jobs[Fr(s, n - 1).i]
    BY <1>2, <1>3, <1>5 DEF LoopOK
  <1>7. IsSeq(Tail(s)) /\ Len(Tail(s)) = n - 1 /\ Fr(Tail(s), n - 1) = Fr(s, n - 1)
    BY <1>2, <1>4, <1>6 DEF Keeps
  <1>8. Tail(s) # <<>>
    <2>1. n - 1 > 0
      BY <1>2, <1>6
    <2>2. IsSeq(Tail(s)) /\ Len(Tail(s)) > 0
      BY <1>7, <2>1
    <2> QED
      BY <2>2, SeqTail
  <1>9. Head(Tail(s)) = Fr(s, n - 1)
    BY <1>7, <1>8, FrOps
  <1> QED
    BY <1>6, <1>8, <1>9 DEF IsJoin, s

\* A worker that leaves its loop was awake, and its team does not change.
LEMMA LeaveQuiet ==
  ASSUME ShapeInv, NEW t \in Threads, Leave(t)
  PROVE  \E s : Quiet(t, s)
  <1>1. /\ stack[t] # <<>> /\ Top(t).at = "scan" /\ UNCHANGED aborted /\ UNCHANGED wq
        /\ \/ Top(t).owned = NoJob /\ stack' = [stack EXCEPT ![t] = <<>>]
           \/ Top(t).owned # NoJob /\ stack' = [stack EXCEPT ![t] = Tail(stack[t])]
    BY DEF Leave, Scanning, At
  <1>2. /\ Shape(t, stack[t]) /\ Top(t) = Head(stack[t])
        /\ Top(t).owned = NoJob => t \in Workers
    BY <1>1, LoopTop DEF LoopAt
  <1>3. QueueOK(wq') /\ SameTeams(wq, wq') /\ Awake(stack[t])
    BY <1>1, <1>2, QueueStays DEF Awake, SleepAt
  <1>4. CASE Top(t).owned = NoJob /\ stack' = [stack EXCEPT ![t] = <<>>]
    <2>1. Shape(t, <<>>)
      BY <1>2, <1>4, ShapeThread
    <2>2. Acts(t, <<>>) /\ Awake(<<>>)
      BY <1>1, <1>3, <1>4, <2>1 DEF Acts, Awake
    <2> QED
      BY <1>3, <2>2 DEF Quiet
  <1>5. CASE Top(t).owned # NoJob /\ stack' = [stack EXCEPT ![t] = Tail(stack[t])]
    <2>1. Shape(t, Tail(stack[t]))
      BY <1>1, <1>2, ShapeLeave
    <2>2. Awake(Tail(stack[t]))
      BY <1>1, <1>2, <1>5, OwnerBelow DEF Awake, SleepAt, LoopAt
    <2> QED
      BY <1>1, <1>3, <1>5, <2>1, <2>2 DEF Quiet, Acts
  <1> QED
    BY <1>1, <1>4, <1>5

\* A body that goes on after a call.
LEMMA Resumes ==
  ASSUME NEW c, IsBody(c), c.op \in Nat \ {0}
  PROVE  /\ LET g == [c EXCEPT !.op = @ + 1] IN
            IsBody(g) /\ g.at = c.at /\ g.job = c.job /\ g.op \in Nat \ {0}
         /\ \A a \in BodyAt : LET g == [c EXCEPT !.at = a] IN
            IsBody(g) /\ g.at = a /\ g.job = c.job /\ g.op = c.op
  <1>1. ASSUME NEW n
        PROVE  LET g == [c EXCEPT !.op = n] IN
               IsBody(g) /\ g.at = c.at /\ g.job = c.job /\ g.op = n
    <2> DEFINE g == [c EXCEPT !.op = n]
    <2>1. g = [at |-> c.at, job |-> c.job, it |-> c.it, left |-> c.left, op |-> n]
      BY DEF IsBody
    <2> HIDE DEF g
    <2>2. IsBody(g) /\ g.at = c.at /\ g.job = c.job /\ g.op = n
      BY <2>1 DEF IsBody
    <2> QED
      BY <2>2 DEF g
  <1>2. ASSUME NEW a \in BodyAt
        PROVE  LET g == [c EXCEPT !.at = a] IN
               IsBody(g) /\ g.at = a /\ g.job = c.job /\ g.op = c.op
    <2> DEFINE g == [c EXCEPT !.at = a]
    <2>1. g = [at |-> a, job |-> c.job, it |-> c.it, left |-> c.left, op |-> c.op]
      BY DEF IsBody
    <2> HIDE DEF g
    <2>2. IsBody(g) /\ g.at = a /\ g.job = c.job /\ g.op = c.op
      BY <2>1 DEF IsBody
    <2> QED
      BY <2>2 DEF g
  <1>3. c.op + 1 \in Nat \ {0}
    OBVIOUS
  <1> QED
    BY <1>1, <1>2, <1>3

\* A stack without its two topmost frames is a stack.
LEMMA TailTwo ==
  ASSUME NEW s, IsSeq(s), Len(s) > 1
  PROVE  IsSeq(Tail(Tail(s)))
  <1>1. s # <<>> /\ Len(s) \in Nat
    BY SeqTail
  <1>2. IsSeq(Tail(s)) /\ Len(Tail(s)) = Len(s) - 1
    BY <1>1, SeqTail
  <1>3. Len(Tail(s)) > 0
    BY <1>1, <1>2
  <1> HIDE <1>1
  <1>4. Tail(s) # <<>>
    BY <1>2, <1>3, SeqTail
  <1> QED
    BY <1>2, <1>4, SeqTail

\* Going on to the next job of a fork moves no thread between teams.
LEMMA JoinNextQuiet ==
  ASSUME ShapeInv, NEW t \in Threads, JoinNext(t)
  PROVE  \E s : Quiet(t, s)
  <1> DEFINE f == Top(t)
  <1>1. stack[t] # <<>> /\ f.at = "join" /\ UNCHANGED aborted /\ UNCHANGED wq
    BY DEF JoinNext, At
  <1>2. /\ Shape(t, stack[t]) /\ IsJoin(f) /\ f = Head(stack[t])
        /\ f.i \in 1..Len(f.jobs) /\ IsSeq(f.jobs)
        /\ \A i \in 1..Len(f.jobs) : IsTask(f.jobs[i])
    BY <1>1, JoinTop DEF At
  <1>3. QueueOK(wq') /\ SameTeams(wq, wq') /\ Awake(stack[t])
    BY <1>1, <1>2, QueueStays DEF Awake, SleepAt
  <1>4. PICK status :
           \/ /\ f.i < Len(f.jobs)
              /\ Push(t, Join(f.jobs, f.i + 1, status), Loop(f.jobs[f.i + 1], "scan"))
           \/ stack' = [stack EXCEPT ![t] = <<Resumed(stack[t][2], status)>> \o Tail(Tail(stack[t]))]
    BY DEF JoinNext
  <1>5. CASE /\ f.i < Len(f.jobs)
             /\ Push(t, Join(f.jobs, f.i + 1, status), Loop(f.jobs[f.i + 1], "scan"))
    <2> DEFINE g == Join(f.jobs, f.i + 1, status)
               b == Loop(f.jobs[f.i + 1], "scan")
    <2>1. f.i + 1 \in 1..Len(f.jobs)
      <3>1. Len(f.jobs) \in Nat
        BY <1>2, SeqTail
      <3> QED
        BY <1>2, <1>5, <3>1
    <2>2. IsJoin(g) /\ g.jobs = f.jobs /\ g.i = f.i + 1
      BY DEF IsJoin, Join
    <2>3. IsLoop(b) /\ b.at = "scan" /\ b.owned = f.jobs[f.i + 1]
      BY DEF IsLoop, Loop, LoopAt
    <2>4. stack' = [stack EXCEPT ![t] = <<b, g>> \o Tail(stack[t])]
      BY <1>5 DEF Push
    <2> HIDE DEF g, b
    <2>5. Shape(t, <<b, g>> \o Tail(stack[t]))
      BY <1>1, <1>2, <2>1, <2>2, <2>3, ShapeJoin
    <2>6. IsSeq(Tail(stack[t]))
      BY <1>1, <1>2, SeqTail DEF Shape
    <2>7. Awake(<<b, g>> \o Tail(stack[t]))
      BY <2>3, <2>6, HeadPut DEF Awake, SleepAt
    <2> QED
      BY <1>1, <1>3, <2>4, <2>5, <2>7 DEF Quiet, Acts
  <1>6. CASE stack' = [stack EXCEPT ![t] = <<Resumed(stack[t][2], status)>> \o Tail(Tail(stack[t]))]
    <2> DEFINE c == stack[t][2]
               g == Resumed(c, status)
    <2>1. /\ Len(stack[t]) > 1 /\ IsBody(c) /\ c.at = "body" /\ c.op \in Nat \ {0}
          /\ \A h : IsBody(h) /\ h.at \in {"body", "failing"} /\ h.job = c.job
                     /\ h.op \in Nat \ {0}
               => Shape(t, <<h>> \o Tail(Tail(stack[t])))
      BY <1>1, <1>2, ShapeJoined
    <2> HIDE DEF c
    <2>2. IsBody(g) /\ g.at \in {"body", "failing"} /\ g.job = c.job /\ g.op \in Nat \ {0}
      <3>1. CASE status = 0
        <4>1. g = [c EXCEPT !.op = @ + 1]
          BY <3>1 DEF Resumed
        <4> HIDE DEF g
        <4> QED
          BY <2>1, <4>1, Resumes
      <3>2. CASE status # 0
        <4>1. g = [c EXCEPT !.at = "failing"]
          BY <3>2 DEF Resumed
        <4> HIDE DEF g
        <4> QED
          BY <2>1, <4>1, Resumes DEF BodyAt
      <3> QED
        BY <3>1, <3>2
    <2>3. stack' = [stack EXCEPT ![t] = <<g>> \o Tail(Tail(stack[t]))]
      BY <1>6 DEF c
    <2> HIDE DEF g
    <2>4. Shape(t, <<g>> \o Tail(Tail(stack[t])))
      BY <2>1, <2>2
    <2>5. IsSeq(Tail(Tail(stack[t])))
      BY <1>1, <1>2, <2>1, TailTwo DEF Shape
    <2>6. Awake(<<g>> \o Tail(Tail(stack[t])))
      BY <2>2, <2>5, HeadPut DEF Awake, SleepAt
    <2> QED
      BY <1>1, <1>3, <2>3, <2>4, <2>6 DEF Quiet, Acts
  <1> QED
    BY <1>4, <1>5, <1>6

\* A closure or a client that goes on keeps its job.
LEMMA BodyQuiet ==
  ASSUME ShapeInv, NEW t \in Threads, stack[t] # <<>>, Top(t).at \in BodyAt,
         NEW g, IsBody(g), g.job = Top(t).job, g.op \in Nat \ {0}, g.at # "joining",
         SetTop(t, g), UNCHANGED aborted, QueueOK(wq'), SameTeams(wq, wq')
  PROVE  \E s : Quiet(t, s)
  <1>1. Acts(t, <<g>> \o Tail(stack[t])) /\ Head(<<g>> \o Tail(stack[t])) = g
    BY BodyGoes
  <1>2. Head(stack[t]) = Top(t) /\ g.at \in BodyAt
    BY DEF Top, IsBody
  <1>3. Awake(<<g>> \o Tail(stack[t])) /\ Awake(stack[t])
    BY <1>1, <1>2 DEF Awake, SleepAt, BodyAt
  <1> QED
    BY <1>1, <1>3 DEF Quiet

\* Going on to the next operation of a program moves no thread between teams.
LEMMA AdvanceQuiet ==
  ASSUME ShapeInv, NEW t \in Threads, stack[t] # <<>>, Top(t).at = "body",
         Advance(t), UNCHANGED aborted, QueueOK(wq'), SameTeams(wq, wq')
  PROVE  \E s : Quiet(t, s)
  <1> DEFINE g == [Top(t) EXCEPT !.op = @ + 1]
  <1>1. IsBody(Top(t)) /\ Top(t).op \in Nat \ {0}
    BY BodyTop DEF BodyAt
  <1>2. IsBody(g) /\ g.at = "body" /\ g.job = Top(t).job /\ g.op \in Nat \ {0}
    BY <1>1, Resumes
  <1>3. SetTop(t, g)
    BY DEF Advance
  <1> HIDE DEF g
  <1> QED
    BY <1>2, <1>3, BodyQuiet DEF BodyAt

\* A call that returns at once moves no thread between teams.
LEMMA CallSkipsQuiet ==
  ASSUME ShapeInv, NEW t \in Threads, InBody(t), Advance(t), UNCHANGED <<wq, aborted>>
  PROVE  \E s : Quiet(t, s)
  <1>1. stack[t] # <<>> /\ Top(t).at = "body"
    BY DEF InBody, At
  <1> QED
    BY <1>1, QueueStays, AdvanceQuiet

\* Releasing a semaphore moves no thread between teams.
LEMMA ReleaseQuiet ==
  ASSUME ShapeInv, NEW t \in Threads, Release(t)
  PROVE  \E s : Quiet(t, s)
  <1>1. /\ stack[t] # <<>> /\ Top(t).at = "body" /\ UNCHANGED wq /\ UNCHANGED aborted
        /\ Advance(t) \/ SetTop(t, [Top(t) EXCEPT !.at = "released"])
    BY DEF Release, HasOp, InBody, At
  <1>2. QueueOK(wq') /\ SameTeams(wq, wq')
    BY <1>1, QueueStays
  <1>3. CASE SetTop(t, [Top(t) EXCEPT !.at = "released"])
    <2> DEFINE g == [Top(t) EXCEPT !.at = "released"]
    <2>1. IsBody(Top(t)) /\ Top(t).op \in Nat \ {0}
      BY <1>1, BodyTop DEF BodyAt
    <2>2. IsBody(g) /\ g.at = "released" /\ g.job = Top(t).job /\ g.op = Top(t).op
      BY <2>1, Resumes DEF BodyAt
    <2>3. SetTop(t, g)
      BY <1>3
    <2> HIDE DEF g
    <2> QED
      BY <1>1, <1>2, <2>1, <2>2, <2>3, BodyQuiet DEF BodyAt
  <1> QED
    BY <1>1, <1>2, <1>3, AdvanceQuiet

\* The work of a closure moves no thread between teams.
LEMMA WorkQuiet ==
  ASSUME ShapeInv, NEW t \in Threads, Work(t)
  PROVE  \E s : Quiet(t, s)
  <1>1. /\ stack[t] # <<>> /\ Top(t).at = "body" /\ UNCHANGED wq /\ UNCHANGED aborted
        /\ Advance(t) \/ SetTop(t, [Top(t) EXCEPT !.at = "failing"])
    BY DEF Work, HasOp, InBody, At
  <1>2. QueueOK(wq') /\ SameTeams(wq, wq')
    BY <1>1, QueueStays
  <1>3. CASE SetTop(t, [Top(t) EXCEPT !.at = "failing"])
    <2> DEFINE g == [Top(t) EXCEPT !.at = "failing"]
    <2>1. IsBody(Top(t)) /\ Top(t).op \in Nat \ {0}
      BY <1>1, BodyTop DEF BodyAt
    <2>2. IsBody(g) /\ g.at = "failing" /\ g.job = Top(t).job /\ g.op = Top(t).op
      BY <2>1, Resumes DEF BodyAt
    <2>3. SetTop(t, g)
      BY <1>3
    <2> HIDE DEF g
    <2> QED
      BY <1>1, <1>2, <2>1, <2>2, <2>3, BodyQuiet DEF BodyAt
  <1> QED
    BY <1>1, <1>2, <1>3, AdvanceQuiet

\* A body that goes on to its next operation from another place.
LEMMA NextOpQuiet ==
  ASSUME ShapeInv, NEW t \in Threads, stack[t] # <<>>, Top(t).at \in BodyAt,
         SetTop(t, [Top(t) EXCEPT !.at = "body", !.op = @ + 1]), UNCHANGED aborted,
         QueueOK(wq')
  PROVE  \E s : Acts(t, s) /\ Awake(s) /\ Awake(stack[t])
  <1> DEFINE f == Top(t)
             h == [f EXCEPT !.at = "body"]
             g == [h EXCEPT !.op = @ + 1]
  <1>1. IsBody(f) /\ f.op \in Nat \ {0} /\ f = Head(stack[t])
    BY BodyTop
  <1>2. g = [f EXCEPT !.at = "body", !.op = @ + 1]
    <2>1. [f EXCEPT !.at = "body", !.op = @ + 1] = [h EXCEPT !.op = f.op + 1]
      OBVIOUS
    <2>2. h.op = f.op
      <3> HIDE DEF f
      <3> QED
        BY <1>1 DEF IsBody
    <2> QED
      BY <2>1, <2>2
  <1>3. IsBody(h) /\ h.at = "body" /\ h.job = f.job /\ h.op = f.op
    BY <1>1, Resumes DEF BodyAt
  <1>4. SetTop(t, g)
    BY <1>2
  <1> HIDE DEF h
  <1>5. IsBody(g) /\ g.at = "body" /\ g.job = f.job /\ g.op \in Nat \ {0}
    BY <1>1, <1>3, Resumes
  <1> HIDE DEF g
  <1>6. Acts(t, <<g>> \o Tail(stack[t])) /\ Head(<<g>> \o Tail(stack[t])) = g
    BY <1>4, <1>5, BodyGoes
  <1>7. Awake(<<g>> \o Tail(stack[t])) /\ Awake(stack[t])
    BY <1>1, <1>5, <1>6 DEF Awake, SleepAt, BodyAt
  <1> QED
    BY <1>6, <1>7

\* The broadcast that follows a release changes who may wake up, not who sleeps.
LEMMA ReleaseBroadcastQuiet ==
  ASSUME ShapeInv, NEW t \in Threads, ReleaseBroadcast(t)
  PROVE  \E s : Quiet(t, s)
  <1>1. /\ stack[t] # <<>> /\ Top(t).at = "released" /\ UNCHANGED wq /\ UNCHANGED aborted
        /\ SetTop(t, [Top(t) EXCEPT !.at = "body", !.op = @ + 1])
    BY DEF ReleaseBroadcast, At
  <1>2. QueueOK(wq') /\ SameTeams(wq, wq')
    BY <1>1, QueueStays
  <1>3. PICK s : Acts(t, s) /\ Awake(s) /\ Awake(stack[t])
    BY <1>1, <1>2, NextOpQuiet DEF BodyAt
  <1> QED
    BY <1>2, <1>3 DEF Quiet

\* Setting the number of threads moves no thread between teams.
LEMMA SetNumThreadsQuiet ==
  ASSUME ShapeInv, NEW t \in Threads, SetNumThreads(t)
  PROVE  \E s : Quiet(t, s)
  <1>1. /\ stack[t] # <<>> /\ Top(t).at = "body" /\ UNCHANGED aborted /\ Advance(t)
    BY DEF SetNumThreads, HasOp, InBody, At
  <1>2. PICK n : wq' = [wq EXCEPT !.desired_threads_working = n]
    BY DEF SetNumThreads
  <1>3. IsQueue(wq') /\ SameTeams(wq, wq') /\ wq'.jobs = wq.jobs
    BY <1>2 DEF ShapeInv, IsQueue, SameTeams
  <1>4. QueueOK(wq')
    BY <1>3 DEF ShapeInv, QueueOK
  <1> QED
    BY <1>1, <1>3, <1>4, AdvanceQuiet

\* A closure that returns to its worker moves no thread between teams.
LEMMA ReturnQuiet ==
  ASSUME ShapeInv, NEW t \in Threads, stack[t] # <<>>, Top(t).at \in BodyAt, ~IsClient(Top(t).job),
         Awake(stack[t]), NEW r, Return(t, r), UNCHANGED aborted, QueueOK(wq'), SameTeams(wq, wq')
  PROVE  \E s : Quiet(t, s)
  <1> DEFINE f == stack[t][2]
             n == IF TaskOf(f.work).serial THEN f.total + f.iters ELSE f.total
             a == IF TaskOf(f.work).serial /\ r = 0 THEN "claim" ELSE "working"
             g == [f EXCEPT !.result = r, !.total = n, !.iters = 0, !.at = a]
  <1>1. Shape(t, stack[t]) /\ IsBody(Head(stack[t])) /\ Top(t) = Head(stack[t])
    BY BodyTop
  <1>2. /\ Len(stack[t]) > 1 /\ IsLoop(f) /\ f.at = "working" /\ IsTask(f.work)
        /\ \A h : IsLoop(h) /\ h.at \in {"claim", "working"} /\ h.work = f.work
                   /\ h.owned = f.owned
             => Shape(t, <<h>> \o Tail(Tail(stack[t])))
    BY <1>1, ShapeReturn
  <1>3. stack' = [stack EXCEPT ![t] = <<g>> \o Tail(Tail(stack[t]))]
    <2>1. g = [f EXCEPT !.result = r,
                        !.total = IF TaskOf(f.work).serial THEN @ + f.iters ELSE @,
                        !.iters = 0,
                        !.at = IF TaskOf(f.work).serial /\ r = 0 THEN "claim" ELSE "working"]
      <3>1. [f EXCEPT !.result = r].total = f.total
        <4> HIDE DEF f
        <4> QED
          BY <1>2 DEF IsLoop
      <3> QED
        BY <3>1
    <2> QED
      BY <2>1 DEF Return
  <1>4. a \in {"claim", "working"}
    OBVIOUS
  <1>5. g = LoopFrame(a, f.owned, f.work, f.min, n, 0, r)
    <2>1. IsLoop(f)
      BY <1>2
    <2> HIDE DEF f, n, a
    <2>2. [f EXCEPT !.result = r, !.total = n, !.iters = 0, !.at = a]
            = LoopFrame(a, f.owned, f.work, f.min, n, 0, r)
      <3> DEFINE k == [f EXCEPT !.result = r, !.total = n, !.iters = 0, !.at = a]
      <3>1. k = [f EXCEPT !.result = r, !.total = n, !.iters = 0, !.at = a]
        OBVIOUS
      <3> HIDE DEF k
      <3>2. k = LoopFrame(a, f.owned, f.work, f.min, n, 0, r)
        BY <2>1, <3>1, LoopReturns
      <3> QED
        BY <3>1, <3>2
    <2> QED
      BY <2>2
  <1> HIDE DEF g, a, n, f
  <1>6. IsLoop(g) /\ g.at = a /\ g.work = f.work /\ g.owned = f.owned
    BY <1>4, <1>5, LoopFields, LoopFrameIs DEF LoopAt
  <1>7. Shape(t, <<g>> \o Tail(Tail(stack[t])))
    BY <1>2, <1>4, <1>6
  <1>8. IsSeq(Tail(Tail(stack[t])))
    BY <1>1, <1>2, TailTwo DEF Shape
  <1>9. Awake(<<g>> \o Tail(Tail(stack[t])))
    BY <1>4, <1>6, <1>8, HeadPut DEF Awake, SleepAt
  <1> QED
    BY <1>3, <1>7, <1>9 DEF Quiet, Acts

\* The end of a closure or of a program moves no thread between teams.
LEMMA EndBodyQuiet ==
  ASSUME ShapeInv, NEW t \in Threads, EndBody(t)
  PROVE  \E s : Quiet(t, s)
  <1> DEFINE f == Top(t)
  <1>1. stack[t] # <<>> /\ f.at \in {"body", "failing"} /\ UNCHANGED aborted /\ UNCHANGED wq
    BY DEF EndBody, InBody, At
  <1>2. IsBody(f) /\ f = Head(stack[t]) /\ f.at \in BodyAt
    BY <1>1, BodyTop DEF BodyAt
  <1>3. QueueOK(wq') /\ SameTeams(wq, wq') /\ Awake(stack[t])
    BY <1>1, <1>2, QueueStays DEF Awake, SleepAt
  <1>4. CASE IsClient(f.job)
    <2>1. SetTop(t, [f EXCEPT !.at = "body", !.op = @ + 1])
      BY <1>4 DEF EndBody
    <2>2. PICK s : Acts(t, s) /\ Awake(s) /\ Awake(stack[t])
      BY <1>1, <1>2, <1>3, <2>1, NextOpQuiet
    <2> QED
      BY <1>3, <2>2 DEF Quiet
  <1>5. CASE ~IsClient(f.job) /\ (Return(t, 1) \/ Return(t, 0))
    BY <1>1, <1>2, <1>3, <1>5, ReturnQuiet
  <1>6. CASE SetTop(t, Body(f.job, f.it + 1, f.left - 1))
    <2> DEFINE g == Body(f.job, f.it + 1, f.left - 1)
    <2>1. IsBody(g) /\ g.at = "body" /\ g.job = f.job /\ g.op \in Nat \ {0}
      BY DEF IsBody, Body, BodyAt
    <2>2. SetTop(t, g)
      BY <1>6
    <2> HIDE DEF g
    <2> QED
      BY <1>1, <1>2, <1>3, <2>1, <2>2, BodyQuiet
  <1> QED
    BY <1>4, <1>5, <1>6 DEF EndBody

----------------------------------------------------------------------------
(* Threads that sleep *)

\* There are finitely many threads, hence finitely many sleepers.
LEMMA ThreadsFinite == IsFiniteSet(Threads) /\ \A l : IsFiniteSet(Sleeping(l))
  <1>1. IsFiniteSet(1..MaxThreads)
    BY ThreadsAssumption, FS_Interval
  <1>2. IsFiniteSet(Threads)
    BY <1>1, ThreadsAssumption, FS_Union DEF Threads, Workers
  <1> QED
    BY <1>2, FS_Subset DEF Sleeping

\* One thread's step changes the sets of sleepers by that thread at most.
LEMMA Sleepers ==
  ASSUME ShapeInv, NEW t \in Threads, NEW s, stack' = [stack EXCEPT ![t] = s], NEW l
  PROVE  Sleeping(l)' = IF s # <<>> /\ Head(s).at \in l
                        THEN Sleeping(l) \cup {t} ELSE Sleeping(l) \ {t}
  <1>1. stack'[t] = s /\ \A u \in Threads \ {t} : stack'[u] = stack[u]
    BY DEF ShapeInv
  <1> QED
    BY <1>1 DEF Sleeping, Top

\* One thread more or less among the sleepers.
LEMMA SleepersOne ==
  ASSUME NEW l, NEW t \in Threads
  PROVE  /\ Cardinality(Sleeping(l)) \in Nat
         /\ t \in Sleeping(l) => Cardinality(Sleeping(l) \ {t}) = Cardinality(Sleeping(l)) - 1
         /\ t \notin Sleeping(l) => /\ Cardinality(Sleeping(l) \cup {t}) = Cardinality(Sleeping(l)) + 1
                                    /\ Sleeping(l) \ {t} = Sleeping(l)
  <1>1. IsFiniteSet(Sleeping(l))
    BY ThreadsFinite
  <1> QED
    BY <1>1, FS_CardinalityType, FS_AddElement, FS_RemoveElement

\* Nobody's shape but the thread's own depends on its stack.
LEMMA ActsShape ==
  ASSUME ShapeInv, NEW t, NEW s, Acts(t, s)
  PROVE  ShapeInv'
  <1>1. stack'[t] = s /\ \A u \in Threads \ {t} : stack'[u] = stack[u]
    BY DEF ShapeInv, Acts
  <1>2. stack' \in [Threads -> {stack'[u] : u \in Threads}]
    BY DEF ShapeInv, Acts
  <1>3. \A u \in Threads : Shape(u, stack'[u])
    BY <1>1 DEF ShapeInv, Acts
  <1> QED
    BY <1>2, <1>3 DEF ShapeInv, Acts, QueueOK

TeamsInv == ~aborted => TeamsExact

\* A step that creates no threads.
LEMMA ActsTeam ==
  ASSUME ShapeInv, TeamInv, NEW t, NEW s, Acts(t, s),
         wq'.threads_created = wq.threads_created, wq'.initialized = wq.initialized,
         ~wq.initialized => wq'.a_team_size = wq.a_team_size
  PROVE  TeamInv'
  <1>1. t \in Threads /\ stack[t] # <<>> /\ stack' = [stack EXCEPT ![t] = s] /\ aborted' = aborted
    BY DEF Acts
  <1>2. \A u \in Threads : stack[u] = <<>> => stack'[u] = <<>>
    BY <1>1 DEF ShapeInv
  <1>3. \A n \in Workers : n > wq'.threads_created => stack'[n] = <<>>
    BY <1>2 DEF TeamInv, Threads
  <1>4. \E S \in Together : \A c \in Clients : stack'[c] # <<>> => c \in S
    BY <1>2 DEF TeamInv, Threads
  <1> QED
    BY <1>1, <1>2, <1>3, <1>4 DEF TeamInv

\* Nobody falls asleep or wakes, and the counters stay.
LEMMA TeamsStay ==
  ASSUME TeamsInv, SameTeams(wq, wq'), UNCHANGED aborted,
         \A l \in SUBSET SleepAt : Sleeping(l)' = Sleeping(l)
  PROVE  TeamsInv'
  <1>1. /\ Sleeping({"a_team", "b_team"})' = Sleeping({"a_team", "b_team"})
        /\ Sleeping({"b_team"})' = Sleeping({"b_team"})
        /\ Sleeping({"owners"})' = Sleeping({"owners"})
    BY DEF SleepAt
  <1> QED
    BY <1>1 DEF TeamsInv, TeamsExact, SameTeams

\* A step of a thread that is awake before and after it changes no set of sleepers.
LEMMA AwakeSleepers ==
  ASSUME ShapeInv, NEW t, NEW s, Acts(t, s), Awake(stack[t]), Awake(s), NEW l \in SUBSET SleepAt
  PROVE  Sleeping(l)' = Sleeping(l)
  <1>1. t \in Threads /\ stack' = [stack EXCEPT ![t] = s]
    BY DEF Acts
  <1>2. t \notin Sleeping(l) /\ ~(s # <<>> /\ Head(s).at \in l)
    BY DEF Awake, Sleeping, Top
  <1>3. Sleeping(l)' = Sleeping(l) \ {t}
    BY <1>1, <1>2, Sleepers
  <1> QED
    BY <1>2, <1>3

\* A step that moves no thread between teams keeps the invariant.
LEMMA QuietTeams ==
  ASSUME ShapeInv, TeamInv, TeamsInv, NEW t, NEW s, Quiet(t, s)
  PROVE  ShapeInv' /\ TeamInv' /\ TeamsInv'
  <1>1. ShapeInv'
    BY ActsShape DEF Quiet
  <1>2. TeamInv'
    BY ActsTeam DEF Quiet, SameTeams
  <1>3. \A l \in SUBSET SleepAt : Sleeping(l)' = Sleeping(l)
    BY AwakeSleepers DEF Quiet
  <1>4. SameTeams(wq, wq') /\ UNCHANGED aborted
    BY DEF Quiet, Acts
  <1> QED
    BY <1>1, <1>2, <1>3, <1>4, TeamsStay

\* The frame that a thread leaves in its loop when it waits or wakes.
LEMMA LoopAtPlace ==
  ASSUME NEW f, IsLoop(f), NEW a \in LoopAt, NEW g, g = [f EXCEPT !.at = a]
  PROVE  IsLoop(g) /\ g.at = a /\ g.owned = f.owned /\ g.work = f.work
  <1>1. g = LoopFrame(a, f.owned, f.work, f.min, f.total, f.iters, f.result)
    BY LoopFieldsOf
  <1> QED
    BY <1>1, LoopFields, LoopFrameIs

\* A thread that goes to sleep counts itself in the team it sleeps for.
LEMMA SleepTeams ==
  ASSUME ShapeInv, TeamInv, TeamsInv, NEW t \in Threads, Sleep(t)
  PROVE  ShapeInv' /\ TeamInv' /\ TeamsInv'
  <1>1. stack[t] # <<>> /\ Top(t).at = "scan" /\ UNCHANGED aborted
    BY DEF Sleep, Searching, Scanning, At
  <1>2. IsLoop(Top(t)) /\ Top(t) = Head(stack[t]) /\ (Top(t).owned = NoJob => t \in Workers)
    BY <1>1, LoopTop DEF LoopAt
  <1>3. PICK c \in SleepAt :
           /\ c = "owners" <=> Top(t).owned # NoJob
           /\ SetTop(t, [Top(t) EXCEPT !.at = c])
           /\ wq' = IF c = "owners" THEN [wq EXCEPT !.owners_sleeping = @ + 1]
                    ELSE [wq EXCEPT !.workers_sleeping = @ + 1,
                                    !.a_team_size = IF c = "b_team" THEN @ - 1 ELSE @]
    <2> DEFINE c == IF Top(t).owned # NoJob THEN "owners"
                    ELSE IF wq.a_team_size > wq.target_a_team_size THEN "b_team" ELSE "a_team"
    <2>1. c \in SleepAt /\ (c = "owners" <=> Top(t).owned # NoJob)
      BY DEF SleepAt
    <2>2. /\ SetTop(t, [Top(t) EXCEPT !.at = c])
          /\ wq' = IF c = "owners" THEN [wq EXCEPT !.owners_sleeping = @ + 1]
                   ELSE [wq EXCEPT !.workers_sleeping = @ + 1,
                                   !.a_team_size = IF c = "b_team" THEN @ - 1 ELSE @]
      BY DEF Sleep
    <2> QED
      BY <2>1, <2>2
  <1>4. PICK g : g = [Top(t) EXCEPT !.at = c]
    OBVIOUS
  <1>5. IsLoop(g) /\ g.at = c /\ g.owned = Top(t).owned
    BY <1>2, <1>4, LoopAtPlace DEF SleepAt, LoopAt
  <1>6. /\ IsQueue(wq') /\ wq'.jobs = wq.jobs /\ wq'.threads_created = wq.threads_created
        /\ wq'.initialized = wq.initialized /\ wq'.shutdown = wq.shutdown
        /\ wq'.workers_sleeping = IF c = "owners" THEN wq.workers_sleeping
                                  ELSE wq.workers_sleeping + 1
        /\ wq'.owners_sleeping = IF c = "owners" THEN wq.owners_sleeping + 1
                                 ELSE wq.owners_sleeping
        /\ wq'.a_team_size = IF c = "b_team" THEN wq.a_team_size - 1 ELSE wq.a_team_size
    <2>1. CASE c = "owners"
      BY <1>3, <2>1 DEF ShapeInv, IsQueue
    <2>2. CASE c = "b_team"
      BY <1>3, <2>2 DEF ShapeInv, IsQueue
    <2>3. CASE c = "a_team"
      BY <1>3, <2>3 DEF ShapeInv, IsQueue
    <2> QED
      BY <2>1, <2>2, <2>3 DEF SleepAt
  <1>7. QueueOK(wq')
    BY <1>6 DEF QueueOK, ShapeInv
  <1>8. PICK s : s = <<g>> \o Tail(stack[t])
    OBVIOUS
  <1>9. Acts(t, s) /\ Head(s) = g
    BY <1>1, <1>2, <1>3, <1>4, <1>5, <1>7, <1>8, LoopGoes DEF LoopAt, SleepAt
  <1>10. s # <<>>
    <2>1. IsSeq(Tail(stack[t]))
      BY <1>1, SeqTail DEF ShapeInv, Shape
    <2>2. IsSeq(s) /\ Len(s) > 0
      BY <1>8, <2>1, SeqPut, SeqTail
    <2> QED
      BY <2>2, SeqTail
  <1>11. ShapeInv'
    BY <1>9, ActsShape
  <1>12. TeamInv'
    <2>1. ~wq.initialized => wq'.a_team_size = wq.a_team_size
      <3>1. ASSUME ~wq.initialized, c = "b_team"
            PROVE  FALSE
        <4>1. t \in Workers /\ wq.threads_created = 0
          BY <1>2, <1>3, <3>1 DEF TeamInv
        <4>2. t > wq.threads_created
          BY <4>1 DEF Workers
        <4> QED
          BY <1>1, <4>1, <4>2 DEF TeamInv
      <3> QED
        BY <1>6, <3>1
    <2> QED
      BY <1>6, <1>9, <2>1, ActsTeam
  <1>13. ASSUME NEW l \in SUBSET SleepAt
         PROVE  /\ Sleeping(l)' = IF c \in l THEN Sleeping(l) \cup {t} ELSE Sleeping(l)
                /\ t \notin Sleeping(l)
    <2>1. Sleeping(l)' = IF c \in l THEN Sleeping(l) \cup {t} ELSE Sleeping(l) \ {t}
      BY <1>5, <1>9, <1>10, Sleepers DEF Acts
    <2>2. t \notin Sleeping(l)
      BY <1>1 DEF Sleeping, SleepAt
    <2> QED
      BY <2>1, <2>2
  <1>14. ASSUME NEW l \in SUBSET SleepAt
         PROVE  /\ Cardinality(Sleeping(l))' = Cardinality(Sleeping(l)) + IF c \in l THEN 1 ELSE 0
                /\ Cardinality(Sleeping(l)) \in Nat
    <2>1. /\ Sleeping(l)' = IF c \in l THEN Sleeping(l) \cup {t} ELSE Sleeping(l)
          /\ t \notin Sleeping(l)
      BY <1>13
    <2>2. /\ Cardinality(Sleeping(l)) \in Nat
          /\ Cardinality(Sleeping(l) \cup {t}) = Cardinality(Sleeping(l)) + 1
      BY <2>1, SleepersOne
    <2>3. CASE c \in l
      <3>1. Cardinality(Sleeping(l)') = Cardinality(Sleeping(l)) + 1
        BY <2>1, <2>2, <2>3
      <3> QED
        BY <2>2, <2>3, <3>1
    <2>4. CASE c \notin l
      <3>1. Cardinality(Sleeping(l)') = Cardinality(Sleeping(l))
        BY <2>1, <2>4
      <3> QED
        BY <2>2, <2>4, <3>1
    <2> QED
      BY <2>3, <2>4
  <1>15. TeamsInv'
    <2>1. /\ {"a_team", "b_team"} \in SUBSET SleepAt /\ {"b_team"} \in SUBSET SleepAt
          /\ {"owners"} \in SUBSET SleepAt
      BY DEF SleepAt
    <2> HIDE DEF SleepAt
    <2>2. /\ Cardinality(Sleeping({"a_team", "b_team"}))' = Cardinality(Sleeping({"a_team", "b_team"}))
                + IF c \in {"a_team", "b_team"} THEN 1 ELSE 0
          /\ Cardinality(Sleeping({"b_team"}))' = Cardinality(Sleeping({"b_team"}))
                + IF c \in {"b_team"} THEN 1 ELSE 0
          /\ Cardinality(Sleeping({"owners"}))' = Cardinality(Sleeping({"owners"}))
                + IF c \in {"owners"} THEN 1 ELSE 0
          /\ Cardinality(Sleeping({"a_team", "b_team"})) \in Nat
          /\ Cardinality(Sleeping({"b_team"})) \in Nat
          /\ Cardinality(Sleeping({"owners"})) \in Nat
      BY <1>14, <2>1
    <2>3. CASE aborted
      BY <1>1, <2>3 DEF TeamsInv
    <2>4. CASE ~aborted
      <3>1. /\ wq'.workers_sleeping = Cardinality(Sleeping({"a_team", "b_team"}))'
            /\ wq'.owners_sleeping = Cardinality(Sleeping({"owners"}))'
        BY <1>3, <1>6, <2>2, <2>4 DEF TeamsInv, TeamsExact, SleepAt
      <3>2. wq'.initialized /\ ~wq'.shutdown =>
               wq'.a_team_size = wq'.threads_created - Cardinality(Sleeping({"b_team"}))'
        BY <1>3, <1>6, <2>2, <2>4 DEF TeamsInv, TeamsExact, SleepAt, TeamInv
      <3> QED
        BY <3>1, <3>2 DEF TeamsInv, TeamsExact
    <2> QED
      BY <2>3, <2>4
  <1> QED
    BY <1>11, <1>12, <1>15

\* A thread that wakes up counts itself out again.
LEMMA WakeTeams ==
  ASSUME ShapeInv, TeamInv, TeamsInv, NEW t \in Threads, Wake(t)
  PROVE  ShapeInv' /\ TeamInv' /\ TeamsInv'
  <1>1. PICK c \in SleepAt \cup {"start"} :
           /\ stack[t] # <<>> /\ Top(t).at = c /\ UNCHANGED aborted
           /\ SetTop(t, [Top(t) EXCEPT !.at = "scan"])
           /\ wq' = IF c = "start" THEN wq
                    ELSE IF c = "owners" THEN [wq EXCEPT !.owners_sleeping = @ - 1]
                    ELSE [wq EXCEPT !.workers_sleeping = @ - 1,
                                    !.a_team_size = IF c = "b_team" THEN @ + 1 ELSE @]
    <2>1. stack[t] # <<>> /\ UNCHANGED aborted /\ SetTop(t, [Top(t) EXCEPT !.at = "scan"])
      BY DEF Wake
    <2>2. Top(t).at \in SleepAt \cup {"start"}
      BY DEF Wake, SleepAt
    <2>3. wq' = IF Top(t).at = "start" THEN wq
                ELSE IF Top(t).at = "owners" THEN [wq EXCEPT !.owners_sleeping = @ - 1]
                ELSE [wq EXCEPT !.workers_sleeping = @ - 1,
                                !.a_team_size = IF Top(t).at = "b_team" THEN @ + 1 ELSE @]
      BY DEF Wake, WorkerBack
    <2> QED
      BY <2>1, <2>2, <2>3
  <1>2. IsLoop(Top(t)) /\ Top(t) = Head(stack[t]) /\ (Top(t).owned = NoJob => t \in Workers)
        /\ (Top(t).owned # NoJob => Top(t).at = "owners")
    BY <1>1, LoopTop DEF LoopAt, SleepAt
  <1>4. PICK g : g = [Top(t) EXCEPT !.at = "scan"]
    OBVIOUS
  <1>5. IsLoop(g) /\ g.at = "scan" /\ g.owned = Top(t).owned
    BY <1>2, <1>4, LoopAtPlace DEF LoopAt
  <1>6. /\ IsQueue(wq') /\ wq'.jobs = wq.jobs /\ wq'.threads_created = wq.threads_created
        /\ wq'.initialized = wq.initialized /\ wq'.shutdown = wq.shutdown
        /\ wq'.workers_sleeping = IF c \in {"a_team", "b_team"} THEN wq.workers_sleeping - 1
                                  ELSE wq.workers_sleeping
        /\ wq'.owners_sleeping = IF c = "owners" THEN wq.owners_sleeping - 1
                                 ELSE wq.owners_sleeping
        /\ wq'.a_team_size = IF c = "b_team" THEN wq.a_team_size + 1 ELSE wq.a_team_size
    <2>1. CASE c = "owners"
      BY <1>1, <2>1 DEF ShapeInv, IsQueue
    <2>2. CASE c = "b_team"
      BY <1>1, <2>2 DEF ShapeInv, IsQueue
    <2>3. CASE c = "a_team"
      BY <1>1, <2>3 DEF ShapeInv, IsQueue
    <2>4. CASE c = "start"
      BY <1>1, <2>4 DEF ShapeInv
    <2> QED
      BY <2>1, <2>2, <2>3, <2>4 DEF SleepAt
  <1>7. QueueOK(wq')
    BY <1>6 DEF QueueOK, ShapeInv
  <1>8. PICK s : s = <<g>> \o Tail(stack[t])
    OBVIOUS
  <1>9. Acts(t, s) /\ Head(s) = g
    <2>1. Top(t).at \in LoopAt
      BY <1>1 DEF LoopAt, SleepAt
    <2>2. SetTop(t, g)
      BY <1>1, <1>4
    <2> QED
      BY <1>1, <1>5, <1>7, <1>8, <2>1, <2>2, LoopGoes
  <1>11. ShapeInv'
    BY <1>9, ActsShape
  <1>12. TeamInv'
    <2>1. ~wq.initialized => wq'.a_team_size = wq.a_team_size
      <3>1. ASSUME ~wq.initialized, c = "b_team"
            PROVE  FALSE
        <4>1. t \in Workers /\ wq.threads_created = 0
          BY <1>1, <1>2, <3>1 DEF TeamInv
        <4>2. t > wq.threads_created
          BY <4>1 DEF Workers
        <4> QED
          BY <1>1, <4>1, <4>2 DEF TeamInv
      <3> QED
        BY <1>6, <3>1
    <2> QED
      BY <1>6, <1>9, <2>1, ActsTeam
  <1>13. ASSUME NEW l \in SUBSET SleepAt
         PROVE  /\ Sleeping(l)' = Sleeping(l) \ {t}
                /\ t \in Sleeping(l) <=> c \in l
    <2>1. Sleeping(l)' = Sleeping(l) \ {t}
      BY <1>5, <1>9, Sleepers DEF Acts, SleepAt
    <2>2. t \in Sleeping(l) <=> c \in l
      BY <1>1 DEF Sleeping
    <2> QED
      BY <2>1, <2>2
  <1>14. ASSUME NEW l \in SUBSET SleepAt
         PROVE  /\ Cardinality(Sleeping(l))' = Cardinality(Sleeping(l)) - IF c \in l THEN 1 ELSE 0
                /\ Cardinality(Sleeping(l)) \in Nat
    <2>1. /\ Sleeping(l)' = Sleeping(l) \ {t}
          /\ t \in Sleeping(l) <=> c \in l
      BY <1>13
    <2>2. /\ Cardinality(Sleeping(l)) \in Nat
          /\ t \in Sleeping(l) => Cardinality(Sleeping(l) \ {t}) = Cardinality(Sleeping(l)) - 1
          /\ t \notin Sleeping(l) => Sleeping(l) \ {t} = Sleeping(l)
      BY SleepersOne
    <2>3. CASE c \in l
      <3>1. Cardinality(Sleeping(l)') = Cardinality(Sleeping(l)) - 1
        BY <2>1, <2>2, <2>3
      <3> QED
        BY <2>2, <2>3, <3>1
    <2>4. CASE c \notin l
      <3>1. Cardinality(Sleeping(l)') = Cardinality(Sleeping(l))
        BY <2>1, <2>2, <2>4
      <3> QED
        BY <2>2, <2>4, <3>1
    <2> QED
      BY <2>3, <2>4
  <1>15. TeamsInv'
    <2>1. /\ {"a_team", "b_team"} \in SUBSET SleepAt /\ {"b_team"} \in SUBSET SleepAt
          /\ {"owners"} \in SUBSET SleepAt
      BY DEF SleepAt
    <2> HIDE DEF SleepAt
    <2>2. /\ Cardinality(Sleeping({"a_team", "b_team"}))' = Cardinality(Sleeping({"a_team", "b_team"}))
                - IF c \in {"a_team", "b_team"} THEN 1 ELSE 0
          /\ Cardinality(Sleeping({"b_team"}))' = Cardinality(Sleeping({"b_team"}))
                - IF c \in {"b_team"} THEN 1 ELSE 0
          /\ Cardinality(Sleeping({"owners"}))' = Cardinality(Sleeping({"owners"}))
                - IF c \in {"owners"} THEN 1 ELSE 0
          /\ Cardinality(Sleeping({"a_team", "b_team"})) \in Nat
          /\ Cardinality(Sleeping({"b_team"})) \in Nat
          /\ Cardinality(Sleeping({"owners"})) \in Nat
      BY <1>14, <2>1
    <2>3. CASE aborted
      BY <1>1, <2>3 DEF TeamsInv
    <2>4. CASE ~aborted
      <3>1. /\ wq'.workers_sleeping = Cardinality(Sleeping({"a_team", "b_team"}))'
            /\ wq'.owners_sleeping = Cardinality(Sleeping({"owners"}))'
        BY <1>6, <2>2, <2>4 DEF TeamsInv, TeamsExact
      <3>2. wq'.initialized /\ ~wq'.shutdown =>
               wq'.a_team_size = wq'.threads_created - Cardinality(Sleeping({"b_team"}))'
        BY <1>6, <2>2, <2>4 DEF TeamsInv, TeamsExact, TeamInv
      <3> QED
        BY <3>1, <3>2 DEF TeamsInv, TeamsExact
    <2> QED
      BY <2>3, <2>4
  <1> QED
    BY <1>11, <1>12, <1>15

\* What a body or a client runs is one of the given programs.
LEMMA BodyOps ==
  ASSUME ShapeInv, NEW t \in Threads, stack[t] # <<>>, Top(t).at \in BodyAt
  PROVE  /\ Program(Ops(Top(t).job))
         /\ ShutsDown(Ops(Top(t).job)) => t \in Clients /\ ShutsDown(Main[t])
         /\ Top(t).job \in {<<t>>} \/ IsTask(Top(t).job)
  <1>1. \/ t \in Clients /\ Top(t).job = <<t>>
        \/ IsTask(Top(t).job)
    BY BodyTop
  <1> DEFINE J == Top(t).job
  <1> HIDE DEF J
  <1>2. ASSUME IsTask(J)
        PROVE  Program(Ops(J)) /\ ~ShutsDown(Ops(J))
    <2>1. Len(<<J[1], J[2], J[3]>>) = 3
      OBVIOUS
    <2>2. ~IsClient(J) /\ J[3] \in DOMAIN Task
      BY <1>2, <2>1 DEF IsTask, IsClient
    <2>3. Ops(J) = Task[J[3]].body
      BY <2>2 DEF Ops, TaskOf
    <2> QED
      BY <2>2, <2>3, TaskAssumption
  <1>3. ASSUME t \in Clients, J = <<t>>
        PROVE  Program(Ops(J)) /\ Ops(J) = Main[t]
    <2>1. Len(<<t>>) = 1 /\ <<t>>[1] = t
      OBVIOUS
    <2>2. Ops(J) = Main[t]
      BY <1>3, <2>1 DEF Ops, IsClient
    <2> QED
      BY <1>3, <2>2, MainAssumption
  <1> QED
    BY <1>1, <1>2, <1>3 DEF J

\* Shutdown keeps the invariant: all threads are told to leave and are awake.
LEMMA ShutdownTeams ==
  ASSUME ShapeInv, TeamInv, TeamsInv, NEW t \in Threads, Shutdown(t)
  PROVE  ShapeInv' /\ TeamInv' /\ TeamsInv'
  <1>1. /\ stack[t] # <<>> /\ Top(t).at = "body" /\ UNCHANGED aborted
        /\ Top(t).op <= Len(Ops(Top(t).job)) /\ Ops(Top(t).job)[Top(t).op].op = "shutdown"
        /\ InBody(t)
    BY DEF Shutdown, HasOp, InBody, At, Op
  <1>2. CASE Advance(t) /\ UNCHANGED wq
    <2>1. \E s : Quiet(t, s)
      BY <1>1, <1>2, CallSkipsQuiet
    <2> QED
      BY <2>1, QuietTeams
  <1>3. CASE /\ wq' = [wq EXCEPT !.shutdown = TRUE]
             /\ SetTop(t, [Top(t) EXCEPT !.at = "joining"])
    <2> DEFINE g == [Top(t) EXCEPT !.at = "joining"]
               s == <<g>> \o Tail(stack[t])
    <2>1. IsBody(Top(t)) /\ Top(t).op \in Nat \ {0} /\ Top(t) = Head(stack[t])
      BY <1>1, BodyTop DEF BodyAt
    <2>2. IsBody(g) /\ g.at = "joining" /\ g.job = Top(t).job /\ g.op = Top(t).op
      BY <2>1, Resumes DEF BodyAt
    <2>3. SetTop(t, g)
      BY <1>3
    <2>4. /\ IsQueue(wq') /\ wq'.jobs = wq.jobs /\ wq'.threads_created = wq.threads_created
          /\ wq'.initialized = wq.initialized /\ wq'.shutdown
          /\ wq'.workers_sleeping = wq.workers_sleeping
          /\ wq'.owners_sleeping = wq.owners_sleeping /\ wq'.a_team_size = wq.a_team_size
      BY <1>3 DEF ShapeInv, IsQueue
    <2>5. QueueOK(wq')
      BY <2>4 DEF QueueOK, ShapeInv
    <2> HIDE DEF g
    <2>6. Top(t).op \in 1..Len(Ops(Top(t).job))
      <3>1. Len(Ops(Top(t).job)) \in Nat
        BY <1>1, BodyOps DEF BodyAt, Program
      <3> QED
        BY <1>1, <2>1, <3>1
    <2>7. Acts(t, s) /\ Head(s) = g
      BY <1>1, <2>2, <2>3, <2>5, <2>1, <2>6, BodyGoes DEF BodyAt
    <2>8. Awake(s) /\ Awake(stack[t])
      BY <1>1, <2>1, <2>2, <2>7 DEF Awake, SleepAt
    <2> HIDE DEF s
    <2>9. ShapeInv' /\ TeamInv'
      BY <2>4, <2>7, ActsShape, ActsTeam
    <2>10. \A l \in SUBSET SleepAt : Sleeping(l)' = Sleeping(l)
      BY <2>7, <2>8, AwakeSleepers
    <2>11. TeamsInv'
      <3>1. /\ Sleeping({"a_team", "b_team"})' = Sleeping({"a_team", "b_team"})
            /\ Sleeping({"owners"})' = Sleeping({"owners"})
        BY <2>10 DEF SleepAt
      <3> QED
        BY <1>1, <2>4, <3>1 DEF TeamsInv, TeamsExact
    <2> QED
      BY <2>9, <2>11
  <1> QED
    BY <1>2, <1>3 DEF Shutdown

\* While the pool is shut down nobody else is in a pipeline: all threads have ended.
LEMMA JoinedTeams ==
  ASSUME ShapeInv, TeamInv, TeamsInv, NEW t \in Threads, Joined(t)
  PROVE  ShapeInv' /\ TeamInv' /\ TeamsInv'
  <1>1. /\ stack[t] # <<>> /\ Top(t).at = "joining" /\ UNCHANGED aborted
        /\ \A n \in 1..wq.threads_created : stack[n] = <<>>
        /\ wq' = [f \in DOMAIN wq |->
                    IF f = "desired_threads_working" THEN wq[f] ELSE ResetQueue[f]]
        /\ SetTop(t, [Top(t) EXCEPT !.at = "body", !.op = @ + 1])
    BY DEF Joined, At
  <1>2. /\ IsQueue(wq') /\ wq'.jobs = <<>> /\ wq'.threads_created = 0
        /\ wq'.initialized = FALSE /\ wq'.a_team_size = 0
        /\ wq'.workers_sleeping = 0 /\ wq'.owners_sleeping = 0
    <2>1. DOMAIN wq = {"jobs", "threads_created", "a_team_size", "target_a_team_size",
                       "workers_sleeping", "owners_sleeping", "shutdown", "initialized",
                       "threads_reserved", "desired_threads_working"}
      BY DEF ShapeInv, IsQueue
    <2> QED
      BY <1>1, <2>1 DEF IsQueue, ResetQueue
  <1>3. QueueOK(wq')
    <2>1. TaskSeq(<<>>)
      BY DEF TaskSeq, IsSeq
    <2> QED
      BY <1>2, <2>1 DEF QueueOK
  <1>4. PICK s : Acts(t, s) /\ Awake(s) /\ Awake(stack[t])
    BY <1>1, <1>3, NextOpQuiet DEF BodyAt
  <1>5. t \in Clients /\ ShutsDown(Main[t])
    BY <1>1, BodyTop, BodyOps DEF BodyAt, ShutsDown
  <1>6. \A u \in Threads \ {t} : stack[u] = <<>>
    <2>1. \A c \in Clients : c # t => stack[c] = <<>>
      BY <1>1, <1>5, MainAssumption DEF TeamInv
    <2>2. \A n \in Workers : stack[n] = <<>>
      BY <1>1 DEF TeamInv, Workers
    <2> QED
      BY <2>1, <2>2 DEF Threads
  <1>7. \A u \in Threads : stack[u] = <<>> => stack'[u] = <<>>
    BY <1>1, <1>4 DEF ShapeInv, Acts
  <1>8. \A l \in SUBSET SleepAt : Sleeping(l)' = {}
    <2>1. \A l \in SUBSET SleepAt : Sleeping(l) = {}
      BY <1>1, <1>6 DEF Sleeping, SleepAt
    <2> QED
      BY <1>4, <2>1, AwakeSleepers
  <1>9. ShapeInv'
    BY <1>4, ActsShape
  <1>10. TeamInv'
    <2>1. \A n \in Workers : stack'[n] = <<>>
      BY <1>5, <1>6, <1>7, ThreadsAssumption DEF Threads, Workers
    <2>2. \E S \in Together : \A c \in Clients : stack'[c] # <<>> => c \in S
      BY <1>7 DEF TeamInv, Threads
    <2>3. aborted' => FALSE
      BY <1>1 DEF TeamInv
    <2> QED
      BY <1>2, <2>1, <2>2, <2>3, ThreadsAssumption DEF TeamInv
  <1>11. TeamsInv'
    <2>1. /\ Sleeping({"a_team", "b_team"})' = {} /\ Sleeping({"owners"})' = {}
      BY <1>8 DEF SleepAt
    <2>2. Cardinality({}) = 0
      BY FS_EmptySet
    <2> QED
      BY <1>2, <2>1, <2>2 DEF TeamsInv, TeamsExact
  <1> QED
    BY <1>9, <1>10, <1>11

\* The jobs of a call, named after the body that makes it.
CallJobs(f, ks) == [i \in 1..Len(ks) |-> Child(f, ks[i])]

\* The jobs of a fork are jobs, one for each task.
LEMMA CallJobsOK ==
  ASSUME NEW ks \in Seq(DOMAIN Task), NEW f
  PROVE  TaskSeq(CallJobs(f, ks)) /\ Len(CallJobs(f, ks)) = Len(ks)
  <1> DEFINE S == {Child(f, k) : k \in DOMAIN Task}
             ids == [i \in 1..Len(ks) |-> Child(f, ks[i])]
  <1>1. \A J \in S : IsTask(J)
    BY DEF IsTask, Child
  <1>2. \A i \in 1..Len(ks) : Child(f, ks[i]) \in S
    OBVIOUS
  <1> HIDE DEF S
  <1>3. ids \in Seq(S) /\ Len(ids) = Len(ks)
    BY <1>2
  <1> QED
    BY <1>1, <1>3, TaskSeqOf DEF CallJobs

\* How many threads there are after a call: the least number that is enough, or all.
LEMMA CreatedOK ==
  ASSUME wq.threads_created \in 0..MaxThreads, NEW desired, NEW min_threads
  PROVE  (CHOOSE n \in wq.threads_created..MaxThreads :
            /\ n = MaxThreads \/ Enough(n, desired, min_threads)
            /\ \A m \in wq.threads_created..(n - 1) : ~Enough(m, desired, min_threads))
         \in wq.threads_created..MaxThreads
  <1> DEFINE T == {n \in wq.threads_created..MaxThreads :
                     n = MaxThreads \/ Enough(n, desired, min_threads)}
  <1>1. MaxThreads \in T /\ T \in SUBSET Nat
    BY ThreadsAssumption
  <1>2. PICK n \in T : \A m \in T : n <= m
    BY <1>1, LeastNat
  <1>3. ASSUME NEW m \in wq.threads_created..(n - 1)
        PROVE  ~Enough(m, desired, min_threads)
    <2>1. n \in wq.threads_created..MaxThreads
      BY <1>2
    <2>2. m \in wq.threads_created..MaxThreads /\ ~(n <= m)
      BY <2>1, ThreadsAssumption
    <2>3. m \notin T
      BY <1>2, <2>2
    <2> QED
      BY <2>2, <2>3
  <1>4. /\ n \in wq.threads_created..MaxThreads
        /\ n = MaxThreads \/ Enough(n, desired, min_threads)
    BY <1>2
  <1> HIDE DEF T
  <1> QED
    BY <1>3, <1>4

\* What enqueue_work_already_locked does to the threads and their counters.
EnqueueEffect(t, ks) ==
    \E created \in wq.threads_created..MaxThreads, over \in BOOLEAN : \E target, desired :
       /\ aborted' = over
       /\ wq' = [wq EXCEPT !.initialized = TRUE, !.desired_threads_working = desired,
                       !.threads_created = created,
                       !.a_team_size = wq.a_team_size + created - wq.threads_created,
                       !.target_a_team_size = target,
                       !.jobs = CallJobs(Top(t), ks) \o @]
       /\ stack' = [u \in Threads |->
             IF over THEN <<>>
             ELSE IF u = t THEN <<Loop(CallJobs(Top(t), ks)[1], "scan"),
                              Join(CallJobs(Top(t), ks), 1, 0)>> \o stack[t]
             ELSE IF u \in (wq.threads_created + 1)..created THEN <<Loop(NoJob, "start")>>
             ELSE stack[u]]

\* What enqueueing jobs does to the stack of its caller and to the counters.
LEMMA EnqueueDoes ==
  ASSUME TeamInv, NEW t, NEW ks, NEW inits, NEW parent, NEW par_for,
         Enqueue(t, ks, inits, parent, par_for)
  PROVE  EnqueueEffect(t, ks)
  <1> DEFINE blocking == \E i \in 1..Len(ks) :
                        Task[ks[i]].min_threads > 0 \/ Task[ks[i]].sems # <<>>
             min_threads == MapThenSumSet(LAMBDA i : Task[ks[i]].min_threads, 1..Len(ks))
                        + IF parent = NoParent /\ blocking THEN 1 ELSE 0
             workers_to_wake ==
            MapThenSumSet(LAMBDA i : IF Task[ks[i]].serial THEN 1 ELSE Task[ks[i]].extent,
                          1..Len(ks)) - 1
             desired == IF wq.initialized THEN wq.desired_threads_working
                   ELSE Clamp(IF wq.desired_threads_working = 0 THEN DefaultThreads
                              ELSE wq.desired_threads_working)
             created == IF parent # NoParent THEN wq.threads_created
                   ELSE CHOOSE n \in wq.threads_created..MaxThreads :
                          /\ n = MaxThreads \/ Enough(n, desired, min_threads)
                          /\ \A m \in wq.threads_created..(n - 1) : ~Enough(m, desired, min_threads)
             nested == wq.owners_sleeping > 0 \/ wq.workers_sleeping < created
             target == IF nested \/ workers_to_wake > wq.workers_sleeping THEN created
                       ELSE workers_to_wake
             over == parent # NoParent /\
                min_threads > Task[parent[3]].min_threads * job[parent].active
                            - job[parent].reserved
  <1>1. /\ aborted' = over
        /\ wq' = [wq EXCEPT !.initialized = TRUE, !.desired_threads_working = desired,
                            !.threads_created = created,
                            !.a_team_size = wq.a_team_size + created - wq.threads_created,
                            !.target_a_team_size = target,
                            !.jobs = CallJobs(Top(t), ks) \o @]
        /\ stack' = [u \in Threads |->
                 IF over THEN <<>>
                 ELSE IF u = t THEN <<Loop(CallJobs(Top(t), ks)[1], "scan"),
                                      Join(CallJobs(Top(t), ks), 1, 0)>> \o stack[t]
                 ELSE IF u \in (wq.threads_created + 1)..created THEN <<Loop(NoJob, "start")>>
                 ELSE stack[u]]
    BY Zenon DEF Enqueue, CallJobs
  <1>2. over \in BOOLEAN
    OBVIOUS
  <1>3. created \in wq.threads_created..MaxThreads
    <2>1. wq.threads_created \in 0..MaxThreads
      BY DEF TeamInv
    <2> HIDE DEF min_threads, desired
    <2>2. (CHOOSE n \in wq.threads_created..MaxThreads :
            /\ n = MaxThreads \/ Enough(n, desired, min_threads)
            /\ \A m \in wq.threads_created..(n - 1) : ~Enough(m, desired, min_threads))
         \in wq.threads_created..MaxThreads
      BY <2>1, CreatedOK
    <2>3. wq.threads_created \in wq.threads_created..MaxThreads
      BY <2>1, ThreadsAssumption
    <2> QED
      BY <2>2, <2>3
  <1> HIDE DEF created, target, desired, over
  <1> QED
    BY <1>1, <1>2, <1>3 DEF EnqueueEffect

\* Enqueueing jobs, which creates threads and puts them on the A team, keeps the invariant.
LEMMA EnqueueTeams ==
  ASSUME ShapeInv, TeamInv, TeamsInv, NEW t \in Threads, InBody(t),
         NEW ks \in Seq(DOMAIN Task), ks # <<>>, NEW inits, NEW parent, NEW par_for,
         Enqueue(t, ks, inits, parent, par_for)
  PROVE  ShapeInv' /\ TeamInv' /\ TeamsInv'
  <1> DEFINE ids == CallJobs(Top(t), ks)
             g == Join(ids, 1, 0)
             b == Loop(ids[1], "scan")
  <1>1. PICK created \in wq.threads_created..MaxThreads, over \in BOOLEAN : \E target, desired :
           /\ aborted' = over
           /\ wq' = [wq EXCEPT !.initialized = TRUE, !.desired_threads_working = desired,
                               !.threads_created = created,
                               !.a_team_size = wq.a_team_size + created - wq.threads_created,
                               !.target_a_team_size = target,
                               !.jobs = ids \o @]
           /\ stack' = [u \in Threads |->
                 IF over THEN <<>>
                 ELSE IF u = t THEN <<b, g>> \o stack[t]
                 ELSE IF u \in (wq.threads_created + 1)..created THEN <<Loop(NoJob, "start")>>
                 ELSE stack[u]]
    <2>1. EnqueueEffect(t, ks)
      BY EnqueueDoes
    <2> QED
      BY <2>1 DEF EnqueueEffect
  <1>2. /\ stack[t] # <<>> /\ Top(t).at = "body"
        /\ IsBody(Head(stack[t])) /\ Top(t) = Head(stack[t]) /\ Shape(t, stack[t])
    BY BodyTop DEF InBody, At, BodyAt
  <1>3. TaskSeq(ids) /\ Len(ids) = Len(ks) /\ 1 \in 1..Len(ids) /\ IsTask(ids[1])
    <2>1. TaskSeq(ids) /\ Len(ids) = Len(ks)
      BY CallJobsOK
    <2>2. Len(ks) \in Nat /\ Len(ks) > 0
      OBVIOUS
    <2> HIDE DEF ids
    <2> QED
      BY <2>1, <2>2 DEF TaskSeq
  <1>4. /\ IsJoin(g) /\ g.jobs = ids /\ g.i = 1
        /\ IsLoop(b) /\ b.at = "scan" /\ b.owned = ids[1]
    BY DEF IsJoin, Join, IsLoop, Loop, LoopAt
  <1> HIDE DEF ids, g, b
  <1>5. /\ IsQueue(wq') /\ wq'.jobs = ids \o wq.jobs /\ wq'.initialized
        /\ wq'.threads_created = created /\ wq'.shutdown = wq.shutdown
        /\ wq'.a_team_size = wq.a_team_size + created - wq.threads_created
        /\ wq'.workers_sleeping = wq.workers_sleeping
        /\ wq'.owners_sleeping = wq.owners_sleeping
    <2>1. IsQueue(wq)
      BY DEF ShapeInv
    <2> QED
      BY <1>1, <2>1 DEF IsQueue
  <1>6. TaskSeq(wq'.jobs)
    BY <1>3, <1>5, TaskSeqJoined DEF ShapeInv
  <1>7. Shape(t, <<b, g>> \o stack[t])
    BY <1>2, <1>3, <1>4, ShapeEnter DEF TaskSeq
  <1>8. \A u \in Threads :
           stack'[u] = IF over THEN <<>>
                       ELSE IF u = t THEN <<b, g>> \o stack[t]
                       ELSE IF u \in (wq.threads_created + 1)..created THEN <<Loop(NoJob, "start")>>
                       ELSE stack[u]
    BY <1>1
  <1>9. /\ wq.threads_created \in 0..MaxThreads /\ created \in 0..MaxThreads
        /\ \A u \in Threads : u \in (wq.threads_created + 1)..created =>
              /\ u \in Workers /\ u \notin Clients /\ stack[u] = <<>> /\ u # t
    <2>1. wq.threads_created \in 0..MaxThreads
      BY DEF TeamInv
    <2>2. created \in 0..MaxThreads
      BY <2>1, ThreadsAssumption
    <2>3. \A u \in (wq.threads_created + 1)..created :
             u \in Workers /\ u \in 0..MaxThreads /\ u > wq.threads_created
      BY <2>1, <2>2, ThreadsAssumption DEF Workers
    <2>4. \A u \in (wq.threads_created + 1)..created : u \in Workers /\ u \notin Clients /\ stack[u] = <<>>
      BY <2>3, ThreadsAssumption DEF TeamInv
    <2> QED
      BY <1>2, <2>1, <2>2, <2>4
  <1>10. ShapeInv'
    <2>1. ASSUME NEW u \in Threads
          PROVE  Shape(u, stack'[u])
      <3>1. Shape(u, <<>>)
        BY DEF Shape, IsSeq
      <3>2. u \in (wq.threads_created + 1)..created => Shape(u, <<Loop(NoJob, "start")>>)
        BY <1>9, ShapeThread
      <3>3. Shape(u, stack[u])
        BY DEF ShapeInv
      <3> QED
        BY <1>7, <1>8, <3>1, <3>2, <3>3
    <2>2. stack' \in [Threads -> {stack'[u] : u \in Threads}]
      BY <1>1
    <2> QED
      BY <1>5, <1>6, <2>1, <2>2 DEF ShapeInv
  <1>11. TeamInv'
    <2>1. \A n \in Workers : n > created => stack'[n] = <<>>
      <3>1. ASSUME NEW n \in Workers, n > created
            PROVE  stack'[n] = <<>>
        <4>1. n > wq.threads_created /\ n \notin (wq.threads_created + 1)..created
          BY <1>9, <3>1, ThreadsAssumption DEF Workers
        <4>2. stack[n] = <<>> /\ n \in Threads
          BY <4>1 DEF TeamInv, Threads
        <4> QED
          BY <1>2, <1>8, <4>1, <4>2
      <3> QED
        BY <3>1
    <2>2. \E S \in Together : \A c \in Clients : stack'[c] # <<>> => c \in S
      <3>1. \A c \in Clients : stack'[c] # <<>> => stack[c] # <<>>
        BY <1>2, <1>8, <1>9 DEF Threads
      <3> QED
        BY <3>1 DEF TeamInv
    <2>3. aborted' => \A u \in Threads : stack'[u] = <<>>
      BY <1>1
    <2> QED
      BY <1>5, <1>9, <2>1, <2>2, <2>3 DEF TeamInv
  <1>12. CASE over
    BY <1>1, <1>10, <1>11, <1>12 DEF TeamsInv
  <1>13. CASE ~over
    <2>1. ~aborted /\ aborted' = FALSE
      BY <1>1, <1>2, <1>13 DEF TeamInv
    <2>2. /\ <<b, g>> \o stack[t] # <<>> /\ Head(<<b, g>> \o stack[t]).at = "scan"
      <3>1. IsSeq(stack[t])
        BY <1>2 DEF Shape
      <3>2. IsSeq(<<b, g>> \o stack[t]) /\ Len(<<b, g>> \o stack[t]) > 0
        BY <3>1, SeqPutTwo, SeqTail
      <3> QED
        BY <1>4, <3>1, <3>2, HeadPut, SeqTail
    <2>3. /\ <<Loop(NoJob, "start")>> # <<>> /\ Head(<<Loop(NoJob, "start")>>).at = "start"
      BY DEF Loop
    <2>4. ASSUME NEW l \in SUBSET SleepAt
          PROVE  Sleeping(l)' = Sleeping(l)
      <3>1. \A u \in Threads : u \in Sleeping(l)' <=> u \in Sleeping(l)
        <4>1. ASSUME NEW u \in Threads
              PROVE  u \in Sleeping(l)' <=> u \in Sleeping(l)
          <5>1. CASE u = t
            <6>1. stack'[u] = <<b, g>> \o stack[t]
              BY <1>8, <1>13, <5>1
            <6>2. u \notin Sleeping(l)'
              BY <2>2, <6>1 DEF Sleeping, Top, SleepAt
            <6>3. u \notin Sleeping(l)
              BY <1>2, <5>1 DEF Sleeping, Top, SleepAt
            <6> QED
              BY <6>2, <6>3
          <5>2. CASE u # t /\ u \in (wq.threads_created + 1)..created
            <6>1. stack'[u] = <<Loop(NoJob, "start")>>
              BY <1>8, <1>13, <5>2
            <6>2. u \notin Sleeping(l)'
              BY <2>3, <6>1 DEF Sleeping, Top, SleepAt
            <6>3. u \notin Sleeping(l)
              BY <1>9, <5>2 DEF Sleeping
            <6> QED
              BY <6>2, <6>3
          <5>3. CASE u # t /\ u \notin (wq.threads_created + 1)..created
            <6>1. stack'[u] = stack[u]
              BY <1>8, <1>13, <5>3
            <6> QED
              BY <6>1 DEF Sleeping, Top
          <5> QED
            BY <5>1, <5>2, <5>3
        <4> QED
          BY <4>1
      <3> QED
        BY <3>1 DEF Sleeping
    <2>5. /\ Sleeping({"a_team", "b_team"})' = Sleeping({"a_team", "b_team"})
          /\ Sleeping({"b_team"})' = Sleeping({"b_team"})
          /\ Sleeping({"owners"})' = Sleeping({"owners"})
      BY <2>4 DEF SleepAt
    <2>6. Cardinality(Sleeping({"b_team"})) \in Nat
      BY <1>2, SleepersOne
    <2>7. ~wq.initialized => /\ wq.a_team_size = 0 /\ wq.threads_created = 0
                             /\ Cardinality(Sleeping({"b_team"})) = 0
      <3>1. ASSUME ~wq.initialized
            PROVE  Sleeping({"b_team"}) = {}
        <4>1. ASSUME NEW u \in Sleeping({"b_team"})
              PROVE  FALSE
          <5>1. u \in Threads /\ stack[u] # <<>> /\ Top(u).at = "b_team"
            BY <4>1 DEF Sleeping
          <5>2. u \in Workers
            BY <5>1, LoopTop DEF LoopAt
          <5>3. wq.threads_created = 0 /\ u > 0
            BY <3>1, <5>2 DEF TeamInv, Workers
          <5> QED
            BY <5>1, <5>2, <5>3 DEF TeamInv
        <4> QED
          BY <4>1
      <3>2. Cardinality({}) = 0
        BY FS_EmptySet
      <3> QED
        BY <3>1, <3>2 DEF TeamInv
    <2>8. TeamsExact'
      <3>1. TeamsExact
        BY <2>1 DEF TeamsInv
      <3>2. /\ wq'.workers_sleeping = Cardinality(Sleeping({"a_team", "b_team"})')
            /\ wq'.owners_sleeping = Cardinality(Sleeping({"owners"})')
        BY <1>5, <2>5, <3>1 DEF TeamsExact
      <3>3. ~wq.shutdown => wq'.a_team_size = wq'.threads_created - Cardinality(Sleeping({"b_team"})')
        <4>1. ASSUME ~wq.shutdown
              PROVE  wq.a_team_size = wq.threads_created - Cardinality(Sleeping({"b_team"}))
          BY <2>7, <3>1, <4>1 DEF TeamsExact
        <4> QED
          BY <1>5, <1>9, <2>5, <2>6, <4>1
      <3> QED
        BY <1>5, <3>2, <3>3 DEF TeamsExact
    <2> QED
      BY <1>10, <1>11, <2>8 DEF TeamsInv
  <1> QED
    BY <1>12, <1>13

\* The operation that a thread has reached is one of the model's.
LEMMA OpIsOperation ==
  ASSUME ShapeInv, NEW t \in Threads, NEW name, HasOp(t, name)
  PROVE  Operation(Op(t)) /\ Op(t).op = name /\ InBody(t)
  <1>1. /\ stack[t] # <<>> /\ Top(t).at = "body" /\ InBody(t)
        /\ Top(t).op <= Len(Ops(Top(t).job)) /\ Op(t).op = name
    BY DEF HasOp, InBody, At
  <1>2. Top(t).op \in Nat \ {0}
    BY <1>1, BodyTop DEF BodyAt
  <1>3. Program(Ops(Top(t).job))
    BY <1>1, BodyOps DEF BodyAt
  <1>4. Top(t).op \in 1..Len(Ops(Top(t).job))
    BY <1>1, <1>2, <1>3 DEF Program
  <1> QED
    BY <1>1, <1>3, <1>4 DEF Program, Op

\* The two ways to fork keep the invariant.
LEMMA CallsTeams ==
  ASSUME ShapeInv, TeamInv, TeamsInv, NEW t \in Threads, CallParallelTasks(t) \/ CallParFor(t)
  PROVE  ShapeInv' /\ TeamInv' /\ TeamsInv'
  <1>1. CASE CallParallelTasks(t)
    <2>1. Operation(Op(t)) /\ Op(t).op = "parallel_tasks" /\ InBody(t)
      BY <1>1, OpIsOperation DEF CallParallelTasks
    <2>2. Op(t).tasks \in Seq(DOMAIN Task) /\ Op(t).tasks # <<>>
      BY <2>1 DEF Operation
    <2>3. Enqueue(t, Op(t).tasks, Op(t).init, TaskParent(Top(t).job), FALSE)
      BY <1>1 DEF CallParallelTasks
    <2> QED
      BY <2>1, <2>2, <2>3, EnqueueTeams
  <1>2. CASE CallParFor(t)
    <2>1. Operation(Op(t)) /\ Op(t).op = "par_for" /\ InBody(t)
      BY <1>2, OpIsOperation DEF CallParFor
    <2>2. Op(t).task \in DOMAIN Task
      BY <2>1 DEF Operation
    <2>3. <<Op(t).task>> \in Seq(DOMAIN Task) /\ <<Op(t).task>> # <<>>
      BY <2>2
    <2>4. CASE Enqueue(t, <<Op(t).task>>, {}, NoParent, TRUE)
      BY <2>1, <2>3, <2>4, EnqueueTeams
    <2>5. CASE Advance(t) /\ UNCHANGED <<wq, aborted>>
      BY <2>1, <2>5, CallSkipsQuiet, QuietTeams
    <2> QED
      BY <1>2, <2>4, <2>5 DEF CallParFor
  <1> QED
    BY <1>1, <1>2

----------------------------------------------------------------------------
(* The invariant *)

\* A client at the start of its program.
LEMMA ShapeClient ==
  ASSUME NEW t \in Clients
  PROVE  Shape(t, <<Body(<<t>>, 0, 0)>>)
  <1> DEFINE b == Body(<<t>>, 0, 0)
  <1>1. IsSeq(<<b>>) /\ Len(<<b>>) = 1 /\ <<b>>[1] = b
    BY DEF IsSeq
  <1>2. IsBody(b) /\ b.at = "body" /\ b.job = <<t>> /\ b.op \in Nat \ {0}
    BY DEF IsBody, Body, BodyAt
  <1> HIDE DEF b
  <1>3. Fr(<<b>>, 1) = b
    BY <1>1 DEF Fr
  <1>4. BodyOK(t, <<b>>, 1)
    BY <1>1, <1>2, <1>3 DEF BodyOK
  <1>5. \A d \in 1..1 : d = 1
    OBVIOUS
  <1>6. Shape(t, <<b>>)
    BY <1>1, <1>2, <1>3, <1>4, <1>5 DEF Shape, FrameOK
  <1> QED
    BY <1>6 DEF b

\* No thread but the clients is there at first, and all teams are empty.
LEMMA TeamsInit == Init => ShapeInv /\ TeamInv /\ TeamsInv
  <1> SUFFICES ASSUME Init PROVE ShapeInv /\ TeamInv /\ TeamsInv
    OBVIOUS
  <1>1. PICK running \in Together :
           stack = [t \in Threads |-> IF t \in running THEN <<Body(<<t>>, 0, 0)>> ELSE <<>>]
    BY DEF Init
  <1>2. /\ IsQueue(wq) /\ wq.jobs = <<>> /\ wq.threads_created = 0
        /\ wq.initialized = FALSE /\ wq.a_team_size = 0
        /\ wq.workers_sleeping = 0 /\ wq.owners_sleeping = 0
    BY DEF Init, IsQueue, ResetQueue
  <1>3. TaskSeq(wq.jobs)
    BY <1>2 DEF TaskSeq, IsSeq
  <1>4. running \subseteq Clients /\ \A n \in Workers : n \notin running
    BY <1>1, MainAssumption, ThreadsAssumption DEF Workers
  <1>5. ASSUME NEW t \in Threads
        PROVE  Shape(t, stack[t])
    <2>1. Shape(t, <<>>)
      BY DEF Shape, IsSeq
    <2>2. t \in running => Shape(t, <<Body(<<t>>, 0, 0)>>)
      BY <1>4, ShapeClient
    <2> QED
      BY <1>1, <2>1, <2>2
  <1>6. ShapeInv
    BY <1>1, <1>2, <1>3, <1>5 DEF ShapeInv
  <1>7. TeamInv
    <2>1. \A n \in Workers : stack[n] = <<>>
      BY <1>1, <1>4 DEF Threads
    <2>2. \A c \in Clients : stack[c] # <<>> => c \in running
      BY <1>1 DEF Threads
    <2>3. ~aborted
      BY DEF Init
    <2>4. 0 \in 0..MaxThreads
      BY ThreadsAssumption
    <2> QED
      BY <1>1, <1>2, <2>1, <2>2, <2>3, <2>4 DEF TeamInv
  <1>8. ASSUME NEW l \in SUBSET SleepAt
        PROVE  Sleeping(l) = {}
    <2>1. \A t : Head(<<Body(<<t>>, 0, 0)>>).at = "body"
      BY DEF Body
    <2> QED
      BY <1>1, <2>1 DEF Sleeping, Top, SleepAt
  <1>9. TeamsExact
    <2>1. Sleeping({"a_team", "b_team"}) = {} /\ Sleeping({"owners"}) = {}
      BY <1>8 DEF SleepAt
    <2> QED
      BY <1>2, <2>1, FS_EmptySet DEF TeamsExact
  <1> QED
    BY <1>6, <1>7, <1>9 DEF TeamsInv

\* Every step keeps shapes, threads and teams.
LEMMA TeamsStep == ShapeInv /\ TeamInv /\ TeamsInv /\ [Next]_vars => (ShapeInv /\ TeamInv /\ TeamsInv)'
  <1> SUFFICES ASSUME ShapeInv, TeamInv, TeamsInv, [Next]_vars
               PROVE  ShapeInv' /\ TeamInv' /\ TeamsInv'
    OBVIOUS
  <1>1. CASE UNCHANGED vars
    <2>1. ShapeInv' /\ TeamInv'
      BY <1>1 DEF vars, ShapeInv, TeamInv
    <2>2. \A l : Sleeping(l)' = Sleeping(l)
      BY <1>1 DEF vars, Sleeping, Top
    <2>3. TeamsInv'
      BY <1>1, <2>2 DEF vars, TeamsInv, TeamsExact
    <2> QED
      BY <2>1, <2>3
  <1>2. ASSUME NEW t \in Threads, Step(t)
        PROVE  ShapeInv' /\ TeamInv' /\ TeamsInv'
    <2>1. CASE DropFailed(t)
      BY <2>1, DropFailedQuiet, QuietTeams
    <2>2. CASE InheritFailure(t)
      BY <2>2, InheritFailureQuiet, QuietTeams
    <2>3. CASE Sleep(t)
      BY <2>3, SleepTeams
    <2>4. CASE Wake(t)
      BY <2>4, WakeTeams
    <2>5. CASE Start(t)
      BY <2>5, StartQuiet, QuietTeams
    <2>6. CASE Claim(t)
      BY <2>6, ClaimQuiet, QuietTeams
    <2>7. CASE RunClaimed(t)
      BY <2>7, RunClaimedQuiet, QuietTeams
    <2>8. CASE Finish(t)
      BY <2>8, FinishQuiet, QuietTeams
    <2>9. CASE Leave(t)
      BY <2>9, LeaveQuiet, QuietTeams
    <2>10. CASE JoinNext(t)
      BY <2>10, JoinNextQuiet, QuietTeams
    <2>11. CASE CallParallelTasks(t) \/ CallParFor(t)
      BY <2>11, CallsTeams
    <2>12. CASE Release(t)
      BY <2>12, ReleaseQuiet, QuietTeams
    <2>13. CASE ReleaseBroadcast(t)
      BY <2>13, ReleaseBroadcastQuiet, QuietTeams
    <2>14. CASE Work(t)
      BY <2>14, WorkQuiet, QuietTeams
    <2>15. CASE SetNumThreads(t)
      BY <2>15, SetNumThreadsQuiet, QuietTeams
    <2>16. CASE EndBody(t)
      BY <2>16, EndBodyQuiet, QuietTeams
    <2>17. CASE Shutdown(t)
      BY <2>17, ShutdownTeams
    <2>18. CASE Joined(t)
      BY <2>18, JoinedTeams
    <2> QED
      BY <1>2, <2>1, <2>2, <2>3, <2>4, <2>5, <2>6, <2>7, <2>8, <2>9, <2>10, <2>11, <2>12,
         <2>13, <2>14, <2>15, <2>16, <2>17, <2>18 DEF Step
  <1> QED
    BY <1>1, <1>2 DEF Next

\* Frames nest as the calls of the code do, and threads are where they can be, in every
\* run, whatever the program, the number of threads and the order of their steps.
THEOREM StackInvariance == Spec => [](ShapeInv /\ TeamInv /\ TeamsInv)
  <1>1. Init => ShapeInv /\ TeamInv /\ TeamsInv
    BY TeamsInit
  <1>2. ShapeInv /\ TeamInv /\ TeamsInv /\ [Next]_vars => (ShapeInv /\ TeamInv /\ TeamsInv)'
    BY TeamsStep
  <1> QED
    BY <1>1, <1>2, PTL DEF Spec

\* Until the pool aborts, its counters of sleeping workers, of sleeping owners and of the
\* A team are exact: enqueue_work_already_locked and worker_thread_already_locked decide
\* whom to wake, and who joins which team, on what is so.
THEOREM TeamsAreExact == Spec => [](aborted \/ TeamsExact)
  <1>1. ShapeInv /\ TeamInv /\ TeamsInv => aborted \/ TeamsExact
    BY DEF TeamsInv
  <1> QED
    BY <1>1, StackInvariance, PTL
=============================================================================
