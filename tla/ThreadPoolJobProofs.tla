------------------------ MODULE ThreadPoolJobProofs ------------------------
(***************************************************************************)
(* The jobs of the thread pool, for any number of threads and any program: *)
(* no thread and no list refers to a job whose owner has returned, serial  *)
(* loops run in order, and a fork that succeeds is complete.               *)
(*                                                                         *)
(* The invariant is about a function from positions <<thread, depth>> to   *)
(* the frames there, the jobs alive, and the stack of jobs, so that a step *)
(* of the program is a change of one or two values of that function.       *)
(***************************************************************************)
EXTENDS ThreadPoolProofs

\* The frame that has called, and the frame called.
Under(p) == <<p[1], p[2] - 1>>
Over(p)  == <<p[1], p[2] + 1>>

Busy(f)    == f.at \in {"claim", "working"}
On(m, J)   == {p \in DOMAIN m : Busy(m[p]) /\ m[p].work = J}
Serial(J)  == TaskOf(J).serial
Idle(r)    == r.extent = 0 /\ r.active = 0
All(J)     == 0..TaskOf(J).extent - 1

\* A work structure, as the record it is.
IsWork(r) ==
    r = [extent |-> r.extent, min |-> r.min, active |-> r.active, exit |-> r.exit,
         next |-> r.next, sleeping |-> r.sleeping, reserved |-> r.reserved,
         siblings |-> r.siblings, parent |-> r.parent, par_for |-> r.par_for,
         done |-> r.done]

\* What of the shape of the stacks is needed here.
Nested(m) ==
    \A p \in DOMAIN m :
       /\ p = <<p[1], p[2]>> /\ p[2] \in Nat \ {0}
       /\ m[p].at \in LoopAt \cup BodyAt \cup {"join"}
       /\ p[2] > 1 => Under(p) \in DOMAIN m
       /\ m[p].at \in BodyAt =>
             IF p[2] = 1 THEN m[p].job = <<p[1]>>
             ELSE IsTask(m[p].job) /\ m[Under(p)].at = "working" /\ m[Under(p)].work = m[p].job
       /\ m[p].at = "join" => /\ p[2] > 1 /\ m[Under(p)].at = "body"
                              /\ m[p].i \in 1..Len(m[p].jobs)
       /\ m[p].at \in LoopAt =>
             IF m[p].owned = NoJob THEN p[2] = 1
             ELSE /\ p[2] > 1 /\ m[Under(p)].at = "join"
                  /\ m[p].owned = m[Under(p)].jobs[m[Under(p)].i]

\* A thread at work is at work on a job that is alive, within its iterations.
BusyOK(m, jb) ==
    \A p \in DOMAIN m : Busy(m[p]) =>
       LET f == m[p]  J == f.work IN
       /\ J \in DOMAIN jb
       /\ IF Serial(J) THEN f.total \in Nat /\ f.iters \in Nat /\ f.total + f.iters <= jb[J].extent
          ELSE f.at = "working" /\ f.min \in 0..jb[J].min - 1

\* A closure runs the iterations that its caller has claimed.
CallOK(m, jb) ==
    \A p \in DOMAIN m : m[p].at \in BodyAt /\ p[2] > 1 =>
       LET f == m[p]  g == m[Under(p)]  J == f.job IN
       IF Serial(J) THEN /\ f.it \in Nat /\ f.left \in Nat
                         /\ f.it >= jb[J].min + g.total
                         /\ f.it + f.left = jb[J].min + g.total + g.iters - 1
       ELSE f.it = g.min /\ f.left = 0

\* The jobs of a fork are alive while it joins them, one after the other.
ForkOK(m, jb) ==
    \A p \in DOMAIN m : m[p].at = "join" =>
       LET f == m[p]  b == m[Under(p)] IN
       /\ f.status \in {0, 1}
       /\ \A i \in 1..Len(f.jobs) :
          LET J == f.jobs[i] IN
          /\ J \in DOMAIN jb /\ J[1] = b.job /\ J[2] = b.it
          /\ jb[J].siblings = f.jobs
          /\ jb[J].parent # NoParent => p[2] > 2 /\ jb[J].parent = b.job
          /\ i < f.i => Idle(jb[J]) /\ (f.status = 0 => jb[J].done = All(J))
          /\ i = f.i /\ Over(p) \notin DOMAIN m => Idle(jb[J])

\* Every job alive belongs to such a fork.
OwnedOK(m, jb) ==
    \A J \in DOMAIN jb : \E p \in DOMAIN m :
       m[p].at = "join" /\ \E i \in 1..Len(m[p].jobs) : m[p].jobs[i] = J

\* What the fields of a job say of its iterations.
WorkOK(m, jb) ==
    \A J \in DOMAIN jb :
       /\ IsTask(J) /\ IsWork(jb[J])
       /\ jb[J].extent \in Nat /\ jb[J].min \in Nat /\ jb[J].exit \in {0, 1}
       /\ jb[J].min + jb[J].extent <= TaskOf(J).extent
       /\ IsFiniteSet(On(m, J)) /\ jb[J].active = Cardinality(On(m, J))
       /\ IF Serial(J) THEN jb[J].active <= 1
          ELSE \A p, q \in On(m, J) : m[p].min = m[q].min => p = q
       /\ jb[J].done \subseteq 0..jb[J].min - 1
       /\ jb[J].exit = 0 =>
             /\ jb[J].min + jb[J].extent = TaskOf(J).extent
             /\ \A x \in 0..jb[J].min - 1 :
                   x \in jb[J].done \/ (~Serial(J) /\ \E p \in On(m, J) : m[p].min = x)

\* The stack of jobs holds, once, those that can be worked on.
Once(js)      == \A i, j \in 1..Len(js) : js[i] = js[j] => i = j
Listed(js, J) == \E i \in 1..Len(js) : js[i] = J

ListOK(jb, js) ==
    /\ Once(js)
    /\ \A J : Listed(js, J) <=>
                 J \in DOMAIN jb /\ jb[J].extent > 0 /\ ~(Serial(J) /\ jb[J].active > 0)

ResultOK(m) == \A p \in DOMAIN m : m[p].at \in LoopAt => m[p].result \in {0, 1}

JobsOK(m, jb, js) ==
    /\ Nested(m) /\ ResultOK(m) /\ BusyOK(m, jb) /\ CallOK(m, jb) /\ ForkOK(m, jb)
    /\ OwnedOK(m, jb) /\ WorkOK(m, jb) /\ ListOK(jb, js)
----------------------------------------------------------------------------
(* Positions *)

IsPos(p) == p = <<p[1], p[2]>> /\ p[2] \in Nat \ {0}

\* The frames above and below.
LEMMA Neighbours ==
  ASSUME NEW p, IsPos(p)
  PROVE  /\ IsPos(Over(p)) /\ Over(p)[1] = p[1] /\ Over(p)[2] = p[2] + 1
         /\ Over(p)[2] > 1 /\ Over(p) # p /\ Under(Over(p)) = p
         /\ p[2] > 1 => IsPos(Under(p)) /\ Over(Under(p)) = p
         /\ Under(p) # p /\ Under(p)[1] = p[1] /\ Under(p)[2] = p[2] - 1
         /\ \A q : IsPos(q) => (Under(p) = Under(q) => p = q) /\ (Over(p) = Over(q) => p = q)
                               /\ (Under(q) = p => q = Over(p))
  <1>1. /\ Over(p) = <<p[1], p[2] + 1>> /\ Over(p)[1] = p[1] /\ Over(p)[2] = p[2] + 1
        /\ Under(p) = <<p[1], p[2] - 1>> /\ Under(p)[1] = p[1] /\ Under(p)[2] = p[2] - 1
    BY DEF Over, Under
  <1>2. /\ IsPos(Over(p)) /\ Over(p)[2] > 1 /\ Over(p) # p /\ Under(p) # p
        /\ p[2] > 1 => IsPos(Under(p))
    BY <1>1 DEF IsPos
  <1>3. Under(Over(p)) = p
    BY <1>1 DEF Under, IsPos
  <1>4. p[2] > 1 => Over(Under(p)) = p
    BY <1>1 DEF Over, IsPos
  <1>5. ASSUME NEW q, IsPos(q)
        PROVE  /\ Under(p) = Under(q) => p = q
               /\ Over(p) = Over(q) => p = q
               /\ Under(q) = p => q = Over(p)
    <2>1. /\ Over(q) = <<q[1], q[2] + 1>> /\ Over(q)[1] = q[1] /\ Over(q)[2] = q[2] + 1
          /\ Under(q) = <<q[1], q[2] - 1>> /\ Under(q)[1] = q[1] /\ Under(q)[2] = q[2] - 1
      BY DEF Over, Under
    <2>2. Under(p) = Under(q) => p[1] = q[1] /\ p[2] - 1 = q[2] - 1
      BY <1>1, <2>1
    <2>3. Over(p) = Over(q) => p[1] = q[1] /\ p[2] + 1 = q[2] + 1
      BY <1>1, <2>1
    <2>4. Under(q) = p => q[1] = p[1] /\ q[2] - 1 = p[2]
      BY <2>1
    <2>5. p[2] \in Nat /\ q[2] \in Nat /\ p = <<p[1], p[2]>> /\ q = <<q[1], q[2]>>
      BY <1>5 DEF IsPos
    <2>6. Under(q) = p => q[2] = p[2] + 1
      BY <2>4, <2>5
    <2> QED
      BY <1>1, <2>2, <2>3, <2>4, <2>5, <2>6
  <1> QED
    BY <1>1, <1>2, <1>3, <1>4, <1>5

\* m2 is m with the frame at T, old or new, now g.
Put(m, m2, T, g) ==
    /\ DOMAIN m2 = DOMAIN m \cup {T} /\ m2[T] = g
    /\ \A p \in DOMAIN m : p # T => m2[p] = m[p]

\* m2 is m without the frame at T.
Cut(m, m2, T) ==
    DOMAIN m2 = DOMAIN m \ {T} /\ \A p \in DOMAIN m2 : m2[p] = m[p]

\* A change on top of a stack leaves all else as it was, and where it was.
LEMMA PutTop ==
  ASSUME NEW m, Nested(m), NEW T \in DOMAIN m, Over(T) \notin DOMAIN m,
         NEW g, NEW m2, Put(m, m2, T, g)
  PROVE  /\ DOMAIN m2 = DOMAIN m /\ m2[T] = g /\ IsPos(T)
         /\ \A p \in DOMAIN m : IsPos(p) /\ (p # T => m2[p] = m[p])
         /\ \A p \in DOMAIN m : p[2] > 1 =>
               Under(p) \in DOMAIN m /\ Under(p) # T /\ m2[Under(p)] = m[Under(p)]
  <1>1. \A p \in DOMAIN m : IsPos(p) /\ (p[2] > 1 => Under(p) \in DOMAIN m)
    BY DEF Nested, IsPos
  <1>2. \A p \in DOMAIN m : Under(p) # T
    BY <1>1, Neighbours
  <1> QED
    BY <1>1, <1>2 DEF Put

\* worker_thread_already_locked goes on without taking or giving up a job.
LEMMA LoopMoves ==
  ASSUME NEW m, NEW jb, NEW js, JobsOK(m, jb, js),
         NEW T \in DOMAIN m, Over(T) \notin DOMAIN m, m[T].at \in LoopAt,
         NEW g, g.at \in LoopAt, g.owned = m[T].owned, g.result \in {0, 1},
         Busy(g) <=> Busy(m[T]),
         Busy(g) => /\ g.work = m[T].work /\ g.min = m[T].min
                    /\ IF Serial(g.work) THEN /\ g.total \in Nat /\ g.iters \in Nat
                                              /\ g.total + g.iters <= jb[g.work].extent
                       ELSE g.at = "working",
         NEW m2, Put(m, m2, T, g)
  PROVE  JobsOK(m2, jb, js)
  <1>1. /\ DOMAIN m2 = DOMAIN m /\ m2[T] = g /\ IsPos(T)
        /\ \A p \in DOMAIN m : IsPos(p) /\ (p # T => m2[p] = m[p])
        /\ \A p \in DOMAIN m : p[2] > 1 =>
              Under(p) \in DOMAIN m /\ Under(p) # T /\ m2[Under(p)] = m[Under(p)]
    BY PutTop DEF JobsOK
  <1>2. /\ Nested(m) /\ ResultOK(m) /\ BusyOK(m, jb) /\ CallOK(m, jb) /\ ForkOK(m, jb)
        /\ OwnedOK(m, jb) /\ WorkOK(m, jb) /\ ListOK(jb, js)
    BY DEF JobsOK
  <1>3. /\ m2[T].at \in LoopAt /\ m2[T].at \notin BodyAt /\ m2[T].at # "join"
        /\ m[T].at \notin BodyAt /\ m[T].at # "join"
    BY <1>1 DEF LoopAt, BodyAt
  <1>4. Nested(m2)
    <2> SUFFICES ASSUME NEW p \in DOMAIN m
                 PROVE  /\ p = <<p[1], p[2]>> /\ p[2] \in Nat \ {0}
                        /\ m2[p].at \in LoopAt \cup BodyAt \cup {"join"}
                        /\ p[2] > 1 => Under(p) \in DOMAIN m
                        /\ m2[p].at \in BodyAt =>
                              IF p[2] = 1 THEN m2[p].job = <<p[1]>>
                              ELSE /\ IsTask(m2[p].job) /\ m2[Under(p)].at = "working"
                                   /\ m2[Under(p)].work = m2[p].job
                        /\ m2[p].at = "join" => /\ p[2] > 1 /\ m2[Under(p)].at = "body"
                                                /\ m2[p].i \in 1..Len(m2[p].jobs)
                        /\ m2[p].at \in LoopAt =>
                              IF m2[p].owned = NoJob THEN p[2] = 1
                              ELSE /\ p[2] > 1 /\ m2[Under(p)].at = "join"
                                   /\ m2[p].owned = m2[Under(p)].jobs[m2[Under(p)].i]
      BY <1>1 DEF Nested
    <2>1. IsPos(p) /\ (p[2] = 1 \/ p[2] > 1)
      BY <1>1 DEF IsPos
    <2>2. CASE p = T
      BY <1>1, <1>2, <1>3, <2>1, <2>2 DEF Nested, IsPos
    <2>3. CASE p # T
      BY <1>1, <1>2, <2>1, <2>3 DEF Nested, IsPos
    <2> QED
      BY <2>2, <2>3
  <1>5. ResultOK(m2)
    BY <1>1, <1>2 DEF ResultOK
  <1>6. BusyOK(m2, jb)
    BY <1>1, <1>2 DEF BusyOK
  <1>7. CallOK(m2, jb)
    BY <1>1, <1>2, <1>3 DEF CallOK
  <1>8. ForkOK(m2, jb)
    BY <1>1, <1>2, <1>3 DEF ForkOK, Nested
  <1>9. OwnedOK(m2, jb)
    BY <1>1, <1>2, <1>3 DEF OwnedOK
  <1>10. ASSUME NEW J
         PROVE  On(m2, J) = On(m, J) /\ \A p \in On(m, J) : m2[p].min = m[p].min
    BY <1>1 DEF On
  <1>11. WorkOK(m2, jb)
    BY <1>2, <1>10 DEF WorkOK
  <1> QED
    BY <1>2, <1>4, <1>5, <1>6, <1>7, <1>8, <1>9, <1>11 DEF JobsOK

\* A closure or a pipeline goes on, to its next operation or its next iteration.
LEMMA BodyMoves ==
  ASSUME NEW m, NEW jb, NEW js, JobsOK(m, jb, js),
         NEW T \in DOMAIN m, Over(T) \notin DOMAIN m, m[T].at \in BodyAt,
         NEW g, g.at \in BodyAt, g.job = m[T].job,
         T[2] > 1 =>
            IF Serial(g.job)
            THEN LET h == m[Under(T)] IN
                 /\ g.it \in Nat /\ g.left \in Nat /\ g.it >= jb[g.job].min + h.total
                 /\ g.it + g.left = jb[g.job].min + h.total + h.iters - 1
            ELSE g.it = m[Under(T)].min /\ g.left = 0,
         NEW m2, Put(m, m2, T, g)
  PROVE  JobsOK(m2, jb, js)
  <1>1. /\ DOMAIN m2 = DOMAIN m /\ m2[T] = g /\ IsPos(T)
        /\ \A p \in DOMAIN m : IsPos(p) /\ (p # T => m2[p] = m[p])
        /\ \A p \in DOMAIN m : p[2] > 1 =>
              Under(p) \in DOMAIN m /\ Under(p) # T /\ m2[Under(p)] = m[Under(p)]
    BY PutTop DEF JobsOK
  <1>2. /\ Nested(m) /\ ResultOK(m) /\ BusyOK(m, jb) /\ CallOK(m, jb) /\ ForkOK(m, jb)
        /\ OwnedOK(m, jb) /\ WorkOK(m, jb) /\ ListOK(jb, js)
    BY DEF JobsOK
  <1>3. /\ m2[T].at \in BodyAt /\ m2[T].at \notin LoopAt /\ m2[T].at # "join"
        /\ m[T].at \notin LoopAt /\ m[T].at # "join" /\ ~Busy(m[T]) /\ ~Busy(m2[T])
    BY <1>1 DEF LoopAt, BodyAt, Busy
  <1>4. Nested(m2)
    <2> SUFFICES ASSUME NEW p \in DOMAIN m
                 PROVE  /\ p = <<p[1], p[2]>> /\ p[2] \in Nat \ {0}
                        /\ m2[p].at \in LoopAt \cup BodyAt \cup {"join"}
                        /\ p[2] > 1 => Under(p) \in DOMAIN m
                        /\ m2[p].at \in BodyAt =>
                              IF p[2] = 1 THEN m2[p].job = <<p[1]>>
                              ELSE /\ IsTask(m2[p].job) /\ m2[Under(p)].at = "working"
                                   /\ m2[Under(p)].work = m2[p].job
                        /\ m2[p].at = "join" => /\ p[2] > 1 /\ m2[Under(p)].at = "body"
                                                /\ m2[p].i \in 1..Len(m2[p].jobs)
                        /\ m2[p].at \in LoopAt =>
                              IF m2[p].owned = NoJob THEN p[2] = 1
                              ELSE /\ p[2] > 1 /\ m2[Under(p)].at = "join"
                                   /\ m2[p].owned = m2[Under(p)].jobs[m2[Under(p)].i]
      BY <1>1 DEF Nested
    <2>1. IsPos(p) /\ (p[2] = 1 \/ p[2] > 1)
      BY <1>1 DEF IsPos
    <2>2. CASE p = T
      BY <1>1, <1>2, <1>3, <2>1, <2>2 DEF Nested, IsPos
    <2>3. CASE p # T
      BY <1>1, <1>2, <2>1, <2>3 DEF Nested, IsPos
    <2> QED
      BY <2>2, <2>3
  <1>5. ResultOK(m2)
    BY <1>1, <1>2, <1>3 DEF ResultOK
  <1>6. BusyOK(m2, jb)
    BY <1>1, <1>2, <1>3 DEF BusyOK
  <1>7. CallOK(m2, jb)
    BY <1>1, <1>2, <1>3 DEF CallOK
  <1>8. ForkOK(m2, jb)
    BY <1>1, <1>2, <1>3 DEF ForkOK, Nested
  <1>9. OwnedOK(m2, jb)
    BY <1>1, <1>2, <1>3 DEF OwnedOK
  <1>10. ASSUME NEW J
         PROVE  On(m2, J) = On(m, J) /\ \A p \in On(m, J) : m2[p].min = m[p].min
    BY <1>1, <1>3 DEF On
  <1>11. WorkOK(m2, jb)
    BY <1>2, <1>10 DEF WorkOK
  <1> QED
    BY <1>2, <1>4, <1>5, <1>6, <1>7, <1>8, <1>9, <1>11 DEF JobsOK

\* What is on a stack stays where it was when a frame is pushed.
LEMMA PutOver ==
  ASSUME NEW m, Nested(m), NEW T \in DOMAIN m, NEW O, O = Over(T), O \notin DOMAIN m,
         NEW g, NEW m2, Put(m, m2, O, g)
  PROVE  /\ DOMAIN m2 = DOMAIN m \cup {O} /\ m2[O] = g /\ IsPos(O) /\ O[2] > 1 /\ Under(O) = T
         /\ O[1] = T[1] /\ O[2] = T[2] + 1 /\ Over(O) \notin DOMAIN m /\ Over(O) # O
         /\ m2[T] = m[T] /\ IsPos(T)
         /\ \A p \in DOMAIN m : IsPos(p) /\ p # O /\ m2[p] = m[p]
         /\ \A p \in DOMAIN m : p[2] > 1 => Under(p) \in DOMAIN m /\ m2[Under(p)] = m[Under(p)]
         /\ \A p \in DOMAIN m : p # T => Over(p) # O
  <1>1. \A p \in DOMAIN m : IsPos(p) /\ (p[2] > 1 => Under(p) \in DOMAIN m)
    BY DEF Nested, IsPos
  <1>2. /\ IsPos(O) /\ O[2] > 1 /\ Under(O) = T /\ O[1] = T[1] /\ O[2] = T[2] + 1
        /\ \A p \in DOMAIN m : p # T => Over(p) # O
    BY <1>1, Neighbours
  <1>3. \A p \in DOMAIN m : p # O /\ m2[p] = m[p]
    BY DEF Put
  <1>4. Over(O) \notin DOMAIN m /\ Over(O) # O
    <2>1. IsPos(Over(O)) /\ Over(O)[2] > 1 /\ Under(Over(O)) = O /\ Over(O) # O
      BY <1>2, Neighbours
    <2> QED
      BY <1>1, <2>1
  <1> QED
    BY <1>1, <1>2, <1>3, <1>4 DEF Put

\* worker_thread_already_locked calls the closure of the job it is at work on.
LEMMA CallPut ==
  ASSUME NEW m, NEW jb, NEW js, JobsOK(m, jb, js),
         NEW T \in DOMAIN m, NEW O, O = Over(T), O \notin DOMAIN m, m[T].at = "working",
         NEW g, g.at \in BodyAt, g.job = m[T].work,
         IF Serial(g.job)
         THEN /\ g.it \in Nat /\ g.left \in Nat /\ g.it >= jb[g.job].min + m[T].total
              /\ g.it + g.left = jb[g.job].min + m[T].total + m[T].iters - 1
         ELSE g.it = m[T].min /\ g.left = 0,
         NEW m2, Put(m, m2, O, g)
  PROVE  JobsOK(m2, jb, js)
  <1>1. /\ DOMAIN m2 = DOMAIN m \cup {O} /\ m2[O] = g /\ IsPos(O) /\ O[2] > 1 /\ Under(O) = T
        /\ O[1] = T[1] /\ O[2] = T[2] + 1 /\ Over(O) \notin DOMAIN m /\ Over(O) # O
        /\ m2[T] = m[T] /\ IsPos(T)
        /\ \A p \in DOMAIN m : IsPos(p) /\ p # O /\ m2[p] = m[p]
        /\ \A p \in DOMAIN m : p[2] > 1 => Under(p) \in DOMAIN m /\ m2[Under(p)] = m[Under(p)]
        /\ \A p \in DOMAIN m : p # T => Over(p) # O
    <2>1. Nested(m)
      BY DEF JobsOK
    <2> QED
      BY <2>1, PutOver
  <1>2. /\ Nested(m) /\ ResultOK(m) /\ BusyOK(m, jb) /\ CallOK(m, jb) /\ ForkOK(m, jb)
        /\ OwnedOK(m, jb) /\ WorkOK(m, jb) /\ ListOK(jb, js)
    BY DEF JobsOK
  <1>3. /\ m2[O].at \in BodyAt /\ m2[O].at \notin LoopAt /\ m2[O].at # "join" /\ ~Busy(m2[O])
        /\ m[T].at \in LoopAt /\ m[T].at # "join" /\ Busy(m[T])
    BY <1>1 DEF LoopAt, BodyAt, Busy
  <1>4. IsTask(g.job)
    BY <1>2, <1>3 DEF BusyOK, WorkOK
  <1>5. Nested(m2)
    <2> SUFFICES ASSUME NEW p \in DOMAIN m2
                 PROVE  /\ p = <<p[1], p[2]>> /\ p[2] \in Nat \ {0}
                        /\ m2[p].at \in LoopAt \cup BodyAt \cup {"join"}
                        /\ p[2] > 1 => Under(p) \in DOMAIN m2
                        /\ m2[p].at \in BodyAt =>
                              IF p[2] = 1 THEN m2[p].job = <<p[1]>>
                              ELSE /\ IsTask(m2[p].job) /\ m2[Under(p)].at = "working"
                                   /\ m2[Under(p)].work = m2[p].job
                        /\ m2[p].at = "join" => /\ p[2] > 1 /\ m2[Under(p)].at = "body"
                                                /\ m2[p].i \in 1..Len(m2[p].jobs)
                        /\ m2[p].at \in LoopAt =>
                              IF m2[p].owned = NoJob THEN p[2] = 1
                              ELSE /\ p[2] > 1 /\ m2[Under(p)].at = "join"
                                   /\ m2[p].owned = m2[Under(p)].jobs[m2[Under(p)].i]
      BY DEF Nested
    <2>1. CASE p = O
      BY <1>1, <1>3, <1>4, <2>1 DEF IsPos
    <2>2. CASE p \in DOMAIN m
      <3>1. IsPos(p) /\ (p[2] = 1 \/ p[2] > 1)
        BY <1>1, <2>2 DEF IsPos
      <3> QED
        BY <1>1, <1>2, <2>2, <3>1 DEF Nested, IsPos
    <2> QED
      BY <1>1, <2>1, <2>2
  <1>6. ResultOK(m2)
    BY <1>1, <1>2, <1>3 DEF ResultOK
  <1>7. BusyOK(m2, jb)
    BY <1>1, <1>2, <1>3 DEF BusyOK
  <1>8. CallOK(m2, jb)
    <2>1. \A p \in DOMAIN m : m2[p].at \in BodyAt /\ p[2] > 1 => m2[Under(p)] = m[Under(p)] /\ m2[p] = m[p]
      BY <1>1
    <2> QED
      BY <1>1, <1>2, <1>3, <2>1 DEF CallOK
  <1>9. ForkOK(m2, jb)
    BY <1>1, <1>2, <1>3 DEF ForkOK, Nested
  <1>10. OwnedOK(m2, jb)
    BY <1>1, <1>2, <1>3 DEF OwnedOK
  <1>11. ASSUME NEW J
         PROVE  On(m2, J) = On(m, J) /\ \A p \in On(m, J) : m2[p].min = m[p].min
    BY <1>1, <1>3 DEF On
  <1>12. WorkOK(m2, jb)
    BY <1>2, <1>11 DEF WorkOK
  <1> QED
    BY <1>2, <1>5, <1>6, <1>7, <1>8, <1>9, <1>10, <1>12 DEF JobsOK

\* What is on a stack stays where it was when the frame on top is popped.
LEMMA CutTop ==
  ASSUME NEW m, Nested(m), NEW T \in DOMAIN m, Over(T) \notin DOMAIN m,
         NEW m2, Cut(m, m2, T)
  PROVE  /\ DOMAIN m2 = DOMAIN m \ {T} /\ IsPos(T)
         /\ \A p \in DOMAIN m2 : p \in DOMAIN m /\ IsPos(p) /\ p # T /\ m2[p] = m[p]
         /\ \A p \in DOMAIN m2 : p[2] > 1 => Under(p) \in DOMAIN m2 /\ m2[Under(p)] = m[Under(p)]
         /\ \A p \in DOMAIN m2 : Over(p) \in DOMAIN m /\ Over(p) \notin DOMAIN m2 =>
                                    Over(p) = T /\ Under(T) = p
         /\ T[2] > 1 => Under(T) \in DOMAIN m2 /\ Over(Under(T)) \notin DOMAIN m2
  <1>1. \A p \in DOMAIN m : IsPos(p) /\ (p[2] > 1 => Under(p) \in DOMAIN m)
    BY DEF Nested, IsPos
  <1>2. DOMAIN m2 = DOMAIN m \ {T} /\ \A p \in DOMAIN m2 : m2[p] = m[p]
    BY DEF Cut
  <1>3. \A p \in DOMAIN m : Under(p) # T
    BY <1>1, Neighbours
  <1>4. \A p \in DOMAIN m2 : Under(Over(p)) = p
    BY <1>1, <1>2, Neighbours
  <1>5. T[2] > 1 => Under(T) \in DOMAIN m2 /\ Over(Under(T)) = T
    BY <1>1, <1>2, <1>3, Neighbours
  <1> QED
    BY <1>1, <1>2, <1>3, <1>4, <1>5

\* worker_thread_already_locked returns: an owned job is done.
LEMMA LoopLeaves ==
  ASSUME NEW m, NEW jb, NEW js, JobsOK(m, jb, js),
         NEW T \in DOMAIN m, Over(T) \notin DOMAIN m, m[T].at \in LoopAt, ~Busy(m[T]),
         m[T].owned # NoJob => Idle(jb[m[T].owned]),
         NEW m2, Cut(m, m2, T)
  PROVE  JobsOK(m2, jb, js)
  <1>1. /\ DOMAIN m2 = DOMAIN m \ {T} /\ IsPos(T)
        /\ \A p \in DOMAIN m2 : p \in DOMAIN m /\ IsPos(p) /\ p # T /\ m2[p] = m[p]
        /\ \A p \in DOMAIN m2 : p[2] > 1 => Under(p) \in DOMAIN m2 /\ m2[Under(p)] = m[Under(p)]
        /\ \A p \in DOMAIN m2 : Over(p) \in DOMAIN m /\ Over(p) \notin DOMAIN m2 =>
                                   Over(p) = T /\ Under(T) = p
        /\ T[2] > 1 => Under(T) \in DOMAIN m2 /\ Over(Under(T)) \notin DOMAIN m2
    <2>1. Nested(m)
      BY DEF JobsOK
    <2> QED
      BY <2>1, CutTop
  <1>2. /\ Nested(m) /\ ResultOK(m) /\ BusyOK(m, jb) /\ CallOK(m, jb) /\ ForkOK(m, jb)
        /\ OwnedOK(m, jb) /\ WorkOK(m, jb) /\ ListOK(jb, js)
    BY DEF JobsOK
  <1>3. m[T].at \notin BodyAt /\ m[T].at # "join"
    BY <1>1 DEF LoopAt, BodyAt
  <1>4. Nested(m2)
    BY <1>1, <1>2 DEF Nested
  <1>5. ResultOK(m2)
    BY <1>1, <1>2 DEF ResultOK
  <1>6. BusyOK(m2, jb)
    BY <1>1, <1>2 DEF BusyOK
  <1>7. CallOK(m2, jb)
    BY <1>1, <1>2 DEF CallOK
  <1>8. ASSUME NEW p \in DOMAIN m2, m2[p].at = "join", Over(p) \in DOMAIN m, Over(p) \notin DOMAIN m2
        PROVE  Idle(jb[m[p].jobs[m[p].i]])
    <2>1. Over(p) = T /\ Under(T) = p /\ m[p].at = "join" /\ p \in DOMAIN m /\ IsPos(p)
      BY <1>1, <1>8
    <2>2. T[2] # 1
      BY <2>1, Neighbours
    <2>3. m[T].owned # NoJob /\ m[T].owned = m[p].jobs[m[p].i]
      BY <1>2, <2>1, <2>2 DEF Nested
    <2> QED
      BY <2>3
  <1>9. ForkOK(m2, jb)
    <2>1. \A p \in DOMAIN m2 : m2[p].at = "join" => m2[p] = m[p] /\ m2[Under(p)] = m[Under(p)]
      BY <1>1, <1>2 DEF Nested
    <2> QED
      BY <1>1, <1>2, <1>8, <2>1 DEF ForkOK
  <1>10. OwnedOK(m2, jb)
    BY <1>1, <1>2, <1>3 DEF OwnedOK
  <1>11. ASSUME NEW J
         PROVE  On(m2, J) = On(m, J) /\ \A p \in On(m, J) : m2[p].min = m[p].min
    BY <1>1 DEF On
  <1>12. WorkOK(m2, jb)
    BY <1>2, <1>11 DEF WorkOK
  <1> QED
    BY <1>2, <1>4, <1>5, <1>6, <1>7, <1>9, <1>10, <1>12 DEF JobsOK

\* A closure returns.
LEMMA CallCut ==
  ASSUME NEW m, NEW jb, NEW js, JobsOK(m, jb, js),
         NEW T \in DOMAIN m, Over(T) \notin DOMAIN m, m[T].at \in BodyAt, T[2] > 1,
         NEW m2, Cut(m, m2, T)
  PROVE  JobsOK(m2, jb, js) /\ Under(T) \in DOMAIN m2 /\ Over(Under(T)) \notin DOMAIN m2
         /\ m2[Under(T)] = m[Under(T)]
  <1>1. /\ DOMAIN m2 = DOMAIN m \ {T} /\ IsPos(T)
        /\ \A p \in DOMAIN m2 : p \in DOMAIN m /\ IsPos(p) /\ p # T /\ m2[p] = m[p]
        /\ \A p \in DOMAIN m2 : p[2] > 1 => Under(p) \in DOMAIN m2 /\ m2[Under(p)] = m[Under(p)]
        /\ \A p \in DOMAIN m2 : Over(p) \in DOMAIN m /\ Over(p) \notin DOMAIN m2 =>
                                   Over(p) = T /\ Under(T) = p
        /\ T[2] > 1 => Under(T) \in DOMAIN m2 /\ Over(Under(T)) \notin DOMAIN m2
    <2>1. Nested(m)
      BY DEF JobsOK
    <2> QED
      BY <2>1, CutTop
  <1>2. /\ Nested(m) /\ ResultOK(m) /\ BusyOK(m, jb) /\ CallOK(m, jb) /\ ForkOK(m, jb)
        /\ OwnedOK(m, jb) /\ WorkOK(m, jb) /\ ListOK(jb, js)
    BY DEF JobsOK
  <1>3. m[T].at \notin LoopAt /\ m[T].at # "join" /\ ~Busy(m[T]) /\ m[Under(T)].at = "working"
    BY <1>1, <1>2 DEF LoopAt, BodyAt, Busy, Nested
  <1>4. Nested(m2)
    BY <1>1, <1>2 DEF Nested
  <1>5. ResultOK(m2)
    BY <1>1, <1>2 DEF ResultOK
  <1>6. BusyOK(m2, jb)
    BY <1>1, <1>2 DEF BusyOK
  <1>7. CallOK(m2, jb)
    BY <1>1, <1>2 DEF CallOK
  <1>9. ForkOK(m2, jb)
    <2>1. \A p \in DOMAIN m2 : m2[p].at = "join" => m2[p] = m[p] /\ m2[Under(p)] = m[Under(p)]
      BY <1>1, <1>2 DEF Nested
    <2>2. \A p \in DOMAIN m2 : m2[p].at = "join" /\ Over(p) \in DOMAIN m => Over(p) \in DOMAIN m2
      BY <1>1, <1>3
    <2> QED
      BY <1>1, <1>2, <2>1, <2>2 DEF ForkOK
  <1>10. OwnedOK(m2, jb)
    BY <1>1, <1>2, <1>3 DEF OwnedOK
  <1>11. ASSUME NEW J
         PROVE  On(m2, J) = On(m, J) /\ \A p \in On(m, J) : m2[p].min = m[p].min
    BY <1>1, <1>3 DEF On
  <1>12. WorkOK(m2, jb)
    BY <1>2, <1>11 DEF WorkOK
  <1> QED
    BY <1>1, <1>2, <1>4, <1>5, <1>6, <1>7, <1>9, <1>10, <1>12 DEF JobsOK

\* A set of at most one element.
LEMMA AtMostOne ==
  ASSUME NEW S, IsFiniteSet(S), Cardinality(S) <= 1
  PROVE  /\ \A a, b \in S : a = b
         /\ Cardinality(S) \in Nat
         /\ Cardinality(S) = 0 <=> S = {}
  <1>1. Cardinality(S) \in Nat /\ (Cardinality(S) = 0 <=> S = {})
    BY FS_CardinalityType, FS_EmptySet
  <1>2. ASSUME NEW a \in S, NEW b \in S, a # b
        PROVE  FALSE
    <2>1. IsFiniteSet(S \ {a}) /\ Cardinality(S \ {a}) = Cardinality(S) - 1
      BY FS_RemoveElement
    <2>2. Cardinality(S \ {a}) \in Nat /\ (Cardinality(S \ {a}) = 0 <=> S \ {a} = {})
      BY <2>1, FS_CardinalityType, FS_EmptySet
    <2>3. S \ {a} = {}
      BY <1>1, <2>1, <2>2
    <2> QED
      BY <1>2, <2>3
  <1> QED
    BY <1>1, <1>2

\* A closure is called once for each iteration that is being run.
LEMMA UniqueCalls ==
  ASSUME NEW m, NEW jb, NEW js, JobsOK(m, jb, js),
         NEW p \in DOMAIN m, NEW q \in DOMAIN m, m[p].at \in BodyAt, m[q].at \in BodyAt,
         m[p].job = m[q].job, m[p].it = m[q].it
  PROVE  p = q
  <1>1. Nested(m) /\ BusyOK(m, jb) /\ CallOK(m, jb) /\ WorkOK(m, jb)
    BY DEF JobsOK
  <1>2. /\ IsPos(p) /\ p = <<p[1], p[2]>> /\ (p[2] = 1 \/ p[2] > 1)
        /\ IsPos(q) /\ q = <<q[1], q[2]>> /\ (q[2] = 1 \/ q[2] > 1)
    BY <1>1 DEF Nested, IsPos
  <1>3. ASSUME NEW J, IsTask(J), NEW x, J = <<x>>
        PROVE  FALSE
    <2>1. Len(<<x>>) = 1 /\ Len(<<J[1], J[2], J[3]>>) = 3
      OBVIOUS
    <2>2. J = <<J[1], J[2], J[3]>>
      BY <1>3 DEF IsTask
    <2>3. Len(J) = 3 /\ Len(J) = 1
      BY ONLY <1>3, <2>1, <2>2
    <2> QED
      BY <2>3
  <1>4. p[2] = 1 => m[p].job = <<p[1]>>
    BY <1>1 DEF Nested
  <1>5. q[2] = 1 => m[q].job = <<q[1]>>
    BY <1>1 DEF Nested
  <1>6. p[2] > 1 => /\ IsTask(m[p].job) /\ Under(p) \in DOMAIN m
                    /\ m[Under(p)].at = "working" /\ m[Under(p)].work = m[p].job
    BY <1>1 DEF Nested, IsPos
  <1>7. q[2] > 1 => /\ IsTask(m[q].job) /\ Under(q) \in DOMAIN m
                    /\ m[Under(q)].at = "working" /\ m[Under(q)].work = m[q].job
    BY <1>1 DEF Nested, IsPos
  <1>8. CASE p[2] = 1 \/ q[2] = 1
    <2>1. p[2] = 1 /\ q[2] = 1
      BY <1>2, <1>3, <1>4, <1>5, <1>6, <1>7, <1>8
    <2>2. <<p[1]>> = <<q[1]>>
      BY <1>4, <1>5, <2>1
    <2>3. p[1] = q[1]
      BY <2>2
    <2> QED
      BY <1>2, <2>1, <2>3
  <1>9. CASE p[2] > 1 /\ q[2] > 1
    <2> DEFINE J == m[p].job
    <2>1. Under(p) \in On(m, J) /\ Under(q) \in On(m, J) /\ J \in DOMAIN jb
      <3>1. Busy(m[Under(p)]) /\ Busy(m[Under(q)])
        BY <1>6, <1>7, <1>9 DEF Busy
      <3> QED
        BY <1>1, <1>6, <1>7, <1>9, <3>1 DEF On, BusyOK
    <2>2. Under(p) = Under(q)
      <3>1. CASE Serial(J)
        <4>1. IsFiniteSet(On(m, J)) /\ Cardinality(On(m, J)) <= 1
          BY <1>1, <2>1, <3>1 DEF WorkOK
        <4> HIDE DEF J
        <4> QED
          BY <2>1, <4>1, AtMostOne
      <3>2. CASE ~Serial(J)
        <4>1. m[p].it = m[Under(p)].min /\ m[q].it = m[Under(q)].min
          BY <1>1, <1>9, <3>2 DEF CallOK
        <4>2. m[Under(p)].min = m[Under(q)].min
          BY <4>1
        <4> HIDE DEF J
        <4> QED
          BY <1>1, <2>1, <3>2, <4>2 DEF WorkOK
      <3> QED
        BY <3>1, <3>2
    <2> QED
      BY <1>2, <2>2, Neighbours
  <1> QED
    BY <1>2, <1>8, <1>9

\* A job that nobody can work on has nobody at work on it.
LEMMA IdleJobs ==
  ASSUME NEW m, NEW jb, WorkOK(m, jb), NEW J \in DOMAIN jb, Idle(jb[J])
  PROVE  /\ On(m, J) = {}
         /\ jb[J].exit = 0 => jb[J].done = All(J)
  <1>1. /\ IsFiniteSet(On(m, J)) /\ jb[J].active = Cardinality(On(m, J))
        /\ jb[J].extent = 0 /\ jb[J].active = 0 /\ jb[J].min \in Nat
        /\ jb[J].done \subseteq 0..jb[J].min - 1
        /\ jb[J].exit = 0 =>
             /\ jb[J].min + jb[J].extent = TaskOf(J).extent
             /\ \A x \in 0..jb[J].min - 1 :
                   x \in jb[J].done \/ (~Serial(J) /\ \E p \in On(m, J) : m[p].min = x)
    BY DEF WorkOK, Idle
  <1>2. On(m, J) = {}
    BY <1>1, FS_EmptySet
  <1>3. ASSUME jb[J].exit = 0
        PROVE  jb[J].done = All(J)
    <2>1. jb[J].min = TaskOf(J).extent
      BY <1>1, <1>3
    <2>2. \A x \in 0..jb[J].min - 1 : x \in jb[J].done
      BY <1>1, <1>2, <1>3
    <2> QED
      BY <1>1, <2>1, <2>2 DEF All
  <1> QED
    BY <1>2, <1>3

\* The jobs of a fork, and its status once it has joined the one it waits for.
Gone(f) == {f.jobs[i] : i \in 1..Len(f.jobs)}
StatusOf(f, jb) == IF jb[f.jobs[f.i]].exit # 0 THEN jb[f.jobs[f.i]].exit ELSE f.status

\* The jobs without those of a set.
Without(jb, jb2, S) == DOMAIN jb2 = DOMAIN jb \ S /\ \A J \in DOMAIN jb2 : jb2[J] = jb[J]

\* halide_default_do_parallel_tasks returns: its jobs are gone.
LEMMA ForkCut ==
  ASSUME NEW m, NEW jb, NEW js, JobsOK(m, jb, js),
         NEW T \in DOMAIN m, Over(T) \notin DOMAIN m, m[T].at = "join", m[T].i = Len(m[T].jobs),
         NEW m2, Cut(m, m2, T),
         NEW jb2, Without(jb, jb2, Gone(m[T]))
  PROVE  JobsOK(m2, jb2, js) /\ Under(T) \in DOMAIN m2 /\ Over(Under(T)) \notin DOMAIN m2
         /\ m2[Under(T)] = m[Under(T)]
  <1>1. /\ DOMAIN m2 = DOMAIN m \ {T} /\ IsPos(T)
        /\ \A p \in DOMAIN m2 : p \in DOMAIN m /\ IsPos(p) /\ p # T /\ m2[p] = m[p]
        /\ \A p \in DOMAIN m2 : p[2] > 1 => Under(p) \in DOMAIN m2 /\ m2[Under(p)] = m[Under(p)]
        /\ \A p \in DOMAIN m2 : Over(p) \in DOMAIN m /\ Over(p) \notin DOMAIN m2 =>
                                   Over(p) = T /\ Under(T) = p
        /\ T[2] > 1 => Under(T) \in DOMAIN m2 /\ Over(Under(T)) \notin DOMAIN m2
    <2>1. Nested(m)
      BY DEF JobsOK
    <2> QED
      BY <2>1, CutTop
  <1>2. /\ Nested(m) /\ ResultOK(m) /\ BusyOK(m, jb) /\ CallOK(m, jb) /\ ForkOK(m, jb)
        /\ OwnedOK(m, jb) /\ WorkOK(m, jb) /\ ListOK(jb, js)
    BY DEF JobsOK
  <1>3. /\ m[T].at \notin LoopAt /\ m[T].at \notin BodyAt /\ ~Busy(m[T]) /\ T[2] > 1
        /\ m[Under(T)].at = "body" /\ "body" \in BodyAt /\ "join" \notin BodyAt
    BY <1>1, <1>2 DEF LoopAt, BodyAt, Busy, Nested
  <1>16. PICK gone : /\ gone = Gone(m[T]) /\ DOMAIN jb2 = DOMAIN jb \ gone
                     /\ \A J \in DOMAIN jb2 : jb2[J] = jb[J]
    BY DEF Without
  <1>4. ASSUME NEW J \in gone
        PROVE  /\ J \in DOMAIN jb /\ Idle(jb[J]) /\ On(m, J) = {}
               /\ J[1] = m[Under(T)].job /\ J[2] = m[Under(T)].it
    <2>1. PICK i \in 1..Len(m[T].jobs) : J = m[T].jobs[i]
      BY <1>16 DEF Gone
    <2>2. i < m[T].i \/ i = m[T].i
      <3>1. m[T].i \in 1..Len(m[T].jobs)
        BY <1>2 DEF Nested
      <3> QED
        BY <3>1
    <2>3. /\ J \in DOMAIN jb /\ J[1] = m[Under(T)].job /\ J[2] = m[Under(T)].it /\ Idle(jb[J])
      BY <1>2, <2>1, <2>2 DEF ForkOK
    <2> QED
      BY <1>2, <2>3, IdleJobs
  <1>5. ASSUME NEW p \in DOMAIN m2, m[p].at = "join", NEW i \in 1..Len(m[p].jobs)
        PROVE  m[p].jobs[i] \in DOMAIN jb2
    <2> DEFINE J == m[p].jobs[i]
    <2>1. p \in DOMAIN m /\ IsPos(p) /\ p # T /\ p[2] > 1 /\ Under(p) \in DOMAIN m
          /\ m[Under(p)].at = "body"
      BY <1>1, <1>2, <1>5 DEF Nested
    <2>2. J \in DOMAIN jb /\ J[1] = m[Under(p)].job /\ J[2] = m[Under(p)].it
      BY <1>2, <1>5, <2>1 DEF ForkOK
    <2>3. ASSUME J \in gone
          PROVE  FALSE
      <3>1. m[Under(p)].job = m[Under(T)].job /\ m[Under(p)].it = m[Under(T)].it
        BY <1>4, <2>2, <2>3
      <3>2. Under(T) \in DOMAIN m
        BY <1>1, <1>3
      <3>3. Under(p) = Under(T)
        BY <1>3, <2>1, <3>1, <3>2, UniqueCalls
      <3> QED
        BY <1>1, <2>1, <3>3, Neighbours
    <2> QED
      BY <1>16, <2>2, <2>3
  <1>6. ASSUME NEW p \in DOMAIN m, Busy(m[p])
        PROVE  m[p].work \in DOMAIN jb2
    <2>1. p \in On(m, m[p].work) /\ m[p].work \in DOMAIN jb
      BY <1>2, <1>6 DEF On, BusyOK
    <2> QED
      BY <1>4, <1>16, <2>1
  <1>7. Nested(m2)
    BY <1>1, <1>2 DEF Nested
  <1>8. ResultOK(m2)
    BY <1>1, <1>2 DEF ResultOK
  <1>9. BusyOK(m2, jb2)
    BY <1>1, <1>2, <1>6, <1>16 DEF BusyOK
  <1>10. CallOK(m2, jb2)
    <2>1. \A p \in DOMAIN m2 : m2[p].at \in BodyAt /\ p[2] > 1 =>
             /\ m2[p] = m[p] /\ m2[Under(p)] = m[Under(p)] /\ p \in DOMAIN m
             /\ Busy(m[Under(p)]) /\ m[Under(p)].work = m[p].job /\ Under(p) \in DOMAIN m
      BY <1>1, <1>2, <1>3 DEF Nested, Busy
    <2>2. \A p \in DOMAIN m2 : m2[p].at \in BodyAt /\ p[2] > 1 => jb2[m[p].job] = jb[m[p].job]
      BY <1>6, <1>16, <2>1
    <2> QED
      BY <1>2, <2>1, <2>2 DEF CallOK
  <1>11. ForkOK(m2, jb2)
    <2>1. \A p \in DOMAIN m2 : m2[p].at = "join" =>
             /\ m2[p] = m[p] /\ m2[Under(p)] = m[Under(p)] /\ p \in DOMAIN m
             /\ \A i \in 1..Len(m[p].jobs) : m[p].jobs[i] \in DOMAIN jb2
             /\ Over(p) \in DOMAIN m => Over(p) \in DOMAIN m2
      <3>1. \A p \in DOMAIN m2 : m2[p].at = "join" =>
               m2[p] = m[p] /\ m2[Under(p)] = m[Under(p)] /\ p \in DOMAIN m
        BY <1>1, <1>2 DEF Nested
      <3>2. \A p \in DOMAIN m2 : m2[p].at = "join" /\ Over(p) \in DOMAIN m => Over(p) \in DOMAIN m2
        BY <1>1, <1>3
      <3> QED
        BY <1>5, <3>1, <3>2
    <2> QED
      BY <1>2, <1>16, <2>1 DEF ForkOK
  <1>12. OwnedOK(m2, jb2)
    <2> SUFFICES ASSUME NEW J \in DOMAIN jb2
                 PROVE  \E p \in DOMAIN m2 : m2[p].at = "join" /\ \E i \in 1..Len(m2[p].jobs) :
                                                                     m2[p].jobs[i] = J
      BY DEF OwnedOK
    <2>1. PICK p \in DOMAIN m : m[p].at = "join" /\ \E i \in 1..Len(m[p].jobs) : m[p].jobs[i] = J
      BY <1>2, <1>16 DEF OwnedOK
    <2>2. p # T
      BY <2>1, <1>16 DEF Gone
    <2> QED
      BY <1>1, <2>1, <2>2
  <1>13. ASSUME NEW J
         PROVE  On(m2, J) = On(m, J) /\ \A p \in On(m, J) : m2[p].min = m[p].min
    BY <1>1, <1>3 DEF On
  <1>14. WorkOK(m2, jb2)
    BY <1>2, <1>13, <1>16 DEF WorkOK
  <1>15. ListOK(jb2, js)
    <2>1. \A J \in gone : ~(jb[J].extent > 0)
      BY <1>4 DEF Idle
    <2> QED
      BY <1>2, <1>16, <2>1 DEF ListOK
  <1> QED
    BY <1>1, <1>3, <1>7, <1>8, <1>9, <1>10, <1>11, <1>12, <1>14, <1>15 DEF JobsOK

\* halide_default_do_parallel_tasks goes on to join its next job.
LEMMA ForkNext ==
  ASSUME NEW m, NEW jb, NEW js, JobsOK(m, jb, js),
         NEW T \in DOMAIN m, NEW O, O = Over(T), O \notin DOMAIN m,
         m[T].at = "join", m[T].i < Len(m[T].jobs),
         NEW g, g.at = "join", g.jobs = m[T].jobs, g.i = m[T].i + 1, g.status \in {0, 1},
         g.status = 0 => m[T].status = 0 /\ jb[m[T].jobs[m[T].i]].exit = 0,
         NEW b, b.at \in LoopAt, ~Busy(b), b.owned = g.jobs[g.i], b.owned # NoJob,
         b.result \in {0, 1},
         NEW m2, DOMAIN m2 = DOMAIN m \cup {O}, m2[O] = b, m2[T] = g,
         \A p \in DOMAIN m : p # T => m2[p] = m[p]
  PROVE  JobsOK(m2, jb, js)
  <1>1. /\ Nested(m) /\ ResultOK(m) /\ BusyOK(m, jb) /\ CallOK(m, jb) /\ ForkOK(m, jb)
        /\ OwnedOK(m, jb) /\ WorkOK(m, jb) /\ ListOK(jb, js)
    BY DEF JobsOK
  <1>2. \A p \in DOMAIN m : IsPos(p) /\ (p[2] > 1 => Under(p) \in DOMAIN m)
    BY <1>1 DEF Nested, IsPos
  <1>3. /\ IsPos(O) /\ O[2] > 1 /\ Under(O) = T /\ O # T
        /\ \A p \in DOMAIN m : p # T => Over(p) # O
    BY <1>2, Neighbours
  <1>4. Over(O) \notin DOMAIN m /\ Over(O) # O
    <2>1. IsPos(Over(O)) /\ Over(O)[2] > 1 /\ Under(Over(O)) = O /\ Over(O) # O
      BY <1>3, Neighbours
    <2> QED
      BY <1>2, <2>1
  <1>5. \A p \in DOMAIN m : Under(p) # T /\ (p[2] > 1 => m2[Under(p)] = m[Under(p)])
    BY <1>2, Neighbours
  <1>6. /\ m2[O].at \in LoopAt /\ m2[O].at \notin BodyAt /\ m2[O].at # "join" /\ ~Busy(m2[O])
        /\ m2[T].at \notin BodyAt /\ m2[T].at \notin LoopAt /\ ~Busy(m2[T])
        /\ m[T].at \notin BodyAt /\ m[T].at \notin LoopAt /\ ~Busy(m[T])
    BY DEF LoopAt, BodyAt, Busy
  <1>7. m[T].i \in 1..Len(m[T].jobs) /\ m[T].i + 1 \in 1..Len(m[T].jobs)
    BY <1>1 DEF Nested
  <1>8. Nested(m2)
    <2> SUFFICES ASSUME NEW p \in DOMAIN m2
                 PROVE  /\ p = <<p[1], p[2]>> /\ p[2] \in Nat \ {0}
                        /\ m2[p].at \in LoopAt \cup BodyAt \cup {"join"}
                        /\ p[2] > 1 => Under(p) \in DOMAIN m2
                        /\ m2[p].at \in BodyAt =>
                              IF p[2] = 1 THEN m2[p].job = <<p[1]>>
                              ELSE /\ IsTask(m2[p].job) /\ m2[Under(p)].at = "working"
                                   /\ m2[Under(p)].work = m2[p].job
                        /\ m2[p].at = "join" => /\ p[2] > 1 /\ m2[Under(p)].at = "body"
                                                /\ m2[p].i \in 1..Len(m2[p].jobs)
                        /\ m2[p].at \in LoopAt =>
                              IF m2[p].owned = NoJob THEN p[2] = 1
                              ELSE /\ p[2] > 1 /\ m2[Under(p)].at = "join"
                                   /\ m2[p].owned = m2[Under(p)].jobs[m2[Under(p)].i]
      BY DEF Nested
    <2>1. CASE p = O
      BY <1>3, <1>6, <2>1 DEF IsPos
    <2>2. CASE p = T
      BY <1>1, <1>2, <1>5, <1>6, <1>7, <2>2 DEF Nested, IsPos
    <2>3. CASE p \in DOMAIN m /\ p # T
      <3>1. IsPos(p) /\ (p[2] = 1 \/ p[2] > 1)
        BY <1>2, <2>3 DEF IsPos
      <3> QED
        BY <1>1, <1>5, <2>3, <3>1 DEF Nested, IsPos
    <2> QED
      BY <2>1, <2>2, <2>3
  <1>9. ResultOK(m2)
    BY <1>1, <1>6 DEF ResultOK
  <1>10. BusyOK(m2, jb)
    BY <1>1, <1>6 DEF BusyOK
  <1>11. CallOK(m2, jb)
    <2>1. \A p \in DOMAIN m2 : m2[p].at \in BodyAt /\ p[2] > 1 =>
             p \in DOMAIN m /\ m2[Under(p)] = m[Under(p)] /\ m2[p] = m[p]
      BY <1>5, <1>6
    <2> QED
      BY <1>1, <2>1 DEF CallOK
  <1>12. ForkOK(m2, jb)
    <2> SUFFICES ASSUME NEW p \in DOMAIN m2, m2[p].at = "join"
                 PROVE  /\ m2[p].status \in {0, 1}
                        /\ \A i \in 1..Len(m2[p].jobs) :
                           LET J == m2[p].jobs[i] IN
                           /\ J \in DOMAIN jb /\ J[1] = m2[Under(p)].job /\ J[2] = m2[Under(p)].it
                           /\ jb[J].siblings = m2[p].jobs
                           /\ jb[J].parent # NoParent => p[2] > 2 /\ jb[J].parent = m2[Under(p)].job
                           /\ i < m2[p].i => /\ Idle(jb[J])
                                             /\ m2[p].status = 0 => jb[J].done = All(J)
                           /\ i = m2[p].i /\ Over(p) \notin DOMAIN m2 => Idle(jb[J])
      BY DEF ForkOK
    <2>1. CASE p = T
      <3>1. m2[Under(T)] = m[Under(T)]
        BY <1>1, <1>5, <2>1 DEF Nested
      <3>2. ASSUME NEW i \in 1..Len(g.jobs), i < g.i
            PROVE  Idle(jb[g.jobs[i]]) /\ (g.status = 0 => jb[g.jobs[i]].done = All(g.jobs[i]))
        <4>1. CASE i < m[T].i
          BY <1>1, <3>2, <4>1 DEF ForkOK
        <4>2. CASE i = m[T].i
          <5>1. g.jobs[i] \in DOMAIN jb /\ Idle(jb[g.jobs[i]])
            BY <1>1, <3>2, <4>2 DEF ForkOK
          <5> QED
            BY <1>1, <4>2, <5>1, IdleJobs
        <4>3. i < m[T].i \/ i = m[T].i
          BY <1>7, <3>2
        <4> QED
          BY <4>1, <4>2, <4>3
      <3> QED
        BY <1>1, <2>1, <3>1, <3>2 DEF ForkOK
    <2>2. CASE p \in DOMAIN m /\ p # T
      <3>1. m2[p] = m[p] /\ m2[Under(p)] = m[Under(p)]
        BY <1>1, <1>5, <2>2 DEF Nested
      <3> QED
        BY <1>1, <1>3, <2>2, <3>1 DEF ForkOK
    <2> QED
      BY <1>6, <2>1, <2>2
  <1>13. OwnedOK(m2, jb)
    BY <1>1, <1>6 DEF OwnedOK
  <1>14. ASSUME NEW J
         PROVE  On(m2, J) = On(m, J) /\ \A p \in On(m, J) : m2[p].min = m[p].min
    BY <1>6 DEF On
  <1>15. WorkOK(m2, jb)
    BY <1>1, <1>14 DEF WorkOK
  <1> QED
    BY <1>1, <1>8, <1>9, <1>10, <1>11, <1>12, <1>13, <1>15 DEF JobsOK

\* Threads are created.
LEMMA ThreadsPut ==
  ASSUME NEW m, NEW jb, NEW js, JobsOK(m, jb, js),
         NEW N, N \cap DOMAIN m = {}, \A p \in N : IsPos(p) /\ p[2] = 1,
         NEW m2, DOMAIN m2 = DOMAIN m \cup N, \A p \in DOMAIN m : m2[p] = m[p],
         \A p \in N : /\ m2[p].at \in LoopAt /\ ~Busy(m2[p]) /\ m2[p].owned = NoJob
                      /\ m2[p].result \in {0, 1}
  PROVE  JobsOK(m2, jb, js)
  <1>1. /\ Nested(m) /\ ResultOK(m) /\ BusyOK(m, jb) /\ CallOK(m, jb) /\ ForkOK(m, jb)
        /\ OwnedOK(m, jb) /\ WorkOK(m, jb) /\ ListOK(jb, js)
    BY DEF JobsOK
  <1>2. \A p \in DOMAIN m : /\ IsPos(p) /\ (p[2] > 1 => Under(p) \in DOMAIN m)
                            /\ (p[2] > 1 => m2[Under(p)] = m[Under(p)])
    BY <1>1 DEF Nested, IsPos
  <1>3. \A p \in DOMAIN m : Over(p) \notin N
    <2>1. \A p \in DOMAIN m : Over(p)[2] > 1
      BY <1>2, Neighbours
    <2> QED
      BY <2>1
  <1>4. \A p \in N : m2[p].at \notin BodyAt /\ m2[p].at # "join"
    BY DEF LoopAt, BodyAt
  <1>5. Nested(m2)
    <2> SUFFICES ASSUME NEW p \in DOMAIN m2
                 PROVE  /\ p = <<p[1], p[2]>> /\ p[2] \in Nat \ {0}
                        /\ m2[p].at \in LoopAt \cup BodyAt \cup {"join"}
                        /\ p[2] > 1 => Under(p) \in DOMAIN m2
                        /\ m2[p].at \in BodyAt =>
                              IF p[2] = 1 THEN m2[p].job = <<p[1]>>
                              ELSE /\ IsTask(m2[p].job) /\ m2[Under(p)].at = "working"
                                   /\ m2[Under(p)].work = m2[p].job
                        /\ m2[p].at = "join" => /\ p[2] > 1 /\ m2[Under(p)].at = "body"
                                                /\ m2[p].i \in 1..Len(m2[p].jobs)
                        /\ m2[p].at \in LoopAt =>
                              IF m2[p].owned = NoJob THEN p[2] = 1
                              ELSE /\ p[2] > 1 /\ m2[Under(p)].at = "join"
                                   /\ m2[p].owned = m2[Under(p)].jobs[m2[Under(p)].i]
      BY DEF Nested
    <2>1. CASE p \in N
      BY <1>4, <2>1 DEF IsPos
    <2>2. CASE p \in DOMAIN m
      <3>1. IsPos(p) /\ (p[2] = 1 \/ p[2] > 1)
        BY <1>2, <2>2 DEF IsPos
      <3> QED
        BY <1>1, <1>2, <2>2, <3>1 DEF Nested, IsPos
    <2> QED
      BY <2>1, <2>2
  <1>6. ResultOK(m2)
    BY <1>1 DEF ResultOK
  <1>7. BusyOK(m2, jb)
    BY <1>1 DEF BusyOK
  <1>8. CallOK(m2, jb)
    BY <1>1, <1>2, <1>4 DEF CallOK
  <1>9. ForkOK(m2, jb)
    <2>1. \A p \in DOMAIN m2 : m2[p].at = "join" =>
             /\ p \in DOMAIN m /\ m2[p] = m[p] /\ m2[Under(p)] = m[Under(p)]
             /\ Over(p) \in DOMAIN m2 => Over(p) \in DOMAIN m
      BY <1>1, <1>2, <1>3, <1>4 DEF Nested
    <2> QED
      BY <1>1, <2>1 DEF ForkOK
  <1>10. OwnedOK(m2, jb)
    BY <1>1 DEF OwnedOK
  <1>11. ASSUME NEW J
         PROVE  On(m2, J) = On(m, J) /\ \A p \in On(m, J) : m2[p].min = m[p].min
    BY DEF On
  <1>12. WorkOK(m2, jb)
    BY <1>1, <1>11 DEF WorkOK
  <1> QED
    BY <1>1, <1>5, <1>6, <1>7, <1>8, <1>9, <1>10, <1>12 DEF JobsOK
----------------------------------------------------------------------------
(* The list of jobs *)

\* Two lists without a common job, one behind the other.
LEMMA ListJoined ==
  ASSUME NEW a, TaskSeq(a), Once(a), NEW b, TaskSeq(b), Once(b),
         \A J : ~(Listed(a, J) /\ Listed(b, J))
  PROVE  Once(a \o b) /\ \A J : Listed(a \o b, J) <=> Listed(a, J) \/ Listed(b, J)
  <1> DEFINE A == {a[p] : p \in 1..Len(a)} \cup {b[p] : p \in 1..Len(b)}
             n == Len(a)
             k == Len(b)
             c == a \o b
  <1>1. a \in Seq(A) /\ b \in Seq(A)
    <2>1. a \in Seq({a[p] : p \in 1..Len(a)}) /\ b \in Seq({b[p] : p \in 1..Len(b)})
      BY DEF TaskSeq, IsSeq
    <2> QED
      BY <2>1
  <1> HIDE DEF A
  <1>2. /\ n \in Nat /\ k \in Nat /\ Len(c) = n + k
        /\ \A i \in 1..(n + k) : c[i] = IF i <= n THEN a[i] ELSE b[i - n]
    BY <1>1
  <1> HIDE DEF c
  <1>3. \A i \in 1..(n + k) : IF i <= n THEN i \in 1..n ELSE i - n \in 1..k
    BY <1>2
  <1>4. \A i \in 1..(n + k) : (i <= n => Listed(a, c[i])) /\ (~(i <= n) => Listed(b, c[i]))
    BY <1>2, <1>3 DEF Listed
  <1>5. Once(c)
    <2> SUFFICES ASSUME NEW i \in 1..Len(c), NEW j \in 1..Len(c), c[i] = c[j]
                 PROVE  i = j
      BY DEF Once
    <2>1. i \in 1..(n + k) /\ j \in 1..(n + k)
      BY <1>2
    <2>2. CASE i <= n /\ j <= n
      BY <1>2, <1>3, <2>1, <2>2 DEF Once
    <2>3. CASE ~(i <= n) /\ ~(j <= n)
      <3>1. b[i - n] = b[j - n] /\ i - n \in 1..k /\ j - n \in 1..k
        BY <1>2, <1>3, <2>1, <2>3
      <3>2. i - n = j - n
        BY <3>1 DEF Once
      <3> QED
        BY <1>2, <2>1, <3>2
    <2>4. (i <= n) <=> (j <= n)
      BY <1>4, <2>1
    <2> QED
      BY <2>2, <2>3, <2>4
  <1>6. ASSUME NEW J
        PROVE  Listed(c, J) <=> Listed(a, J) \/ Listed(b, J)
    <2>1. Listed(c, J) => Listed(a, J) \/ Listed(b, J)
      BY <1>2, <1>4 DEF Listed
    <2>2. ASSUME NEW i \in 1..n, a[i] = J
          PROVE  Listed(c, J)
      <3>1. i \in 1..(n + k) /\ i <= n
        BY <1>2
      <3> QED
        BY <1>2, <2>2, <3>1 DEF Listed
    <2>3. ASSUME NEW i \in 1..k, b[i] = J
          PROVE  Listed(c, J)
      <3>1. n + i \in 1..(n + k) /\ ~(n + i <= n) /\ (n + i) - n = i
        BY <1>2
      <3> QED
        BY <1>2, <2>3, <3>1 DEF Listed
    <2> QED
      BY <2>1, <2>2, <2>3 DEF Listed
  <1> QED
    BY <1>5, <1>6 DEF c

\* A job that is taken off the list is off it.
LEMMA ListWithout ==
  ASSUME NEW js, TaskSeq(js), Once(js), NEW J
  PROVE  /\ Once(WithoutJob(js, J))
         /\ \A K : Listed(WithoutJob(js, J), K) <=> Listed(js, K) /\ K # J
  <1>1. CASE ~Listed(js, J)
    BY <1>1 DEF Listed, WithoutJob
  <1>2. CASE Listed(js, J)
    <2> DEFINE A == {js[p] : p \in 1..Len(js)}
               p == CHOOSE p \in 1..Len(js) : js[p] = J
               n == Len(js)
               c == SubSeq(js, 1, p - 1) \o SubSeq(js, p + 1, n)
    <2>1. p \in 1..n /\ js[p] = J
      BY <1>2 DEF Listed
    <2>2. WithoutJob(js, J) = c
      BY <1>2 DEF WithoutJob, Listed
    <2>3. js \in Seq(A)
      BY DEF TaskSeq, IsSeq
    <2> HIDE DEF A, p
    <2>4. n \in Nat /\ p - 1 \in 0..n /\ p - 1 <= n
      BY <2>1, <2>3
    <2>5. /\ SubSeq(js, 1, p - 1) \in Seq(A) /\ Len(SubSeq(js, 1, p - 1)) = p - 1
          /\ \A i \in 1..(p - 1) : SubSeq(js, 1, p - 1)[i] = js[i]
      BY <2>1, <2>3, <2>4
    <2>6. /\ SubSeq(js, p + 1, n) \in Seq(A) /\ Len(SubSeq(js, p + 1, n)) = n - p
          /\ \A i \in 1..(n - p) : SubSeq(js, p + 1, n)[i] = js[p + i]
      BY <2>1, <2>3, <2>4
    <2>7. /\ Len(c) = n - 1
          /\ \A i \in 1..(n - 1) : c[i] = IF i < p THEN js[i] ELSE js[i + 1]
      <3>1. (p - 1) + (n - p) = n - 1
        BY <2>1, <2>4
      <3>2. \A i \in 1..(n - 1) : IF i < p THEN i \in 1..(p - 1) /\ i <= p - 1
                                  ELSE ~(i <= p - 1) /\ i - (p - 1) \in 1..(n - p)
                                       /\ p + (i - (p - 1)) = i + 1
        BY <2>1, <2>4
      <3> DEFINE x == SubSeq(js, 1, p - 1)
                 y == SubSeq(js, p + 1, n)
      <3> HIDE DEF x, y
      <3>3. Len(x \o y) = Len(x) + Len(y) /\ \A i \in 1..(Len(x) + Len(y)) :
               (x \o y)[i] = IF i <= Len(x) THEN x[i] ELSE y[i - Len(x)]
        BY <2>5, <2>6 DEF x, y
      <3>4. Len(x) = p - 1 /\ Len(y) = n - p
        BY <2>5, <2>6 DEF x, y
      <3>5. Len(x \o y) = n - 1 /\ \A i \in 1..(n - 1) :
               (x \o y)[i] = IF i <= p - 1 THEN x[i] ELSE y[i - (p - 1)]
        BY <3>1, <3>3, <3>4
      <3>6. /\ \A i \in 1..(p - 1) : x[i] = js[i]
            /\ \A i \in 1..(n - p) : y[i] = js[p + i]
        BY <2>5, <2>6 DEF x, y
      <3>7. \A i \in 1..(n - 1) : (x \o y)[i] = IF i < p THEN js[i] ELSE js[i + 1]
        BY <3>2, <3>5, <3>6
      <3> QED
        BY <3>5, <3>7 DEF x, y
    <2> HIDE DEF c
    <2>8. \A i \in 1..(n - 1) : i \in 1..n /\ i + 1 \in 1..n /\ (i < p => i # p)
                                /\ (~(i < p) => i + 1 # p)
      BY <2>1, <2>4
    <2>9. Once(c)
      <3> SUFFICES ASSUME NEW i \in 1..(n - 1), NEW j \in 1..(n - 1), c[i] = c[j]
                   PROVE  i = j
        BY <2>7 DEF Once
      <3> DEFINE a == IF i < p THEN i ELSE i + 1
                 b == IF j < p THEN j ELSE j + 1
      <3>1. c[i] = js[a] /\ c[j] = js[b] /\ a \in 1..n /\ b \in 1..n
        BY <2>7, <2>8
      <3>2. a = b
        BY <3>1 DEF Once
      <3> QED
        BY <2>1, <2>4, <3>2
    <2>10. ASSUME NEW K
           PROVE  Listed(c, K) <=> Listed(js, K) /\ K # J
      <3>1. ASSUME NEW i \in 1..(n - 1), c[i] = K
            PROVE  Listed(js, K) /\ K # J
        <4> DEFINE a == IF i < p THEN i ELSE i + 1
        <4>1. c[i] = js[a] /\ a \in 1..n /\ a # p
          BY <2>7, <2>8
        <4>2. K # J
          BY <2>1, <3>1, <4>1 DEF Once
        <4> QED
          BY <3>1, <4>1, <4>2 DEF Listed
      <3>2. ASSUME NEW i \in 1..n, js[i] = K, K # J
            PROVE  Listed(c, K)
        <4>1. i # p
          BY <2>1, <3>2
        <4>2. CASE i < p
          <5>1. i \in 1..(n - 1)
            BY <2>1, <2>4, <4>2
          <5> QED
            BY <2>7, <3>2, <4>2, <5>1 DEF Listed
        <4>3. CASE i > p
          <5>1. i - 1 \in 1..(n - 1) /\ ~(i - 1 < p) /\ (i - 1) + 1 = i
            BY <2>1, <2>4, <4>3
          <5> QED
            BY <2>7, <3>2, <5>1 DEF Listed
        <4>4. i < p \/ i > p
          BY <2>1, <2>4, <4>1
        <4> QED
          BY <4>2, <4>3, <4>4
      <3> QED
        BY <2>7, <3>1, <3>2 DEF Listed
    <2> QED
      BY <2>2, <2>9, <2>10
  <1> QED
    BY <1>1, <1>2
----------------------------------------------------------------------------
(* Jobs *)

\* What the code may do to a job without working on it.
SameWork(r, q) ==
    /\ IsWork(q) /\ q.extent = r.extent /\ q.min = r.min /\ q.active = r.active
    /\ q.siblings = r.siblings /\ q.parent = r.parent /\ q.done = r.done
    /\ q.exit \in {0, 1} /\ (q.exit = 0 => r.exit = 0)

\* Failures, semaphores, reservations and sleeping owners do not matter to iterations.
LEMMA SameJobs ==
  ASSUME NEW m, NEW jb, NEW js, JobsOK(m, jb, js),
         NEW jb2, DOMAIN jb2 = DOMAIN jb, \A J \in DOMAIN jb : SameWork(jb[J], jb2[J])
  PROVE  JobsOK(m, jb2, js)
  <1>1. /\ Nested(m) /\ ResultOK(m) /\ BusyOK(m, jb) /\ CallOK(m, jb) /\ ForkOK(m, jb)
        /\ OwnedOK(m, jb) /\ WorkOK(m, jb) /\ ListOK(jb, js)
    BY DEF JobsOK
  <1>2. BusyOK(m, jb2)
    BY <1>1 DEF BusyOK, SameWork
  <1>3. CallOK(m, jb2)
    <2>1. \A p \in DOMAIN m : m[p].at \in BodyAt /\ p[2] > 1 => m[p].job \in DOMAIN jb
      <3>1. \A p \in DOMAIN m : m[p].at \in BodyAt /\ p[2] > 1 =>
               Under(p) \in DOMAIN m /\ Busy(m[Under(p)]) /\ m[Under(p)].work = m[p].job
        BY <1>1 DEF Nested, Busy
      <3> QED
        BY <1>1, <3>1 DEF BusyOK
    <2> QED
      BY <1>1, <2>1 DEF CallOK, SameWork
  <1>4. ForkOK(m, jb2)
    BY <1>1 DEF ForkOK, SameWork, Idle
  <1>5. OwnedOK(m, jb2)
    BY <1>1 DEF OwnedOK
  <1>6. WorkOK(m, jb2)
    BY <1>1 DEF WorkOK, SameWork
  <1>7. ListOK(jb2, js)
    BY <1>1 DEF ListOK, SameWork
  <1> QED
    BY <1>1, <1>2, <1>3, <1>4, <1>5, <1>6, <1>7 DEF JobsOK

\* The owner of a failed job that nobody works on takes it off the list.
LEMMA JobDropped ==
  ASSUME NEW m, NEW jb, NEW js, JobsOK(m, jb, js),
         NEW J \in DOMAIN jb, jb[J].exit # 0, jb[J].active = 0,
         NEW jb2, DOMAIN jb2 = DOMAIN jb, \A K \in DOMAIN jb : K # J => jb2[K] = jb[K],
         jb2[J] = [jb[J] EXCEPT !.extent = 0],
         NEW js2, Once(js2), \A K : Listed(js2, K) <=> Listed(js, K) /\ K # J
  PROVE  JobsOK(m, jb2, js2)
  <1>1. /\ Nested(m) /\ ResultOK(m) /\ BusyOK(m, jb) /\ CallOK(m, jb) /\ ForkOK(m, jb)
        /\ OwnedOK(m, jb) /\ WorkOK(m, jb) /\ ListOK(jb, js)
    BY DEF JobsOK
  <1>2. /\ IsWork(jb2[J]) /\ jb2[J].extent = 0 /\ jb2[J].min = jb[J].min
        /\ jb2[J].active = jb[J].active /\ jb2[J].exit = jb[J].exit
        /\ jb2[J].siblings = jb[J].siblings /\ jb2[J].parent = jb[J].parent
        /\ jb2[J].done = jb[J].done
    <2>1. IsWork(jb[J])
      BY <1>1 DEF WorkOK
    <2> QED
      BY <2>1 DEF IsWork
  <1>3. On(m, J) = {}
    BY <1>1, FS_EmptySet DEF WorkOK
  <1>4. \A p \in DOMAIN m : Busy(m[p]) => m[p].work \in DOMAIN jb /\ m[p].work # J
    BY <1>1, <1>3 DEF BusyOK, On
  <1>5. BusyOK(m, jb2)
    BY <1>1, <1>4 DEF BusyOK
  <1>6. CallOK(m, jb2)
    <2>1. \A p \in DOMAIN m : m[p].at \in BodyAt /\ p[2] > 1 => jb2[m[p].job] = jb[m[p].job]
      <3>1. \A p \in DOMAIN m : m[p].at \in BodyAt /\ p[2] > 1 =>
               Under(p) \in DOMAIN m /\ Busy(m[Under(p)]) /\ m[Under(p)].work = m[p].job
        BY <1>1 DEF Nested, Busy
      <3> QED
        BY <1>4, <3>1
    <2> QED
      BY <1>1, <2>1 DEF CallOK
  <1>7. ForkOK(m, jb2)
    <2>1. \A K \in DOMAIN jb : /\ jb2[K].siblings = jb[K].siblings /\ jb2[K].parent = jb[K].parent
                               /\ jb2[K].done = jb[K].done
                               /\ Idle(jb[K]) => Idle(jb2[K])
      BY <1>2 DEF Idle
    <2> QED
      BY <1>1, <2>1 DEF ForkOK
  <1>8. OwnedOK(m, jb2)
    BY <1>1 DEF OwnedOK
  <1>9. WorkOK(m, jb2)
    <2>1. WorkOK(m, jb)
      BY <1>1
    <2>2. /\ IsTask(J) /\ jb[J].extent \in Nat /\ jb[J].min \in Nat /\ jb[J].exit \in {0, 1}
          /\ jb[J].min + jb[J].extent <= TaskOf(J).extent
          /\ IsFiniteSet(On(m, J)) /\ jb[J].active = Cardinality(On(m, J))
          /\ IF Serial(J) THEN jb[J].active <= 1
             ELSE \A p, q \in On(m, J) : m[p].min = m[q].min => p = q
          /\ jb[J].done \subseteq 0..jb[J].min - 1
          /\ TaskOf(J).extent \in Int
      <3>1. TaskOf(J).extent \in Int
        BY <2>1, TaskAssumption DEF WorkOK, IsTask, TaskOf
      <3> QED
        BY <2>1, <3>1 DEF WorkOK
    <2>3. jb2[J].extent \in Nat /\ jb2[J].min + jb2[J].extent <= TaskOf(J).extent /\ jb2[J].exit # 0
      BY <1>2, <2>2
    <2>4. /\ IsTask(J) /\ IsWork(jb2[J]) /\ jb2[J].extent \in Nat
          /\ jb2[J].min \in Nat /\ jb2[J].exit \in {0, 1}
          /\ jb2[J].min + jb2[J].extent <= TaskOf(J).extent
          /\ IsFiniteSet(On(m, J)) /\ jb2[J].active = Cardinality(On(m, J))
          /\ IF Serial(J) THEN jb2[J].active <= 1
             ELSE \A p, q \in On(m, J) : m[p].min = m[q].min => p = q
          /\ jb2[J].done \subseteq 0..jb2[J].min - 1
          /\ jb2[J].exit # 0
      <3>1. jb2[J].done \subseteq 0..jb2[J].min - 1
        BY <1>2, <2>2
      <3>2. IF Serial(J) THEN jb2[J].active <= 1
            ELSE \A p, q \in On(m, J) : m[p].min = m[q].min => p = q
        BY <1>2, <2>2
      <3> QED
        BY <1>2, <2>2, <2>3, <3>1, <3>2
    <2>5. \A K \in DOMAIN jb : K # J => jb2[K] = jb[K]
      OBVIOUS
    <2>6. DOMAIN jb2 = DOMAIN jb
      OBVIOUS
    <2> QED
      BY ONLY <2>1, <2>4, <2>5, <2>6 DEF WorkOK
  <1>10. ListOK(jb2, js2)
    <2> SUFFICES ASSUME NEW K
                 PROVE  Listed(js2, K) <=> /\ K \in DOMAIN jb2 /\ jb2[K].extent > 0
                                           /\ ~(Serial(K) /\ jb2[K].active > 0)
      BY DEF ListOK
    <2>1. CASE K = J
      <3>1. ~(jb2[J].extent > 0)
        BY <1>2
      <3>2. ~Listed(js2, J)
        OBVIOUS
      <3> QED
        BY <2>1, <3>1, <3>2
    <2>2. CASE K # J
      BY <1>1, <2>2 DEF ListOK
    <2> QED
      BY <2>1, <2>2
  <1> QED
    BY <1>1, <1>5, <1>6, <1>7, <1>8, <1>9, <1>10 DEF JobsOK

\* A thread starts on a job: a serial one leaves the list, any other gives up an iteration.
LEMMA JobStarted ==
  ASSUME NEW m, NEW jb, NEW js, JobsOK(m, jb, js),
         NEW T \in DOMAIN m, Over(T) \notin DOMAIN m, m[T].at \in LoopAt, ~Busy(m[T]),
         NEW J, Listed(js, J), Serial(J) => jb[J].active = 0,
         NEW jb2, DOMAIN jb2 = DOMAIN jb, \A K \in DOMAIN jb : K # J => SameWork(jb[K], jb2[K]),
         IsWork(jb2[J]), jb2[J].active = jb[J].active + 1,
         jb2[J].min = IF Serial(J) THEN jb[J].min ELSE jb[J].min + 1,
         jb2[J].extent = IF Serial(J) THEN jb[J].extent ELSE jb[J].extent - 1,
         jb2[J].exit = jb[J].exit, jb2[J].siblings = jb[J].siblings,
         jb2[J].parent = jb[J].parent, jb2[J].done = jb[J].done,
         NEW js2, Once(js2),
         \A K : Listed(js2, K) <=> Listed(js, K) /\ ~(K = J /\ (Serial(J) \/ jb[J].extent = 1)),
         NEW g, g.at \in LoopAt, g.owned = m[T].owned, g.result \in {0, 1}, g.work = J,
         IF Serial(J) THEN g.at \in {"claim", "working"} /\ g.iters = 1 /\ g.total = 0
         ELSE g.at = "working" /\ g.min = jb[J].min,
         NEW m2, Put(m, m2, T, g)
  PROVE  JobsOK(m2, jb2, js2)
  <1>1. /\ DOMAIN m2 = DOMAIN m /\ m2[T] = g /\ IsPos(T)
        /\ \A p \in DOMAIN m : IsPos(p) /\ (p # T => m2[p] = m[p])
        /\ \A p \in DOMAIN m : p[2] > 1 =>
              Under(p) \in DOMAIN m /\ Under(p) # T /\ m2[Under(p)] = m[Under(p)]
    BY PutTop DEF JobsOK
  <1>2. /\ Nested(m) /\ ResultOK(m) /\ BusyOK(m, jb) /\ CallOK(m, jb) /\ ForkOK(m, jb)
        /\ OwnedOK(m, jb) /\ WorkOK(m, jb) /\ ListOK(jb, js)
    BY DEF JobsOK
  <1>3. /\ m2[T].at \in LoopAt /\ m2[T].at \notin BodyAt /\ m2[T].at # "join" /\ Busy(m2[T])
        /\ m[T].at \notin BodyAt /\ m[T].at # "join"
    BY <1>1 DEF LoopAt, BodyAt, Busy
  <1>4. J \in DOMAIN jb /\ jb[J].extent > 0
    BY <1>2 DEF ListOK
  <1>5. /\ IsTask(J) /\ jb[J].extent \in Nat /\ jb[J].min \in Nat /\ jb[J].exit \in {0, 1}
        /\ jb[J].min + jb[J].extent <= TaskOf(J).extent
        /\ IsFiniteSet(On(m, J)) /\ jb[J].active = Cardinality(On(m, J))
        /\ ~Serial(J) => \A p, q \in On(m, J) : m[p].min = m[q].min => p = q
        /\ jb[J].done \subseteq 0..jb[J].min - 1
        /\ jb[J].exit = 0 =>
             /\ jb[J].min + jb[J].extent = TaskOf(J).extent
             /\ \A x \in 0..jb[J].min - 1 :
                   x \in jb[J].done \/ (~Serial(J) /\ \E p \in On(m, J) : m[p].min = x)
    BY <1>2, <1>4 DEF WorkOK
  <1>6. jb[J].active \in Nat /\ (jb[J].active = 0 => On(m, J) = {})
    BY <1>5, FS_CardinalityType, FS_EmptySet
  <1>7. ~Idle(jb[J])
    BY <1>4, <1>5 DEF Idle
  <1>8. Nested(m2)
    <2> SUFFICES ASSUME NEW p \in DOMAIN m
                 PROVE  /\ p = <<p[1], p[2]>> /\ p[2] \in Nat \ {0}
                        /\ m2[p].at \in LoopAt \cup BodyAt \cup {"join"}
                        /\ p[2] > 1 => Under(p) \in DOMAIN m
                        /\ m2[p].at \in BodyAt =>
                              IF p[2] = 1 THEN m2[p].job = <<p[1]>>
                              ELSE /\ IsTask(m2[p].job) /\ m2[Under(p)].at = "working"
                                   /\ m2[Under(p)].work = m2[p].job
                        /\ m2[p].at = "join" => /\ p[2] > 1 /\ m2[Under(p)].at = "body"
                                                /\ m2[p].i \in 1..Len(m2[p].jobs)
                        /\ m2[p].at \in LoopAt =>
                              IF m2[p].owned = NoJob THEN p[2] = 1
                              ELSE /\ p[2] > 1 /\ m2[Under(p)].at = "join"
                                   /\ m2[p].owned = m2[Under(p)].jobs[m2[Under(p)].i]
      BY <1>1 DEF Nested
    <2>1. IsPos(p) /\ (p[2] = 1 \/ p[2] > 1)
      BY <1>1 DEF IsPos
    <2>2. CASE p = T
      BY <1>1, <1>2, <1>3, <2>1, <2>2 DEF Nested, IsPos
    <2>3. CASE p # T
      BY <1>1, <1>2, <2>1, <2>3 DEF Nested, IsPos
    <2> QED
      BY <2>2, <2>3
  <1>9. ResultOK(m2)
    BY <1>1, <1>2 DEF ResultOK
  <1>10. ASSUME NEW p \in DOMAIN m, p # T, Busy(m[p])
         PROVE  /\ m[p].work \in DOMAIN jb /\ p \in On(m, m[p].work)
                /\ Serial(m[p].work) => m[p].work # J /\ SameWork(jb[m[p].work], jb2[m[p].work])
    <2>1. m[p].work \in DOMAIN jb /\ p \in On(m, m[p].work)
      BY <1>2, <1>10 DEF BusyOK, On
    <2> QED
      BY <1>6, <2>1
  <1>11. \A K \in DOMAIN jb : jb2[K].min \in Nat /\ jb2[K].min >= jb[K].min
    <2>1. \A K \in DOMAIN jb : jb[K].min \in Nat
      BY <1>2 DEF WorkOK
    <2>2. jb2[J].min \in Nat /\ jb2[J].min >= jb[J].min
      BY <1>5
    <2> QED
      BY <2>1, <2>2 DEF SameWork
  <1>12. BusyOK(m2, jb2)
    <2> SUFFICES ASSUME NEW p \in DOMAIN m, Busy(m2[p])
                 PROVE  /\ m2[p].work \in DOMAIN jb
                        /\ IF Serial(m2[p].work)
                           THEN /\ m2[p].total \in Nat /\ m2[p].iters \in Nat
                                /\ m2[p].total + m2[p].iters <= jb2[m2[p].work].extent
                           ELSE m2[p].at = "working" /\ m2[p].min \in 0..jb2[m2[p].work].min - 1
      BY <1>1 DEF BusyOK
    <2>1. CASE p = T
      <3>1. m2[p] = g /\ g.work = J
        BY <1>1, <2>1
      <3>2. CASE Serial(J)
        BY <1>4, <1>5, <3>1, <3>2
      <3>3. CASE ~Serial(J)
        BY <1>4, <1>5, <3>1, <3>3
      <3> QED
        BY <3>2, <3>3
    <2>2. CASE p # T
      <3>1. m2[p] = m[p] /\ Busy(m[p])
        BY <1>1, <2>2
      <3>2. m[p].work \in DOMAIN jb
        BY <1>10, <2>2, <3>1
      <3>3. CASE Serial(m[p].work)
        BY <1>2, <1>10, <2>2, <3>1, <3>3 DEF BusyOK, SameWork
      <3>4. CASE ~Serial(m[p].work)
        <4>1. m[p].at = "working" /\ m[p].min \in 0..jb[m[p].work].min - 1
          BY <1>2, <3>1, <3>4 DEF BusyOK
        <4>2. jb[m[p].work].min \in Nat
          BY <1>2, <3>2 DEF WorkOK
        <4> QED
          BY <1>11, <3>1, <3>2, <3>4, <4>1, <4>2
      <3> QED
        BY <3>3, <3>4
    <2> QED
      BY <2>1, <2>2
  <1>13. CallOK(m2, jb2)
    <2>1. ASSUME NEW p \in DOMAIN m, m2[p].at \in BodyAt, p[2] > 1
          PROVE  /\ m2[p] = m[p] /\ m2[Under(p)] = m[Under(p)]
                 /\ Serial(m[p].job) => SameWork(jb[m[p].job], jb2[m[p].job])
      <3>1. p # T /\ m2[p] = m[p] /\ m2[Under(p)] = m[Under(p)] /\ Under(p) \in DOMAIN m /\ Under(p) # T
        BY <1>1, <1>3, <2>1
      <3>2. Busy(m[Under(p)]) /\ m[Under(p)].work = m[p].job
        BY <1>2, <2>1, <3>1 DEF Nested, Busy
      <3> QED
        BY <1>10, <3>1, <3>2
    <2> QED
      BY <1>1, <1>2, <2>1 DEF CallOK, SameWork
  <1>14. ForkOK(m2, jb2)
    <2>1. \A p \in DOMAIN m : m2[p].at = "join" => m2[p] = m[p] /\ m2[Under(p)] = m[Under(p)]
      BY <1>1, <1>2, <1>3 DEF Nested
    <2>2. \A K \in DOMAIN jb : /\ jb2[K].siblings = jb[K].siblings /\ jb2[K].parent = jb[K].parent
                               /\ jb2[K].done = jb[K].done
                               /\ Idle(jb[K]) => Idle(jb2[K])
      BY <1>7 DEF SameWork, Idle
    <2> QED
      BY <1>1, <1>2, <1>3, <2>1, <2>2 DEF ForkOK
  <1>15. OwnedOK(m2, jb2)
    BY <1>1, <1>2, <1>3 DEF OwnedOK
  <1>16. ASSUME NEW K
         PROVE  /\ On(m2, K) = IF K = J THEN On(m, J) \cup {T} ELSE On(m, K)
                /\ T \notin On(m, K)
                /\ \A p \in On(m, K) : m2[p].min = m[p].min
    BY <1>1, <1>3 DEF On
  <1>17. WorkOK(m2, jb2)
    <2>1. ASSUME NEW K \in DOMAIN jb, K # J
          PROVE  On(m2, K) = On(m, K) /\ SameWork(jb[K], jb2[K]) /\ \A p \in On(m, K) : m2[p].min = m[p].min
      BY <1>16, <2>1
    <2>2. /\ IsFiniteSet(On(m2, J)) /\ jb2[J].active = Cardinality(On(m2, J))
      BY <1>5, <1>16, FS_AddElement
    <2>3. IF Serial(J) THEN jb2[J].active <= 1
          ELSE \A p, q \in On(m2, J) : m2[p].min = m2[q].min => p = q
      <3>1. CASE Serial(J)
        BY <3>1
      <3>2. CASE ~Serial(J)
        <4>1. \A p \in On(m, J) : m[p].min \in 0..jb[J].min - 1
          BY <1>2, <3>2 DEF BusyOK, On
        <4>2. \A p \in On(m, J) : m[p].min # m2[T].min
          BY <1>1, <1>5, <3>2, <4>1
        <4> QED
          BY <1>5, <1>16, <3>2, <4>2
      <3> QED
        BY <3>1, <3>2
    <2>4. jb2[J].extent \in Nat /\ jb2[J].min \in Nat /\ jb2[J].exit \in {0, 1}
          /\ jb2[J].min + jb2[J].extent = jb[J].min + jb[J].extent
      BY <1>4, <1>5
    <2>5. jb2[J].done \subseteq 0..jb2[J].min - 1
      BY <1>5, <1>11, <1>4
    <2>6. ASSUME jb2[J].exit = 0
          PROVE  \A x \in 0..jb2[J].min - 1 :
                    x \in jb2[J].done \/ (~Serial(J) /\ \E p \in On(m2, J) : m2[p].min = x)
      <3>1. CASE Serial(J)
        BY <1>5, <2>6, <3>1
      <3>2. CASE ~Serial(J)
        <4> SUFFICES ASSUME NEW x \in 0..jb2[J].min - 1
                     PROVE  x \in jb2[J].done \/ \E p \in On(m2, J) : m2[p].min = x
          BY <3>2
        <4>1. x = jb[J].min \/ x \in 0..jb[J].min - 1
          BY <1>5, <3>2
        <4>2. CASE x = jb[J].min
          BY <1>1, <1>16, <3>2, <4>2
        <4>3. CASE x \in 0..jb[J].min - 1
          BY <1>5, <1>16, <2>6, <4>3
        <4> QED
          BY <4>1, <4>2, <4>3
      <3> QED
        BY <3>1, <3>2
    <2>7. /\ IsTask(J) /\ IsWork(jb2[J])
          /\ jb2[J].extent \in Nat /\ jb2[J].min \in Nat /\ jb2[J].exit \in {0, 1}
          /\ jb2[J].min + jb2[J].extent <= TaskOf(J).extent
          /\ jb2[J].exit = 0 => jb2[J].min + jb2[J].extent = TaskOf(J).extent
      BY <1>5, <2>4
    <2>8. WorkOK(m, jb)
      BY <1>2
    <2>9. DOMAIN jb2 = DOMAIN jb
      OBVIOUS
    <2> SUFFICES ASSUME NEW K \in DOMAIN jb
                 PROVE  /\ IsTask(K) /\ IsWork(jb2[K])
                        /\ jb2[K].extent \in Nat /\ jb2[K].min \in Nat /\ jb2[K].exit \in {0, 1}
                        /\ jb2[K].min + jb2[K].extent <= TaskOf(K).extent
                        /\ IsFiniteSet(On(m2, K)) /\ jb2[K].active = Cardinality(On(m2, K))
                        /\ IF Serial(K) THEN jb2[K].active <= 1
                           ELSE \A p, q \in On(m2, K) : m2[p].min = m2[q].min => p = q
                        /\ jb2[K].done \subseteq 0..jb2[K].min - 1
                        /\ jb2[K].exit = 0 =>
                              /\ jb2[K].min + jb2[K].extent = TaskOf(K).extent
                              /\ \A x \in 0..jb2[K].min - 1 :
                                    \/ x \in jb2[K].done
                                    \/ ~Serial(K) /\ \E p \in On(m2, K) : m2[p].min = x
      BY DEF WorkOK
    <2>10. CASE K = J
      BY ONLY <2>2, <2>3, <2>5, <2>6, <2>7, <2>10
    <2>11. CASE K # J
      BY ONLY K \in DOMAIN jb, <2>1, <2>8, <2>11 DEF WorkOK, SameWork
    <2> QED
      BY <2>10, <2>11
  <1>18. ListOK(jb2, js2)
    <2> SUFFICES ASSUME NEW K
                 PROVE  Listed(js2, K) <=> /\ K \in DOMAIN jb2 /\ jb2[K].extent > 0
                                           /\ ~(Serial(K) /\ jb2[K].active > 0)
      BY DEF ListOK
    <2>1. CASE K = J
      <3>1. CASE Serial(J)
        BY <1>6, <2>1, <3>1
      <3>2. CASE ~Serial(J)
        BY <1>4, <1>5, <2>1, <3>2
      <3> QED
        BY <3>1, <3>2
    <2>2. CASE K # J
      BY <1>2, <2>2 DEF ListOK, SameWork
    <2> QED
      BY <2>1, <2>2
  <1> QED
    BY <1>8, <1>9, <1>12, <1>13, <1>14, <1>15, <1>17, <1>18 DEF JobsOK

\* A thread accounts for what it has done of a job and gives it up; a serial job with
\* iterations left goes back on the list.
LEMMA JobFinished ==
  ASSUME NEW m, NEW jb, NEW js, JobsOK(m, jb, js),
         NEW T \in DOMAIN m, Over(T) \notin DOMAIN m, m[T].at = "working",
         NEW J, J = m[T].work, NEW r, r = m[T].result, NEW n, n = m[T].total,
         NEW jb2, DOMAIN jb2 = DOMAIN jb, \A K \in DOMAIN jb : K # J => SameWork(jb[K], jb2[K]),
         IsWork(jb2[J]), jb2[J].active = jb[J].active - 1,
         jb2[J].min = IF Serial(J) THEN jb[J].min + n ELSE jb[J].min,
         jb2[J].extent = IF ~Serial(J) THEN jb[J].extent
                         ELSE IF r # 0 THEN 0 ELSE jb[J].extent - n,
         jb2[J].exit = IF r # 0 THEN r ELSE jb[J].exit, jb2[J].siblings = jb[J].siblings,
         jb2[J].parent = jb[J].parent,
         jb2[J].done = jb[J].done \cup IF Serial(J) THEN jb[J].min..jb[J].min + n - 1
                                       ELSE IF r = 0 THEN {m[T].min} ELSE {},
         NEW js2, Once(js2),
         \A K : Listed(js2, K) <=> Listed(js, K) \/ (K = J /\ Serial(J) /\ jb2[J].extent > 0),
         NEW g, g.at \in LoopAt, ~Busy(g), g.owned = m[T].owned, g.result \in {0, 1},
         NEW m2, Put(m, m2, T, g)
  PROVE  JobsOK(m2, jb2, js2)
  <1>1. /\ DOMAIN m2 = DOMAIN m /\ m2[T] = g /\ IsPos(T)
        /\ \A p \in DOMAIN m : IsPos(p) /\ (p # T => m2[p] = m[p])
        /\ \A p \in DOMAIN m : p[2] > 1 =>
              Under(p) \in DOMAIN m /\ Under(p) # T /\ m2[Under(p)] = m[Under(p)]
    BY PutTop DEF JobsOK
  <1>2. /\ Nested(m) /\ ResultOK(m) /\ BusyOK(m, jb) /\ CallOK(m, jb) /\ ForkOK(m, jb)
        /\ OwnedOK(m, jb) /\ WorkOK(m, jb) /\ ListOK(jb, js)
    BY DEF JobsOK
  <1>3. /\ m2[T].at \in LoopAt /\ m2[T].at \notin BodyAt /\ m2[T].at # "join" /\ ~Busy(m2[T])
        /\ m[T].at \in LoopAt /\ m[T].at \notin BodyAt /\ m[T].at # "join" /\ Busy(m[T])
    BY <1>1 DEF LoopAt, BodyAt, Busy
  <1>4. /\ J \in DOMAIN jb /\ T \in On(m, J) /\ r \in {0, 1}
        /\ IF Serial(J) THEN n \in Nat /\ n <= jb[J].extent ELSE m[T].min \in 0..jb[J].min - 1
    <2>1. J \in DOMAIN jb /\ T \in On(m, J) /\ r \in {0, 1}
      BY <1>2, <1>3 DEF BusyOK, On, ResultOK
    <2>2. IF Serial(J) THEN n \in Nat /\ m[T].iters \in Nat /\ n + m[T].iters <= jb[J].extent
          ELSE m[T].min \in 0..jb[J].min - 1
      BY <1>2, <1>3 DEF BusyOK
    <2>3. jb[J].extent \in Nat
      BY <1>2, <2>1 DEF WorkOK
    <2> QED
      BY <2>1, <2>2, <2>3
  <1>5. /\ IsTask(J) /\ jb[J].extent \in Nat /\ jb[J].min \in Nat /\ jb[J].exit \in {0, 1}
        /\ jb[J].min + jb[J].extent <= TaskOf(J).extent
        /\ IsFiniteSet(On(m, J)) /\ jb[J].active = Cardinality(On(m, J))
        /\ Serial(J) => jb[J].active <= 1
        /\ ~Serial(J) => \A p, q \in On(m, J) : m[p].min = m[q].min => p = q
        /\ jb[J].done \subseteq 0..jb[J].min - 1
        /\ jb[J].exit = 0 =>
             /\ jb[J].min + jb[J].extent = TaskOf(J).extent
             /\ \A x \in 0..jb[J].min - 1 :
                   x \in jb[J].done \/ (~Serial(J) /\ \E p \in On(m, J) : m[p].min = x)
    BY <1>2, <1>4 DEF WorkOK
  <1>6. /\ jb[J].active \in Nat \ {0} /\ ~Idle(jb[J])
        /\ Serial(J) => jb[J].active = 1 /\ \A p \in On(m, J) : p = T
    <2>1. jb[J].active \in Nat /\ (jb[J].active = 0 => On(m, J) = {})
      BY <1>5, FS_CardinalityType, FS_EmptySet
    <2>2. Serial(J) => \A p \in On(m, J) : p = T
      BY <1>4, <1>5, AtMostOne
    <2> QED
      BY <1>4, <1>5, <2>1, <2>2 DEF Idle
  <1>7. TaskOf(J).extent \in Int
    BY <1>5, TaskAssumption DEF IsTask, TaskOf
  <1>8. Nested(m2)
    <2> SUFFICES ASSUME NEW p \in DOMAIN m
                 PROVE  /\ p = <<p[1], p[2]>> /\ p[2] \in Nat \ {0}
                        /\ m2[p].at \in LoopAt \cup BodyAt \cup {"join"}
                        /\ p[2] > 1 => Under(p) \in DOMAIN m
                        /\ m2[p].at \in BodyAt =>
                              IF p[2] = 1 THEN m2[p].job = <<p[1]>>
                              ELSE /\ IsTask(m2[p].job) /\ m2[Under(p)].at = "working"
                                   /\ m2[Under(p)].work = m2[p].job
                        /\ m2[p].at = "join" => /\ p[2] > 1 /\ m2[Under(p)].at = "body"
                                                /\ m2[p].i \in 1..Len(m2[p].jobs)
                        /\ m2[p].at \in LoopAt =>
                              IF m2[p].owned = NoJob THEN p[2] = 1
                              ELSE /\ p[2] > 1 /\ m2[Under(p)].at = "join"
                                   /\ m2[p].owned = m2[Under(p)].jobs[m2[Under(p)].i]
      BY <1>1 DEF Nested
    <2>1. IsPos(p) /\ (p[2] = 1 \/ p[2] > 1)
      BY <1>1 DEF IsPos
    <2>2. CASE p = T
      BY <1>1, <1>2, <1>3, <2>1, <2>2 DEF Nested, IsPos
    <2>3. CASE p # T
      BY <1>1, <1>2, <2>1, <2>3 DEF Nested, IsPos
    <2> QED
      BY <2>2, <2>3
  <1>9. ResultOK(m2)
    BY <1>1, <1>2 DEF ResultOK
  <1>10. ASSUME NEW p \in DOMAIN m, p # T, Busy(m[p])
         PROVE  /\ m[p].work \in DOMAIN jb
                /\ Serial(m[p].work) => m[p].work # J /\ SameWork(jb[m[p].work], jb2[m[p].work])
    <2>1. m[p].work \in DOMAIN jb /\ p \in On(m, m[p].work)
      BY <1>2, <1>10 DEF BusyOK, On
    <2> QED
      BY <1>6, <1>10, <2>1
  <1>11. \A K \in DOMAIN jb : ~Serial(K) => jb2[K].min = jb[K].min
    BY DEF SameWork
  <1>12. BusyOK(m2, jb2)
    <2> SUFFICES ASSUME NEW p \in DOMAIN m, Busy(m2[p])
                 PROVE  /\ m2[p].work \in DOMAIN jb
                        /\ IF Serial(m2[p].work)
                           THEN /\ m2[p].total \in Nat /\ m2[p].iters \in Nat
                                /\ m2[p].total + m2[p].iters <= jb2[m2[p].work].extent
                           ELSE m2[p].at = "working" /\ m2[p].min \in 0..jb2[m2[p].work].min - 1
      BY <1>1 DEF BusyOK
    <2>1. p # T /\ m2[p] = m[p] /\ Busy(m[p])
      BY <1>1, <1>3
    <2>2. CASE Serial(m[p].work)
      BY <1>2, <1>10, <2>1, <2>2 DEF BusyOK, SameWork
    <2>3. CASE ~Serial(m[p].work)
      BY <1>2, <1>10, <1>11, <2>1, <2>3 DEF BusyOK
    <2> QED
      BY <2>2, <2>3
  <1>13. CallOK(m2, jb2)
    <2>1. ASSUME NEW p \in DOMAIN m, m2[p].at \in BodyAt, p[2] > 1
          PROVE  /\ m2[p] = m[p] /\ m2[Under(p)] = m[Under(p)]
                 /\ Serial(m[p].job) => SameWork(jb[m[p].job], jb2[m[p].job])
      <3>1. p # T /\ m2[p] = m[p] /\ m2[Under(p)] = m[Under(p)] /\ Under(p) \in DOMAIN m /\ Under(p) # T
        BY <1>1, <1>3, <2>1
      <3>2. Busy(m[Under(p)]) /\ m[Under(p)].work = m[p].job
        BY <1>2, <2>1, <3>1 DEF Nested, Busy
      <3> QED
        BY <1>10, <3>1, <3>2
    <2> QED
      BY <1>1, <1>2, <2>1 DEF CallOK, SameWork
  <1>14. ForkOK(m2, jb2)
    <2>1. \A p \in DOMAIN m : m2[p].at = "join" => m2[p] = m[p] /\ m2[Under(p)] = m[Under(p)]
      BY <1>1, <1>2, <1>3 DEF Nested
    <2>2. \A K \in DOMAIN jb : /\ jb2[K].siblings = jb[K].siblings /\ jb2[K].parent = jb[K].parent
                               /\ Idle(jb[K]) => Idle(jb2[K]) /\ jb2[K].done = jb[K].done
      BY <1>6 DEF SameWork, Idle
    <2> QED
      BY <1>1, <1>2, <1>3, <2>1, <2>2 DEF ForkOK
  <1>15. OwnedOK(m2, jb2)
    BY <1>1, <1>2, <1>3 DEF OwnedOK
  <1>16. ASSUME NEW K
         PROVE  /\ On(m2, K) = IF K = J THEN On(m, J) \ {T} ELSE On(m, K)
                /\ \A p \in On(m2, K) : m2[p].min = m[p].min
    BY <1>1, <1>3 DEF On
  <1>17. WorkOK(m2, jb2)
    <2>1. ASSUME NEW K \in DOMAIN jb, K # J
          PROVE  On(m2, K) = On(m, K) /\ SameWork(jb[K], jb2[K]) /\ \A p \in On(m, K) : m2[p].min = m[p].min
      BY <1>16, <2>1
    <2>2. IsFiniteSet(On(m2, J)) /\ jb2[J].active = Cardinality(On(m2, J))
      BY <1>4, <1>5, <1>16, FS_RemoveElement
    <2>3. IF Serial(J) THEN jb2[J].active <= 1
          ELSE \A p, q \in On(m2, J) : m2[p].min = m2[q].min => p = q
      BY <1>5, <1>6, <1>16
    <2>4. /\ jb2[J].extent \in Nat /\ jb2[J].min \in Nat /\ jb2[J].exit \in {0, 1}
          /\ jb2[J].min + jb2[J].extent <= TaskOf(J).extent
          /\ jb2[J].exit = 0 => jb2[J].min + jb2[J].extent = TaskOf(J).extent
      <3>1. CASE Serial(J) /\ r # 0
        BY <1>4, <1>5, <1>7, <3>1
      <3>2. CASE Serial(J) /\ r = 0
        BY <1>4, <1>5, <1>7, <3>2
      <3>3. CASE ~Serial(J)
        BY <1>4, <1>5, <1>7, <3>3
      <3> QED
        BY <3>1, <3>2, <3>3
    <2>5. jb2[J].done \subseteq 0..jb2[J].min - 1
      <3>1. CASE Serial(J)
        BY <1>4, <1>5, <3>1
      <3>2. CASE ~Serial(J)
        BY <1>4, <1>5, <3>2
      <3> QED
        BY <3>1, <3>2
    <2>6. ASSUME jb2[J].exit = 0
          PROVE  \A x \in 0..jb2[J].min - 1 :
                    x \in jb2[J].done \/ (~Serial(J) /\ \E p \in On(m2, J) : m2[p].min = x)
      <3>1. r = 0 /\ jb[J].exit = 0
        BY <1>4, <2>6
      <3> SUFFICES ASSUME NEW x \in 0..jb2[J].min - 1
                   PROVE  x \in jb2[J].done \/ (~Serial(J) /\ \E p \in On(m2, J) : m2[p].min = x)
        OBVIOUS
      <3>2. CASE Serial(J)
        <4>1. x \in 0..jb[J].min - 1 \/ x \in jb[J].min..jb[J].min + n - 1
          BY <1>4, <1>5, <3>2
        <4> QED
          BY <1>5, <3>1, <3>2, <4>1
      <3>3. CASE ~Serial(J)
        <4>1. x \in jb[J].done \/ \E p \in On(m, J) : m[p].min = x
          BY <1>5, <3>1, <3>3
        <4>2. CASE x \in jb[J].done
          BY <4>2
        <4>3. ASSUME NEW p \in On(m, J), m[p].min = x
              PROVE  x \in jb2[J].done \/ \E q \in On(m2, J) : m2[q].min = x
          <5>1. CASE p = T
            BY <3>1, <3>3, <4>3, <5>1
          <5>2. CASE p # T
            BY <1>16, <4>3, <5>2
          <5> QED
            BY <5>1, <5>2
        <4> QED
          BY <3>3, <4>1, <4>2, <4>3
      <3> QED
        BY <3>2, <3>3
    <2>7. IsTask(J) /\ IsWork(jb2[J])
      BY <1>5
    <2>8. WorkOK(m, jb)
      BY <1>2
    <2>9. DOMAIN jb2 = DOMAIN jb
      OBVIOUS
    <2> SUFFICES ASSUME NEW K \in DOMAIN jb
                 PROVE  /\ IsTask(K) /\ IsWork(jb2[K])
                        /\ jb2[K].extent \in Nat /\ jb2[K].min \in Nat /\ jb2[K].exit \in {0, 1}
                        /\ jb2[K].min + jb2[K].extent <= TaskOf(K).extent
                        /\ IsFiniteSet(On(m2, K)) /\ jb2[K].active = Cardinality(On(m2, K))
                        /\ IF Serial(K) THEN jb2[K].active <= 1
                           ELSE \A p, q \in On(m2, K) : m2[p].min = m2[q].min => p = q
                        /\ jb2[K].done \subseteq 0..jb2[K].min - 1
                        /\ jb2[K].exit = 0 =>
                              /\ jb2[K].min + jb2[K].extent = TaskOf(K).extent
                              /\ \A x \in 0..jb2[K].min - 1 :
                                    \/ x \in jb2[K].done
                                    \/ ~Serial(K) /\ \E p \in On(m2, K) : m2[p].min = x
      BY DEF WorkOK
    <2>10. CASE K = J
      BY ONLY <2>2, <2>3, <2>4, <2>5, <2>6, <2>7, <2>10
    <2>11. CASE K # J
      BY ONLY K \in DOMAIN jb, <2>1, <2>8, <2>11 DEF WorkOK, SameWork
    <2> QED
      BY <2>10, <2>11
  <1>18. ListOK(jb2, js2)
    <2> SUFFICES ASSUME NEW K
                 PROVE  Listed(js2, K) <=> /\ K \in DOMAIN jb2 /\ jb2[K].extent > 0
                                           /\ ~(Serial(K) /\ jb2[K].active > 0)
      BY DEF ListOK
    <2>1. CASE K = J
      <3>1. CASE Serial(J)
        <4>1. ~Listed(js, J) /\ jb2[J].active = 0
          BY <1>2, <1>6, <3>1 DEF ListOK
        <4> QED
          BY <1>4, <2>1, <3>1, <4>1
      <3>2. CASE ~Serial(J)
        BY <1>2, <1>4, <2>1, <3>2 DEF ListOK
      <3> QED
        BY <3>1, <3>2
    <2>2. CASE K # J
      BY <1>2, <2>2 DEF ListOK, SameWork
    <2> QED
      BY <2>1, <2>2
  <1> QED
    BY <1>8, <1>9, <1>12, <1>13, <1>14, <1>15, <1>17, <1>18 DEF JobsOK

\* Two frames are pushed, g and then b.
Enters(m, m2, T, g, b) ==
    /\ DOMAIN m2 = DOMAIN m \cup {Over(T), Over(Over(T))}
    /\ m2[Over(T)] = g /\ m2[Over(Over(T))] = b
    /\ \A p \in DOMAIN m : m2[p] = m[p]

\* The jobs that iteration n of job J forks.
Named(ids, J, n) ==
    /\ TaskSeq(ids) /\ Len(ids) \in Nat \ {0} /\ Once(ids)
    /\ \A i \in 1..Len(ids) : /\ IsTask(ids[i]) /\ TaskOf(ids[i]).extent > 0
                              /\ ids[i][1] = J /\ ids[i][2] = n

\* A work structure as enqueue_work_already_locked is given it.
New(r, J, ids, parent) ==
    /\ IsWork(r) /\ r.extent = TaskOf(J).extent /\ r.min = 0 /\ r.active = 0
    /\ r.exit = 0 /\ r.siblings = ids /\ r.done = {} /\ r.parent = parent

\* The jobs with those of a fork.
With(jb, jb2, ids, parent) ==
    /\ DOMAIN jb2 = DOMAIN jb \cup {ids[i] : i \in 1..Len(ids)}
    /\ \A J \in DOMAIN jb : jb2[J] = jb[J]
    /\ \A i \in 1..Len(ids) : ids[i] \notin DOMAIN jb => New(jb2[ids[i]], ids[i], ids, parent)

\* The list of jobs with those of a fork, if they were not there.
ListsBoth(js, ids, js2) ==
    (\A J : ~(Listed(js, J) /\ Listed(ids, J))) =>
       Once(js2) /\ \A J : Listed(js2, J) <=> Listed(js, J) \/ Listed(ids, J)

\* A closure forks: its jobs are new, nobody works on them yet, all are on the list.
LEMMA ForkPut ==
  ASSUME NEW m, NEW jb, NEW js, JobsOK(m, jb, js),
         NEW T \in DOMAIN m, m[T].at = "body",
         Over(T) \notin DOMAIN m, Over(Over(T)) \notin DOMAIN m,
         NEW ids, Named(ids, m[T].job, m[T].it),
         NEW parent, parent # NoParent => T[2] > 1 /\ parent = m[T].job,
         NEW jb2, With(jb, jb2, ids, parent), NEW js2, ListsBoth(js, ids, js2),
         NEW g, g.at = "join", g.jobs = ids, g.i = 1, g.status = 0,
         NEW b, b.at \in LoopAt, ~Busy(b), b.owned = ids[1], b.owned # NoJob, b.result \in {0, 1},
         NEW m2, Enters(m, m2, T, g, b)
  PROVE  JobsOK(m2, jb2, js2)
  <1>21. PICK O, P : /\ O = Over(T) /\ O \notin DOMAIN m /\ P = Over(O) /\ P \notin DOMAIN m
                    /\ DOMAIN m2 = DOMAIN m \cup {O, P} /\ m2[O] = g /\ m2[P] = b
                    /\ \A p \in DOMAIN m : m2[p] = m[p]
    BY DEF Enters
  <1>22. /\ Len(ids) \in Nat \ {0}
        /\ \A i \in 1..Len(ids) : /\ IsTask(ids[i]) /\ TaskOf(ids[i]).extent > 0
                                  /\ ids[i][1] = m[T].job /\ ids[i][2] = m[T].it
    BY DEF Named
  <1>23. /\ DOMAIN jb2 = DOMAIN jb \cup {ids[i] : i \in 1..Len(ids)}
        /\ \A J \in DOMAIN jb : jb2[J] = jb[J]
        /\ \A i \in 1..Len(ids) : ids[i] \notin DOMAIN jb =>
              LET r == jb2[ids[i]] IN
              /\ IsWork(r) /\ r.extent = TaskOf(ids[i]).extent /\ r.min = 0 /\ r.active = 0
              /\ r.exit = 0 /\ r.siblings = ids /\ r.done = {}
              /\ r.parent # NoParent => T[2] > 1 /\ r.parent = m[T].job
    BY DEF With, New
  <1>24. (\A J : ~(Listed(js, J) /\ Listed(ids, J))) =>
           Once(js2) /\ \A J : Listed(js2, J) <=> Listed(js, J) \/ Listed(ids, J)
    BY DEF ListsBoth
  <1> USE <1>21, <1>22, <1>23, <1>24
  <1>1. /\ Nested(m) /\ ResultOK(m) /\ BusyOK(m, jb) /\ CallOK(m, jb) /\ ForkOK(m, jb)
        /\ OwnedOK(m, jb) /\ WorkOK(m, jb) /\ ListOK(jb, js)
    BY DEF JobsOK
  <1>2. \A p \in DOMAIN m : /\ IsPos(p) /\ p # O /\ p # P /\ m2[p] = m[p]
                            /\ p[2] > 1 => Under(p) \in DOMAIN m /\ m2[Under(p)] = m[Under(p)]
    BY <1>1 DEF Nested, IsPos
  <1>3. /\ IsPos(O) /\ O[2] > 1 /\ O[2] = T[2] + 1 /\ Under(O) = T /\ T[2] \in Nat
        /\ IsPos(P) /\ P[2] > 1 /\ Under(P) = O /\ P # O
        /\ \A p \in DOMAIN m : p # T => Over(p) # O
        /\ \A p \in DOMAIN m : Over(p) # P
    <2>1. /\ IsPos(O) /\ O[2] > 1 /\ O[2] = T[2] + 1 /\ Under(O) = T /\ T[2] \in Nat
          /\ \A p \in DOMAIN m : p # T => Over(p) # O
      <3>1. IsPos(T) /\ T[2] \in Nat
        BY <1>2 DEF IsPos
      <3>2. IsPos(O) /\ O[2] > 1 /\ O[2] = T[2] + 1 /\ Under(O) = T
        BY <3>1, Neighbours
      <3>3. \A p \in DOMAIN m : p # T => Over(p) # O
        BY <1>2, <3>1, Neighbours
      <3> QED
        BY <3>1, <3>2, <3>3
    <2>2. IsPos(P) /\ P[2] > 1 /\ Under(P) = O /\ P # O
      BY <2>1, Neighbours
    <2>3. \A p \in DOMAIN m : Over(p) # P
      <3>1. /\ \A p \in DOMAIN m : IsPos(p) /\ p # O
            /\ IsPos(O) /\ P = Over(O)
        BY <1>2, <2>1
      <3> QED
        BY ONLY <3>1, Neighbours
    <2> QED
      BY <2>1, <2>2, <2>3
  <1>4. /\ m2[O].at \notin LoopAt /\ m2[O].at \notin BodyAt /\ ~Busy(m2[O]) /\ m2[O].at = "join"
        /\ m2[P].at \in LoopAt /\ m2[P].at \notin BodyAt /\ ~Busy(m2[P]) /\ m2[P].at # "join"
        /\ m[T].at \in BodyAt
    BY DEF LoopAt, BodyAt, Busy
  <1>5. 1 \in 1..Len(ids)
    OBVIOUS
  <1>6. ASSUME NEW i \in 1..Len(ids)
        PROVE  ids[i] \notin DOMAIN jb
    <2> SUFFICES ASSUME ids[i] \in DOMAIN jb PROVE FALSE
      OBVIOUS
    <2>1. PICK q \in DOMAIN m : m[q].at = "join" /\ \E k \in 1..Len(m[q].jobs) : m[q].jobs[k] = ids[i]
      BY <1>1 DEF OwnedOK
    <2>2. ids[i][1] = m[Under(q)].job /\ ids[i][2] = m[Under(q)].it
      BY <1>1, <2>1 DEF ForkOK
    <2>3. q[2] > 1 /\ IsPos(q) /\ Under(q) \in DOMAIN m /\ m[Under(q)].at \in BodyAt
      BY <1>1, <1>2, <2>1 DEF Nested, BodyAt
    <2>4. m[Under(q)].job = m[T].job /\ m[Under(q)].it = m[T].it
      BY <2>2
    <2>5. Under(q) = T
      BY <1>4, <2>3, <2>4, UniqueCalls
    <2>6. q = O
      BY <2>3, <2>5, Neighbours
    <2> QED
      BY <2>6
  <1>7. ASSUME NEW i \in 1..Len(ids)
        PROVE  /\ ids[i] \in DOMAIN jb2 /\ ids[i] \notin DOMAIN jb
               /\ IsWork(jb2[ids[i]]) /\ jb2[ids[i]].extent = TaskOf(ids[i]).extent
               /\ jb2[ids[i]].min = 0 /\ jb2[ids[i]].active = 0 /\ jb2[ids[i]].exit = 0
               /\ jb2[ids[i]].siblings = ids /\ jb2[ids[i]].done = {}
               /\ jb2[ids[i]].parent # NoParent => T[2] > 1 /\ jb2[ids[i]].parent = m[T].job
    <2>1. ids[i] \notin DOMAIN jb
      BY <1>6
    <2>2. ids[i] \in DOMAIN jb2 /\ New(jb2[ids[i]], ids[i], ids, parent)
      BY <2>1 DEF With
    <2>3. parent # NoParent => T[2] > 1 /\ parent = m[T].job
      OBVIOUS
    <2> QED
      BY ONLY <2>1, <2>2, <2>3 DEF New
  <1>8. Nested(m2)
    <2> SUFFICES ASSUME NEW p \in DOMAIN m2
                 PROVE  /\ p = <<p[1], p[2]>> /\ p[2] \in Nat \ {0}
                        /\ m2[p].at \in LoopAt \cup BodyAt \cup {"join"}
                        /\ p[2] > 1 => Under(p) \in DOMAIN m2
                        /\ m2[p].at \in BodyAt =>
                              IF p[2] = 1 THEN m2[p].job = <<p[1]>>
                              ELSE /\ IsTask(m2[p].job) /\ m2[Under(p)].at = "working"
                                   /\ m2[Under(p)].work = m2[p].job
                        /\ m2[p].at = "join" => /\ p[2] > 1 /\ m2[Under(p)].at = "body"
                                                /\ m2[p].i \in 1..Len(m2[p].jobs)
                        /\ m2[p].at \in LoopAt =>
                              IF m2[p].owned = NoJob THEN p[2] = 1
                              ELSE /\ p[2] > 1 /\ m2[Under(p)].at = "join"
                                   /\ m2[p].owned = m2[Under(p)].jobs[m2[Under(p)].i]
      BY DEF Nested
    <2>1. CASE p = O
      BY <1>3, <1>4, <1>5, <2>1 DEF IsPos
    <2>2. CASE p = P
      BY <1>3, <1>4, <2>2 DEF IsPos
    <2>3. CASE p \in DOMAIN m
      <3>1. IsPos(p) /\ (p[2] = 1 \/ p[2] > 1)
        BY <1>2, <2>3 DEF IsPos
      <3> QED
        BY <1>1, <1>2, <2>3, <3>1 DEF Nested, IsPos
    <2> QED
      BY <2>1, <2>2, <2>3
  <1>9. ResultOK(m2)
    BY <1>1, <1>2, <1>4 DEF ResultOK
  <1>10. BusyOK(m2, jb2)
    BY <1>1, <1>2, <1>4 DEF BusyOK
  <1>11. CallOK(m2, jb2)
    <2>1. \A p \in DOMAIN m2 : m2[p].at \in BodyAt /\ p[2] > 1 =>
             /\ p \in DOMAIN m /\ m2[p] = m[p] /\ m2[Under(p)] = m[Under(p)] /\ Under(p) \in DOMAIN m
             /\ Busy(m[Under(p)]) /\ m[Under(p)].work = m[p].job
      BY <1>1, <1>2, <1>4 DEF Nested, Busy
    <2>2. \A p \in DOMAIN m2 : m2[p].at \in BodyAt /\ p[2] > 1 => jb2[m[p].job] = jb[m[p].job]
      BY <1>1, <2>1 DEF BusyOK
    <2> QED
      BY <1>1, <2>1, <2>2 DEF CallOK
  <1>12. ForkOK(m2, jb2)
    <2> SUFFICES ASSUME NEW p \in DOMAIN m2, m2[p].at = "join"
                 PROVE  /\ m2[p].status \in {0, 1}
                        /\ \A i \in 1..Len(m2[p].jobs) :
                           LET J == m2[p].jobs[i] IN
                           /\ J \in DOMAIN jb2 /\ J[1] = m2[Under(p)].job /\ J[2] = m2[Under(p)].it
                           /\ jb2[J].siblings = m2[p].jobs
                           /\ jb2[J].parent # NoParent => p[2] > 2 /\ jb2[J].parent = m2[Under(p)].job
                           /\ i < m2[p].i => /\ Idle(jb2[J])
                                             /\ m2[p].status = 0 => jb2[J].done = All(J)
                           /\ i = m2[p].i /\ Over(p) \notin DOMAIN m2 => Idle(jb2[J])
      BY DEF ForkOK
    <2>1. CASE p = O
      <3>1. m2[p] = g /\ m2[Under(p)] = m[T] /\ Over(p) \in DOMAIN m2
        BY <1>3, <2>1
      <3>2. T[2] > 1 => p[2] > 2
        BY <1>3, <2>1
      <3>3. \A i \in 1..Len(ids) : ~(i < 1)
        OBVIOUS
      <3>4. m2[p].status = 0 /\ m2[p].jobs = ids /\ m2[p].i = 1
        BY <3>1
      <3>5. ASSUME NEW i \in 1..Len(ids)
            PROVE  /\ ids[i] \in DOMAIN jb2 /\ ids[i][1] = m[T].job /\ ids[i][2] = m[T].it
                   /\ jb2[ids[i]].siblings = ids
                   /\ jb2[ids[i]].parent # NoParent => p[2] > 2 /\ jb2[ids[i]].parent = m[T].job
                   /\ ~(i < 1)
        BY <1>7, <3>2, <3>3
      <3> QED
        BY ONLY <3>1, <3>4, <3>5
    <2>2. CASE p \in DOMAIN m
      <3>1. m2[p] = m[p] /\ m2[Under(p)] = m[Under(p)] /\ m[p].at = "join"
        BY <1>1, <1>2, <2>2 DEF Nested
      <3>2. Over(p) \notin DOMAIN m2 => Over(p) \notin DOMAIN m
        OBVIOUS
      <3> QED
        BY <1>1, <2>2, <3>1, <3>2 DEF ForkOK
    <2> QED
      BY <1>4, <2>1, <2>2
  <1>13. OwnedOK(m2, jb2)
    <2> SUFFICES ASSUME NEW J \in DOMAIN jb2
                 PROVE  \E p \in DOMAIN m2 : m2[p].at = "join" /\ \E i \in 1..Len(m2[p].jobs) :
                                                                     m2[p].jobs[i] = J
      BY DEF OwnedOK
    <2>1. CASE J \in DOMAIN jb
      BY <1>1, <1>2, <2>1 DEF OwnedOK
    <2>2. CASE J \notin DOMAIN jb
      <3>1. PICK i \in 1..Len(ids) : J = ids[i]
        BY <2>2
      <3> QED
        BY <3>1
    <2> QED
      BY <2>1, <2>2
  <1>14. ASSUME NEW J
         PROVE  On(m2, J) = On(m, J) /\ \A p \in On(m, J) : m2[p].min = m[p].min
    BY <1>2, <1>4 DEF On
  <1>15. WorkOK(m2, jb2)
    <2>1. WorkOK(m, jb) /\ \A J \in DOMAIN jb : jb2[J] = jb[J]
      BY <1>1
    <2>2. ASSUME NEW J \in DOMAIN jb2, J \notin DOMAIN jb
          PROVE  /\ IsTask(J) /\ IsWork(jb2[J])
                 /\ jb2[J].extent \in Nat /\ jb2[J].min \in Nat /\ jb2[J].exit \in {0, 1}
                 /\ jb2[J].min + jb2[J].extent = TaskOf(J).extent
                 /\ On(m2, J) = {} /\ jb2[J].active = 0 /\ jb2[J].min = 0 /\ jb2[J].done = {}
      <3>1. PICK i \in 1..Len(ids) : J = ids[i]
        BY <2>2
      <3>2. IsTask(J) /\ TaskOf(J).extent \in Nat
        BY <3>1, TaskAssumption DEF IsTask, TaskOf
      <3>3. On(m, J) = {}
        BY <1>1, <2>2 DEF BusyOK, On
      <3>4. /\ IsWork(jb2[J]) /\ jb2[J].extent = TaskOf(J).extent /\ jb2[J].min = 0
            /\ jb2[J].active = 0 /\ jb2[J].exit = 0 /\ jb2[J].done = {}
        BY <1>7, <3>1
      <3> QED
        BY <1>14, <3>2, <3>3, <3>4
    <2> SUFFICES ASSUME NEW J \in DOMAIN jb2
                 PROVE  /\ IsTask(J) /\ IsWork(jb2[J])
                        /\ jb2[J].extent \in Nat /\ jb2[J].min \in Nat /\ jb2[J].exit \in {0, 1}
                        /\ jb2[J].min + jb2[J].extent <= TaskOf(J).extent
                        /\ IsFiniteSet(On(m2, J)) /\ jb2[J].active = Cardinality(On(m2, J))
                        /\ IF Serial(J) THEN jb2[J].active <= 1
                           ELSE \A p, q \in On(m2, J) : m2[p].min = m2[q].min => p = q
                        /\ jb2[J].done \subseteq 0..jb2[J].min - 1
                        /\ jb2[J].exit = 0 =>
                              /\ jb2[J].min + jb2[J].extent = TaskOf(J).extent
                              /\ \A x \in 0..jb2[J].min - 1 :
                                    \/ x \in jb2[J].done
                                    \/ ~Serial(J) /\ \E p \in On(m2, J) : m2[p].min = x
      BY DEF WorkOK
    <2>3. CASE J \in DOMAIN jb
      BY ONLY <1>14, <2>1, <2>3 DEF WorkOK
    <2>4. CASE J \notin DOMAIN jb
      <3>1. jb2[J].min + jb2[J].extent <= TaskOf(J).extent /\ 0..jb2[J].min - 1 = {}
        BY <2>2, <2>4
      <3>2. IsFiniteSet({}) /\ Cardinality({}) = 0
        BY FS_EmptySet
      <3>3. IsFiniteSet(On(m2, J)) /\ jb2[J].active = Cardinality(On(m2, J))
        BY <2>2, <2>4, <3>2
      <3>4. IF Serial(J) THEN jb2[J].active <= 1
            ELSE \A p, q \in On(m2, J) : m2[p].min = m2[q].min => p = q
        BY <2>2, <2>4
      <3>5. jb2[J].done \subseteq 0..jb2[J].min - 1
        BY <2>2, <2>4
      <3> QED
        BY <2>2, <2>4, <3>1, <3>3, <3>4, <3>5
    <2> QED
      BY <2>3, <2>4
  <1>16. ListOK(jb2, js2)
    <2>1. \A J : Listed(ids, J) => J \notin DOMAIN jb
      BY <1>6 DEF Listed
    <2>2. Once(js2) /\ \A J : Listed(js2, J) <=> Listed(js, J) \/ Listed(ids, J)
      BY <1>1, <2>1 DEF ListOK
    <2> SUFFICES ASSUME NEW J
                 PROVE  Listed(js2, J) <=> /\ J \in DOMAIN jb2 /\ jb2[J].extent > 0
                                           /\ ~(Serial(J) /\ jb2[J].active > 0)
      BY <2>2 DEF ListOK
    <2>3. CASE J \in DOMAIN jb
      BY <1>1, <2>1, <2>2, <2>3 DEF ListOK
    <2>4. CASE J \notin DOMAIN jb /\ Listed(ids, J)
      <3>1. PICK i \in 1..Len(ids) : J = ids[i]
        BY <2>4 DEF Listed
      <3>2. J \in DOMAIN jb2 /\ jb2[J].extent > 0 /\ jb2[J].active = 0
        BY <1>7, <3>1
      <3> QED
        BY <2>2, <2>4, <3>2
    <2>5. CASE J \notin DOMAIN jb /\ ~Listed(ids, J)
      <3>1. ~Listed(js, J) /\ J \notin DOMAIN jb2
        BY <1>1, <2>5 DEF ListOK, Listed
      <3> QED
        BY <2>2, <2>5, <3>1
    <2> QED
      BY <2>3, <2>4, <2>5
  <1> QED
    BY <1>8, <1>9, <1>10, <1>11, <1>12, <1>13, <1>15, <1>16 DEF JobsOK
----------------------------------------------------------------------------
(* Stacks as functions from positions to frames *)

FMap(st) == [p \in UNION {{t} \X (1..Len(st[t])) : t \in Threads} |-> Fr(st[p[1]], p[2])]

Stacks(st) == \A t \in Threads : IsSeq(st[t])

\* The positions that there are, and the frames at them.
LEMMA MapAt ==
  ASSUME NEW st
  PROVE  /\ \A p : p \in DOMAIN FMap(st) <=> /\ p = <<p[1], p[2]>> /\ p[1] \in Threads
                                             /\ p[2] \in 1..Len(st[p[1]])
         /\ \A t \in Threads : \A d \in 1..Len(st[t]) :
               <<t, d>> \in DOMAIN FMap(st) /\ FMap(st)[<<t, d>>] = Fr(st[t], d)
  <1>1. DOMAIN FMap(st) = UNION {{t} \X (1..Len(st[t])) : t \in Threads}
    BY DEF FMap
  <1>2. \A p : p \in DOMAIN FMap(st) <=> \E t \in Threads : p \in {t} \X (1..Len(st[t]))
    BY <1>1
  <1>3. ASSUME NEW p
        PROVE  p \in DOMAIN FMap(st) <=> /\ p = <<p[1], p[2]>> /\ p[1] \in Threads
                                         /\ p[2] \in 1..Len(st[p[1]])
    <2>1. ASSUME NEW t \in Threads, p \in {t} \X (1..Len(st[t]))
          PROVE  p = <<p[1], p[2]>> /\ p[1] \in Threads /\ p[2] \in 1..Len(st[p[1]])
      BY <2>1
    <2>2. ASSUME p = <<p[1], p[2]>>, p[1] \in Threads, p[2] \in 1..Len(st[p[1]])
          PROVE  p \in {p[1]} \X (1..Len(st[p[1]]))
      BY <2>2
    <2> QED
      BY <1>2, <2>1, <2>2
  <1>4. ASSUME NEW t \in Threads, NEW d \in 1..Len(st[t])
        PROVE  <<t, d>> \in DOMAIN FMap(st) /\ FMap(st)[<<t, d>>] = Fr(st[t], d)
    <2>1. <<t, d>>[1] = t /\ <<t, d>>[2] = d
      OBVIOUS
    <2>2. <<t, d>> \in DOMAIN FMap(st)
      BY <1>3, <2>1
    <2> QED
      BY <1>1, <2>1, <2>2 DEF FMap
  <1> QED
    BY <1>3, <1>4

\* m2 differs from m above depth k of a thread, where it is the stack s of depth n.
MapStep(m, m2, t, k, n, s) ==
    /\ \A p : p \in DOMAIN m2 <=> \/ p \in DOMAIN m /\ ~(p[1] = t /\ p[2] > k)
                                  \/ \E d \in (k + 1)..n : p = <<t, d>>
    /\ \A p \in DOMAIN m : ~(p[1] = t /\ p[2] > k) => m2[p] = m[p]
    /\ \A d \in (k + 1)..n : m2[<<t, d>>] = Fr(s, d)

\* A change of one stack above depth k changes the frames there.
LEMMA MapKeeps ==
  ASSUME NEW st, Stacks(st), NEW st2, NEW t \in Threads, \A u \in Threads : u # t => st2[u] = st[u],
         NEW k \in Nat, NEW n \in Nat, Keeps(st2[t], st[t], k, n), k <= n, k <= Len(st[t])
  PROVE  MapStep(FMap(st), FMap(st2), t, k, n, st2[t])
  <1> DEFINE m == FMap(st)
             m2 == FMap(st2)
  <1> HIDE DEF m, m2
  <1>1. Len(st[t]) \in Nat /\ Len(st2[t]) = n /\ \A d \in 1..k : Fr(st2[t], d) = Fr(st[t], d)
    BY SeqTail DEF Stacks, Keeps
  <1>2. ASSUME NEW p
        PROVE  p \in DOMAIN m2 <=> \/ p \in DOMAIN m /\ ~(p[1] = t /\ p[2] > k)
                                   \/ \E d \in (k + 1)..n : p = <<t, d>>
    <2>1. /\ p \in DOMAIN m <=> /\ p = <<p[1], p[2]>> /\ p[1] \in Threads
                                /\ p[2] \in 1..Len(st[p[1]])
          /\ p \in DOMAIN m2 <=> /\ p = <<p[1], p[2]>> /\ p[1] \in Threads
                                 /\ p[2] \in 1..Len(st2[p[1]])
      BY MapAt DEF m, m2
    <2>2. CASE p[1] # t
      <3>1. \A d \in (k + 1)..n : p # <<t, d>>
        BY <2>2
      <3> QED
        BY <2>1, <2>2, <3>1
    <2>3. CASE p[1] = t
      <3>1. (\E d \in (k + 1)..n : p = <<t, d>>) <=> p = <<p[1], p[2]>> /\ p[2] \in (k + 1)..n
        BY <2>3
      <3>2. p[2] \in 1..n <=> (p[2] \in 1..Len(st[t]) /\ ~(p[2] > k)) \/ p[2] \in (k + 1)..n
        BY <1>1
      <3> QED
        BY <1>1, <2>1, <2>3, <3>1, <3>2
    <2> QED
      BY <2>2, <2>3
  <1>3. ASSUME NEW p \in DOMAIN m, ~(p[1] = t /\ p[2] > k)
        PROVE  m2[p] = m[p]
    <2>1. p = <<p[1], p[2]>> /\ p[1] \in Threads /\ p[2] \in 1..Len(st[p[1]])
      BY MapAt DEF m, m2
    <2>2. m[p] = Fr(st[p[1]], p[2])
      BY <2>1, MapAt DEF m, m2
    <2>3. CASE p[1] # t
      <3>1. st2[p[1]] = st[p[1]]
        BY <2>1, <2>3
      <3>2. m2[p] = Fr(st2[p[1]], p[2])
        BY <2>1, <3>1, MapAt DEF m, m2
      <3> QED
        BY <2>2, <3>1, <3>2
    <2>4. CASE p[1] = t
      <3>1. p[2] \in 1..k /\ p[2] \in 1..n
        BY <1>1, <1>3, <2>1, <2>4
      <3>2. m2[p] = Fr(st2[t], p[2])
        BY <1>1, <2>1, <2>4, <3>1, MapAt DEF m, m2
      <3> QED
        BY <1>1, <2>2, <2>4, <3>1, <3>2
    <2> QED
      BY <2>3, <2>4
  <1>4. ASSUME NEW d \in (k + 1)..n
        PROVE  m2[<<t, d>>] = Fr(st2[t], d)
    <2>1. d \in 1..Len(st2[t])
      BY <1>1
    <2> QED
      BY <2>1, MapAt DEF m, m2
  <1> QED
    BY <1>1, <1>2, <1>3, <1>4 DEF MapStep, m, m2

\* The position of the topmost frame.
LEMMA MapTop ==
  ASSUME NEW st, Stacks(st), NEW t \in Threads, st[t] # <<>>,
         NEW m, m = FMap(st), NEW T, T = <<t, Len(st[t])>>
  PROVE  /\ T \in DOMAIN m /\ Over(T) \notin DOMAIN m /\ m[T] = Head(st[t])
         /\ Over(T) = <<t, Len(st[t]) + 1>> /\ T[1] = t /\ T[2] = Len(st[t])
         /\ Len(st[t]) \in Nat \ {0}
  <1>1. Len(st[t]) \in Nat \ {0} /\ Head(st[t]) = Fr(st[t], Len(st[t]))
    BY FrOps DEF Stacks
  <1>2. Over(T) = <<t, Len(st[t]) + 1>> /\ T[1] = t /\ T[2] = Len(st[t])
    BY DEF Over
  <1>3. Len(st[t]) \in 1..Len(st[t]) /\ Len(st[t]) + 1 \notin 1..Len(st[t])
    BY <1>1
  <1>4. T \in DOMAIN m /\ m[T] = Head(st[t])
    BY <1>1, <1>3, MapAt
  <1>5. Over(T) \notin DOMAIN m
    BY <1>2, <1>3, MapAt
  <1> QED
    BY <1>1, <1>2, <1>4, <1>5

\* The frame on top goes on as g.
LEMMA MapSet ==
  ASSUME NEW st, Stacks(st), NEW t \in Threads, st[t] # <<>>, NEW g,
         NEW st2, st2[t] = <<g>> \o Tail(st[t]), \A u \in Threads : u # t => st2[u] = st[u]
  PROVE  Put(FMap(st), FMap(st2), <<t, Len(st[t])>>, g)
  <1> DEFINE n == Len(st[t])
             T == <<t, n>>
  <1>1. PICK m : m = FMap(st)
    OBVIOUS
  <1>2. PICK m2 : m2 = FMap(st2)
    OBVIOUS
  <1>3. n \in Nat \ {0} /\ T \in DOMAIN m
    BY <1>1, MapTop
  <1>4. Keeps(st2[t], st[t], n - 1, n) /\ Fr(st2[t], n) = g
    BY FrOps DEF Stacks
  <1>5. n - 1 \in Nat /\ n - 1 <= n /\ n - 1 <= n /\ (n - 1) + 1 = n
    <2> HIDE DEF n
    <2> QED
      BY <1>3
  <1>6. PICK k \in Nat : k = n - 1 /\ k <= n /\ k + 1 = n
    BY <1>5
  <1>11. MapStep(m, m2, t, k, n, st2[t])
    <2>1. Keeps(st2[t], st[t], k, n) /\ n \in Nat /\ k <= Len(st[t])
      BY <1>3, <1>4, <1>6
    <2> HIDE DEF n
    <2> QED
      BY <1>1, <1>2, <1>6, <2>1, MapKeeps
  <1> HIDE DEF n
  <1>7. \A p \in DOMAIN m : p[1] = t /\ p[2] > k => p = T
    <2>1. \A p \in DOMAIN m : p = <<p[1], p[2]>> /\ p[2] \in 1..Len(st[p[1]])
      BY <1>1, MapAt
    <2>2. \A p \in DOMAIN m : p[1] = t /\ p[2] > k => p[2] = n
      BY <1>3, <1>6, <2>1 DEF n
    <2> QED
      BY <2>1, <2>2
  <1>8. DOMAIN m2 = DOMAIN m \cup {T}
    <2>1. \A d : d \in (k + 1)..n <=> d = n
      BY <1>3, <1>6
    <2>2. \A p : (\E d \in (k + 1)..n : p = <<t, d>>) <=> p = T
      BY <2>1
    <2> HIDE DEF T
    <2>3. \A p : p \in DOMAIN m2 <=> p \in DOMAIN m
      BY <1>3, <1>7, <1>11, <2>2 DEF MapStep
    <2> QED
      BY <1>3, <2>3
  <1>9. m2[T] = g
    <2>1. n \in (k + 1)..n
      BY <1>3, <1>6
    <2> QED
      BY <1>4, <1>11, <2>1 DEF MapStep
  <1>10. \A p \in DOMAIN m : p # T => m2[p] = m[p]
    BY <1>7, <1>11 DEF MapStep
  <1> QED
    BY <1>1, <1>2, <1>8, <1>9, <1>10 DEF Put, n

\* The frame on top goes on as g, and calls b.
Calls2(m, m2, T, g, b) ==
    /\ DOMAIN m2 = DOMAIN m \cup {Over(T)} /\ m2[Over(T)] = b /\ m2[T] = g
    /\ \A p \in DOMAIN m : p # T => m2[p] = m[p]

\* The same from a change of the stack above depth k.
LEMMA MapPush ==
  ASSUME NEW st, Stacks(st), NEW t \in Threads, st[t] # <<>>, NEW g, NEW b,
         NEW st2, st2[t] = <<b, g>> \o Tail(st[t]), \A u \in Threads : u # t => st2[u] = st[u]
  PROVE  Calls2(FMap(st), FMap(st2), <<t, Len(st[t])>>, g, b)
  <1> DEFINE n == Len(st[t])
             T == <<t, n>>
  <1>1. PICK m : m = FMap(st)
    OBVIOUS
  <1>2. PICK m2 : m2 = FMap(st2)
    OBVIOUS
  <1>3. n \in Nat \ {0} /\ T \in DOMAIN m /\ Over(T) = <<t, n + 1>> /\ Over(T) \notin DOMAIN m
    BY <1>1, MapTop
  <1>4. Keeps(st2[t], st[t], n - 1, n + 1) /\ Fr(st2[t], n) = g /\ Fr(st2[t], n + 1) = b
    BY FrPush DEF Stacks
  <1>5. n - 1 \in Nat /\ n - 1 <= n /\ (n - 1) + 1 = n /\ n + 1 \in Nat /\ n - 1 <= n + 1
    <2> HIDE DEF n
    <2> QED
      BY <1>3
  <1>6. PICK k \in Nat : k = n - 1 /\ k <= n /\ k + 1 = n /\ k <= n + 1
    BY <1>5
  <1>12. PICK l \in Nat : l = n + 1 /\ k <= l
    BY <1>5, <1>6
  <1>11. MapStep(m, m2, t, k, l, st2[t])
    <2>1. Keeps(st2[t], st[t], k, l) /\ k <= Len(st[t])
      BY <1>3, <1>4, <1>6, <1>12
    <2> HIDE DEF n
    <2> QED
      BY <1>1, <1>2, <1>6, <1>12, <2>1, MapKeeps
  <1>7. \A p \in DOMAIN m : p[1] = t /\ p[2] > k => p = T
    <2>1. \A p \in DOMAIN m : p = <<p[1], p[2]>> /\ p[2] \in 1..Len(st[p[1]])
      BY <1>1, MapAt
    <2>2. \A p \in DOMAIN m : p[1] = t /\ p[2] > k => p[2] = n
      BY <1>3, <1>6, <2>1 DEF n
    <2> QED
      BY <2>1, <2>2
  <1> HIDE DEF n
  <1>8. DOMAIN m2 = DOMAIN m \cup {Over(T)}
    <2>1. \A d : d \in (k + 1)..l <=> d = n \/ d = n + 1
      BY <1>3, <1>6, <1>12
    <2>2. \A p : (\E d \in (k + 1)..l : p = <<t, d>>) <=> p = T \/ p = Over(T)
      BY <2>1, <1>3
    <2> HIDE DEF T
    <2>3. \A p : p \in DOMAIN m2 <=> p \in DOMAIN m \/ p = Over(T)
      BY <1>3, <1>7, <1>11, <2>2 DEF MapStep
    <2> QED
      BY <1>3, <2>3
  <1>9. m2[T] = g /\ m2[Over(T)] = b
    <2>1. n \in (k + 1)..l /\ n + 1 \in (k + 1)..l
      BY <1>3, <1>6, <1>12
    <2> QED
      BY <1>3, <1>4, <1>11, <2>1 DEF MapStep
  <1>10. \A p \in DOMAIN m : p # T => m2[p] = m[p]
    BY <1>7, <1>11 DEF MapStep
  <1> QED
    BY <1>1, <1>2, <1>8, <1>9, <1>10 DEF Calls2, n

\* A call is a change of the caller, then a frame on top of it.
LEMMA CallInTwo ==
  ASSUME NEW m, NEW m2, NEW T \in DOMAIN m, Over(T) \notin DOMAIN m, NEW g, NEW b,
         Calls2(m, m2, T, g, b)
  PROVE  \E m1 : Put(m, m1, T, g) /\ Put(m1, m2, Over(T), b)
  <1>1. PICK m1 : m1 = [p \in DOMAIN m |-> IF p = T THEN g ELSE m[p]]
    OBVIOUS
  <1>2. DOMAIN m1 = DOMAIN m /\ m1[T] = g /\ \A p \in DOMAIN m : p # T => m1[p] = m[p]
    BY <1>1
  <1>3. Put(m, m1, T, g)
    BY <1>2 DEF Put
  <1>4. Put(m1, m2, Over(T), b)
    BY <1>2 DEF Put, Calls2
  <1> QED
    BY <1>3, <1>4

\* The frame on top returns.
LEMMA MapPop ==
  ASSUME NEW st, Stacks(st), NEW t \in Threads, st[t] # <<>>,
         NEW st2, st2[t] = Tail(st[t]), \A u \in Threads : u # t => st2[u] = st[u]
  PROVE  Cut(FMap(st), FMap(st2), <<t, Len(st[t])>>)
  <1> DEFINE n == Len(st[t])
             T == <<t, n>>
  <1>1. PICK m : m = FMap(st)
    OBVIOUS
  <1>2. PICK m2 : m2 = FMap(st2)
    OBVIOUS
  <1>3. n \in Nat \ {0} /\ T \in DOMAIN m /\ T[1] = t /\ T[2] = n
    BY <1>1, MapTop
  <1>4. Keeps(st2[t], st[t], n - 1, n - 1)
    BY FrOps DEF Stacks
  <1>5. n - 1 \in Nat /\ n - 1 <= n /\ n > n - 1 /\ \A d \in (n - 1) + 1..n - 1 : FALSE
    <2> HIDE DEF n
    <2> QED
      BY <1>3
  <1>6. PICK k \in Nat : k = n - 1 /\ k <= n /\ k <= k /\ n > k /\ \A d \in (k + 1)..k : FALSE
    BY <1>5
  <1>11. MapStep(m, m2, t, k, k, st2[t])
    <2>1. Keeps(st2[t], st[t], k, k) /\ k <= Len(st[t])
      BY <1>3, <1>4, <1>6
    <2> HIDE DEF n
    <2> QED
      BY <1>1, <1>2, <1>6, <2>1, MapKeeps
  <1>7. \A p \in DOMAIN m : p[1] = t /\ p[2] > k <=> p = T
    <2>1. \A p \in DOMAIN m : p = <<p[1], p[2]>> /\ p[2] \in 1..Len(st[p[1]])
      BY <1>1, MapAt
    <2>2. \A p \in DOMAIN m : p[1] = t /\ p[2] > k => p[2] = n
      BY <1>3, <1>6, <2>1 DEF n
    <2> QED
      BY <1>3, <1>6, <2>1, <2>2
  <1> HIDE DEF n
  <1>8. DOMAIN m2 = DOMAIN m \ {T}
    <2>3. \A p : p \in DOMAIN m2 <=> p \in DOMAIN m /\ p # T
      <3> HIDE DEF T
      <3> QED
        BY <1>6, <1>7, <1>11 DEF MapStep
    <2> QED
      BY <2>3
  <1>10. \A p \in DOMAIN m2 : m2[p] = m[p]
    BY <1>7, <1>8, <1>11 DEF MapStep
  <1> QED
    BY <1>1, <1>2, <1>8, <1>10 DEF Cut, n

\* The frame on top returns, and its caller goes on as g.
Returns(m, m2, T, g) == \E m1 : Cut(m, m1, T) /\ Put(m1, m2, Under(T), g)

\* The same from a change of the two frames on top.
LEMMA MapReturn ==
  ASSUME NEW st, Stacks(st), NEW t \in Threads, Len(st[t]) > 1, NEW g,
         NEW st2, st2[t] = <<g>> \o Tail(Tail(st[t])), \A u \in Threads : u # t => st2[u] = st[u]
  PROVE  Returns(FMap(st), FMap(st2), <<t, Len(st[t])>>, g)
  <1>9. PICK T : T = <<t, Len(st[t])>>
    OBVIOUS
  <1>1. PICK r : r = [u \in Threads |-> IF u = t THEN Tail(st[t]) ELSE st[u]]
    OBVIOUS
  <1>2. r[t] = Tail(st[t]) /\ \A u \in Threads : u # t => r[u] = st[u]
    BY <1>1
  <1>3. /\ st[t] # <<>> /\ Len(st[t]) \in Nat /\ IsSeq(Tail(st[t]))
        /\ Len(Tail(st[t])) = Len(st[t]) - 1 /\ Tail(st[t]) # <<>>
    <2>1. IsSeq(st[t])
      BY DEF Stacks
    <2>2. Len(st[t]) \in Nat /\ (st[t] # <<>> <=> Len(st[t]) > 0)
      BY <2>1, SeqTail
    <2>3. st[t] # <<>>
      BY <2>2
    <2>4. IsSeq(Tail(st[t])) /\ Len(Tail(st[t])) = Len(st[t]) - 1
      BY <2>1, <2>3, SeqTail
    <2>5. Len(Tail(st[t])) > 0
      BY <2>2, <2>4
    <2>6. Tail(st[t]) # <<>>
      BY <2>4, <2>5, SeqTail
    <2> QED
      BY <2>2, <2>3, <2>4, <2>6
  <1>4. Stacks(r)
    BY <1>2, <1>3 DEF Stacks
  <1>5. Cut(FMap(st), FMap(r), T)
    BY <1>2, <1>3, <1>9, MapPop
  <1>6. Put(FMap(r), FMap(st2), <<t, Len(r[t])>>, g)
    <2>1. st2[t] = <<g>> \o Tail(r[t]) /\ r[t] # <<>> /\ \A u \in Threads : u # t => st2[u] = r[u]
      BY <1>2, <1>3
    <2> QED
      BY <1>4, <2>1, MapSet
  <1>7. Under(T) = <<t, Len(r[t])>>
    BY <1>2, <1>3, <1>9 DEF Under
  <1> QED
    BY <1>5, <1>6, <1>7, <1>9 DEF Returns

\* The caller is the second frame of the stack.
LEMMA MapCaller ==
  ASSUME NEW st, Stacks(st), NEW t \in Threads, Len(st[t]) > 1, NEW T, T = <<t, Len(st[t])>>
  PROVE  T[2] > 1 /\ Under(T) \in DOMAIN FMap(st) /\ FMap(st)[Under(T)] = st[t][2]
  <1>1. Len(st[t]) \in Nat
    BY SeqTail DEF Stacks
  <1>2. Len(st[t]) - 1 \in 1..Len(st[t]) /\ Under(T) = <<t, Len(st[t]) - 1>> /\ T[2] > 1
    BY <1>1 DEF Under
  <1>3. st[t][2] = Fr(st[t], Len(st[t]) - 1)
    BY FrReturn DEF Stacks
  <1>4. PICK d \in 1..Len(st[t]) : d = Len(st[t]) - 1
    BY <1>2
  <1>5. <<t, d>> \in DOMAIN FMap(st) /\ FMap(st)[<<t, d>>] = Fr(st[t], d)
    BY MapAt
  <1> QED
    BY <1>2, <1>3, <1>4, <1>5

\* Two frames are pushed.
LEMMA MapEnter ==
  ASSUME NEW st, Stacks(st), NEW t \in Threads, st[t] # <<>>, NEW g, NEW b,
         NEW st2, st2[t] = <<b, g>> \o st[t], \A u \in Threads : u # t => st2[u] = st[u]
  PROVE  Enters(FMap(st), FMap(st2), <<t, Len(st[t])>>, g, b)
  <1> DEFINE n == Len(st[t])
             T == <<t, n>>
  <1>1. PICK m : m = FMap(st)
    OBVIOUS
  <1>2. PICK m2 : m2 = FMap(st2)
    OBVIOUS
  <1>3. /\ n \in Nat \ {0} /\ T \in DOMAIN m /\ Over(T) = <<t, n + 1>> /\ Over(T) \notin DOMAIN m
        /\ Over(Over(T)) = <<t, (n + 1) + 1>>
    <2>1. n \in Nat \ {0} /\ T \in DOMAIN m /\ Over(T) = <<t, n + 1>> /\ Over(T) \notin DOMAIN m
      BY <1>1, MapTop
    <2> QED
      BY <2>1 DEF Over
  <1>4. Keeps(st2[t], st[t], n, n + 2) /\ Fr(st2[t], n + 1) = g /\ Fr(st2[t], n + 2) = b
    BY FrEnter DEF Stacks
  <1>12. PICK l \in Nat : l = n + 2 /\ n <= l /\ l = (n + 1) + 1 /\ n <= n
    BY <1>3
  <1>11. MapStep(m, m2, t, n, l, st2[t])
    <2>1. Keeps(st2[t], st[t], n, l) /\ n <= Len(st[t]) /\ n \in Nat
      BY <1>3, <1>4, <1>12
    <2> HIDE DEF n
    <2> QED
      BY <1>1, <1>2, <1>12, <2>1, MapKeeps
  <1>7. \A p \in DOMAIN m : ~(p[1] = t /\ p[2] > n)
    <2>1. \A p \in DOMAIN m : p = <<p[1], p[2]>> /\ p[2] \in 1..Len(st[p[1]])
      BY <1>1, MapAt
    <2> QED
      BY <1>3, <2>1
  <1> HIDE DEF n
  <1>8. DOMAIN m2 = DOMAIN m \cup {Over(T), Over(Over(T))}
    <2>1. \A d : d \in (n + 1)..l <=> d = n + 1 \/ d = (n + 1) + 1
      BY <1>3, <1>12
    <2>2. \A p : (\E d \in (n + 1)..l : p = <<t, d>>) <=> p = Over(T) \/ p = Over(Over(T))
      BY <2>1, <1>3
    <2> HIDE DEF T
    <2>3. \A p : p \in DOMAIN m2 <=> p \in DOMAIN m \/ p = Over(T) \/ p = Over(Over(T))
      BY <1>7, <1>11, <2>2 DEF MapStep
    <2> QED
      BY <2>3
  <1>9. m2[Over(T)] = g /\ m2[Over(Over(T))] = b
    <2>1. n + 1 \in (n + 1)..l /\ (n + 1) + 1 \in (n + 1)..l
      BY <1>3, <1>12
    <2>2. Fr(st2[t], (n + 1) + 1) = b
      BY <1>4, <1>12
    <2> QED
      BY <1>3, <1>4, <1>11, <2>1, <2>2 DEF MapStep
  <1>10. \A p \in DOMAIN m : m2[p] = m[p]
    BY <1>7, <1>11 DEF MapStep
  <1> QED
    BY <1>1, <1>2, <1>8, <1>9, <1>10 DEF Enters, n

\* m2 is m with the frames f of new threads.
Spawns(m, m2, f) ==
    \E N : /\ N \cap DOMAIN m = {} /\ DOMAIN m2 = DOMAIN m \cup N
           /\ \A p \in DOMAIN m : m2[p] = m[p]
           /\ \A p \in N : IsPos(p) /\ p[2] = 1 /\ m2[p] = f

\* Threads that had no stack start.
LEMMA MapThreads ==
  ASSUME NEW st, NEW st2, NEW f, NEW U \in SUBSET Threads,
         \A u \in U : Len(st[u]) = 0 /\ st2[u] = <<f>>,
         \A u \in Threads \ U : st2[u] = st[u]
  PROVE  Spawns(FMap(st), FMap(st2), f)
  <1> DEFINE N == {<<u, 1>> : u \in U}
             m == FMap(st)
             m2 == FMap(st2)
  <1>1. /\ \A p : p \in DOMAIN m <=> /\ p = <<p[1], p[2]>> /\ p[1] \in Threads
                                     /\ p[2] \in 1..Len(st[p[1]])
        /\ \A t \in Threads : \A d \in 1..Len(st[t]) : m[<<t, d>>] = Fr(st[t], d)
    BY MapAt
  <1>2. /\ \A p : p \in DOMAIN m2 <=> /\ p = <<p[1], p[2]>> /\ p[1] \in Threads
                                      /\ p[2] \in 1..Len(st2[p[1]])
        /\ \A t \in Threads : \A d \in 1..Len(st2[t]) : m2[<<t, d>>] = Fr(st2[t], d)
    BY MapAt
  <1> HIDE DEF m, m2
  <1>3. \A u \in U : Len(st2[u]) = 1 /\ Fr(st2[u], 1) = f
    <2>1. Len(<<f>>) = 1 /\ <<f>>[1] = f /\ 1 + 1 - 1 = 1
      OBVIOUS
    <2>2. Fr(<<f>>, 1) = f
      BY <2>1 DEF Fr
    <2> QED
      BY <2>1, <2>2
  <1>4. \A p : p \in N <=> p = <<p[1], p[2]>> /\ p[1] \in U /\ p[2] = 1
    OBVIOUS
  <1> HIDE DEF N
  <1>5. N \cap DOMAIN m = {}
    <2>1. \A u \in U : 1 \notin 1..Len(st[u])
      OBVIOUS
    <2> QED
      BY <1>1, <1>4, <2>1
  <1>6. ASSUME NEW p
        PROVE  p \in DOMAIN m2 <=> p \in DOMAIN m \/ p \in N
    <2>1. CASE p[1] \in U
      <3>1. \A d : d \in 1..1 <=> d = 1
        OBVIOUS
      <3>2. \A d : d \notin 1..0
        OBVIOUS
      <3> QED
        BY <1>1, <1>2, <1>3, <1>4, <2>1, <3>1, <3>2
    <2>2. CASE p[1] \notin U
      BY <1>1, <1>2, <1>4, <2>2
    <2> QED
      BY <2>1, <2>2
  <1>7. ASSUME NEW p \in DOMAIN m
        PROVE  m2[p] = m[p]
    <2>1. p = <<p[1], p[2]>> /\ p[1] \in Threads /\ p[2] \in 1..Len(st[p[1]])
      BY <1>1
    <2>2. p[1] \notin U
      BY <2>1
    <2>3. st2[p[1]] = st[p[1]]
      BY <2>1, <2>2
    <2> QED
      BY <1>1, <1>2, <2>1, <2>3
  <1>8. ASSUME NEW p \in N
        PROVE  IsPos(p) /\ p[2] = 1 /\ m2[p] = f
    <2>1. p = <<p[1], p[2]>> /\ p[1] \in U /\ p[2] = 1
      BY <1>4
    <2>2. p[1] \in Threads /\ 1 \in 1..Len(st2[p[1]])
      BY <1>3, <2>1
    <2>3. m2[p] = f
      BY <1>2, <1>3, <2>1, <2>2
    <2> QED
      BY <2>1, <2>3 DEF IsPos
  <1>9. DOMAIN m2 = DOMAIN m \cup N
    BY <1>6
  <1> QED
    BY <1>5, <1>7, <1>8, <1>9 DEF Spawns, m, m2
----------------------------------------------------------------------------
(* The steps of the threads *)

JobsInv == aborted \/ JobsOK(FMap(stack), job, wq.jobs)

\* The frame on top of the stack of t is at T.
IsTop(t, T) == /\ T = <<t, Len(stack[t])>> /\ T \in DOMAIN FMap(stack)
               /\ Over(T) \notin DOMAIN FMap(stack) /\ FMap(stack)[T] = Top(t)

\* Stacks of the right shape are sequences.
LEMMA ShapeStacks ==
  ASSUME ShapeInv
  PROVE  Stacks(stack)
  BY DEF ShapeInv, Shape, Stacks

\* There is such a position.
LEMMA TopAt ==
  ASSUME ShapeInv, NEW t \in Threads, stack[t] # <<>>
  PROVE  IsTop(t, <<t, Len(stack[t])>>)
  <1>1. PICK m : m = FMap(stack)
    OBVIOUS
  <1>2. PICK T : T = <<t, Len(stack[t])>>
    OBVIOUS
  <1>3. T \in DOMAIN m /\ Over(T) \notin DOMAIN m /\ m[T] = Head(stack[t])
    BY <1>1, <1>2, ShapeStacks, MapTop
  <1> QED
    BY <1>1, <1>2, <1>3 DEF IsTop, Top

\* The frame on top is changed.
LEMMA TopPut ==
  ASSUME ShapeInv, NEW t \in Threads, stack[t] # <<>>, NEW g, SetTop(t, g), NEW T, IsTop(t, T)
  PROVE  Put(FMap(stack), FMap(stack'), T, g)
  <1>1. stack' = [stack EXCEPT ![t] = <<g>> \o Tail(stack[t])]
    BY DEF SetTop
  <1>2. stack'[t] = <<g>> \o Tail(stack[t]) /\ \A u \in Threads : u # t => stack'[u] = stack[u]
    BY <1>1 DEF ShapeInv
  <1>3. Put(FMap(stack), FMap(stack'), <<t, Len(stack[t])>>, g)
    BY <1>2, ShapeStacks, MapSet
  <1> QED
    BY <1>3 DEF IsTop

\* The frame on top calls.
LEMMA TopPush ==
  ASSUME ShapeInv, NEW t \in Threads, stack[t] # <<>>, NEW g, NEW b, Push(t, g, b),
         NEW T, IsTop(t, T)
  PROVE  Calls2(FMap(stack), FMap(stack'), T, g, b)
  <1>1. stack' = [stack EXCEPT ![t] = <<b, g>> \o Tail(stack[t])]
    BY DEF Push
  <1>2. stack'[t] = <<b, g>> \o Tail(stack[t]) /\ \A u \in Threads : u # t => stack'[u] = stack[u]
    BY <1>1 DEF ShapeInv
  <1>3. Calls2(FMap(stack), FMap(stack'), <<t, Len(stack[t])>>, g, b)
    BY <1>2, ShapeStacks, MapPush
  <1> QED
    BY <1>3 DEF IsTop

\* The frame on top returns.
LEMMA TopReturn ==
  ASSUME ShapeInv, NEW t \in Threads, Len(stack[t]) > 1, NEW g,
         stack' = [stack EXCEPT ![t] = <<g>> \o Tail(Tail(stack[t]))], NEW T, IsTop(t, T)
  PROVE  /\ Returns(FMap(stack), FMap(stack'), T, g)
         /\ T[2] > 1 /\ Under(T) \in DOMAIN FMap(stack) /\ FMap(stack)[Under(T)] = stack[t][2]
  <1>1. /\ stack'[t] = <<g>> \o Tail(Tail(stack[t]))
        /\ \A u \in Threads : u # t => stack'[u] = stack[u]
    BY DEF ShapeInv
  <1>2. Returns(FMap(stack), FMap(stack'), <<t, Len(stack[t])>>, g)
    BY <1>1, ShapeStacks, MapReturn
  <1>3. T[2] > 1 /\ Under(T) \in DOMAIN FMap(stack) /\ FMap(stack)[Under(T)] = stack[t][2]
    BY ShapeStacks, MapCaller DEF IsTop
  <1> QED
    BY <1>2, <1>3 DEF IsTop

\* The job that a thread waits for is alive.
LEMMA OwnedAlive ==
  ASSUME NEW m, NEW jb, NEW js, JobsOK(m, jb, js),
         NEW T \in DOMAIN m, m[T].at \in LoopAt, m[T].owned # NoJob
  PROVE  m[T].owned \in DOMAIN jb
  <1>1. Nested(m) /\ ForkOK(m, jb)
    BY DEF JobsOK
  <1>2. T[2] > 1 /\ m[Under(T)].at = "join" /\ m[T].owned = m[Under(T)].jobs[m[Under(T)].i]
        /\ Under(T) \in DOMAIN m
    BY <1>1 DEF Nested
  <1>3. m[Under(T)].i \in 1..Len(m[Under(T)].jobs)
    BY <1>1, <1>2 DEF Nested
  <1> QED
    BY <1>1, <1>2, <1>3 DEF ForkOK

\* Jobs are records of the right fields.
Works(jb) == \A J \in DOMAIN jb : IsWork(jb[J]) /\ jb[J].exit \in {0, 1}

\* Nothing that matters to iterations has changed.
SameAll(jb, jb2) ==
    DOMAIN jb2 = DOMAIN jb /\ \A J \in DOMAIN jb : SameWork(jb[J], jb2[J])

\* The fields that do not matter.
LEMMA WorkExcept ==
  ASSUME NEW r, IsWork(r), r.exit \in {0, 1}, NEW x
  PROVE  /\ SameWork(r, r)
         /\ SameWork(r, [r EXCEPT !.next = x])
         /\ SameWork(r, [r EXCEPT !.sleeping = x])
         /\ SameWork(r, [r EXCEPT !.reserved = x])
         /\ x \in {0, 1} /\ (x = 0 => r.exit = 0) => SameWork(r, [r EXCEPT !.exit = x])
  <1>1. SameWork(r, r)
    BY DEF SameWork
  <1>2. SameWork(r, [r EXCEPT !.next = x])
    BY DEF SameWork, IsWork
  <1>3. SameWork(r, [r EXCEPT !.sleeping = x])
    BY DEF SameWork, IsWork
  <1>4. SameWork(r, [r EXCEPT !.reserved = x])
    BY DEF SameWork, IsWork
  <1>5. x \in {0, 1} /\ (x = 0 => r.exit = 0) => SameWork(r, [r EXCEPT !.exit = x])
    BY DEF SameWork, IsWork
  <1> QED
    BY <1>1, <1>2, <1>3, <1>4, <1>5

\* Nor after one change and another.
LEMMA SameTwice ==
  ASSUME NEW a, NEW b, NEW c, SameAll(a, b), SameAll(b, c)
  PROVE  SameAll(a, c)
  BY DEF SameAll, SameWork

\* Jobs stay records of the right fields.
LEMMA SameWorks ==
  ASSUME NEW a, NEW b, SameAll(a, b)
  PROVE  Works(b)
  BY DEF SameAll, SameWork, Works

\* make_runnable moves a job's next semaphore.
LEMMA NextSame ==
  ASSUME Works(job), NEW js
  PROVE  SameAll(job, WithNext(js))
  <1>1. DOMAIN WithNext(js) = DOMAIN job
    BY DEF WithNext
  <1>2. ASSUME NEW J \in DOMAIN job
        PROVE  SameWork(job[J], WithNext(js)[J])
    <2>1. WithNext(js)[J] = IF J \in js THEN [job[J] EXCEPT !.next = NextSemaphore(J)] ELSE job[J]
      BY DEF WithNext
    <2>2. PICK r : r = job[J]
      OBVIOUS
    <2>3. PICK x : x = NextSemaphore(J)
      OBVIOUS
    <2>4. SameWork(r, r) /\ SameWork(r, [r EXCEPT !.next = x])
      BY <2>2, WorkExcept DEF Works
    <2> QED
      BY <2>1, <2>2, <2>3, <2>4
  <1> QED
    BY <1>1, <1>2 DEF SameAll

\* An owner goes to sleep, or wakes.
LEMMA SleepingSame ==
  ASSUME NEW jb, Works(jb), NEW J, NEW x
  PROVE  SameAll(jb, [jb EXCEPT ![J].sleeping = x])
  <1>1. DOMAIN [jb EXCEPT ![J].sleeping = x] = DOMAIN jb
    OBVIOUS
  <1>2. ASSUME NEW K \in DOMAIN jb
        PROVE  SameWork(jb[K], [jb EXCEPT ![J].sleeping = x][K])
    <2>1. [jb EXCEPT ![J].sleeping = x][K] = IF K = J THEN [jb[K] EXCEPT !.sleeping = x] ELSE jb[K]
      OBVIOUS
    <2>2. PICK r : r = jb[K]
      OBVIOUS
    <2>3. SameWork(r, r) /\ SameWork(r, [r EXCEPT !.sleeping = x])
      BY <2>2, WorkExcept DEF Works
    <2> QED
      BY <2>1, <2>2, <2>3
  <1> QED
    BY <1>1, <1>2 DEF SameAll

\* Threads are reserved.
LEMMA ReserveSame ==
  ASSUME NEW jobs, Works(jobs), NEW queue, NEW J, NEW delta, Reserve(jobs, queue, J, delta)
  PROVE  SameAll(jobs, job')
  <1>1. PICK P : job' = jobs \/ job' = [jobs EXCEPT ![P].reserved = @ + delta]
    BY DEF Reserve
  <1>2. SameAll(jobs, jobs)
    BY WorkExcept DEF Works, SameAll
  <1>3. ASSUME job' = [jobs EXCEPT ![P].reserved = @ + delta], NEW K \in DOMAIN jobs
        PROVE  SameWork(jobs[K], job'[K])
    <2>1. PICK r : r = jobs[K]
      OBVIOUS
    <2>2. PICK x : x = r.reserved + delta
      OBVIOUS
    <2>3. job'[K] = IF K = P THEN [r EXCEPT !.reserved = x] ELSE r
      BY <1>3, <2>1, <2>2
    <2>4. SameWork(r, r) /\ SameWork(r, [r EXCEPT !.reserved = x])
      BY <2>1, WorkExcept DEF Works
    <2> QED
      BY <2>1, <2>3, <2>4
  <1> QED
    BY <1>1, <1>2, <1>3 DEF SameAll

\* The jobs that there are have the right fields.
LEMMA JobsWorks ==
  ASSUME NEW m, NEW jb, NEW js, JobsOK(m, jb, js)
  PROVE  Works(jb)
  BY DEF JobsOK, WorkOK, Works

\* Changes that do not matter keep the invariant.
LEMMA JobsSame ==
  ASSUME NEW m, NEW jb, NEW js, JobsOK(m, jb, js), NEW jb2, SameAll(jb, jb2)
  PROVE  JobsOK(m, jb2, js)
  BY SameJobs DEF SameAll

\* The frame on top of a stack: where it is, and what is known of a loop's frame.
LEMMA LoopHere ==
  ASSUME ShapeInv, JobsOK(FMap(stack), job, wq.jobs), NEW t \in Threads, stack[t] # <<>>,
         Top(t).at \in LoopAt, NEW T, IsTop(t, T)
  PROVE  /\ IsLoop(Top(t)) /\ Top(t).result \in {0, 1}
         /\ Top(t).owned # NoJob => Top(t).owned \in DOMAIN job
         /\ Busy(Top(t)) => IsTask(Top(t).work) /\ Top(t).work \in DOMAIN job
         /\ Busy(Top(t)) /\ Serial(Top(t).work) =>
               /\ Top(t).total \in Nat /\ Top(t).iters \in Nat
               /\ Top(t).total + Top(t).iters <= job[Top(t).work].extent
         /\ Busy(Top(t)) /\ ~Serial(Top(t).work) => Top(t).at = "working"
  <1>1. PICK m : m = FMap(stack)
    OBVIOUS
  <1>2. T \in DOMAIN m /\ m[T] = Top(t) /\ JobsOK(m, job, wq.jobs)
    BY <1>1 DEF IsTop
  <1>3. ResultOK(m) /\ BusyOK(m, job)
    BY <1>2 DEF JobsOK
  <1>4. IsLoop(Top(t)) /\ (Busy(Top(t)) => IsTask(Top(t).work))
    BY LoopTop DEF Busy
  <1>5. Top(t).result \in {0, 1}
    BY <1>2, <1>3 DEF ResultOK
  <1>6. Top(t).owned # NoJob => Top(t).owned \in DOMAIN job
    BY <1>2, OwnedAlive
  <1>7. Busy(Top(t)) =>
          /\ Top(t).work \in DOMAIN job
          /\ IF Serial(Top(t).work)
             THEN /\ Top(t).total \in Nat /\ Top(t).iters \in Nat
                  /\ Top(t).total + Top(t).iters <= job[Top(t).work].extent
             ELSE Top(t).at = "working"
    BY <1>2, <1>3 DEF BusyOK
  <1> QED
    BY <1>4, <1>5, <1>6, <1>7

\* The owner of a failed job takes it off the list.
LEMMA DropFailedJobs ==
  ASSUME ShapeInv, JobsOK(FMap(stack), job, wq.jobs), NEW t \in Threads, DropFailed(t)
  PROVE  JobsOK(FMap(stack'), job', wq'.jobs)
  <1> DEFINE J == Top(t).owned
  <1>1. /\ stack[t] # <<>> /\ Top(t).at = "scan" /\ J # NoJob
        /\ job[J].exit # 0 /\ job[J].active = 0 /\ stack' = stack
        /\ wq' = [wq EXCEPT !.jobs = WithoutJob(@, J)] /\ job' = [job EXCEPT ![J].extent = 0]
    BY DEF DropFailed, Scanning, At, Failed
  <1>2. PICK T : IsTop(t, T)
    BY <1>1, TopAt
  <1>3. J \in DOMAIN job
    BY <1>1, <1>2, LoopHere DEF LoopAt
  <1>4. wq'.jobs = WithoutJob(wq.jobs, J) /\ TaskSeq(wq.jobs) /\ Once(wq.jobs)
    BY <1>1 DEF ShapeInv, IsQueue, JobsOK, ListOK
  <1>5. /\ Once(WithoutJob(wq.jobs, J))
        /\ \A K : Listed(WithoutJob(wq.jobs, J), K) <=> Listed(wq.jobs, K) /\ K # J
    BY <1>4, ListWithout
  <1>6. /\ DOMAIN job' = DOMAIN job /\ job'[J] = [job[J] EXCEPT !.extent = 0]
        /\ \A K \in DOMAIN job : K # J => job'[K] = job[K]
    BY <1>1, <1>3
  <1>7. PICK jb2, js2 : jb2 = job' /\ js2 = wq'.jobs
    OBVIOUS
  <1>8. JobsOK(FMap(stack), jb2, js2)
    <2>1. Once(js2) /\ \A K : Listed(js2, K) <=> Listed(wq.jobs, K) /\ K # J
      BY <1>4, <1>5, <1>7
    <2>2. /\ DOMAIN jb2 = DOMAIN job /\ jb2[J] = [job[J] EXCEPT !.extent = 0]
          /\ \A K \in DOMAIN job : K # J => jb2[K] = job[K]
      BY <1>6, <1>7
    <2>3. J \in DOMAIN job /\ job[J].exit # 0 /\ job[J].active = 0
      BY <1>1, <1>3
    <2> HIDE DEF J
    <2> QED
      BY <2>1, <2>2, <2>3, JobDropped
  <1> QED
    BY <1>1, <1>7, <1>8

\* A child takes over the failure of its parent.
LEMMA InheritFailureJobs ==
  ASSUME ShapeInv, JobsOK(FMap(stack), job, wq.jobs), NEW t \in Threads, InheritFailure(t)
  PROVE  JobsOK(FMap(stack'), job', wq'.jobs)
  <1> DEFINE J == Top(t).owned
             P == Parent(J)
             m == FMap(stack)
  <1>1. /\ stack[t] # <<>> /\ Top(t).at = "scan" /\ J # NoJob /\ job[J].exit = 0
        /\ P # NoParent /\ job[P].exit # 0 /\ stack' = stack /\ wq' = wq
        /\ job' = [job EXCEPT ![J].exit = job[P].exit]
    BY DEF InheritFailure, Scanning, At, ParentFailed
  <1>2. PICK T : IsTop(t, T)
    BY <1>1, TopAt
  <1>3. J \in DOMAIN job
    BY <1>1, <1>2, LoopHere DEF LoopAt
  <1>4. job[P].exit \in {0, 1}
    <2>1. T \in DOMAIN m /\ m[T] = Top(t)
      BY <1>2 DEF IsTop
    <2>2. Nested(m) /\ BusyOK(m, job) /\ ForkOK(m, job) /\ WorkOK(m, job)
      BY DEF JobsOK
    <2> HIDE DEF m
    <2>3. /\ Under(T) \in DOMAIN m /\ m[Under(T)].at = "join"
          /\ J = m[Under(T)].jobs[m[Under(T)].i]
      BY <1>1, <2>1, <2>2 DEF Nested, LoopAt
    <2>4. /\ m[Under(T)].i \in 1..Len(m[Under(T)].jobs) /\ m[Under(Under(T))].at = "body"
          /\ Under(Under(T)) \in DOMAIN m /\ IsPos(Under(T)) /\ IsPos(Under(Under(T)))
      BY <2>2, <2>3 DEF Nested, IsPos
    <2>5. job[J].parent # NoParent => /\ Under(T)[2] > 2
                                      /\ job[J].parent = m[Under(Under(T))].job
      BY <2>2, <2>3, <2>4 DEF ForkOK
    <2>6. Under(T)[2] > 2 /\ P = m[Under(Under(T))].job
      BY <1>1, <2>5 DEF Parent
    <2>7. Under(Under(T))[2] > 1
      BY <2>4, <2>6 DEF Under, IsPos
    <2>8. /\ Under(Under(Under(T))) \in DOMAIN m /\ m[Under(Under(Under(T)))].at = "working"
          /\ m[Under(Under(Under(T)))].work = P
      BY <2>2, <2>4, <2>6, <2>7 DEF Nested, BodyAt, IsPos
    <2>9. P \in DOMAIN job
      BY <2>2, <2>8 DEF BusyOK, Busy
    <2> QED
      BY <2>2, <2>9 DEF WorkOK
  <1>5. Works(job)
    BY JobsWorks
  <1>6. SameAll(job, job')
    <2>1. PICK x : x = job[P].exit
      OBVIOUS
    <2>2. ASSUME NEW K \in DOMAIN job
          PROVE  SameWork(job[K], job'[K])
      <3>1. job'[K] = IF K = J THEN [job[K] EXCEPT !.exit = x] ELSE job[K]
        BY <1>1, <2>1
      <3>2. PICK r : r = job[K]
        OBVIOUS
      <3>3. IsWork(r) /\ r.exit \in {0, 1}
        BY <1>5, <3>2 DEF Works
      <3>4. SameWork(r, r) /\ (x \in {0, 1} /\ (x = 0 => r.exit = 0) => SameWork(r, [r EXCEPT !.exit = x]))
        BY <3>3, WorkExcept
      <3> QED
        BY <1>1, <1>4, <2>1, <3>1, <3>2, <3>4
    <2>3. DOMAIN job' = DOMAIN job
      BY <1>1
    <2> QED
      BY <2>2, <2>3 DEF SameAll
  <1>7. PICK jb2 : jb2 = job'
    OBVIOUS
  <1>8. JobsOK(FMap(stack), jb2, wq.jobs)
    BY <1>6, <1>7, JobsSame
  <1> QED
    BY <1>1, <1>7, <1>8

\* The stack of jobs is what it was if the fields changed are others.
LEMMA OtherFields ==
  ASSUME ShapeInv, NEW x, NEW y
  PROVE  /\ [wq EXCEPT !.owners_sleeping = x].jobs = wq.jobs
         /\ [wq EXCEPT !.workers_sleeping = x, !.a_team_size = y].jobs = wq.jobs
         /\ [wq EXCEPT !.threads_reserved = x].jobs = wq.jobs
         /\ [wq EXCEPT !.desired_threads_working = x].jobs = wq.jobs
         /\ [wq EXCEPT !.shutdown = x].jobs = wq.jobs
  BY DEF ShapeInv, IsQueue

\* A thread goes to another place of its loop without a job.
LEMMA LoopGoesJobs ==
  ASSUME ShapeInv, JobsOK(FMap(stack), job, wq.jobs), NEW t \in Threads, stack[t] # <<>>,
         Top(t).at \in LoopAt, ~Busy(Top(t)), NEW a \in LoopAt, a \notin {"claim", "working"},
         SetTop(t, [Top(t) EXCEPT !.at = a]), SameAll(job, job'), wq'.jobs = wq.jobs
  PROVE  JobsOK(FMap(stack'), job', wq'.jobs)
  <1>1. PICK T : IsTop(t, T)
    BY TopAt
  <1>2. IsLoop(Top(t)) /\ Top(t).result \in {0, 1}
    BY <1>1, LoopHere
  <1>3. PICK g : g = [Top(t) EXCEPT !.at = a]
    OBVIOUS
  <1>4. g = LoopFrame(a, Top(t).owned, Top(t).work, Top(t).min, Top(t).total, Top(t).iters,
                      Top(t).result)
    BY <1>2, <1>3, LoopFieldsOf
  <1>5. g.at = a /\ g.owned = Top(t).owned /\ g.result \in {0, 1} /\ ~Busy(g)
    BY <1>2, <1>4, LoopFields DEF Busy
  <1>6. Put(FMap(stack), FMap(stack'), T, g)
    BY <1>1, <1>3, TopPut
  <1>7. PICK m, m2 : m = FMap(stack) /\ m2 = FMap(stack')
    OBVIOUS
  <1>8. T \in DOMAIN m /\ Over(T) \notin DOMAIN m /\ m[T] = Top(t)
    BY <1>1, <1>7 DEF IsTop
  <1>9. JobsOK(m2, job, wq.jobs)
    BY <1>5, <1>6, <1>7, <1>8, LoopMoves
  <1>10. PICK jb2 : jb2 = job'
    OBVIOUS
  <1>11. JobsOK(m2, jb2, wq.jobs)
    BY <1>9, <1>10, JobsSame
  <1> QED
    BY <1>7, <1>10, <1>11

\* A thread that finds no job goes to sleep.
LEMMA SleepJobs ==
  ASSUME ShapeInv, JobsOK(FMap(stack), job, wq.jobs), NEW t \in Threads, Sleep(t)
  PROVE  JobsOK(FMap(stack'), job', wq'.jobs)
  <1> DEFINE f == Top(t)
             js == Considered(f.owned)
  <1>1. PICK c : /\ c \in {"owners", "a_team", "b_team"}
                 /\ SetTop(t, [f EXCEPT !.at = c])
                 /\ wq' = IF c = "owners" THEN [wq EXCEPT !.owners_sleeping = @ + 1]
                          ELSE [wq EXCEPT !.workers_sleeping = @ + 1,
                                          !.a_team_size = IF c = "b_team" THEN @ - 1 ELSE @]
    BY DEF Sleep
  <1>2. /\ stack[t] # <<>> /\ f.at = "scan"
        /\ job' = IF f.owned = NoJob THEN WithNext(js)
                  ELSE [WithNext(js) EXCEPT ![f.owned].sleeping = TRUE]
    BY DEF Sleep, Searching, Scanning, At
  <1>3. wq'.jobs = wq.jobs
    BY <1>1, OtherFields
  <1>4. Works(job)
    BY JobsWorks
  <1>5. SameAll(job, WithNext(js)) /\ Works(WithNext(js))
    BY <1>4, NextSame, SameWorks
  <1>6. SameAll(WithNext(js), [WithNext(js) EXCEPT ![f.owned].sleeping = TRUE])
    BY <1>5, SleepingSame
  <1>7. SameAll(job, job')
    BY <1>2, <1>5, <1>6, SameTwice
  <1> HIDE DEF f, js
  <1>8. c \in LoopAt /\ c \notin {"claim", "working"} /\ f.at \in LoopAt /\ ~Busy(f)
    BY <1>1, <1>2 DEF LoopAt, Busy
  <1> QED
    BY <1>1, <1>2, <1>3, <1>7, <1>8, LoopGoesJobs DEF f

\* A thread starts, or returns from a wait.
LEMMA WakeJobs ==
  ASSUME ShapeInv, JobsOK(FMap(stack), job, wq.jobs), NEW t \in Threads, Wake(t)
  PROVE  JobsOK(FMap(stack'), job', wq'.jobs)
  <1> DEFINE f == Top(t)
  <1>1. /\ stack[t] # <<>> /\ f.at \in {"start", "owners", "a_team", "b_team"}
        /\ SetTop(t, [f EXCEPT !.at = "scan"])
        /\ \/ job' = job
           \/ job' = [job EXCEPT ![f.owned].sleeping = FALSE]
        /\ \/ wq' = wq \/ wq' = [wq EXCEPT !.owners_sleeping = @ - 1]
           \/ wq' = WorkerBack(f.at)
    BY DEF Wake
  <1>2. wq'.jobs = wq.jobs
    <2>1. [wq EXCEPT !.owners_sleeping = @ - 1].jobs = wq.jobs
      BY OtherFields
    <2>2. WorkerBack(f.at).jobs = wq.jobs
      BY DEF WorkerBack, ShapeInv, IsQueue
    <2> QED
      BY <1>1, <2>1, <2>2
  <1>3. Works(job)
    BY JobsWorks
  <1>4. SameAll(job, job')
    <2>1. SameAll(job, job)
      BY <1>3, WorkExcept DEF Works, SameAll
    <2>2. SameAll(job, [job EXCEPT ![f.owned].sleeping = FALSE])
      BY <1>3, SleepingSame
    <2> QED
      BY <1>1, <2>1, <2>2
  <1>5. "scan" \in LoopAt /\ f.at \in LoopAt /\ ~Busy(f)
    BY <1>1 DEF LoopAt, Busy
  <1> QED
    BY <1>1, <1>2, <1>4, <1>5, LoopGoesJobs

\* A serial job claims one more iteration of those that it has left.
LEMMA ClaimJobs ==
  ASSUME ShapeInv, JobsOK(FMap(stack), job, wq.jobs), NEW t \in Threads, Claim(t)
  PROVE  JobsOK(FMap(stack'), job', wq'.jobs)
  <1> DEFINE f == Top(t)
  <1>1. /\ stack[t] # <<>> /\ f.at = "claim" /\ job[f.work].extent - f.total > f.iters
        /\ SetTop(t, [f EXCEPT !.iters = @ + 1]) /\ job' = WithNext({f.work}) /\ wq' = wq
    BY DEF Claim, At
  <1>2. PICK T : IsTop(t, T)
    BY <1>1, TopAt
  <1>3. Busy(f) /\ f.at \in LoopAt
    BY <1>1 DEF Busy, LoopAt
  <1>4. /\ IsLoop(f) /\ f.result \in {0, 1} /\ f.work \in DOMAIN job /\ Serial(f.work)
        /\ f.total \in Nat /\ f.iters \in Nat
    BY <1>1, <1>2, <1>3, LoopHere
  <1>5. job[f.work].extent \in Nat
    BY <1>4 DEF JobsOK, WorkOK
  <1>6. f.total + (f.iters + 1) <= job[f.work].extent /\ f.iters + 1 \in Nat
    <2>1. PICK a, b, e : a = f.total /\ b = f.iters /\ e = job[f.work].extent
      OBVIOUS
    <2>2. a \in Nat /\ b \in Nat /\ e \in Nat /\ e - a > b
      BY <1>1, <1>4, <1>5, <2>1
    <2>3. a + (b + 1) <= e /\ b + 1 \in Nat
      BY <2>2
    <2> QED
      BY <2>1, <2>3
  <1>7. PICK g : g = [f EXCEPT !.iters = f.iters + 1]
    OBVIOUS
  <1>8. g = LoopFrame(f.at, f.owned, f.work, f.min, f.total, f.iters + 1, f.result)
    BY <1>4, <1>7, LoopFieldsOf
  <1>9. Put(FMap(stack), FMap(stack'), T, g)
    BY <1>1, <1>2, <1>7, TopPut
  <1> HIDE DEF f
  <1>10. /\ g.at = f.at /\ g.owned = f.owned /\ g.work = f.work /\ g.min = f.min
         /\ g.total = f.total /\ g.iters = f.iters + 1 /\ g.result = f.result
    BY <1>8, LoopFields
  <1>11. PICK m, m2 : m = FMap(stack) /\ m2 = FMap(stack')
    OBVIOUS
  <1>12. T \in DOMAIN m /\ Over(T) \notin DOMAIN m /\ m[T] = f
    BY <1>2, <1>11 DEF IsTop, f
  <1>13. JobsOK(m2, job, wq.jobs)
    <2>1. JobsOK(m, job, wq.jobs) /\ Put(m, m2, T, g)
      BY <1>9, <1>11
    <2>2. Busy(g) /\ g.at \in LoopAt /\ m[T].at \in LoopAt
      BY <1>3, <1>10, <1>12 DEF Busy
    <2>3. /\ g.work = m[T].work /\ g.min = m[T].min /\ Serial(g.work) /\ g.total \in Nat
          /\ g.iters \in Nat /\ g.total + g.iters <= job[g.work].extent /\ g.owned = m[T].owned
          /\ g.result \in {0, 1} /\ Busy(m[T])
      BY <1>3, <1>4, <1>6, <1>10, <1>12
    <2> QED
      BY <1>12, <2>1, <2>2, <2>3, LoopMoves
  <1>14. PICK jb2 : jb2 = job'
    OBVIOUS
  <1>15. SameAll(job, jb2)
    BY <1>1, <1>14, JobsWorks, NextSame
  <1>16. JobsOK(m2, jb2, wq.jobs)
    BY <1>13, <1>15, JobsSame
  <1> QED
    BY <1>1, <1>11, <1>14, <1>16

\* It runs the iterations it has claimed, those that come next.
LEMMA RunClaimedJobs ==
  ASSUME ShapeInv, JobsOK(FMap(stack), job, wq.jobs), NEW t \in Threads, RunClaimed(t)
  PROVE  JobsOK(FMap(stack'), job', wq'.jobs)
  <1> DEFINE f == Top(t)
             b == Body(f.work, NextIteration(f), f.iters - 1)
  <1>1. /\ stack[t] # <<>> /\ f.at = "claim" /\ wq' = wq
        /\ job' = WithNext({f.work}) \/ job' = job
        /\ \/ SetTop(t, [f EXCEPT !.at = "working"])
           \/ f.iters # 0 /\ Push(t, [f EXCEPT !.at = "working"], b)
    BY DEF RunClaimed, At
  <1>2. PICK T : IsTop(t, T)
    BY <1>1, TopAt
  <1>3. Busy(f) /\ f.at \in LoopAt
    BY <1>1 DEF Busy, LoopAt
  <1>4. /\ IsLoop(f) /\ f.result \in {0, 1} /\ f.work \in DOMAIN job /\ Serial(f.work)
        /\ f.total \in Nat /\ f.iters \in Nat /\ f.total + f.iters <= job[f.work].extent
    BY <1>1, <1>2, <1>3, LoopHere
  <1>5. job[f.work].min \in Nat
    BY <1>4 DEF JobsOK, WorkOK
  <1>6. PICK g : g = [f EXCEPT !.at = "working"]
    OBVIOUS
  <1>7. g = LoopFrame("working", f.owned, f.work, f.min, f.total, f.iters, f.result)
    BY <1>4, <1>6, LoopFieldsOf
  <1>8. PICK m, m2 : m = FMap(stack) /\ m2 = FMap(stack')
    OBVIOUS
  <1>9. T \in DOMAIN m /\ Over(T) \notin DOMAIN m /\ m[T] = f
    BY <1>2, <1>8 DEF IsTop
  <1>10. Put(m, m2, T, g) \/ (f.iters # 0 /\ Calls2(m, m2, T, g, b))
    BY <1>1, <1>2, <1>6, <1>8, TopPut, TopPush
  <1>11. /\ b.at \in BodyAt /\ b.job = f.work /\ b.it = job[f.work].min + f.total
         /\ b.left = f.iters - 1
    BY DEF Body, BodyAt, NextIteration
  <1> HIDE DEF f, b
  <1>12. /\ g.at = "working" /\ g.owned = f.owned /\ g.work = f.work /\ g.min = f.min
         /\ g.total = f.total /\ g.iters = f.iters /\ g.result = f.result
    BY <1>7, LoopFields
  <1>13. ASSUME NEW m1, Put(m, m1, T, g)
         PROVE  JobsOK(m1, job, wq.jobs)
    <2>1. JobsOK(m, job, wq.jobs)
      BY <1>8
    <2>2. Busy(g) /\ g.at \in LoopAt /\ m[T].at \in LoopAt
      BY <1>3, <1>9, <1>12 DEF Busy, LoopAt
    <2>3. /\ g.work = m[T].work /\ g.min = m[T].min /\ Serial(g.work) /\ g.total \in Nat
          /\ g.iters \in Nat /\ g.total + g.iters <= job[g.work].extent /\ g.owned = m[T].owned
          /\ g.result \in {0, 1} /\ Busy(m[T])
      BY <1>3, <1>4, <1>9, <1>12
    <2> QED
      BY <1>9, <1>13, <2>1, <2>2, <2>3, LoopMoves
  <1>14. JobsOK(m2, job, wq.jobs)
    <2>1. CASE Put(m, m2, T, g)
      BY <1>13, <2>1
    <2>2. CASE f.iters # 0 /\ Calls2(m, m2, T, g, b)
      <3>1. PICK m1 : Put(m, m1, T, g) /\ Put(m1, m2, Over(T), b)
        BY <1>9, <2>2, CallInTwo
      <3>2. JobsOK(m1, job, wq.jobs)
        BY <1>13, <3>1
      <3>3. PICK O : O = Over(T)
        OBVIOUS
      <3>4. T \in DOMAIN m1 /\ O \notin DOMAIN m1 /\ m1[T] = g /\ Put(m1, m2, O, b)
        BY <1>9, <3>1, <3>3 DEF Put
      <3>5. /\ b.at \in BodyAt /\ b.job = m1[T].work /\ Serial(b.job) /\ m1[T].at = "working"
            /\ b.it \in Nat /\ b.left \in Nat /\ b.it >= job[b.job].min + m1[T].total
            /\ b.it + b.left = job[b.job].min + m1[T].total + m1[T].iters - 1
        <4>1. PICK i, n, k : i = job[f.work].min /\ n = f.total /\ k = f.iters
          OBVIOUS
        <4>2. i \in Nat /\ n \in Nat /\ k \in Nat /\ k # 0
          BY <1>4, <1>5, <2>2, <4>1
        <4>3. i + n \in Nat /\ k - 1 \in Nat /\ i + n >= i + n /\ (i + n) + (k - 1) = i + n + k - 1
          BY <4>2
        <4> QED
          BY <1>4, <1>11, <1>12, <3>4, <4>1, <4>3
      <3> QED
        BY <3>2, <3>3, <3>4, <3>5, CallPut
    <2> QED
      BY <1>10, <2>1, <2>2
  <1>15. PICK jb2 : jb2 = job'
    OBVIOUS
  <1>16. SameAll(job, jb2)
    <2>1. Works(job)
      BY JobsWorks
    <2>2. SameAll(job, job)
      BY <2>1, WorkExcept DEF Works, SameAll
    <2>3. SameAll(job, WithNext({f.work}))
      BY <2>1, NextSame
    <2> QED
      BY <1>1, <1>15, <2>2, <2>3 DEF f
  <1>17. JobsOK(m2, jb2, wq.jobs)
    BY <1>14, <1>16, JobsSame
  <1> QED
    BY <1>1, <1>8, <1>15, <1>17

\* A job is started on: all of it, or its next iteration.
StartedOn(jb, J) ==
    [jb EXCEPT ![J].active = @ + 1, ![J].min = IF Serial(J) THEN @ ELSE @ + 1,
               ![J].extent = IF Serial(J) THEN @ ELSE @ - 1]

\* What starting on a job does to its record.
LEMMA StartedFields ==
  ASSUME NEW jb, NEW J \in DOMAIN jb, IsWork(jb[J]),
         NEW j2, j2 = StartedOn(jb, J)
  PROVE  /\ DOMAIN j2 = DOMAIN jb /\ \A K \in DOMAIN jb : K # J => j2[K] = jb[K]
         /\ IsWork(j2[J]) /\ j2[J].active = jb[J].active + 1
         /\ j2[J].min = IF Serial(J) THEN jb[J].min ELSE jb[J].min + 1
         /\ j2[J].extent = IF Serial(J) THEN jb[J].extent ELSE jb[J].extent - 1
         /\ j2[J].exit = jb[J].exit /\ j2[J].siblings = jb[J].siblings
         /\ j2[J].parent = jb[J].parent /\ j2[J].done = jb[J].done
         /\ j2[J].reserved = jb[J].reserved /\ j2[J].next = jb[J].next
  <1>1. PICK a : a = [jb EXCEPT ![J].active = @ + 1]
    OBVIOUS
  <1>2. PICK b : b = [a EXCEPT ![J].min = IF Serial(J) THEN @ ELSE @ + 1]
    OBVIOUS
  <1>3. j2 = [b EXCEPT ![J].extent = IF Serial(J) THEN @ ELSE @ - 1]
    BY <1>1, <1>2 DEF StartedOn
  <1>4. PICK r : r = jb[J]
    OBVIOUS
  <1>5. DOMAIN a = DOMAIN jb /\ a[J] = [r EXCEPT !.active = r.active + 1]
        /\ \A K \in DOMAIN jb : K # J => a[K] = jb[K]
    BY ONLY <1>1, <1>4, J \in DOMAIN jb
  <1>6. PICK ra : ra = a[J]
    OBVIOUS
  <1>7. /\ IsWork(ra) /\ ra.active = r.active + 1 /\ ra.min = r.min /\ ra.extent = r.extent
        /\ ra.exit = r.exit /\ ra.siblings = r.siblings /\ ra.parent = r.parent /\ ra.done = r.done
        /\ ra.reserved = r.reserved /\ ra.next = r.next
    <2>1. ra = [r EXCEPT !.active = r.active + 1] /\ IsWork(r)
      BY <1>4, <1>5, <1>6
    <2> QED
      BY ONLY <2>1 DEF IsWork
  <1>8. DOMAIN b = DOMAIN jb /\ b[J] = [ra EXCEPT !.min = IF Serial(J) THEN ra.min ELSE ra.min + 1]
        /\ \A K \in DOMAIN jb : K # J => b[K] = jb[K]
    BY ONLY <1>2, <1>5, <1>6, J \in DOMAIN jb
  <1>9. PICK rb : rb = b[J]
    OBVIOUS
  <1>10. /\ IsWork(rb) /\ rb.active = r.active + 1 /\ rb.min = (IF Serial(J) THEN r.min ELSE r.min + 1)
         /\ rb.extent = r.extent /\ rb.exit = r.exit /\ rb.siblings = r.siblings
         /\ rb.parent = r.parent /\ rb.done = r.done
         /\ rb.reserved = r.reserved /\ rb.next = r.next
    <2>1. rb = [ra EXCEPT !.min = IF Serial(J) THEN ra.min ELSE ra.min + 1]
      BY <1>8, <1>9
    <2> QED
      BY ONLY <1>7, <2>1 DEF IsWork
  <1>11. DOMAIN j2 = DOMAIN jb /\ j2[J] = [rb EXCEPT !.extent = IF Serial(J) THEN rb.extent ELSE rb.extent - 1]
         /\ \A K \in DOMAIN jb : K # J => j2[K] = jb[K]
    BY ONLY <1>3, <1>8, <1>9, J \in DOMAIN jb
  <1>12. PICK rc : rc = j2[J]
    OBVIOUS
  <1>13. /\ IsWork(rc) /\ rc.active = r.active + 1 /\ rc.min = (IF Serial(J) THEN r.min ELSE r.min + 1)
         /\ rc.extent = (IF Serial(J) THEN r.extent ELSE r.extent - 1)
         /\ rc.exit = r.exit /\ rc.siblings = r.siblings
         /\ rc.parent = r.parent /\ rc.done = r.done
         /\ rc.reserved = r.reserved /\ rc.next = r.next
    <2>1. rc = [rb EXCEPT !.extent = IF Serial(J) THEN rb.extent ELSE rb.extent - 1]
      BY <1>11, <1>12
    <2> QED
      BY ONLY <1>10, <2>1 DEF IsWork
  <1> QED
    BY ONLY <1>4, <1>11, <1>12, <1>13

\* Reserving threads leaves the stack of jobs as it is.
LEMMA ReserveList ==
  ASSUME NEW jobs, NEW queue, IsQueue(queue), NEW J, NEW delta, Reserve(jobs, queue, J, delta)
  PROVE  wq'.jobs = queue.jobs
  BY DEF Reserve, IsQueue

\* What SameAll says, job by job, of a step that also works on J.
LEMMA SameBut ==
  ASSUME NEW a, NEW b, NEW c, NEW d, NEW J \in DOMAIN a, SameAll(a, b), DOMAIN c = DOMAIN b,
         \A K \in DOMAIN b : K # J => c[K] = b[K], SameAll(c, d)
  PROVE  /\ DOMAIN d = DOMAIN a /\ \A K \in DOMAIN a : K # J => SameWork(a[K], d[K])
         /\ SameWork(a[J], b[J]) /\ SameWork(c[J], d[J])
  BY DEF SameAll, SameWork

\* A thread starts on a job that it has found.
LEMMA StartJobs ==
  ASSUME ShapeInv, JobsOK(FMap(stack), job, wq.jobs), NEW t \in Threads, Start(t)
  PROVE  JobsOK(FMap(stack'), job', wq'.jobs)
  <1>1. PICK f : f = Top(t)
    OBVIOUS
  <1>2. PICK J : J = wq.jobs[Found(f.owned)]
    OBVIOUS
  <1>3. PICK jn : jn = WithNext(Considered(f.owned))
    OBVIOUS
  <1>4. PICK j2 : j2 = StartedOn(jn, J)
    OBVIOUS
  <1>5. PICK queue : queue = [wq EXCEPT !.jobs = IF Last(J) THEN WithoutJob(@, J) ELSE @]
    OBVIOUS
  <1>6. /\ stack[t] # <<>> /\ f.at = "scan" /\ Found(f.owned) # 0
        /\ Reserve(j2, queue, J, TaskOf(J).min_threads)
        /\ \/ Serial(J) /\ SetTop(t, [f EXCEPT !.at = "claim", !.work = J, !.iters = 1,
                                               !.total = 0, !.result = 0])
           \/ ~Serial(J) /\ Push(t, [f EXCEPT !.at = "working", !.work = J, !.min = job[J].min],
                                 Body(J, job[J].min, 0))
    BY <1>1, <1>2, <1>3, <1>4, <1>5 DEF Start, Searching, Scanning, At, Serial, StartedOn
  <1>7. /\ Found(f.owned) \in 1..Len(wq.jobs) /\ Found(f.owned) \in Candidates(f.owned)
        /\ TaskSeq(wq.jobs) /\ IsQueue(wq)
    BY <1>6, FoundJob DEF ShapeInv
  <1>8. Listed(wq.jobs, J) /\ (Serial(J) => job[J].active = 0)
    BY <1>2, <1>7 DEF Listed, Candidates, Eligible, Serial
  <1>9. /\ Once(wq.jobs) /\ J \in DOMAIN job /\ Works(job) /\ IsWork(job[J])
        /\ job[J].extent \in Nat /\ job[J].min \in Nat /\ job[J].active \in Nat
    <2>1. Once(wq.jobs) /\ J \in DOMAIN job /\ Works(job) /\ WorkOK(FMap(stack), job)
      BY <1>8, JobsWorks DEF JobsOK, ListOK
    <2>2. IsFiniteSet(On(FMap(stack), J)) /\ job[J].active = Cardinality(On(FMap(stack), J))
      BY <2>1 DEF WorkOK
    <2> QED
      BY <2>1, <2>2, FS_CardinalityType DEF WorkOK, Works
  <1>10. SameAll(job, jn) /\ Works(jn) /\ DOMAIN jn = DOMAIN job
    BY <1>3, <1>9, NextSame, SameWorks DEF SameAll
  <1>11. /\ DOMAIN j2 = DOMAIN jn /\ \A K \in DOMAIN jn : K # J => j2[K] = jn[K]
         /\ IsWork(j2[J]) /\ j2[J].active = jn[J].active + 1
         /\ j2[J].min = (IF Serial(J) THEN jn[J].min ELSE jn[J].min + 1)
         /\ j2[J].extent = (IF Serial(J) THEN jn[J].extent ELSE jn[J].extent - 1)
         /\ j2[J].exit = jn[J].exit /\ j2[J].siblings = jn[J].siblings
         /\ j2[J].parent = jn[J].parent /\ j2[J].done = jn[J].done
    <2>1. J \in DOMAIN jn /\ IsWork(jn[J])
      BY <1>9, <1>10 DEF Works
    <2> QED
      BY <1>4, <2>1, StartedFields
  <1>12. PICK jb2, js2 : jb2 = job' /\ js2 = wq'.jobs
    OBVIOUS
  <1>13. SameAll(j2, jb2)
    <2>1. Works(j2)
      BY <1>9, <1>10, <1>11 DEF Works
    <2>2. SameAll(j2, job')
      BY <1>6, <2>1, ReserveSame
    <2> QED
      BY <1>12, <2>2
  <1>14. /\ DOMAIN jb2 = DOMAIN job /\ \A K \in DOMAIN job : K # J => SameWork(job[K], jb2[K])
         /\ SameWork(job[J], jn[J]) /\ SameWork(j2[J], jb2[J])
    BY <1>9, <1>10, <1>11, <1>13, SameBut
  <1>15. jn[J].exit = job[J].exit /\ jb2[J].exit = j2[J].exit
    <2>1. jn[J].exit = job[J].exit
      <3>1. jn[J] = IF J \in Considered(f.owned) THEN [job[J] EXCEPT !.next = NextSemaphore(J)]
                    ELSE job[J]
        BY <1>3, <1>9 DEF WithNext
      <3>2. PICK x, r : x = NextSemaphore(J) /\ r = job[J]
        OBVIOUS
      <3>3. [r EXCEPT !.next = x].exit = r.exit
        BY <1>9, <3>2 DEF IsWork
      <3> QED
        BY <3>1, <3>2, <3>3
    <2>2. jb2[J].exit = j2[J].exit
      <3>1. PICK P, d : job' = j2 \/ job' = [j2 EXCEPT ![P].reserved = @ + d]
        BY <1>6 DEF Reserve
      <3>2. PICK x, r : x = j2[J].reserved + d /\ r = j2[J]
        OBVIOUS
      <3>3. J \in DOMAIN j2
        BY <1>9, <1>10, <1>11
      <3>4. jb2[J] = r \/ jb2[J] = [r EXCEPT !.reserved = x]
        BY <1>12, <3>1, <3>2, <3>3
      <3>5. [r EXCEPT !.reserved = x].exit = r.exit
        BY <1>11, <3>2 DEF IsWork
      <3> QED
        BY <3>2, <3>4, <3>5
    <2> QED
      BY <2>1, <2>2
  <1>16. /\ IsWork(jb2[J]) /\ jb2[J].active = job[J].active + 1
         /\ jb2[J].min = (IF Serial(J) THEN job[J].min ELSE job[J].min + 1)
         /\ jb2[J].extent = (IF Serial(J) THEN job[J].extent ELSE job[J].extent - 1)
         /\ jb2[J].exit = job[J].exit /\ jb2[J].siblings = job[J].siblings
         /\ jb2[J].parent = job[J].parent /\ jb2[J].done = job[J].done
    BY <1>11, <1>14, <1>15 DEF SameWork
  <1>17. js2 = IF Last(J) THEN WithoutJob(wq.jobs, J) ELSE wq.jobs
    <2>1. IsQueue(queue) /\ queue.jobs = IF Last(J) THEN WithoutJob(wq.jobs, J) ELSE wq.jobs
      BY <1>5, <1>7 DEF IsQueue
    <2> QED
      BY <1>6, <1>12, <2>1, ReserveList
  <1>18. /\ Once(js2)
         /\ \A K : Listed(js2, K) <=>
                     Listed(wq.jobs, K) /\ ~(K = J /\ (Serial(J) \/ job[J].extent = 1))
    <2>1. Last(J) <=> Serial(J) \/ job[J].extent = 1
      BY DEF Last, Serial
    <2>2. /\ Once(WithoutJob(wq.jobs, J))
          /\ \A K : Listed(WithoutJob(wq.jobs, J), K) <=> Listed(wq.jobs, K) /\ K # J
      BY <1>7, <1>9, ListWithout
    <2> QED
      BY <1>9, <1>17, <2>1, <2>2
  <1>19. PICK T : IsTop(t, T)
    BY <1>6, TopAt
  <1>20. PICK m, m2 : m = FMap(stack) /\ m2 = FMap(stack')
    OBVIOUS
  <1>21. /\ T \in DOMAIN m /\ Over(T) \notin DOMAIN m /\ m[T] = f /\ JobsOK(m, job, wq.jobs)
         /\ f.at \in LoopAt /\ ~Busy(f)
    BY <1>1, <1>6, <1>19, <1>20 DEF IsTop, LoopAt, Busy
  <1>22. IsLoop(f) /\ f.result \in {0, 1}
    BY <1>1, <1>6, <1>19, <1>21, LoopHere
  <1>23. ASSUME NEW g, g.at \in LoopAt, g.owned = f.owned, g.result \in {0, 1}, g.work = J,
                IF Serial(J) THEN g.at \in {"claim", "working"} /\ g.iters = 1 /\ g.total = 0
                ELSE g.at = "working" /\ g.min = job[J].min,
                NEW m1, Put(m, m1, T, g)
         PROVE  JobsOK(m1, jb2, js2)
    BY <1>8, <1>14, <1>16, <1>18, <1>21, <1>23, JobStarted
  <1>24. CASE Serial(J) /\ SetTop(t, [f EXCEPT !.at = "claim", !.work = J, !.iters = 1,
                                               !.total = 0, !.result = 0])
    <2>1. PICK g : g = [f EXCEPT !.at = "claim", !.work = J, !.iters = 1, !.total = 0, !.result = 0]
      OBVIOUS
    <2>2. g = LoopFrame("claim", f.owned, J, f.min, 0, 1, 0)
      BY <1>22, <2>1, LoopClaims
    <2>3. /\ g.at = "claim" /\ g.owned = f.owned /\ g.work = J /\ g.total = 0 /\ g.iters = 1
          /\ g.result = 0
      BY <2>2, LoopFields
    <2>4. Put(m, m2, T, g)
      BY <1>6, <1>19, <1>20, <1>24, <2>1, TopPut
    <2>5. JobsOK(m2, jb2, js2)
      BY <1>23, <1>24, <2>3, <2>4 DEF LoopAt
    <2> QED
      BY <1>12, <1>20, <2>5
  <1>25. CASE ~Serial(J) /\ Push(t, [f EXCEPT !.at = "working", !.work = J, !.min = job[J].min],
                                 Body(J, job[J].min, 0))
    <2>1. PICK g : g = [f EXCEPT !.at = "working", !.work = J, !.min = job[J].min]
      OBVIOUS
    <2>2. g = LoopFrame("working", f.owned, J, job[J].min, f.total, f.iters, f.result)
      BY <1>22, <2>1, LoopWorks
    <2>3. /\ g.at = "working" /\ g.owned = f.owned /\ g.work = J /\ g.min = job[J].min
          /\ g.result = f.result
      BY <2>2, LoopFields
    <2>4. PICK b : b = Body(J, job[J].min, 0)
      OBVIOUS
    <2>5. b.at \in BodyAt /\ b.job = J /\ b.it = job[J].min /\ b.left = 0
      BY <2>4 DEF Body, BodyAt
    <2>6. Calls2(m, m2, T, g, b)
      BY <1>6, <1>19, <1>20, <1>25, <2>1, <2>4, TopPush
    <2>7. PICK m1 : Put(m, m1, T, g) /\ Put(m1, m2, Over(T), b)
      BY <1>21, <2>6, CallInTwo
    <2>8. JobsOK(m1, jb2, js2)
      BY <1>22, <1>23, <1>25, <2>3, <2>7 DEF LoopAt
    <2>9. PICK O : O = Over(T)
      OBVIOUS
    <2>10. T \in DOMAIN m1 /\ O \notin DOMAIN m1 /\ m1[T] = g /\ Put(m1, m2, O, b)
      BY <1>21, <2>7, <2>9 DEF Put
    <2>11. JobsOK(m2, jb2, js2)
      BY <1>25, <2>3, <2>5, <2>8, <2>9, <2>10, CallPut
    <2> QED
      BY <1>12, <1>20, <2>11
  <1> QED
    BY <1>6, <1>24, <1>25

\* The account of what a thread has done.
FinishedWork(w, J, e, x, n, D) ==
    [w EXCEPT !.extent = e, !.exit = x, !.active = @ - 1,
              !.min = IF Serial(J) THEN @ + n ELSE @, !.done = @ \cup D]

\* What it does to the record.
LEMMA FinishedFields ==
  ASSUME NEW w, IsWork(w), NEW J, NEW e, NEW x, NEW n, NEW D,
         NEW v, v = FinishedWork(w, J, e, x, n, D)
  PROVE  /\ IsWork(v) /\ v.extent = e /\ v.exit = x /\ v.active = w.active - 1
         /\ v.min = IF Serial(J) THEN w.min + n ELSE w.min
         /\ v.siblings = w.siblings /\ v.parent = w.parent /\ v.done = w.done \cup D
         /\ v.reserved = w.reserved /\ v.next = w.next
  <1>1. PICK a : a = [w EXCEPT !.extent = e]
    OBVIOUS
  <1>2. PICK b : b = [a EXCEPT !.exit = x]
    OBVIOUS
  <1>3. PICK c : c = [b EXCEPT !.active = @ - 1]
    OBVIOUS
  <1>4. PICK d : d = [c EXCEPT !.min = IF Serial(J) THEN @ + n ELSE @]
    OBVIOUS
  <1>5. v = [d EXCEPT !.done = @ \cup D]
    BY <1>1, <1>2, <1>3, <1>4 DEF FinishedWork
  <1>6. /\ IsWork(a) /\ a.extent = e /\ a.exit = w.exit /\ a.active = w.active /\ a.min = w.min
        /\ a.siblings = w.siblings /\ a.parent = w.parent /\ a.done = w.done
        /\ a.reserved = w.reserved /\ a.next = w.next
    BY ONLY <1>1, IsWork(w) DEF IsWork
  <1>7. /\ IsWork(b) /\ b.extent = e /\ b.exit = x /\ b.active = w.active /\ b.min = w.min
        /\ b.siblings = w.siblings /\ b.parent = w.parent /\ b.done = w.done
        /\ b.reserved = w.reserved /\ b.next = w.next
    BY ONLY <1>2, <1>6 DEF IsWork
  <1>8. /\ IsWork(c) /\ c.extent = e /\ c.exit = x /\ c.active = w.active - 1 /\ c.min = w.min
        /\ c.siblings = w.siblings /\ c.parent = w.parent /\ c.done = w.done
        /\ c.reserved = w.reserved /\ c.next = w.next
    BY ONLY <1>3, <1>7 DEF IsWork
  <1>9. /\ IsWork(d) /\ d.extent = e /\ d.exit = x /\ d.active = w.active - 1
        /\ d.min = IF Serial(J) THEN w.min + n ELSE w.min
        /\ d.siblings = w.siblings /\ d.parent = w.parent /\ d.done = w.done
        /\ d.reserved = w.reserved /\ d.next = w.next
    BY ONLY <1>4, <1>8 DEF IsWork
  <1> QED
    BY ONLY <1>5, <1>9 DEF IsWork

\* Reserving threads for a job keeps what is known of its record.
LEMMA ReserveOne ==
  ASSUME NEW jobs, NEW queue, NEW J \in DOMAIN jobs, IsWork(jobs[J]), NEW K, NEW delta,
         Reserve(jobs, queue, K, delta)
  PROVE  /\ IsWork(job'[J]) /\ job'[J].extent = jobs[J].extent /\ job'[J].min = jobs[J].min
         /\ job'[J].active = jobs[J].active /\ job'[J].exit = jobs[J].exit
         /\ job'[J].siblings = jobs[J].siblings /\ job'[J].parent = jobs[J].parent
         /\ job'[J].done = jobs[J].done /\ job'[J].next = jobs[J].next
  <1>1. PICK P, d : job' = jobs \/ job' = [jobs EXCEPT ![P].reserved = @ + d]
    BY DEF Reserve
  <1>2. PICK x, r : x = jobs[J].reserved + d /\ r = jobs[J]
    OBVIOUS
  <1>3. PICK v : v = job'[J]
    OBVIOUS
  <1>4. v = r \/ v = [r EXCEPT !.reserved = x]
    BY <1>1, <1>2, <1>3
  <1>5. IsWork(r)
    BY <1>2
  <1>6. /\ IsWork(v) /\ v.extent = r.extent /\ v.min = r.min /\ v.active = r.active
        /\ v.exit = r.exit /\ v.siblings = r.siblings /\ v.parent = r.parent /\ v.done = r.done
        /\ v.next = r.next
    BY ONLY <1>4, <1>5 DEF IsWork
  <1> QED
    BY <1>2, <1>3, <1>6

\* A job is put back on the stack once.
LEMMA ListPut ==
  ASSUME NEW js, TaskSeq(js), Once(js), NEW J, IsTask(J), ~Listed(js, J)
  PROVE  Once(<<J>> \o js) /\ \A K : Listed(<<J>> \o js, K) <=> Listed(js, K) \/ K = J
  <1>1. TaskSeq(<<J>>)
    <2>1. <<J>> \in Seq({J}) /\ \A K \in {J} : IsTask(K)
      OBVIOUS
    <2> QED
      BY <2>1, TaskSeqOf
  <1>2. Once(<<J>>) /\ \A K : Listed(<<J>>, K) <=> K = J
    <2>1. Len(<<J>>) = 1 /\ <<J>>[1] = J /\ \A i : i \in 1..1 <=> i = 1
      OBVIOUS
    <2> QED
      BY <2>1 DEF Once, Listed
  <1>3. \A K : ~(Listed(<<J>>, K) /\ Listed(js, K))
    BY <1>2
  <1>4. PICK a : a = <<J>>
    OBVIOUS
  <1>5. Once(a \o js) /\ \A K : Listed(a \o js, K) <=> Listed(a, K) \/ Listed(js, K)
    BY <1>1, <1>2, <1>3, <1>4, ListJoined
  <1> QED
    BY <1>2, <1>4, <1>5

\* A thread accounts for what it has done.
LEMMA FinishJobs ==
  ASSUME ShapeInv, JobsOK(FMap(stack), job, wq.jobs), NEW t \in Threads, Finish(t)
  PROVE  JobsOK(FMap(stack'), job', wq'.jobs)
  <1>1. PICK f : f = Top(t)
    OBVIOUS
  <1>2. PICK J, r, n : J = f.work /\ r = f.result /\ n = f.total
    OBVIOUS
  <1>3. PICK e : e = IF ~Serial(J) THEN job[J].extent ELSE IF r # 0 THEN 0 ELSE job[J].extent - n
    OBVIOUS
  <1>4. PICK D : D = Iterations(f, r)
    OBVIOUS
  <1>5. PICK marked : marked = {K \in {job[J].siblings[i] : i \in 1..Len(job[J].siblings)} \ {J} :
                                    r # 0 /\ job[K].exit = 0}
    OBVIOUS
  <1>6. PICK j2 : j2 = [K \in DOMAIN job |->
                          IF K = J THEN FinishedWork(job[J], J, e, Outcome(J, r), n, D)
                          ELSE IF K \in marked THEN [job[K] EXCEPT !.exit = r] ELSE job[K]]
    OBVIOUS
  <1>7. PICK queue : queue = [wq EXCEPT !.jobs = IF Serial(J) /\ e > 0 THEN <<J>> \o @ ELSE @]
    OBVIOUS
  <1>8. /\ stack[t] # <<>> /\ f.at = "working"
        /\ Reserve(j2, queue, J, 0 - TaskOf(J).min_threads)
        /\ SetTop(t, [f EXCEPT !.at = "scan", !.work = NoJob, !.min = 0, !.result = 0, !.total = 0])
    BY <1>1, <1>2, <1>3, <1>4, <1>5, <1>6, <1>7 DEF Finish, At, Serial, FinishedWork
  <1>9. PICK T : IsTop(t, T)
    BY <1>8, TopAt
  <1>10. PICK m, m2 : m = FMap(stack) /\ m2 = FMap(stack')
    OBVIOUS
  <1>11. /\ T \in DOMAIN m /\ Over(T) \notin DOMAIN m /\ m[T] = f /\ JobsOK(m, job, wq.jobs)
         /\ f.at \in LoopAt /\ Busy(f)
    BY <1>1, <1>8, <1>9, <1>10 DEF IsTop, LoopAt, Busy
  <1>12. IsLoop(f) /\ f.result \in {0, 1} /\ IsTask(J) /\ J \in DOMAIN job
    BY <1>1, <1>2, <1>8, <1>9, <1>11, LoopHere
  <1>13. Works(job) /\ WorkOK(m, job) /\ ListOK(job, wq.jobs)
    BY <1>11, JobsWorks DEF JobsOK
  <1>14. PICK jb2, js2 : jb2 = job' /\ js2 = wq'.jobs
    OBVIOUS
  <1>15. /\ IsWork(j2[J]) /\ j2[J].extent = e /\ j2[J].exit = Outcome(J, r)
         /\ j2[J].active = job[J].active - 1
         /\ j2[J].min = (IF Serial(J) THEN job[J].min + n ELSE job[J].min)
         /\ j2[J].siblings = job[J].siblings /\ j2[J].parent = job[J].parent
         /\ j2[J].done = job[J].done \cup D
    <2>1. j2[J] = FinishedWork(job[J], J, e, Outcome(J, r), n, D)
      BY <1>6, <1>12
    <2>2. IsWork(job[J])
      BY <1>12, <1>13 DEF Works
    <2>3. PICK w, v, x : w = job[J] /\ v = j2[J] /\ x = Outcome(J, r)
      OBVIOUS
    <2>4. v = FinishedWork(w, J, e, x, n, D) /\ IsWork(w)
      BY <2>1, <2>2, <2>3
    <2>5. /\ IsWork(v) /\ v.extent = e /\ v.exit = x /\ v.active = w.active - 1
          /\ v.min = (IF Serial(J) THEN w.min + n ELSE w.min)
          /\ v.siblings = w.siblings /\ v.parent = w.parent /\ v.done = w.done \cup D
      BY ONLY <2>4, FinishedFields
    <2> QED
      BY <2>3, <2>5
  <1>16. DOMAIN j2 = DOMAIN job /\ \A K \in DOMAIN job : K # J => SameWork(job[K], j2[K])
    <2>1. DOMAIN j2 = DOMAIN job
      BY <1>6
    <2>2. ASSUME NEW K \in DOMAIN job, K # J
          PROVE  SameWork(job[K], j2[K])
      <3>1. PICK w : w = job[K]
        OBVIOUS
      <3>2. j2[K] = IF K \in marked THEN [w EXCEPT !.exit = r] ELSE w
        BY <1>6, <2>2, <3>1
      <3>3. /\ SameWork(w, w)
            /\ r \in {0, 1} /\ (r = 0 => w.exit = 0) => SameWork(w, [w EXCEPT !.exit = r])
        BY <1>13, <3>1, WorkExcept DEF Works
      <3>4. K \in marked => r # 0
        BY <1>5
      <3> QED
        BY <1>2, <1>12, <3>1, <3>2, <3>3, <3>4
    <2> QED
      BY <2>1, <2>2
  <1>17. /\ DOMAIN jb2 = DOMAIN job /\ \A K \in DOMAIN job : K # J => SameWork(job[K], jb2[K])
    <2>1. Works(j2)
      <3>1. Outcome(J, r) \in {0, 1}
        BY <1>2, <1>12, <1>13 DEF Outcome, Works
      <3> QED
        BY <1>15, <1>16, <3>1 DEF Works, SameWork
    <2>2. SameAll(j2, jb2)
      BY <1>8, <1>14, <2>1, ReserveSame
    <2> QED
      BY <1>16, <2>2 DEF SameAll, SameWork
  <1>18. /\ IsWork(jb2[J]) /\ jb2[J].extent = j2[J].extent /\ jb2[J].min = j2[J].min
         /\ jb2[J].active = j2[J].active /\ jb2[J].exit = j2[J].exit
         /\ jb2[J].siblings = j2[J].siblings /\ jb2[J].parent = j2[J].parent
         /\ jb2[J].done = j2[J].done
    <2>1. J \in DOMAIN j2
      BY <1>12, <1>16
    <2> QED
      BY <1>8, <1>14, <1>15, <2>1, ReserveOne
  <1>19. js2 = IF Serial(J) /\ e > 0 THEN <<J>> \o wq.jobs ELSE wq.jobs
    <2>1. IsQueue(wq)
      BY DEF ShapeInv
    <2>2. IsQueue(queue) /\ queue.jobs = IF Serial(J) /\ e > 0 THEN <<J>> \o wq.jobs ELSE wq.jobs
      BY <1>7, <2>1 DEF IsQueue
    <2> QED
      BY <1>8, <1>14, <2>2, ReserveList
  <1>20. Serial(J) => ~Listed(wq.jobs, J)
    <2>1. T \in On(m, J)
      BY <1>2, <1>11 DEF On
    <2>2. IsFiniteSet(On(m, J)) /\ job[J].active = Cardinality(On(m, J))
      BY <1>12, <1>13 DEF WorkOK
    <2>3. Cardinality(On(m, J)) \in Nat /\ Cardinality(On(m, J)) # 0
      BY <2>1, <2>2, FS_CardinalityType, FS_EmptySet
    <2>4. job[J].active > 0
      BY <2>2, <2>3
    <2> QED
      BY <1>13, <2>4 DEF ListOK
  <1>21. /\ Once(js2)
         /\ \A K : Listed(js2, K) <=> Listed(wq.jobs, K) \/ (K = J /\ Serial(J) /\ e > 0)
    <2>1. TaskSeq(wq.jobs) /\ Once(wq.jobs)
      BY <1>13 DEF ShapeInv, ListOK
    <2>2. Serial(J) => /\ Once(<<J>> \o wq.jobs)
                       /\ \A K : Listed(<<J>> \o wq.jobs, K) <=> Listed(wq.jobs, K) \/ K = J
      BY <1>12, <1>20, <2>1, ListPut
    <2> QED
      BY <1>19, <2>1, <2>2
  <1>22. PICK g : g = [f EXCEPT !.at = "scan", !.work = NoJob, !.min = 0, !.result = 0, !.total = 0]
    OBVIOUS
  <1>23. g = LoopFrame("scan", f.owned, NoJob, 0, 0, f.iters, 0)
    BY <1>12, <1>22, LoopFinishes
  <1>24. g.at = "scan" /\ g.owned = f.owned /\ g.result = 0
    BY <1>23, LoopFields
  <1>25. g.at \in LoopAt /\ ~Busy(g)
    BY <1>24 DEF LoopAt, Busy
  <1>26. Put(m, m2, T, g)
    BY <1>1, <1>8, <1>9, <1>10, <1>22, TopPut
  <1>27. D = IF Serial(J) THEN job[J].min..job[J].min + n - 1
             ELSE IF r = 0 THEN {m[T].min} ELSE {}
    BY <1>2, <1>4, <1>11 DEF Iterations, Serial
  <1>28. jb2[J].exit = IF r # 0 THEN r ELSE job[J].exit
    BY <1>15, <1>18 DEF Outcome
  <1>29. JobsOK(m2, jb2, js2)
    <2>1. /\ J = m[T].work /\ r = m[T].result /\ n = m[T].total /\ m[T].at = "working"
      BY <1>2, <1>8, <1>11
    <2>2. /\ IsWork(jb2[J]) /\ jb2[J].active = job[J].active - 1
          /\ jb2[J].min = (IF Serial(J) THEN job[J].min + n ELSE job[J].min)
          /\ jb2[J].extent = (IF ~Serial(J) THEN job[J].extent
                              ELSE IF r # 0 THEN 0 ELSE job[J].extent - n)
          /\ jb2[J].siblings = job[J].siblings /\ jb2[J].parent = job[J].parent
          /\ jb2[J].done = job[J].done \cup IF Serial(J) THEN job[J].min..job[J].min + n - 1
                                            ELSE IF r = 0 THEN {m[T].min} ELSE {}
      BY <1>3, <1>15, <1>18, <1>27
    <2>3. \A K : Listed(js2, K) <=>
                   Listed(wq.jobs, K) \/ (K = J /\ Serial(J) /\ jb2[J].extent > 0)
      BY <1>15, <1>18, <1>21
    <2>4. Once(js2)
      BY <1>21
    <2>5. g.owned = m[T].owned /\ g.result \in {0, 1}
      BY <1>11, <1>24
    <2> QED
      BY <1>11, <1>17, <1>25, <1>26, <1>28, <2>1, <2>2, <2>3, <2>4, <2>5, JobFinished
  <1> QED
    BY <1>10, <1>14, <1>29

\* A loop is left when the pool shuts down, or when the job waited for is done.
LEMMA LeaveJobs ==
  ASSUME ShapeInv, JobsOK(FMap(stack), job, wq.jobs), NEW t \in Threads, Leave(t)
  PROVE  JobsOK(FMap(stack'), job', wq'.jobs)
  <1>1. PICK f : f = Top(t)
    OBVIOUS
  <1>2. /\ stack[t] # <<>> /\ f.at = "scan" /\ wq' = wq /\ job' = job
        /\ IF f.owned = NoJob THEN stack' = [stack EXCEPT ![t] = <<>>]
           ELSE stack' = [stack EXCEPT ![t] = Tail(stack[t])] /\ ~Running(f.owned)
    BY <1>1 DEF Leave, Scanning, At, LoopDone
  <1>3. PICK T : IsTop(t, T)
    BY <1>2, TopAt
  <1>4. PICK m, m2 : m = FMap(stack) /\ m2 = FMap(stack')
    OBVIOUS
  <1>5. /\ T \in DOMAIN m /\ Over(T) \notin DOMAIN m /\ m[T] = f /\ JobsOK(m, job, wq.jobs)
        /\ f.at \in LoopAt /\ ~Busy(f) /\ T = <<t, Len(stack[t])>>
    BY <1>1, <1>2, <1>3, <1>4 DEF IsTop, LoopAt, Busy
  <1>6. f.owned # NoJob => f.owned \in DOMAIN job /\ Idle(job[f.owned])
    <2>1. f.owned # NoJob => f.owned \in DOMAIN job
      BY <1>5, OwnedAlive
    <2>2. ASSUME f.owned # NoJob
          PROVE  Idle(job[f.owned])
      <3>1. ~(job[f.owned].extent > 0) /\ ~(job[f.owned].active > 0)
        BY <1>2, <2>2 DEF Running
      <3>2. /\ job[f.owned].extent \in Nat /\ IsFiniteSet(On(m, f.owned))
            /\ job[f.owned].active = Cardinality(On(m, f.owned))
        BY <1>5, <2>1, <2>2 DEF JobsOK, WorkOK
      <3>3. job[f.owned].active \in Nat
        BY <3>2, FS_CardinalityType
      <3> QED
        BY <3>1, <3>2, <3>3 DEF Idle
    <2> QED
      BY <2>1, <2>2
  <1>7. f.owned = NoJob => Tail(stack[t]) = <<>>
    <2>1. IsSeq(stack[t])
      BY ShapeStacks DEF Stacks
    <2>2. IsSeq(Tail(stack[t])) /\ Len(Tail(stack[t])) = Len(stack[t]) - 1
      BY <1>2, <2>1, SeqTail
    <2>3. f.owned = NoJob => T[2] = 1
      BY <1>5 DEF JobsOK, Nested
    <2>4. f.owned = NoJob => Len(stack[t]) = 1
      BY <1>5, <2>3
    <2>5. Len(Tail(stack[t])) > 0 <=> Tail(stack[t]) # <<>>
      BY <2>2, SeqTail
    <2>6. ASSUME f.owned = NoJob
          PROVE  Tail(stack[t]) = <<>>
      <3>1. Len(Tail(stack[t])) = 0
        BY <2>2, <2>4, <2>6
      <3>2. ~(Len(Tail(stack[t])) > 0)
        <4>1. \A k : k = 0 => ~(k > 0)
          OBVIOUS
        <4> QED
          BY ONLY <3>1, <4>1, Zenon
      <3> QED
        BY <2>5, <3>2
    <2> QED
      BY <2>6
  <1>8. stack'[t] = Tail(stack[t]) /\ \A u \in Threads : u # t => stack'[u] = stack[u]
    BY <1>2, <1>7 DEF ShapeInv
  <1>9. Cut(m, m2, T)
    BY <1>2, <1>4, <1>5, <1>8, ShapeStacks, MapPop
  <1>10. JobsOK(m2, job, wq.jobs)
    BY <1>5, <1>6, <1>9, LoopLeaves
  <1> QED
    BY <1>2, <1>4, <1>10

\* A closure or a pipeline goes on within its iteration.
LEMMA BodyStays ==
  ASSUME NEW m, NEW jb, NEW js, JobsOK(m, jb, js),
         NEW T \in DOMAIN m, Over(T) \notin DOMAIN m, m[T].at \in BodyAt,
         NEW g, g.at \in BodyAt, g.job = m[T].job, g.it = m[T].it, g.left = m[T].left,
         NEW m2, Put(m, m2, T, g)
  PROVE  JobsOK(m2, jb, js)
  <1>1. CallOK(m, jb)
    BY DEF JobsOK
  <1>2. T[2] > 1 =>
           IF Serial(g.job)
           THEN LET h == m[Under(T)] IN
                /\ g.it \in Nat /\ g.left \in Nat /\ g.it >= jb[g.job].min + h.total
                /\ g.it + g.left = jb[g.job].min + h.total + h.iters - 1
           ELSE g.it = m[Under(T)].min /\ g.left = 0
    BY <1>1 DEF CallOK
  <1> QED
    BY <1>2, BodyMoves

\* The fields of the frame of a body that its next operation leaves as they are.
LEMMA BodyFields ==
  ASSUME NEW c, IsBody(c), NEW g, NEW a \in BodyAt,
         g = [c EXCEPT !.op = @ + 1] \/ g = [c EXCEPT !.at = a]
            \/ g = [c EXCEPT !.at = a, !.op = @ + 1]
  PROVE  g.at \in BodyAt /\ g.job = c.job /\ g.it = c.it /\ g.left = c.left
  <1>1. CASE g = [c EXCEPT !.op = @ + 1]
    BY <1>1 DEF IsBody
  <1>2. CASE g = [c EXCEPT !.at = a]
    BY <1>2 DEF IsBody
  <1>3. CASE g = [c EXCEPT !.at = a, !.op = @ + 1]
    <2>1. PICK d : d = [c EXCEPT !.at = a]
      OBVIOUS
    <2>2. g = [d EXCEPT !.op = @ + 1]
      BY <1>3, <2>1
    <2>3. IsBody(d) /\ d.at = a /\ d.job = c.job /\ d.it = c.it /\ d.left = c.left
      BY ONLY <2>1, IsBody(c), a \in BodyAt DEF IsBody
    <2> QED
      BY ONLY <2>2, <2>3 DEF IsBody
  <1> QED
    BY <1>1, <1>2, <1>3

\* So does a step that changes nothing else.
LEMMA BodyGoesJobs ==
  ASSUME ShapeInv, JobsOK(FMap(stack), job, wq.jobs), NEW t \in Threads, stack[t] # <<>>,
         Top(t).at \in BodyAt, NEW g, g.at \in BodyAt, g.job = Top(t).job, g.it = Top(t).it,
         g.left = Top(t).left, SetTop(t, g)
  PROVE  JobsOK(FMap(stack'), job, wq.jobs)
  <1>1. PICK T : IsTop(t, T)
    BY TopAt
  <1>2. Put(FMap(stack), FMap(stack'), T, g)
    BY <1>1, TopPut
  <1>3. PICK m, m2 : m = FMap(stack) /\ m2 = FMap(stack')
    OBVIOUS
  <1>4. T \in DOMAIN m /\ Over(T) \notin DOMAIN m /\ m[T] = Top(t) /\ JobsOK(m, job, wq.jobs)
    BY <1>1, <1>3 DEF IsTop
  <1>5. JobsOK(m2, job, wq.jobs)
    BY <1>2, <1>3, <1>4, BodyStays
  <1> QED
    BY <1>3, <1>5

\* The operations of a body that neither fork nor end.
LEMMA OperationJobs ==
  ASSUME ShapeInv, JobsOK(FMap(stack), job, wq.jobs), NEW t \in Threads, stack[t] # <<>>,
         Top(t).at \in BodyAt, NEW a \in BodyAt,
         \/ Advance(t) \/ SetTop(t, [Top(t) EXCEPT !.at = a])
         \/ SetTop(t, [Top(t) EXCEPT !.at = a, !.op = @ + 1])
  PROVE  JobsOK(FMap(stack'), job, wq.jobs)
  <1>1. PICK c : c = Top(t)
    OBVIOUS
  <1>2. PICK g : /\ SetTop(t, g)
                 /\ \/ g = [c EXCEPT !.op = @ + 1] \/ g = [c EXCEPT !.at = a]
                    \/ g = [c EXCEPT !.at = a, !.op = @ + 1]
    BY <1>1 DEF Advance
  <1>3. IsBody(c)
    BY <1>1, BodyTop
  <1>4. g.at \in BodyAt /\ g.job = c.job /\ g.it = c.it /\ g.left = c.left
    BY <1>2, <1>3, BodyFields
  <1> QED
    BY <1>1, <1>2, <1>4, BodyGoesJobs

\* Releases, work that may fail, and setting the number of threads.
LEMMA StepsOnJobs ==
  ASSUME ShapeInv, JobsOK(FMap(stack), job, wq.jobs), NEW t \in Threads,
         Release(t) \/ ReleaseBroadcast(t) \/ Work(t) \/ SetNumThreads(t) \/ Shutdown(t)
  PROVE  JobsOK(FMap(stack'), job', wq'.jobs)
  <1>1. /\ "released" \in BodyAt /\ "body" \in BodyAt /\ "failing" \in BodyAt
        /\ "joining" \in BodyAt
    BY DEF BodyAt
  <1>2. /\ stack[t] # <<>> /\ Top(t).at \in BodyAt /\ job' = job
    BY <1>1 DEF Release, ReleaseBroadcast, Work, SetNumThreads, Shutdown, HasOp, InBody, At
  <1>3. wq'.jobs = wq.jobs
    <2>1. \/ wq' = wq \/ wq' = [wq EXCEPT !.shutdown = TRUE]
          \/ \E n : wq' = [wq EXCEPT !.desired_threads_working = n]
      BY DEF Release, ReleaseBroadcast, Work, SetNumThreads, Shutdown
    <2>2. CASE wq' = [wq EXCEPT !.shutdown = TRUE]
      BY <2>2, OtherFields
    <2>3. ASSUME NEW n, wq' = [wq EXCEPT !.desired_threads_working = n]
          PROVE  wq'.jobs = wq.jobs
      BY <2>3, OtherFields
    <2> QED
      BY <2>1, <2>2, <2>3
  <1>4. \E a \in BodyAt :
           \/ Advance(t) \/ SetTop(t, [Top(t) EXCEPT !.at = a])
           \/ SetTop(t, [Top(t) EXCEPT !.at = a, !.op = @ + 1])
    <2>1. CASE Release(t)
      BY <1>1, <2>1 DEF Release
    <2>2. CASE ReleaseBroadcast(t)
      BY <1>1, <2>2 DEF ReleaseBroadcast
    <2>3. CASE Work(t)
      BY <1>1, <2>3 DEF Work
    <2>4. CASE SetNumThreads(t)
      BY <1>1, <2>4 DEF SetNumThreads
    <2>5. CASE Shutdown(t)
      BY <1>1, <2>5 DEF Shutdown
    <2> QED
      BY <2>1, <2>2, <2>3, <2>4, <2>5
  <1>5. JobsOK(FMap(stack'), job, wq.jobs)
    BY <1>2, <1>4, OperationJobs
  <1> QED
    BY <1>2, <1>3, <1>5

\* A call that returns leaves the body that made it within its iteration.
LEMMA ResumedFields ==
  ASSUME NEW c, IsBody(c), c.at = "body", NEW r, NEW g, g = Resumed(c, r)
  PROVE  g.at \in BodyAt /\ g.job = c.job /\ g.it = c.it /\ g.left = c.left
  <1>1. g = [c EXCEPT !.op = @ + 1] \/ g = [c EXCEPT !.at = "failing"]
    BY DEF Resumed
  <1>2. "failing" \in BodyAt
    BY DEF BodyAt
  <1> QED
    BY <1>1, <1>2, BodyFields

\* A call joins its next job, or has joined them all and returns.
LEMMA JoinNextJobs ==
  ASSUME ShapeInv, JobsOK(FMap(stack), job, wq.jobs), NEW t \in Threads, JoinNext(t)
  PROVE  JobsOK(FMap(stack'), job', wq'.jobs)
  <1>1. PICK f : f = Top(t)
    OBVIOUS
  <1>2. PICK status : status = StatusOf(f, job)
    OBVIOUS
  <1>3. PICK gone : gone = Gone(f)
    OBVIOUS
  <1>4. /\ stack[t] # <<>> /\ f.at = "join" /\ wq' = wq
        /\ \/ /\ f.i < Len(f.jobs) /\ job' = job
              /\ Push(t, Join(f.jobs, f.i + 1, status), Loop(f.jobs[f.i + 1], "scan"))
           \/ /\ f.i = Len(f.jobs) /\ job' = [J \in DOMAIN job \ gone |-> job[J]]
              /\ stack' = [stack EXCEPT ![t] = <<Resumed(stack[t][2], status)>> \o Tail(Tail(stack[t]))]
    <2>1. stack[t] # <<>> /\ f.at = "join" /\ wq' = wq
      BY <1>1 DEF JoinNext, At
    <2>2. \/ /\ f.i < Len(f.jobs) /\ job' = job
             /\ Push(t, Join(f.jobs, f.i + 1, status), Loop(f.jobs[f.i + 1], "scan"))
          \/ /\ f.i = Len(f.jobs) /\ job' = [J \in DOMAIN job \ gone |-> job[J]]
             /\ stack' = [stack EXCEPT ![t] = <<Resumed(stack[t][2], status)>> \o Tail(Tail(stack[t]))]
      <3>1. \/ /\ Top(t).i < Len(Top(t).jobs) /\ job' = job
               /\ Push(t, Join(Top(t).jobs, Top(t).i + 1, StatusOf(Top(t), job)),
                       Loop(Top(t).jobs[Top(t).i + 1], "scan"))
            \/ /\ Top(t).i = Len(Top(t).jobs)
               /\ job' = [J \in DOMAIN job \ Gone(Top(t)) |-> job[J]]
               /\ stack' = [stack EXCEPT ![t] =
                     <<Resumed(stack[t][2], StatusOf(Top(t), job))>> \o Tail(Tail(stack[t]))]
        BY DEF JoinNext, StatusOf, Gone
      <3> QED
        BY <1>1, <1>2, <1>3, <3>1
    <2> QED
      BY <2>1, <2>2
  <1>5. PICK T : IsTop(t, T)
    BY <1>4, TopAt
  <1>6. PICK m, m2 : m = FMap(stack) /\ m2 = FMap(stack')
    OBVIOUS
  <1>7. /\ T \in DOMAIN m /\ Over(T) \notin DOMAIN m /\ m[T] = f /\ JobsOK(m, job, wq.jobs)
        /\ T = <<t, Len(stack[t])>>
    BY <1>1, <1>5, <1>6 DEF IsTop
  <1>8. /\ Shape(t, stack[t]) /\ f = Head(stack[t]) /\ IsJoin(Head(stack[t])) /\ IsSeq(f.jobs)
        /\ f.i \in 1..Len(f.jobs) /\ \A i \in 1..Len(f.jobs) : IsTask(f.jobs[i])
    BY <1>1, <1>4, JoinTop DEF At
  <1>9. Len(f.jobs) \in Nat
    BY <1>8, SeqTail
  <1>10. /\ f.status \in {0, 1} /\ f.jobs[f.i] \in DOMAIN job /\ job[f.jobs[f.i]].exit \in {0, 1}
    <2>1. ForkOK(m, job) /\ WorkOK(m, job)
      BY <1>7 DEF JobsOK
    <2>2. f.status \in {0, 1} /\ f.jobs[f.i] \in DOMAIN job
      BY <1>4, <1>7, <1>8, <2>1 DEF ForkOK
    <2> QED
      BY <2>1, <2>2 DEF WorkOK
  <1>11. /\ status \in {0, 1}
         /\ status = 0 => f.status = 0 /\ job[f.jobs[f.i]].exit = 0
    BY <1>2, <1>10 DEF StatusOf
  <1>12. CASE /\ f.i < Len(f.jobs) /\ job' = job
              /\ Push(t, Join(f.jobs, f.i + 1, status), Loop(f.jobs[f.i + 1], "scan"))
    <2>1. PICK g, b : g = Join(f.jobs, f.i + 1, status) /\ b = Loop(f.jobs[f.i + 1], "scan")
      OBVIOUS
    <2>2. g.at = "join" /\ g.jobs = f.jobs /\ g.i = f.i + 1 /\ g.status = status
      BY <2>1 DEF Join
    <2>3. b.at = "scan" /\ b.owned = f.jobs[f.i + 1] /\ b.result = 0
      BY <2>1 DEF Loop
    <2>4. b.at \in LoopAt /\ ~Busy(b) /\ b.result \in {0, 1}
      BY <2>3 DEF LoopAt, Busy
    <2>5. b.owned = g.jobs[g.i] /\ b.owned # NoJob
      <3>1. f.i + 1 \in 1..Len(f.jobs)
        BY <1>8, <1>9, <1>12
      <3>2. IsTask(b.owned)
        BY <1>8, <2>3, <3>1
      <3>3. \A a, k, n : <<a, k, n>> # <<>>
        OBVIOUS
      <3> QED
        BY <2>2, <2>3, <3>2, <3>3 DEF IsTask, NoJob
    <2>6. Calls2(m, m2, T, g, b)
      BY <1>4, <1>5, <1>6, <1>12, <2>1, TopPush
    <2>7. PICK O : O = Over(T)
      OBVIOUS
    <2>8. /\ DOMAIN m2 = DOMAIN m \cup {O} /\ m2[O] = b /\ m2[T] = g
          /\ \A p \in DOMAIN m : p # T => m2[p] = m[p]
      BY <2>6, <2>7 DEF Calls2
    <2>9. O \notin DOMAIN m /\ m[T].at = "join" /\ m[T].i < Len(m[T].jobs)
      BY <1>4, <1>7, <1>12, <2>7
    <2>10. /\ g.jobs = m[T].jobs /\ g.i = m[T].i + 1 /\ g.status \in {0, 1}
           /\ g.status = 0 => m[T].status = 0 /\ job[m[T].jobs[m[T].i]].exit = 0
      BY <1>7, <1>11, <2>2
    <2>11. JobsOK(m2, job, wq.jobs)
      BY <1>7, <2>2, <2>4, <2>5, <2>7, <2>8, <2>9, <2>10, ForkNext
    <2> QED
      BY <1>4, <1>6, <1>12, <2>11
  <1>13. CASE /\ f.i = Len(f.jobs) /\ job' = [J \in DOMAIN job \ gone |-> job[J]]
              /\ stack' = [stack EXCEPT ![t] = <<Resumed(stack[t][2], status)>> \o Tail(Tail(stack[t]))]
    <2>1. PICK c, g : c = stack[t][2] /\ g = Resumed(c, status)
      OBVIOUS
    <2>2. Len(stack[t]) > 1 /\ IsBody(c) /\ c.at = "body"
      BY <1>4, <1>8, <2>1, ShapeJoined
    <2>3. g.at \in BodyAt /\ g.job = c.job /\ g.it = c.it /\ g.left = c.left
      BY <2>1, <2>2, ResumedFields
    <2>4. stack' = [stack EXCEPT ![t] = <<g>> \o Tail(Tail(stack[t]))]
      BY <1>13, <2>1
    <2>5. /\ Returns(FMap(stack), FMap(stack'), T, g)
          /\ T[2] > 1 /\ Under(T) \in DOMAIN FMap(stack) /\ FMap(stack)[Under(T)] = stack[t][2]
      BY ONLY ShapeInv, t \in Threads, <1>5, <2>2, <2>4, TopReturn
    <2>6. PICK m1 : Cut(m, m1, T) /\ Put(m1, m2, Under(T), g)
      BY <1>6, <2>5 DEF Returns
    <2>7. m[Under(T)] = c
      BY <1>6, <2>1, <2>5
    <2>8. PICK jb2 : jb2 = job'
      OBVIOUS
    <2>9. Without(job, jb2, gone)
      BY <1>13, <2>8 DEF Without
    <2>10. /\ JobsOK(m1, jb2, wq.jobs) /\ Under(T) \in DOMAIN m1
           /\ Over(Under(T)) \notin DOMAIN m1 /\ m1[Under(T)] = m[Under(T)]
      <3>1. m[T].at = "join" /\ m[T].i = Len(m[T].jobs) /\ Without(job, jb2, Gone(m[T]))
        BY <1>3, <1>4, <1>7, <1>13, <2>9
      <3>2. T \in DOMAIN m /\ Over(T) \notin DOMAIN m /\ JobsOK(m, job, wq.jobs) /\ Cut(m, m1, T)
        BY <1>7, <2>6
      <3> QED
        BY ONLY <3>1, <3>2, ForkCut
    <2>11. PICK U : U = Under(T)
      OBVIOUS
    <2>12. JobsOK(m2, jb2, wq.jobs)
      <3>1. /\ U \in DOMAIN m1 /\ Over(U) \notin DOMAIN m1 /\ m1[U] = c /\ Put(m1, m2, U, g)
            /\ JobsOK(m1, jb2, wq.jobs) /\ c.at \in BodyAt
        BY <2>2, <2>6, <2>7, <2>10, <2>11 DEF BodyAt
      <3> QED
        BY <2>3, <3>1, BodyStays
    <2> QED
      BY <1>4, <1>6, <2>8, <2>12
  <1> QED
    BY <1>4, <1>12, <1>13

\* A closure returns to the loop that has called it.
LEMMA ReturnJobs ==
  ASSUME ShapeInv, JobsOK(FMap(stack), job, wq.jobs), NEW t \in Threads, stack[t] # <<>>,
         Top(t).at \in BodyAt, ~IsClient(Top(t).job), NEW r \in {0, 1}, Return(t, r)
  PROVE  JobsOK(FMap(stack'), job, wq.jobs)
  <1>1. PICK f : f = stack[t][2]
    OBVIOUS
  <1>2. PICK n, a : /\ n = IF Serial(f.work) THEN f.total + f.iters ELSE f.total
                    /\ a = IF Serial(f.work) /\ r = 0 THEN "claim" ELSE "working"
    OBVIOUS
  <1>3. PICK g : g = [f EXCEPT !.result = r, !.total = n, !.iters = 0, !.at = a]
    OBVIOUS
  <1>4. Shape(t, stack[t]) /\ IsBody(Head(stack[t])) /\ Top(t) = Head(stack[t])
    BY BodyTop
  <1>5. /\ Len(stack[t]) > 1 /\ IsLoop(f) /\ f.at = "working" /\ f.work = Top(t).job
    BY <1>1, <1>4, ShapeReturn
  <1>6. stack' = [stack EXCEPT ![t] = <<g>> \o Tail(Tail(stack[t]))]
    <2>1. g = [f EXCEPT !.result = r,
                        !.total = IF TaskOf(f.work).serial THEN @ + f.iters ELSE @,
                        !.iters = 0,
                        !.at = IF TaskOf(f.work).serial /\ r = 0 THEN "claim" ELSE "working"]
      <3>1. [f EXCEPT !.result = r].total = f.total
        BY <1>5 DEF IsLoop
      <3> QED
        BY <1>2, <1>3, <3>1 DEF Serial
    <2> QED
      BY <1>1, <2>1 DEF Return
  <1>7. g = LoopFrame(a, f.owned, f.work, f.min, n, 0, r)
    <2>1. IsLoop(f)
      BY <1>5
    <2> QED
      BY ONLY <1>3, <2>1, LoopReturns
  <1>8. /\ g.at = a /\ g.owned = f.owned /\ g.work = f.work /\ g.min = f.min /\ g.total = n
        /\ g.iters = 0 /\ g.result = r
    BY <1>7, LoopFields
  <1>9. PICK m, m2 : m = FMap(stack) /\ m2 = FMap(stack')
    OBVIOUS
  <1>10. PICK T : IsTop(t, T)
    BY TopAt
  <1>11. /\ T \in DOMAIN m /\ Over(T) \notin DOMAIN m /\ m[T] = Top(t) /\ JobsOK(m, job, wq.jobs)
         /\ T = <<t, Len(stack[t])>>
    BY <1>9, <1>10 DEF IsTop
  <1>13. /\ Returns(FMap(stack), FMap(stack'), T, g)
         /\ T[2] > 1 /\ Under(T) \in DOMAIN FMap(stack) /\ FMap(stack)[Under(T)] = stack[t][2]
    <2>1. Len(stack[t]) > 1
      BY <1>5
    <2> QED
      BY ONLY ShapeInv, t \in Threads, <1>6, <1>10, <2>1, TopReturn
  <1>14. PICK m1 : Cut(m, m1, T) /\ Put(m1, m2, Under(T), g)
    BY <1>9, <1>13 DEF Returns
  <1>15. /\ JobsOK(m1, job, wq.jobs) /\ Under(T) \in DOMAIN m1 /\ Over(Under(T)) \notin DOMAIN m1
         /\ m1[Under(T)] = f
    <2>1. m[Under(T)] = f /\ T[2] > 1
      BY <1>1, <1>9, <1>13
    <2>2. /\ JobsOK(m1, job, wq.jobs) /\ Under(T) \in DOMAIN m1
          /\ Over(Under(T)) \notin DOMAIN m1 /\ m1[Under(T)] = m[Under(T)]
      BY <1>11, <1>14, <2>1, CallCut
    <2> QED
      BY <2>1, <2>2
  <1>16. PICK U : U = Under(T)
    OBVIOUS
  <1>17. BusyOK(m1, job) /\ Busy(f) /\ f.at \in LoopAt
    BY <1>5, <1>15 DEF JobsOK, Busy, LoopAt
  <1>18. /\ f.work \in DOMAIN job
         /\ Serial(f.work) => /\ f.total \in Nat /\ f.iters \in Nat
                              /\ f.total + f.iters <= job[f.work].extent
    BY <1>15, <1>17 DEF BusyOK
  <1>19. Busy(g) /\ g.at \in LoopAt
    BY <1>2, <1>8 DEF Busy, LoopAt
  <1>20. IF Serial(g.work) THEN /\ g.total \in Nat /\ g.iters \in Nat
                                /\ g.total + g.iters <= job[g.work].extent
         ELSE g.at = "working"
    <2>1. CASE Serial(f.work)
      <3>1. PICK x, y, e : x = f.total /\ y = f.iters /\ e = job[f.work].extent
        OBVIOUS
      <3>2. x \in Nat /\ y \in Nat /\ x + y <= e /\ x + y \in Nat /\ (x + y) + 0 = x + y
        BY <1>18, <2>1, <3>1
      <3>3. n = x + y
        BY <1>2, <2>1, <3>1
      <3> QED
        BY <1>8, <2>1, <3>1, <3>2, <3>3
    <2>2. CASE ~Serial(f.work)
      BY <1>2, <1>8, <2>2
    <2> QED
      BY <2>1, <2>2
  <1>21. JobsOK(m2, job, wq.jobs)
    <2>1. /\ U \in DOMAIN m1 /\ Over(U) \notin DOMAIN m1 /\ m1[U] = f /\ Put(m1, m2, U, g)
      BY <1>14, <1>15, <1>16
    <2>2. g.result \in {0, 1} /\ Busy(m1[U]) /\ m1[U].at \in LoopAt
      BY <1>8, <1>17, <2>1
    <2>3. g.owned = m1[U].owned /\ g.work = m1[U].work /\ g.min = m1[U].min
      BY <1>8, <2>1
    <2> QED
      BY <1>15, <1>19, <1>20, <2>1, <2>2, <2>3, LoopMoves
  <1> QED
    BY <1>9, <1>21

\* A closure goes on to the next of the iterations its caller has claimed.
LEMMA NextIterationJobs ==
  ASSUME ShapeInv, JobsOK(FMap(stack), job, wq.jobs), NEW t \in Threads, stack[t] # <<>>,
         Top(t).at \in BodyAt, ~IsClient(Top(t).job), Top(t).left # 0,
         SetTop(t, Body(Top(t).job, Top(t).it + 1, Top(t).left - 1))
  PROVE  JobsOK(FMap(stack'), job, wq.jobs)
  <1>1. PICK f : f = Top(t)
    OBVIOUS
  <1>2. PICK g : g = Body(f.job, f.it + 1, f.left - 1)
    OBVIOUS
  <1>3. /\ g.at \in BodyAt /\ g.job = f.job /\ g.it = f.it + 1 /\ g.left = f.left - 1
    BY <1>2 DEF Body, BodyAt
  <1>4. PICK T : IsTop(t, T)
    BY TopAt
  <1>5. PICK m, m2 : m = FMap(stack) /\ m2 = FMap(stack')
    OBVIOUS
  <1>6. Put(m, m2, T, g)
    BY <1>1, <1>2, <1>4, <1>5, TopPut
  <1>7. T \in DOMAIN m /\ Over(T) \notin DOMAIN m /\ m[T] = f /\ JobsOK(m, job, wq.jobs)
    BY <1>1, <1>4, <1>5 DEF IsTop
  <1>8. Nested(m) /\ CallOK(m, job)
    BY <1>7 DEF JobsOK
  <1>9. T[2] > 1
    <2>1. T[2] \in Nat \ {0} /\ (T[2] = 1 => f.job = <<T[1]>>)
      BY <1>1, <1>7, <1>8 DEF Nested
    <2>2. T[2] # 1
      BY <1>1, <2>1 DEF IsClient
    <2> QED
      BY <2>1, <2>2
  <1>10. PICK J, h : J = f.job /\ h = m[Under(T)]
    OBVIOUS
  <1>11. /\ Serial(J) /\ f.it \in Nat /\ f.left \in Nat
         /\ f.it >= job[J].min + h.total
         /\ f.it + f.left = job[J].min + h.total + h.iters - 1
    BY <1>1, <1>7, <1>8, <1>9, <1>10 DEF CallOK
  <1>12. h.total \in Nat /\ h.iters \in Nat /\ job[J].min \in Nat
    <2>1. Under(T) \in DOMAIN m /\ Busy(h) /\ h.work = J
      BY <1>1, <1>7, <1>8, <1>9, <1>10 DEF Nested, Busy
    <2>2. BusyOK(m, job) /\ WorkOK(m, job)
      BY <1>7 DEF JobsOK
    <2>3. J \in DOMAIN job /\ h.total \in Nat /\ h.iters \in Nat
      BY <1>10, <1>11, <2>1, <2>2 DEF BusyOK
    <2> QED
      BY <2>2, <2>3 DEF WorkOK
  <1>13. PICK x, l, a, b, c : x = f.it /\ l = f.left /\ a = job[J].min /\ b = h.total /\ c = h.iters
    OBVIOUS
  <1>14. /\ x \in Nat /\ l \in Nat \ {0} /\ a \in Nat /\ b \in Nat /\ c \in Nat
         /\ x >= a + b /\ x + l = a + b + c - 1
    BY <1>1, <1>11, <1>12, <1>13
  <1>15. /\ x + 1 \in Nat /\ l - 1 \in Nat /\ x + 1 >= a + b
         /\ (x + 1) + (l - 1) = a + b + c - 1
    BY ONLY <1>14
  <1>16. /\ Serial(g.job) /\ g.job = J /\ g.it \in Nat /\ g.left \in Nat
         /\ g.it >= job[g.job].min + m[Under(T)].total
         /\ g.it + g.left = job[g.job].min + m[Under(T)].total + m[Under(T)].iters - 1
    BY <1>3, <1>10, <1>11, <1>13, <1>15
  <1>17. m[T].at \in BodyAt /\ g.job = m[T].job /\ g.at \in BodyAt
    BY <1>1, <1>3, <1>7
  <1>18. JobsOK(m2, job, wq.jobs)
    BY <1>6, <1>7, <1>16, <1>17, BodyMoves
  <1> QED
    BY <1>5, <1>18

\* The end of an iteration, of a closure, and of a client's call that failed.
LEMMA EndBodyJobs ==
  ASSUME ShapeInv, JobsOK(FMap(stack), job, wq.jobs), NEW t \in Threads, EndBody(t)
  PROVE  JobsOK(FMap(stack'), job', wq'.jobs)
  <1>1. /\ stack[t] # <<>> /\ Top(t).at \in BodyAt /\ "body" \in BodyAt
        /\ job' = job /\ wq' = wq
    BY DEF EndBody, InBody, At, BodyAt
  <1>2. JobsOK(FMap(stack'), job, wq.jobs)
    <2>1. CASE IsClient(Top(t).job)
      <3>1. SetTop(t, [Top(t) EXCEPT !.at = "body", !.op = @ + 1])
        BY <2>1 DEF EndBody
      <3> QED
        BY <1>1, <3>1, OperationJobs
    <2>2. CASE ~IsClient(Top(t).job) /\ Top(t).at = "failing"
      <3>1. Return(t, 1)
        BY <2>2 DEF EndBody
      <3> QED
        BY <1>1, <2>2, <3>1, ReturnJobs
    <2>3. CASE ~IsClient(Top(t).job) /\ Top(t).at # "failing" /\ Top(t).left = 0
      <3>1. Return(t, 0)
        BY <2>3 DEF EndBody
      <3> QED
        BY <1>1, <2>3, <3>1, ReturnJobs
    <2>4. CASE ~IsClient(Top(t).job) /\ Top(t).at # "failing" /\ Top(t).left # 0
      <3>1. SetTop(t, Body(Top(t).job, Top(t).it + 1, Top(t).left - 1))
        BY <2>4 DEF EndBody
      <3> QED
        BY <1>1, <2>4, <3>1, NextIterationJobs
    <2> QED
      BY <2>1, <2>2, <2>3, <2>4
  <1> QED
    BY <1>1, <1>2

\* halide_shutdown_thread_pool returns: nobody is in a pipeline, so no job is alive.
LEMMA JoinedAlone ==
  ASSUME ShapeInv, TeamInv, JobsOK(FMap(stack), job, wq.jobs), NEW t \in Threads, Joined(t)
  PROVE  DOMAIN job = {} /\ Top(t).at \in BodyAt
  <1>1. /\ stack[t] # <<>> /\ Top(t).at = "joining" /\ job' = job
        /\ \A n \in 1..wq.threads_created : stack[n] = <<>>
        /\ SetTop(t, [Top(t) EXCEPT !.at = "body", !.op = @ + 1])
    BY DEF Joined, At
  <1>3. t \in Clients /\ ShutsDown(Main[t]) /\ Top(t).at \in BodyAt
    BY <1>1, BodyTop, BodyOps DEF BodyAt, ShutsDown
  <1>4. \A u \in Threads \ {t} : stack[u] = <<>>
    <2>1. \A c \in Clients : c # t => stack[c] = <<>>
      BY <1>1, <1>3, MainAssumption DEF TeamInv
    <2>2. \A n \in Workers : stack[n] = <<>>
      BY <1>1 DEF TeamInv, Workers
    <2> QED
      BY <2>1, <2>2 DEF Threads
  <1>5. ~IsTask(Top(t).job)
    <2>1. ShutsDown(Ops(Top(t).job))
      BY <1>1, BodyTop DEF BodyAt, ShutsDown
    <2>2. ASSUME IsTask(Top(t).job)
          PROVE  FALSE
      <3>1. PICK J : J = Top(t).job
        OBVIOUS
      <3>2. Len(J) = 3 /\ J[3] \in DOMAIN Task
        BY <2>2, <3>1 DEF IsTask
      <3>3. Ops(J) = Task[J[3]].body
        BY <3>2 DEF Ops, IsClient, TaskOf
      <3> QED
        BY <2>1, <3>1, <3>2, <3>3, TaskAssumption
    <2> QED
      BY <2>2
  <1>6. PICK T : IsTop(t, T)
    BY <1>1, TopAt
  <1>7. PICK m : m = FMap(stack)
    OBVIOUS
  <1>8. T \in DOMAIN m /\ m[T] = Top(t) /\ JobsOK(m, job, wq.jobs) /\ T = <<t, Len(stack[t])>>
    BY <1>6, <1>7 DEF IsTop
  <1>9. T[2] = 1
    BY <1>3, <1>5, <1>8 DEF JobsOK, Nested
  <1>10. \A p \in DOMAIN m : p = T
    <2>1. \A p \in DOMAIN m : p = <<p[1], p[2]>> /\ p[1] \in Threads /\ p[2] \in 1..Len(stack[p[1]])
      BY <1>7, ShapeStacks, MapAt
    <2>2. \A u \in Threads \ {t} : Len(stack[u]) = 0
      BY <1>4
    <2>3. \A p \in DOMAIN m : p[1] = t
      <3>1. \A k : k = 0 => 1..k = {}
        OBVIOUS
      <3> QED
        BY <2>1, <2>2, <3>1
    <2>4. \A p \in DOMAIN m : p[2] = 1
      <3>1. Len(stack[t]) = 1 /\ \A d \in 1..1 : d = 1
        BY <1>8, <1>9
      <3> QED
        BY <2>1, <2>3, <3>1
    <2> QED
      BY <1>8, <1>9, <2>1, <2>3, <2>4
  <1>11. DOMAIN job = {}
    <2>1. m[T].at # "join"
      BY <1>1, <1>8
    <2> QED
      BY <1>8, <1>10, <2>1 DEF JobsOK, OwnedOK
  <1> QED
    BY <1>3, <1>11

\* So the invariant, of no jobs and an empty list.
LEMMA JoinedJobs ==
  ASSUME ShapeInv, TeamInv, JobsOK(FMap(stack), job, wq.jobs), NEW t \in Threads, Joined(t)
  PROVE  JobsOK(FMap(stack'), job', wq'.jobs)
  <1>1. /\ stack[t] # <<>> /\ Top(t).at = "joining" /\ job' = job
        /\ \A n \in 1..wq.threads_created : stack[n] = <<>>
        /\ SetTop(t, [Top(t) EXCEPT !.at = "body", !.op = @ + 1])
    BY DEF Joined, At
  <1>2. wq'.jobs = <<>>
    <2>1. "jobs" \in DOMAIN wq
      BY DEF ShapeInv, IsQueue
    <2> QED
      BY <2>1 DEF Joined, ResetQueue
  <1>3. DOMAIN job = {} /\ Top(t).at \in BodyAt
    BY JoinedAlone
  <1>6. PICK T : IsTop(t, T)
    BY <1>1, TopAt
  <1>7. PICK m : m = FMap(stack)
    OBVIOUS
  <1>8. T \in DOMAIN m /\ m[T] = Top(t) /\ JobsOK(m, job, wq.jobs) /\ T = <<t, Len(stack[t])>>
    BY <1>6, <1>7 DEF IsTop
  <1>12. JobsOK(m, job, <<>>)
    <2>1. Len(<<>>) = 0 /\ 1..0 = {}
      OBVIOUS
    <2>2. ListOK(job, <<>>)
      BY <1>3, <2>1 DEF ListOK, Once, Listed
    <2> QED
      BY <1>8, <2>2 DEF JobsOK
  <1>13. PICK m2, c : m2 = FMap(stack') /\ c = Top(t)
    OBVIOUS
  <1>14. PICK g : g = [c EXCEPT !.at = "body", !.op = @ + 1]
    OBVIOUS
  <1>15. IsBody(c) /\ "body" \in BodyAt
    BY <1>1, <1>3, <1>13, BodyTop DEF BodyAt
  <1>16. g.at \in BodyAt /\ g.job = c.job /\ g.it = c.it /\ g.left = c.left
    BY ONLY <1>14, <1>15, BodyFields
  <1>17. Put(m, m2, T, g)
    BY <1>1, <1>6, <1>7, <1>13, <1>14, TopPut
  <1>18. JobsOK(m2, job, <<>>)
    <2>1. /\ T \in DOMAIN m /\ Over(T) \notin DOMAIN m /\ m[T] = c /\ c.at \in BodyAt
      BY <1>3, <1>6, <1>7, <1>13 DEF IsTop
    <2> QED
      BY <1>12, <1>16, <1>17, <2>1, BodyStays
  <1> QED
    BY <1>1, <1>2, <1>13, <1>18
----------------------------------------------------------------------------
(* enqueue_work_already_locked *)

\* The work structures of a call are put beside those alive.
Makes(jb, jb2, ids, parent, par_for) ==
    jb2 = [J \in DOMAIN jb \cup {ids[i] : i \in 1..Len(ids)} |->
              IF J \in DOMAIN jb THEN jb[J] ELSE NewJob(ids, parent, par_for, J[3])]

\* What enqueueing does to them.
LEMMA EnqueueMakes ==
  ASSUME NEW t, NEW ks, NEW inits, NEW parent, NEW par_for,
         Enqueue(t, ks, inits, parent, par_for)
  PROVE  Makes(job, job', CallJobs(Top(t), ks), parent, par_for)
  BY Zenon DEF Enqueue, CallJobs, Makes

\* The fields of a new work structure.
LEMMA MadeFields ==
  ASSUME NEW jb, NEW ids, NEW parent, NEW par_for, NEW jb2, Makes(jb, jb2, ids, parent, par_for)
  PROVE  With(jb, jb2, ids, parent)
  <1>1. /\ DOMAIN jb2 = DOMAIN jb \cup {ids[i] : i \in 1..Len(ids)}
        /\ \A J \in DOMAIN jb : jb2[J] = jb[J]
        /\ \A J \in {ids[i] : i \in 1..Len(ids)} :
              J \notin DOMAIN jb => jb2[J] = NewJob(ids, parent, par_for, J[3])
    BY DEF Makes
  <1>2. \A J : New(NewJob(ids, parent, par_for, J[3]), J, ids, parent)
    BY DEF New, NewJob, IsWork, TaskOf
  <1> QED
    BY <1>1, <1>2 DEF With

\* The jobs of a call are named after the body that makes it, each once.
LEMMA CallJobsNames ==
  ASSUME NEW ks \in Seq(DOMAIN Task), ks # <<>>, NEW f,
         \A i \in 1..Len(ks) : Task[ks[i]].extent > 0,
         \A i, j \in 1..Len(ks) : ks[i] = ks[j] => i = j
  PROVE  Named(CallJobs(f, ks), f.job, f.it)
  <1>6. PICK ids : ids = CallJobs(f, ks)
    OBVIOUS
  <1>1. TaskSeq(ids) /\ Len(ids) = Len(ks)
    BY <1>6, CallJobsOK
  <1>2. Len(ks) \in Nat \ {0}
    OBVIOUS
  <1>3. \A i \in 1..Len(ks) : ids[i] = <<f.job, f.it, ks[i]>>
    BY <1>6 DEF CallJobs, Child
  <1>4. Once(ids)
    BY <1>1, <1>3 DEF Once
  <1>5. \A i \in 1..Len(ids) : /\ IsTask(ids[i]) /\ TaskOf(ids[i]).extent > 0
                               /\ ids[i][1] = f.job /\ ids[i][2] = f.it
    BY <1>1, <1>3 DEF TaskSeq, TaskOf
  <1> QED
    BY <1>1, <1>2, <1>4, <1>5, <1>6 DEF Named

\* The stacks after a call: that of the caller, and those of the threads it creates.
StacksAfter(t, b, g, created) ==
    \A u \in Threads :
       stack'[u] = IF u = t THEN <<b, g>> \o stack[t]
                   ELSE IF u \in (wq.threads_created + 1)..created THEN <<Loop(NoJob, "start")>>
                   ELSE stack[u]

\* A call puts two frames on the stack of its caller, and one on that of each new thread.
LEMMA EnqueueFrames ==
  ASSUME ShapeInv, TeamInv, NEW t \in Threads, stack[t] # <<>>, NEW g, NEW b,
         NEW created \in wq.threads_created..MaxThreads, StacksAfter(t, b, g, created)
  PROVE  \E m1 : /\ Enters(FMap(stack), m1, <<t, Len(stack[t])>>, g, b)
                 /\ Spawns(m1, FMap(stack'), Loop(NoJob, "start"))
  <1>1. PICK U : U = (wq.threads_created + 1)..created
    OBVIOUS
  <1>2. \A u \in U : u \in Threads /\ stack[u] = <<>> /\ u # t
    <2>1. wq.threads_created \in 0..MaxThreads /\ MaxThreads \in Nat
      BY ThreadsAssumption DEF TeamInv
    <2>2. \A u \in U : u \in Workers /\ u > wq.threads_created
      BY <1>1, <2>1 DEF Workers
    <2> QED
      BY <2>2 DEF TeamInv, Threads
  <1>3. PICK st1 : st1 = [u \in Threads |-> IF u = t THEN <<b, g>> \o stack[t] ELSE stack[u]]
    OBVIOUS
  <1>4. PICK st2 : st2 = stack'
    OBVIOUS
  <1>5. st1[t] = <<b, g>> \o stack[t] /\ \A u \in Threads : u # t => st1[u] = stack[u]
    BY <1>3
  <1>6. Enters(FMap(stack), FMap(st1), <<t, Len(stack[t])>>, g, b)
    BY <1>5, ShapeStacks, MapEnter
  <1>7. PICK f : f = Loop(NoJob, "start")
    OBVIOUS
  <1>8. /\ U \in SUBSET Threads
        /\ \A u \in U : Len(st1[u]) = 0 /\ st2[u] = <<f>>
        /\ \A u \in Threads \ U : st2[u] = st1[u]
    <2>1. \A u \in U : st1[u] = <<>> /\ st2[u] = <<f>>
      BY <1>1, <1>2, <1>4, <1>5, <1>7 DEF StacksAfter
    <2>2. \A u \in Threads \ U : st2[u] = st1[u]
      BY <1>1, <1>4, <1>5 DEF StacksAfter
    <2>3. Len(<<>>) = 0
      OBVIOUS
    <2> QED
      BY <1>2, <2>1, <2>2, <2>3
  <1>9. Spawns(FMap(st1), FMap(st2), f)
    BY <1>8, MapThreads
  <1> QED
    BY <1>4, <1>6, <1>7, <1>9

\* What enqueueing jobs does to the stacks and to the list of jobs.
LEMMA EnqueueStacks ==
  ASSUME ShapeInv, TeamInv, NEW t, NEW ks, NEW inits, NEW parent, NEW par_for,
         Enqueue(t, ks, inits, parent, par_for), ~aborted'
  PROVE  \E created \in wq.threads_created..MaxThreads :
            /\ StacksAfter(t, Loop(CallJobs(Top(t), ks)[1], "scan"),
                           Join(CallJobs(Top(t), ks), 1, 0), created)
            /\ wq'.jobs = CallJobs(Top(t), ks) \o wq.jobs
  <1> DEFINE ids == CallJobs(Top(t), ks)
             g == Join(ids, 1, 0)
             b == Loop(ids[1], "scan")
  <1>1. PICK created \in wq.threads_created..MaxThreads, over \in BOOLEAN : \E target, desired :
           /\ aborted' = over
           /\ wq' = [wq EXCEPT !.initialized = TRUE, !.desired_threads_working = desired,
                               !.threads_created = created,
                               !.a_team_size = wq.a_team_size + created - wq.threads_created,
                               !.target_a_team_size = target,
                               !.jobs = ids \o @]
           /\ stack' = [u \in Threads |->
                 IF over THEN <<>>
                 ELSE IF u = t THEN <<b, g>> \o stack[t]
                 ELSE IF u \in (wq.threads_created + 1)..created THEN <<Loop(NoJob, "start")>>
                 ELSE stack[u]]
    <2>1. EnqueueEffect(t, ks)
      BY EnqueueDoes
    <2> QED
      BY <2>1 DEF EnqueueEffect
  <1> HIDE DEF ids, g, b
  <1>2. ~over
    BY <1>1
  <1>3. StacksAfter(t, b, g, created)
    BY <1>1, <1>2 DEF StacksAfter
  <1>4. wq'.jobs = ids \o wq.jobs
    <2>1. IsQueue(wq)
      BY DEF ShapeInv
    <2> QED
      BY <1>1, <2>1 DEF IsQueue
  <1> QED
    BY <1>3, <1>4 DEF ids, g, b

\* A call forks: its jobs are alive, on the stack of jobs, and the caller joins them.
LEMMA EnqueueJobs ==
  ASSUME ShapeInv, TeamInv, JobsOK(FMap(stack), job, wq.jobs), NEW t \in Threads, InBody(t),
         NEW ks \in Seq(DOMAIN Task), ks # <<>>,
         \A i \in 1..Len(ks) : Task[ks[i]].extent > 0,
         \A i, j \in 1..Len(ks) : ks[i] = ks[j] => i = j,
         NEW inits, NEW parent, NEW par_for,
         parent # NoParent => ~IsClient(Top(t).job) /\ parent = Top(t).job,
         Enqueue(t, ks, inits, parent, par_for)
  PROVE  aborted' \/ JobsOK(FMap(stack'), job', wq'.jobs)
  <1> SUFFICES ASSUME ~aborted'
               PROVE  JobsOK(FMap(stack'), job', wq'.jobs)
    OBVIOUS
  <1>1. PICK c, ids : c = Top(t) /\ ids = CallJobs(c, ks)
    OBVIOUS
  <1>2. PICK g, b : g = Join(ids, 1, 0) /\ b = Loop(ids[1], "scan")
    OBVIOUS
  <1>3. PICK created \in wq.threads_created..MaxThreads :
           StacksAfter(t, b, g, created) /\ wq'.jobs = ids \o wq.jobs
    BY <1>1, <1>2, EnqueueStacks
  <1>4. stack[t] # <<>> /\ c.at = "body"
    BY <1>1 DEF InBody, At
  <1>5. PICK m, T : m = FMap(stack) /\ T = <<t, Len(stack[t])>>
    OBVIOUS
  <1>6. T \in DOMAIN m /\ Over(T) \notin DOMAIN m /\ m[T] = c /\ JobsOK(m, job, wq.jobs)
    BY <1>1, <1>4, <1>5, TopAt DEF IsTop
  <1>7. PICK m1 : Enters(m, m1, T, g, b) /\ Spawns(m1, FMap(stack'), Loop(NoJob, "start"))
    BY <1>3, <1>4, <1>5, EnqueueFrames
  <1>8. PICK jb2, js, js2 : jb2 = job' /\ js = wq.jobs /\ js2 = ids \o js
    OBVIOUS
  <1>9. JobsOK(m1, jb2, js2)
    <2>1. Nested(m)
      BY <1>6 DEF JobsOK
    <2>2. Over(Over(T)) \notin DOMAIN m
      <3>1. IsPos(T)
        BY <1>6, <2>1 DEF Nested, IsPos
      <3>2. IsPos(Over(T))
        BY <3>1, Neighbours
      <3>3. Over(Over(T))[2] > 1 /\ Under(Over(Over(T))) = Over(T)
        BY <3>2, Neighbours
      <3> QED
        BY <1>6, <2>1, <3>3 DEF Nested
    <2>3. Named(ids, c.job, c.it)
      BY <1>1, CallJobsNames
    <2>4. With(job, jb2, ids, parent)
      <3>1. Makes(job, jb2, ids, parent, par_for)
        BY <1>1, <1>8, EnqueueMakes
      <3> QED
        BY ONLY <3>1, MadeFields
    <2>5. TaskSeq(ids) /\ Once(ids) /\ IsTask(ids[1])
      BY <2>3 DEF Named
    <2>8. parent # NoParent => T[2] > 1 /\ parent = m[T].job
      <3>2. T[2] \in Nat \ {0} /\ (T[2] = 1 => c.job = <<T[1]>>)
        BY <1>4, <1>6, <2>1 DEF Nested, BodyAt
      <3>3. ASSUME parent # NoParent
            PROVE  T[2] # 1
        BY <1>1, <3>2, <3>3 DEF IsClient
      <3> QED
        BY <1>1, <1>6, <3>2, <3>3
    <2>10. ListsBoth(js, ids, js2)
      <3>1. TaskSeq(js) /\ Once(js)
        BY <1>6, <1>8 DEF ShapeInv, JobsOK, ListOK
      <3> QED
        BY <1>8, <2>5, <3>1, ListJoined DEF ListsBoth
    <2>11. g.at = "join" /\ g.jobs = ids /\ g.i = 1 /\ g.status = 0
      BY <1>2 DEF Join
    <2>12. b.at \in LoopAt /\ ~Busy(b) /\ b.owned = ids[1] /\ b.result \in {0, 1}
      BY <1>2 DEF Loop, LoopAt, Busy
    <2>13. b.owned # NoJob
      <3>1. \A x, y, z : <<x, y, z>> # <<>>
        OBVIOUS
      <3> QED
        BY <2>5, <2>12, <3>1 DEF IsTask, NoJob
    <2>14. /\ JobsOK(m, job, js) /\ T \in DOMAIN m /\ m[T].at = "body" /\ Over(T) \notin DOMAIN m
           /\ Named(ids, m[T].job, m[T].it) /\ Enters(m, m1, T, g, b)
      BY <1>4, <1>6, <1>7, <1>8, <2>3
    <2> QED
      BY ONLY <2>2, <2>4, <2>8, <2>10, <2>11, <2>12, <2>13, <2>14, ForkPut
  <1>10. JobsOK(FMap(stack'), jb2, js2)
    <2>1. PICK m2, f : m2 = FMap(stack') /\ f = Loop(NoJob, "start")
      OBVIOUS
    <2>2. PICK N : /\ N \cap DOMAIN m1 = {} /\ DOMAIN m2 = DOMAIN m1 \cup N
                   /\ \A p \in DOMAIN m1 : m2[p] = m1[p]
                   /\ \A p \in N : IsPos(p) /\ p[2] = 1 /\ m2[p] = f
      BY <1>7, <2>1 DEF Spawns
    <2>3. f.at \in LoopAt /\ ~Busy(f) /\ f.owned = NoJob /\ f.result \in {0, 1}
      BY <2>1 DEF Loop, LoopAt, Busy
    <2>4. JobsOK(m2, jb2, js2)
      BY <1>9, <2>2, <2>3, ThreadsPut
    <2> QED
      BY <2>1, <2>4
  <1> QED
    BY <1>3, <1>8, <1>10

\* halide_do_parallel_tasks and halide_do_par_for: inside a task the parent is the task.
LEMMA CallsJobs ==
  ASSUME ShapeInv, TeamInv, JobsOK(FMap(stack), job, wq.jobs), NEW t \in Threads,
         CallParallelTasks(t) \/ CallParFor(t)
  PROVE  aborted' \/ JobsOK(FMap(stack'), job', wq'.jobs)
  <1>1. CASE CallParallelTasks(t)
    <2>1. Operation(Op(t)) /\ Op(t).op = "parallel_tasks" /\ InBody(t)
      BY <1>1, OpIsOperation DEF CallParallelTasks
    <2>2. PICK ks, parent : ks = Op(t).tasks /\ parent = TaskParent(Top(t).job)
      OBVIOUS
    <2>3. /\ ks \in Seq(DOMAIN Task) /\ ks # <<>>
          /\ \A i \in 1..Len(ks) : Task[ks[i]].extent > 0
          /\ \A i, j \in 1..Len(ks) : ks[i] = ks[j] => i = j
      BY <2>1, <2>2 DEF Operation
    <2>4. parent # NoParent => ~IsClient(Top(t).job) /\ parent = Top(t).job
      BY <2>2 DEF TaskParent
    <2>5. PICK inits : Enqueue(t, ks, inits, parent, FALSE)
      BY <1>1, <2>2 DEF CallParallelTasks
    <2> QED
      BY <2>1, <2>3, <2>4, <2>5, EnqueueJobs
  <1>2. CASE CallParFor(t) /\ Task[Op(t).task].extent <= 0
    <2>1. /\ stack[t] # <<>> /\ Top(t).at \in BodyAt /\ "body" \in BodyAt
          /\ Advance(t) /\ job' = job /\ wq' = wq
      BY <1>2 DEF CallParFor, HasOp, InBody, At, BodyAt
    <2> QED
      BY <2>1, OperationJobs
  <1>3. CASE CallParFor(t) /\ ~(Task[Op(t).task].extent <= 0)
    <2>1. Operation(Op(t)) /\ Op(t).op = "par_for" /\ InBody(t)
      BY <1>3, OpIsOperation DEF CallParFor
    <2>2. PICK k : k = Op(t).task
      OBVIOUS
    <2>3. k \in DOMAIN Task /\ Task[k].extent > 0
      <3>1. k \in DOMAIN Task
        BY <2>1, <2>2 DEF Operation
      <3>2. Task[k].extent \in Int
        BY <3>1, TaskAssumption
      <3> QED
        BY <1>3, <2>2, <3>1, <3>2
    <2>4. PICK ks : ks = <<k>>
      OBVIOUS
    <2>5. /\ ks \in Seq(DOMAIN Task) /\ ks # <<>>
          /\ \A i \in 1..Len(ks) : Task[ks[i]].extent > 0
          /\ \A i, j \in 1..Len(ks) : ks[i] = ks[j] => i = j
      <3>1. Len(ks) = 1 /\ ks[1] = k /\ \A i : i \in 1..1 <=> i = 1
        BY <2>4
      <3> QED
        BY <2>3, <2>4, <3>1
    <2>6. Enqueue(t, ks, {}, NoParent, TRUE)
      BY <1>3, <2>2, <2>4 DEF CallParFor
    <2> QED
      BY <2>1, <2>5, <2>6, EnqueueJobs
  <1> QED
    BY <1>1, <1>2, <1>3
----------------------------------------------------------------------------
(* The invariant *)

\* At first only clients run, and they have forked nothing.
LEMMA JobsInit == Init => JobsInv
  <1> SUFFICES ASSUME Init PROVE JobsOK(FMap(stack), job, wq.jobs)
    BY DEF JobsInv
  <1>1. PICK running \in Together :
           stack = [t \in Threads |-> IF t \in running THEN <<Body(<<t>>, 0, 0)>> ELSE <<>>]
    BY DEF Init
  <1>2. PICK m, jb, js : m = FMap(stack) /\ jb = job /\ js = wq.jobs
    OBVIOUS
  <1>3. DOMAIN jb = {} /\ \A J : ~Listed(js, J) /\ Once(js)
    <2>1. js = <<>> /\ jb = <<>>
      BY <1>2 DEF Init, ResetQueue
    <2>2. Len(<<>>) = 0 /\ 1..0 = {} /\ DOMAIN <<>> = {}
      OBVIOUS
    <2> QED
      BY <2>1, <2>2 DEF Listed, Once
  <1>4. ASSUME NEW p \in DOMAIN m
        PROVE  p = <<p[1], p[2]>> /\ p[2] = 1 /\ m[p] = Body(<<p[1]>>, 0, 0)
    <2>1. p = <<p[1], p[2]>> /\ p[1] \in Threads /\ p[2] \in 1..Len(stack[p[1]])
      BY <1>2, MapAt
    <2>2. PICK t, d, f : t = p[1] /\ d = p[2] /\ f = Body(<<t>>, 0, 0)
      OBVIOUS
    <2>3. stack[t] = <<f>>
      <3>1. Len(<<>>) = 0 /\ 1..0 = {}
        OBVIOUS
      <3> QED
        BY <1>1, <2>1, <2>2, <3>1
    <2>4. Len(<<f>>) = 1 /\ <<f>>[1] = f /\ 1 + 1 - 1 = 1 /\ \A k : k \in 1..1 <=> k = 1
      OBVIOUS
    <2>5. d = 1
      BY <2>1, <2>2, <2>3, <2>4
    <2>6. Fr(<<f>>, 1) = f
      BY <2>4 DEF Fr
    <2>7. m[<<t, d>>] = Fr(stack[t], d)
      BY <1>2, <2>1, <2>2, MapAt
    <2> QED
      BY <2>1, <2>2, <2>3, <2>5, <2>6, <2>7
  <1>5. \A p \in DOMAIN m : /\ p = <<p[1], p[2]>> /\ p[2] = 1 /\ m[p].at = "body"
                            /\ m[p].job = <<p[1]>>
    BY <1>4 DEF Body
  <1>6. "body" \in BodyAt /\ "body" \notin LoopAt
    BY DEF BodyAt, LoopAt
  <1>7. Nested(m)
    BY <1>5, <1>6 DEF Nested
  <1>8. ResultOK(m) /\ BusyOK(m, jb) /\ CallOK(m, jb) /\ ForkOK(m, jb)
    BY <1>5, <1>6 DEF ResultOK, BusyOK, Busy, CallOK, ForkOK
  <1>9. OwnedOK(m, jb) /\ WorkOK(m, jb) /\ ListOK(jb, js)
    BY <1>3 DEF OwnedOK, WorkOK, ListOK
  <1> QED
    BY <1>2, <1>7, <1>8, <1>9 DEF JobsOK

\* A thread that takes a step is in the library, in a closure, or in a pipeline.
LEMMA StepHasFrame ==
  ASSUME NEW t \in Threads, Step(t)
  PROVE  stack[t] # <<>>
  <1>1. \/ At(t, "scan") \/ At(t, "claim") \/ At(t, "working") \/ At(t, "join") \/ At(t, "body")
        \/ At(t, "released") \/ At(t, "failing") \/ At(t, "joining") \/ stack[t] # <<>>
    BY DEF Step, DropFailed, InheritFailure, Sleep, Start, Searching, Scanning, Wake, Claim,
           RunClaimed, Finish, Leave, JoinNext, CallParallelTasks, CallParFor, Release,
           ReleaseBroadcast, Work, SetNumThreads, EndBody, Shutdown, Joined, HasOp, InBody
  <1> QED
    BY <1>1 DEF At

\* Every step keeps the jobs.
LEMMA JobsStep == ShapeInv /\ TeamInv /\ JobsInv /\ [Next]_vars => JobsInv'
  <1> SUFFICES ASSUME ShapeInv, TeamInv, JobsInv, [Next]_vars
               PROVE  JobsInv'
    OBVIOUS
  <1>1. CASE UNCHANGED vars
    BY <1>1 DEF vars, JobsInv
  <1>2. ASSUME NEW t \in Threads, Step(t)
        PROVE  JobsInv'
    <2>1. stack[t] # <<>>
      BY <1>2, StepHasFrame
    <2>2. JobsOK(FMap(stack), job, wq.jobs)
      BY <2>1 DEF TeamInv, JobsInv
    <2>3. CASE DropFailed(t)
      BY <2>2, <2>3, DropFailedJobs DEF JobsInv
    <2>4. CASE InheritFailure(t)
      BY <2>2, <2>4, InheritFailureJobs DEF JobsInv
    <2>5. CASE Sleep(t)
      BY <2>2, <2>5, SleepJobs DEF JobsInv
    <2>6. CASE Wake(t)
      BY <2>2, <2>6, WakeJobs DEF JobsInv
    <2>7. CASE Start(t)
      BY <2>2, <2>7, StartJobs DEF JobsInv
    <2>8. CASE Claim(t)
      BY <2>2, <2>8, ClaimJobs DEF JobsInv
    <2>9. CASE RunClaimed(t)
      BY <2>2, <2>9, RunClaimedJobs DEF JobsInv
    <2>10. CASE Finish(t)
      BY <2>2, <2>10, FinishJobs DEF JobsInv
    <2>11. CASE Leave(t)
      BY <2>2, <2>11, LeaveJobs DEF JobsInv
    <2>12. CASE JoinNext(t)
      BY <2>2, <2>12, JoinNextJobs DEF JobsInv
    <2>13. CASE CallParallelTasks(t) \/ CallParFor(t)
      BY <2>2, <2>13, CallsJobs DEF JobsInv
    <2>14. CASE Release(t) \/ ReleaseBroadcast(t) \/ Work(t) \/ SetNumThreads(t) \/ Shutdown(t)
      BY <2>2, <2>14, StepsOnJobs DEF JobsInv
    <2>15. CASE EndBody(t)
      BY <2>2, <2>15, EndBodyJobs DEF JobsInv
    <2>16. CASE Joined(t)
      BY <2>2, <2>16, JoinedJobs DEF JobsInv
    <2> QED
      BY <1>2, <2>3, <2>4, <2>5, <2>6, <2>7, <2>8, <2>9, <2>10, <2>11, <2>12, <2>13, <2>14,
         <2>15, <2>16 DEF Step
  <1> QED
    BY <1>1, <1>2 DEF Next

\* Until the pool aborts, its jobs are as JobsOK says in every run, whatever the program,
\* the number of threads and the order of their steps.
THEOREM JobsInvariance == Spec => []JobsInv
  <1>1. Init => JobsInv
    BY JobsInit
  <1>2. ShapeInv /\ TeamInv /\ JobsInv /\ [Next]_vars => JobsInv'
    BY JobsStep
  <1>3. Spec => [](ShapeInv /\ TeamInv /\ TeamsInv)
    BY StackInvariance
  <1> QED
    BY <1>1, <1>2, <1>3, PTL DEF Spec
----------------------------------------------------------------------------
(* What it means for the properties of ThreadPool.tla *)

\* Its frames are those of the invariant.
LEMMA FramesAre ==
  /\ Frames = DOMAIN FMap(stack)
  /\ \A p \in Frames : Frame(p) = FMap(stack)[p]
  /\ \A J : WorkersOn(J) = On(FMap(stack), J)
  <1>1. Frames = DOMAIN FMap(stack) /\ \A p \in Frames : Frame(p) = FMap(stack)[p]
    BY DEF Frames, Frame, FMap, Fr
  <1>2. ASSUME NEW J
        PROVE  WorkersOn(J) = On(FMap(stack), J)
    BY <1>1 DEF WorkersOn, Working, On, Busy
  <1> QED
    BY <1>1, <1>2

\* The parent of a job is alive and at work.
LEMMA ParentAtWork ==
  ASSUME NEW m, NEW jb, NEW js, JobsOK(m, jb, js), NEW J \in DOMAIN jb, jb[J].parent # NoParent
  PROVE  jb[J].parent \in DOMAIN jb /\ jb[jb[J].parent].active > 0
  <1>1. Nested(m) /\ BusyOK(m, jb) /\ ForkOK(m, jb) /\ OwnedOK(m, jb) /\ WorkOK(m, jb)
    BY DEF JobsOK
  <1>2. PICK q \in DOMAIN m : m[q].at = "join" /\ \E i \in 1..Len(m[q].jobs) : m[q].jobs[i] = J
    BY <1>1 DEF OwnedOK
  <1>3. PICK P, U : P = jb[J].parent /\ U = Under(q)
    OBVIOUS
  <1>4. q[2] > 2 /\ P = m[U].job
    BY <1>1, <1>2, <1>3 DEF ForkOK
  <1>5. U \in DOMAIN m /\ m[U].at = "body" /\ U[2] > 1
    <2>1. IsPos(q) /\ U \in DOMAIN m /\ m[U].at = "body"
      BY <1>1, <1>2, <1>3 DEF Nested, IsPos
    <2>2. U[2] = q[2] - 1 /\ q[2] \in Nat
      BY <1>3, <2>1, Neighbours DEF IsPos
    <2> QED
      BY <1>4, <2>1, <2>2
  <1>6. Under(U) \in DOMAIN m /\ Busy(m[Under(U)]) /\ m[Under(U)].work = P
    BY <1>1, <1>4, <1>5 DEF Nested, Busy, BodyAt
  <1>7. P \in DOMAIN jb /\ On(m, P) # {}
    BY <1>1, <1>6 DEF BusyOK, On
  <1>8. IsFiniteSet(On(m, P)) /\ jb[P].active = Cardinality(On(m, P))
    BY <1>1, <1>7 DEF WorkOK
  <1>9. Cardinality(On(m, P)) \in Nat /\ Cardinality(On(m, P)) # 0
    BY <1>7, <1>8, FS_CardinalityType, FS_EmptySet
  <1> QED
    BY <1>3, <1>7, <1>8, <1>9

\* The jobs of the fork that a job is of are alive.
LEMMA SiblingsAlive ==
  ASSUME NEW m, NEW jb, NEW js, JobsOK(m, jb, js), NEW J \in DOMAIN jb,
         NEW i \in 1..Len(jb[J].siblings)
  PROVE  jb[J].siblings[i] \in DOMAIN jb
  <1>1. ForkOK(m, jb) /\ OwnedOK(m, jb)
    BY DEF JobsOK
  <1>2. PICK q \in DOMAIN m : m[q].at = "join" /\ \E k \in 1..Len(m[q].jobs) : m[q].jobs[k] = J
    BY <1>1 DEF OwnedOK
  <1>3. jb[J].siblings = m[q].jobs /\ \A k \in 1..Len(m[q].jobs) : m[q].jobs[k] \in DOMAIN jb
    BY <1>1, <1>2 DEF ForkOK
  <1> QED
    BY <1>3

\* Where a job is on the list: in one place if it can be worked on, or else nowhere.
Places(js, J) == {p \in 1..Len(js) : js[p] = J}

\* So the list says.
LEMMA PlacesOf ==
  ASSUME NEW jb, NEW js, ListOK(jb, js), NEW J \in DOMAIN jb
  PROVE  Cardinality(Places(js, J)) =
            IF jb[J].extent > 0 /\ ~(Serial(J) /\ jb[J].active > 0) THEN 1 ELSE 0
  <1> DEFINE S == Places(js, J)
  <1>1. CASE Listed(js, J)
    <2>1. PICK i \in 1..Len(js) : js[i] = J
      BY <1>1 DEF Listed
    <2>2. S = {i}
      BY <2>1 DEF ListOK, Once, Places
    <2>3. Cardinality({i}) = 1
      BY FS_Singleton
    <2> QED
      BY <1>1, <2>2, <2>3 DEF ListOK
  <1>2. CASE ~Listed(js, J)
    <2>1. S = {}
      BY <1>2 DEF Listed, Places
    <2>2. Cardinality({}) = 0
      BY FS_EmptySet
    <2> QED
      BY <1>2, <2>1, <2>2 DEF ListOK
  <1> QED
    BY <1>1, <1>2

\* active_workers counts exactly the threads that are at work on a job.
ActiveExact == \A J \in DOMAIN job : job[J].active = Cardinality(WorkersOn(J))

\* Whether a job has finished, its owner must be woken or a serial job may be started is
\* decided in worker_thread_already_locked by active_workers: it is never wrong.
THEOREM ActiveIsExact == Spec => [](aborted \/ ActiveExact)
  <1>1. JobsInv => aborted \/ ActiveExact
    BY FramesAre DEF JobsInv, JobsOK, WorkOK, ActiveExact
  <1> QED
    BY <1>1, JobsInvariance, PTL

\* Work structures live on the stacks of their owners: nothing refers to one whose owner
\* has returned, neither the list of jobs, nor a thread at work, nor another job.
THEOREM NothingDangles == Spec => [](aborted \/ NoDanglingJob)
  <1>1. ASSUME JobsOK(FMap(stack), job, wq.jobs)
        PROVE  NoDanglingJob
    <2>1. StackHoldsJobs
      <3>1. ListOK(job, wq.jobs)
        BY <1>1 DEF JobsOK
      <3>2. \A J \in DOMAIN job : Cardinality(Places(wq.jobs, J)) =
               IF job[J].extent > 0 /\ ~(Serial(J) /\ job[J].active > 0) THEN 1 ELSE 0
        BY <3>1, PlacesOf
      <3> QED
        BY <3>2, Zenon DEF StackHoldsJobs, Serial, Places
    <2>2. \A p \in 1..Len(wq.jobs) : wq.jobs[p] \in DOMAIN job
      BY <1>1 DEF JobsOK, ListOK, Listed
    <2>3. \A p \in Frames : Working(p) => Frame(p).work \in DOMAIN job
      BY <1>1, FramesAre DEF JobsOK, BusyOK, Busy, Working
    <2>4. ASSUME NEW J \in DOMAIN job
          PROVE  /\ Parent(J) # NoParent => Parent(J) \in DOMAIN job /\ job[Parent(J)].active > 0
                 /\ \A i \in 1..Len(job[J].siblings) : job[J].siblings[i] \in DOMAIN job
      <3>1. Parent(J) # NoParent => Parent(J) \in DOMAIN job /\ job[Parent(J)].active > 0
        BY <1>1, ParentAtWork DEF Parent
      <3>2. \A i \in 1..Len(job[J].siblings) : job[J].siblings[i] \in DOMAIN job
        BY <1>1, SiblingsAlive
      <3> QED
        BY <3>1, <3>2
    <2> QED
      BY <2>1, <2>2, <2>3, <2>4 DEF NoDanglingJob
  <1>2. JobsInv => aborted \/ NoDanglingJob
    BY <1>1 DEF JobsInv
  <1> QED
    BY <1>2, JobsInvariance, PTL

\* A fork that has joined all its jobs without a failure has completed all iterations.
LEMMA ForkComplete ==
  ASSUME NEW m, NEW jb, NEW js, JobsOK(m, jb, js), NEW T \in DOMAIN m, Over(T) \notin DOMAIN m,
         m[T].at = "join", m[T].i = Len(m[T].jobs), m[T].status = 0,
         jb[m[T].jobs[m[T].i]].exit = 0, NEW i \in 1..Len(m[T].jobs)
  PROVE  jb[m[T].jobs[i]].done = All(m[T].jobs[i])
  <1>1. Nested(m) /\ ForkOK(m, jb) /\ WorkOK(m, jb)
    BY DEF JobsOK
  <1>2. m[T].i \in 1..Len(m[T].jobs)
    BY <1>1 DEF Nested
  <1>3. CASE i < m[T].i
    BY <1>1, <1>3 DEF ForkOK
  <1>4. CASE i = m[T].i
    <2>1. PICK J : J = m[T].jobs[i]
      OBVIOUS
    <2>2. J \in DOMAIN jb /\ Idle(jb[J]) /\ jb[J].exit = 0
      BY <1>1, <1>4, <2>1 DEF ForkOK
    <2>3. jb[J].done = All(J)
      BY <1>1, <2>2, IdleJobs
    <2> QED
      BY <2>1, <2>3
  <1>5. i < m[T].i \/ i = m[T].i
    BY <1>2
  <1> QED
    BY <1>3, <1>4, <1>5

\* halide_do_parallel_tasks and halide_do_par_for return success only when every
\* iteration of every task has been completed.
THEOREM SuccessIsComplete == Spec => [](aborted \/ CompleteOnReturn)
  <1>1. ASSUME ShapeInv, JobsOK(FMap(stack), job, wq.jobs)
        PROVE  CompleteOnReturn
    <2> SUFFICES ASSUME NEW t \in Threads, At(t, "join"), Top(t).i = Len(Top(t).jobs),
                        Top(t).status = 0, job[Top(t).jobs[Top(t).i]].exit = 0,
                        NEW i \in 1..Len(Top(t).jobs)
                 PROVE  job[Top(t).jobs[i]].done = All(Top(t).jobs[i])
      BY DEF CompleteOnReturn, All
    <2>1. stack[t] # <<>> /\ Top(t).at = "join"
      BY DEF At
    <2>2. PICK T : IsTop(t, T)
      BY <1>1, <2>1, TopAt
    <2>3. PICK m : m = FMap(stack)
      OBVIOUS
    <2>4. T \in DOMAIN m /\ Over(T) \notin DOMAIN m /\ m[T] = Top(t) /\ JobsOK(m, job, wq.jobs)
      BY <1>1, <2>2, <2>3 DEF IsTop
    <2> QED
      BY <2>1, <2>4, ForkComplete
  <1>2. ShapeInv /\ JobsInv => aborted \/ CompleteOnReturn
    BY <1>1 DEF JobsInv
  <1> QED
    BY <1>2, StackInvariance, JobsInvariance, PTL

\* The calls of the closure of a job, in the invariant: what "joining" is, no job has.
CallsOn(m, J) == {p \in DOMAIN m : m[p].at \in {"body", "released", "failing"} /\ m[p].job = J}

\* A serial job has one thread at work, whose call is past the iterations done.
LEMMA SerialCalls ==
  ASSUME NEW m, NEW jb, NEW js, JobsOK(m, jb, js), NEW J \in DOMAIN jb, Serial(J)
  PROVE  /\ IsFiniteSet(On(m, J)) /\ Cardinality(On(m, J)) <= 1
         /\ \A p, q \in On(m, J) : p = q
         /\ \A p \in CallsOn(m, J) :
               /\ Under(p) \in On(m, J) /\ m[p].it >= jb[J].min + m[Under(p)].total
               /\ \A q \in CallsOn(m, J) : p = q
  <1>1. Nested(m) /\ CallOK(m, jb) /\ WorkOK(m, jb)
    BY DEF JobsOK
  <1>2. IsFiniteSet(On(m, J)) /\ Cardinality(On(m, J)) <= 1 /\ IsTask(J)
    BY <1>1 DEF WorkOK
  <1>3. \A p, q \in On(m, J) : p = q
    BY <1>2, AtMostOne
  <1>4. ASSUME NEW p \in CallsOn(m, J)
        PROVE  /\ IsPos(p) /\ p[2] > 1 /\ Under(p) \in On(m, J)
               /\ m[p].it >= jb[J].min + m[Under(p)].total
    <2>1. p \in DOMAIN m /\ m[p].at \in BodyAt /\ m[p].job = J /\ IsPos(p)
      BY <1>1 DEF CallsOn, BodyAt, Nested, IsPos
    <2>2. p[2] > 1
      <3>1. Len(J) = 3
        BY <1>2 DEF IsTask
      <3>2. \A x : Len(<<x>>) = 1
        OBVIOUS
      <3>3. p[2] # 1
        BY <1>1, <2>1, <3>1, <3>2 DEF Nested
      <3> QED
        BY <2>1, <3>3 DEF IsPos
    <2>3. Under(p) \in On(m, J)
      BY <1>1, <2>1, <2>2 DEF Nested, On, Busy
    <2>4. m[p].it >= jb[J].min + m[Under(p)].total
      BY <1>1, <2>1, <2>2 DEF CallOK
    <2> QED
      BY <2>1, <2>2, <2>3, <2>4
  <1>5. \A p, q \in CallsOn(m, J) : p = q
    <2>1. \A p, q \in CallsOn(m, J) : Under(p) = Under(q)
      BY <1>3, <1>4
    <2> QED
      BY <1>4, <2>1, Neighbours
  <1> QED
    BY <1>2, <1>3, <1>4, <1>5

\* A set whose elements are all the same.
LEMMA OneOf ==
  ASSUME NEW S, \A p, q \in S : p = q
  PROVE  Cardinality(S) <= 1
  <1>1. CASE S = {}
    <2>1. Cardinality(S) = 0
      BY <1>1, FS_EmptySet, Zenon
    <2> QED
      BY <2>1
  <1>2. CASE S # {}
    <2>1. PICK p \in S : S = {p}
      BY <1>2
    <2>2. Cardinality({p}) = 1
      BY FS_Singleton, Zenon
    <2>3. Cardinality(S) = 1
      BY <2>1, <2>2, Zenon
    <2> QED
      BY <2>3
  <1> QED
    BY <1>1, <1>2

\* The iterations of a serial task are run one at a time, in order, by one call of its
\* closure at a time, however many threads there are and whatever makes them stop.
THEOREM SerialsInOrder == Spec => [](aborted \/ SerialInOrder)
  <1>1. ASSUME JobsOK(FMap(stack), job, wq.jobs)
        PROVE  SerialInOrder
    <2> SUFFICES ASSUME NEW J \in DOMAIN job, Serial(J)
                 PROVE  /\ Cardinality(WorkersOn(J)) <= 1
                        /\ Cardinality(Calls(J)) <= 1
                        /\ Calls(J) # {} => CallOf(J).it >= Ended(J)
      BY DEF SerialInOrder, Serial
    <2>1. PICK m : m = FMap(stack)
      OBVIOUS
    <2>2. /\ WorkersOn(J) = On(m, J) /\ \A p \in Frames : Frame(p) = m[p] /\ Frames = DOMAIN m
      BY <2>1, FramesAre
    <2>3. Calls(J) = CallsOn(m, J)
      BY <2>1, FramesAre DEF Calls, Calling, CallsOn
    <2>4. /\ Cardinality(On(m, J)) <= 1 /\ \A p, q \in On(m, J) : p = q
          /\ \A p \in CallsOn(m, J) :
                /\ Under(p) \in On(m, J) /\ m[p].it >= job[J].min + m[Under(p)].total
                /\ \A q \in CallsOn(m, J) : p = q
      BY <1>1, <2>1, SerialCalls
    <2>5. Cardinality(CallsOn(m, J)) <= 1
      BY <2>4, OneOf
    <2>6. ASSUME Calls(J) # {}
          PROVE  CallOf(J).it >= Ended(J)
      <3>1. PICK p : p = CHOOSE x \in Calls(J) : TRUE
        OBVIOUS
      <3>2. p \in CallsOn(m, J) /\ CallOf(J) = m[p]
        <4>1. p \in Calls(J)
          BY <2>6, <3>1
        <4>2. Frame(p) = m[p]
          BY <2>1, <4>1, FramesAre DEF Calls
        <4> QED
          BY <2>3, <3>1, <4>1, <4>2 DEF CallOf
      <3>3. PICK q : q = CHOOSE x \in WorkersOn(J) : TRUE
        OBVIOUS
      <3>4. WorkersOn(J) # {}
        BY <2>2, <2>4, <3>2
      <3>5. q \in On(m, J) /\ Frame(q) = m[q]
        <4>1. q \in WorkersOn(J)
          BY <3>3, <3>4
        <4> QED
          BY <2>1, <2>2, <4>1, FramesAre DEF WorkersOn
      <3>6. q = Under(p)
        BY <2>4, <3>2, <3>5
      <3>7. Ended(J) = job[J].min + m[q].total
        BY <3>3, <3>4, <3>5 DEF Ended
      <3> QED
        BY <2>4, <3>2, <3>6, <3>7
    <2> QED
      BY <2>2, <2>3, <2>4, <2>5, <2>6
  <1>2. JobsInv => aborted \/ SerialInOrder
    BY <1>1 DEF JobsInv
  <1> QED
    BY <1>2, JobsInvariance, PTL
-----------------------------------------------------------------------------
(***************************************************************************)
(* What the thread pool has promised to blocking tasks, for any number of  *)
(* threads and any program: threads_reserved of the queue and of every job *)
(* is the sum over the children at work.                                   *)
(***************************************************************************)

(* Sums over sets of jobs *)

\* A number for each element of a finite set, and the same as a set of so many units.
Numbers(w, S) == IsFiniteSet(S) /\ \A x \in S : w[x] \in Nat
UnitsOf(w, S) == UNION {{x} \X (1..w[x]) : x \in S}

\* The recursion of MapThenSumSet.
SumOf(w, S, it) ==
    it = [s \in SUBSET S |-> IF s = {} THEN 0
                             ELSE w[CHOOSE x \in s : TRUE] + it[s \ {CHOOSE x \in s : TRUE}]]

\* An element's units are as many as its number says, and no other's.
LEMMA UnitsOfOne ==
  ASSUME NEW w, NEW S, NEW x \in S, w[x] \in Nat, IsFiniteSet(UnitsOf(w, S \ {x}))
  PROVE  /\ IsFiniteSet(UnitsOf(w, S))
         /\ Cardinality(UnitsOf(w, S)) = w[x] + Cardinality(UnitsOf(w, S \ {x}))
  <1>1. PICK n, B, R : n = w[x] /\ B = {x} \X (1..n) /\ R = UnitsOf(w, S \ {x})
    OBVIOUS
  <1>2. IsFiniteSet(B) /\ Cardinality(B) = n
    <2>1. IsFiniteSet({x}) /\ Cardinality({x}) = 1
      BY FS_Singleton
    <2>2. IsFiniteSet(1..n) /\ Cardinality(1..n) = n
      <3>1. n \in Nat
        BY <1>1
      <3> QED
        BY <3>1, FS_Interval
    <2>3. /\ IsFiniteSet({x} \X (1..n))
          /\ Cardinality({x} \X (1..n)) = Cardinality({x}) * Cardinality(1..n)
      BY <2>1, <2>2, FS_Product, Zenon
    <2>4. 1 * n = n
      BY <1>1
    <2> QED
      BY <1>1, <2>1, <2>2, <2>3, <2>4, Zenon
  <1>3. UnitsOf(w, S) = B \cup R
    BY <1>1 DEF UnitsOf
  <1>4. B \cap R = {}
    BY <1>1 DEF UnitsOf
  <1>5. IsFiniteSet(R) /\ Cardinality(R) \in Nat
    BY <1>1, FS_CardinalityType
  <1>6. /\ IsFiniteSet(B \cup R)
        /\ Cardinality(B \cup R) = Cardinality(B) + Cardinality(R) - Cardinality(B \cap R)
    BY <1>2, <1>5, FS_Union
  <1>7. Cardinality(B \cap R) = 0
    BY <1>4, FS_EmptySet, Zenon
  <1>8. Cardinality(B \cup R) = n + Cardinality(R)
    BY <1>1, <1>2, <1>5, <1>6, <1>7
  <1> QED
    BY <1>1, <1>3, <1>6, <1>8

\* A finite set has finitely many units.
LEMMA UnitsOfFinite ==
  ASSUME NEW w, NEW S, Numbers(w, S)
  PROVE  IsFiniteSet(UnitsOf(w, S))
  <1> DEFINE T == {n \in Nat : \E s \in SUBSET S : Cardinality(s) = n /\ ~IsFiniteSet(UnitsOf(w, s))}
  <1>1. \A s \in SUBSET S : IsFiniteSet(s) /\ Cardinality(s) \in Nat
    BY FS_Subset, FS_CardinalityType DEF Numbers
  <1> SUFFICES ASSUME T # {} PROVE FALSE
    BY <1>1
  <1>2. PICK n \in T : \A k \in T : n <= k
    BY LeastNat
  <1>3. PICK s \in SUBSET S : Cardinality(s) = n /\ ~IsFiniteSet(UnitsOf(w, s))
    BY <1>2
  <1>4. s # {}
    <2>1. UnitsOf(w, {}) = {}
      BY DEF UnitsOf
    <2> QED
      BY <1>3, <2>1, FS_EmptySet
  <1>5. PICK x \in s : TRUE
    BY <1>4
  <1>6. s \ {x} \in SUBSET S /\ Cardinality(s \ {x}) = n - 1 /\ n - 1 \in Nat
    <2>1. IsFiniteSet(s) /\ Cardinality(s \ {x}) = n - 1
      BY <1>1, <1>3, <1>5, FS_RemoveElement
    <2>2. s \ {x} \in SUBSET S
      BY <1>3
    <2> QED
      BY <1>1, <2>1, <2>2
  <1>7. IsFiniteSet(UnitsOf(w, s \ {x}))
    <2>1. ~ (n - 1 \in T)
      BY <1>2, <1>6
    <2> QED
      BY <1>6, <2>1
  <1>8. w[x] \in Nat
    BY <1>3, <1>5 DEF Numbers
  <1> QED
    BY <1>3, <1>5, <1>7, <1>8, UnitsOfOne

\* A solution of the recursion counts the units, whatever its order.
LEMMA SumIsUnits ==
  ASSUME NEW w, NEW S, Numbers(w, S), NEW it, SumOf(w, S, it)
  PROVE  it[S] = Cardinality(UnitsOf(w, S))
  <1> DEFINE T == {n \in Nat : \E s \in SUBSET S :
                                  Cardinality(s) = n /\ it[s] # Cardinality(UnitsOf(w, s))}
  <1>1. \A s \in SUBSET S : IsFiniteSet(s) /\ Cardinality(s) \in Nat
    BY FS_Subset, FS_CardinalityType DEF Numbers
  <1> SUFFICES ASSUME T # {} PROVE FALSE
    BY <1>1
  <1>2. PICK n \in T : \A k \in T : n <= k
    BY LeastNat
  <1>3. PICK s \in SUBSET S : Cardinality(s) = n /\ it[s] # Cardinality(UnitsOf(w, s))
    BY <1>2
  <1>4. s # {}
    <2>1. UnitsOf(w, {}) = {}
      BY DEF UnitsOf
    <2>2. it[{}] = 0
      BY DEF SumOf
    <2> QED
      BY <1>3, <2>1, <2>2, FS_EmptySet
  <1>5. PICK x : x = CHOOSE y \in s : TRUE
    OBVIOUS
  <1>6. x \in s
    BY <1>4, <1>5
  <1>7. s \ {x} \in SUBSET S /\ Cardinality(s \ {x}) = n - 1 /\ n - 1 \in Nat
    <2>1. IsFiniteSet(s) /\ Cardinality(s \ {x}) = n - 1
      BY <1>1, <1>3, <1>6, FS_RemoveElement
    <2>2. s \ {x} \in SUBSET S
      BY <1>3
    <2> QED
      BY <1>1, <2>1, <2>2
  <1>8. it[s \ {x}] = Cardinality(UnitsOf(w, s \ {x}))
    <2>1. ~ (n - 1 \in T)
      <3> HIDE DEF T
      <3>1. n \in Nat
        BY <1>2 DEF T
      <3>2. n - 1 \in T => n <= n - 1
        BY <1>2
      <3> QED
        BY <3>1, <3>2
    <2> QED
      BY <1>7, <2>1
  <1>9. it[s] = w[x] + it[s \ {x}]
    BY <1>3, <1>4, <1>5 DEF SumOf
  <1>10. w[x] \in Nat /\ IsFiniteSet(UnitsOf(w, s \ {x}))
    <2>1. Numbers(w, s \ {x}) /\ w[x] \in Nat
      BY <1>1, <1>3, <1>6, <1>7 DEF Numbers
    <2> QED
      BY <2>1, UnitsOfFinite
  <1>11. Cardinality(UnitsOf(w, s)) = w[x] + Cardinality(UnitsOf(w, s \ {x}))
    BY <1>6, <1>10, UnitsOfOne
  <1> QED
    BY <1>3, <1>8, <1>9, <1>11

\* The recursion has a solution.
LEMMA SumExists ==
  ASSUME NEW w, NEW S, Numbers(w, S)
  PROVE  \E it : SumOf(w, S, it)
  <1>1. PICK f : f = [s \in SUBSET S |-> Cardinality(UnitsOf(w, s))]
    OBVIOUS
  <1>2. ASSUME NEW s \in SUBSET S
        PROVE  Cardinality(UnitsOf(w, s)) = IF s = {} THEN 0
                                            ELSE w[CHOOSE x \in s : TRUE]
                                                   + f[s \ {CHOOSE x \in s : TRUE}]
    <2>1. CASE s = {}
      <3>1. UnitsOf(w, {}) = {}
        BY DEF UnitsOf
      <3> QED
        BY <2>1, <3>1, FS_EmptySet
    <2>2. CASE s # {}
      <3>1. PICK x : x = CHOOSE y \in s : TRUE
        OBVIOUS
      <3>2. x \in s /\ s \ {x} \in SUBSET S
        BY <2>2, <3>1
      <3>3. Numbers(w, s \ {x}) /\ w[x] \in Nat
        BY <3>2, FS_Subset DEF Numbers
      <3>4. Cardinality(UnitsOf(w, s)) = w[x] + Cardinality(UnitsOf(w, s \ {x}))
        BY <3>2, <3>3, UnitsOfFinite, UnitsOfOne
      <3>5. f[s \ {x}] = Cardinality(UnitsOf(w, s \ {x}))
        BY <1>1, <3>2
      <3> QED
        BY <2>2, <3>1, <3>4, <3>5
    <2> QED
      BY <2>1, <2>2
  <1>3. SumOf(w, S, f)
    BY <1>1, <1>2 DEF SumOf
  <1> QED
    BY <1>3

\* What a job takes of its parent's threads, and the units of a set of jobs.
Weight(jb, J) == jb[J].active * TaskOf(J).min_threads
Units(jb, S)  == UNION {{J} \X (1..Weight(jb, J)) : J \in S}
Weighed(jb, S) == IsFiniteSet(S) /\ \A J \in S : Weight(jb, J) \in Nat

\* A job's units are as many as it weighs, and no other's.
LEMMA UnitsSplit ==
  ASSUME NEW jb, NEW S, NEW J \in S, Weight(jb, J) \in Nat, IsFiniteSet(Units(jb, S \ {J}))
  PROVE  /\ IsFiniteSet(Units(jb, S))
         /\ Cardinality(Units(jb, S)) = Weight(jb, J) + Cardinality(Units(jb, S \ {J}))
  <1>1. PICK w : w = [K \in S |-> Weight(jb, K)]
    OBVIOUS
  <1>2. Units(jb, S) = UnitsOf(w, S) /\ Units(jb, S \ {J}) = UnitsOf(w, S \ {J})
    BY <1>1 DEF Units, UnitsOf
  <1>3. w[J] = Weight(jb, J)
    BY <1>1
  <1> QED
    BY <1>2, <1>3, UnitsOfOne

\* Finitely many jobs have finitely many units.
LEMMA UnitsFinite ==
  ASSUME NEW jb, NEW S, Weighed(jb, S)
  PROVE  IsFiniteSet(Units(jb, S))
  <1>1. PICK w : w = [K \in S |-> Weight(jb, K)]
    OBVIOUS
  <1>2. Units(jb, S) = UnitsOf(w, S)
    BY <1>1 DEF Units, UnitsOf
  <1>3. Numbers(w, S)
    BY <1>1 DEF Numbers, Weighed
  <1> QED
    BY <1>2, <1>3, UnitsOfFinite

\* The sum of what is reserved in ThreadPool.tla.
ReservedAdds(S, it) ==
    it = [s \in SUBSET S |-> IF s = {} THEN 0
             ELSE job[CHOOSE x \in s : TRUE].active * TaskOf(CHOOSE x \in s : TRUE).min_threads
                    + it[s \ {CHOOSE x \in s : TRUE}]]

\* It counts the units.
LEMMA ReservedSum ==
  ASSUME NEW S, Weighed(job, S)
  PROVE  MapThenSumSet(LAMBDA K : job[K].active * TaskOf(K).min_threads, S)
           = Cardinality(Units(job, S))
  <1>1. PICK w : w = [K \in S |-> Weight(job, K)]
    OBVIOUS
  <1>2. PICK f : f = CHOOSE it : ReservedAdds(S, it)
    OBVIOUS
  <1>3. MapThenSumSet(LAMBDA K : job[K].active * TaskOf(K).min_threads, S) = f[S]
    BY <1>2, Zenon DEF MapThenSumSet, MapThenFoldSet, ReservedAdds
  <1>4. ASSUME NEW it
        PROVE  ReservedAdds(S, it) <=> SumOf(w, S, it)
    <2>1. ASSUME NEW s \in SUBSET S
          PROVE  (IF s = {} THEN 0 ELSE job[CHOOSE x \in s : TRUE].active
                                            * TaskOf(CHOOSE x \in s : TRUE).min_threads
                                          + it[s \ {CHOOSE x \in s : TRUE}])
                 = (IF s = {} THEN 0 ELSE w[CHOOSE x \in s : TRUE] + it[s \ {CHOOSE x \in s : TRUE}])
      <3>1. s # {} => (CHOOSE x \in s : TRUE) \in S
        OBVIOUS
      <3> QED
        BY <1>1, <3>1 DEF Weight
    <2> QED
      BY <2>1 DEF ReservedAdds, SumOf
  <1>5. Numbers(w, S)
    BY <1>1 DEF Numbers, Weighed
  <1>6. ReservedAdds(S, f)
    BY <1>2, <1>4, <1>5, SumExists, Zenon
  <1>7. f[S] = Cardinality(UnitsOf(w, S))
    BY <1>4, <1>5, <1>6, SumIsUnits
  <1>8. UnitsOf(w, S) = Units(job, S)
    BY <1>1 DEF Units, UnitsOf
  <1> QED
    BY <1>3, <1>7, <1>8
----------------------------------------------------------------------------
(* What is reserved *)

\* The children of a job, or the jobs without a parent, and what they take together.
Kids(jb, P) == {K \in DOMAIN jb : jb[K].parent = P}
Load(jb, P) == Cardinality(Units(jb, Kids(jb, P)))

SumsOK(jb, n) ==
    /\ IsFiniteSet(DOMAIN jb)
    /\ n = Load(jb, NoParent)
    /\ \A J \in DOMAIN jb : jb[J].reserved = Load(jb, J)

\* Jobs whose weights are numbers.
Counted(jb) ==
    \A J \in DOMAIN jb : IsWork(jb[J]) /\ jb[J].active \in Nat /\ Weight(jb, J) \in Nat
                         /\ TaskOf(J).min_threads \in Nat

\* The jobs of the invariant are.
LEMMA JobsCounted ==
  ASSUME NEW m, NEW jb, NEW js, JobsOK(m, jb, js)
  PROVE  Counted(jb)
  <1> SUFFICES ASSUME NEW J \in DOMAIN jb
               PROVE  /\ IsWork(jb[J]) /\ jb[J].active \in Nat /\ Weight(jb, J) \in Nat
                      /\ TaskOf(J).min_threads \in Nat
    BY DEF Counted
  <1>1. IsTask(J) /\ IsWork(jb[J])
    BY DEF JobsOK, WorkOK
  <1>2. IsFiniteSet(On(m, J)) /\ jb[J].active = Cardinality(On(m, J))
    BY DEF JobsOK, WorkOK
  <1>3. jb[J].active \in Nat
    BY <1>2, FS_CardinalityType
  <1>4. TaskOf(J).min_threads \in Nat
    BY <1>1, TaskAssumption DEF IsTask, TaskOf
  <1>5. PICK a, b : a = jb[J].active /\ b = TaskOf(J).min_threads
    OBVIOUS
  <1>6. a * b \in Nat
    BY <1>3, <1>4, <1>5
  <1> QED
    BY <1>1, <1>3, <1>4, <1>5, <1>6 DEF Weight

\* So are any of them together.
LEMMA KidsWeighed ==
  ASSUME NEW jb, Counted(jb), IsFiniteSet(DOMAIN jb), NEW P
  PROVE  Weighed(jb, Kids(jb, P))
  <1>1. Kids(jb, P) \in SUBSET DOMAIN jb
    BY DEF Kids
  <1>2. IsFiniteSet(Kids(jb, P))
    BY <1>1, FS_Subset
  <1> QED
    BY <1>1, <1>2 DEF Weighed, Counted

\* What reservations are about is the same in two records.
SameLoad(r, q) == q.active = r.active /\ q.parent = r.parent /\ q.reserved = r.reserved
SameLoads(jb, jb2) ==
    DOMAIN jb2 = DOMAIN jb /\ \A J \in DOMAIN jb : SameLoad(jb[J], jb2[J])

\* Then the sums are.
LEMMA SumsSame ==
  ASSUME NEW jb, NEW n, SumsOK(jb, n), NEW jb2, SameLoads(jb, jb2)
  PROVE  SumsOK(jb2, n)
  <1>1. ASSUME NEW P
        PROVE  Load(jb2, P) = Load(jb, P)
    <2>1. Kids(jb2, P) = Kids(jb, P)
      BY DEF Kids, SameLoads, SameLoad
    <2>2. \A K \in Kids(jb, P) : Weight(jb2, K) = Weight(jb, K)
      BY DEF Kids, SameLoads, SameLoad, Weight
    <2>3. Units(jb2, Kids(jb2, P)) = Units(jb, Kids(jb, P))
      BY <2>1, <2>2 DEF Units
    <2> QED
      BY <2>3 DEF Load
  <1> QED
    BY <1>1 DEF SumsOK, SameLoads, SameLoad

\* A job that nobody works on takes nothing.
LEMMA IdleUnits ==
  ASSUME NEW jb, NEW S, NEW R, R \subseteq S,
         \A J \in S \ R : jb[J].active = 0 /\ TaskOf(J).min_threads \in Nat
  PROVE  Units(jb, S) = Units(jb, R)
  <1>1. ASSUME NEW J \in S \ R
        PROVE  {J} \X (1..Weight(jb, J)) = {}
    <2>1. PICK a, b : a = jb[J].active /\ b = TaskOf(J).min_threads
      OBVIOUS
    <2>2. a = 0 /\ b \in Nat
      BY <2>1
    <2>3. a * b = 0
      BY <2>2
    <2>4. Weight(jb, J) = 0
      BY <2>1, <2>3 DEF Weight
    <2>5. 1..0 = {}
      OBVIOUS
    <2> QED
      BY <2>4, <2>5
  <1> QED
    BY <1>1 DEF Units

\* The jobs of a fork go when nobody works on them.
LEMMA SumsWithout ==
  ASSUME NEW jb, NEW n, SumsOK(jb, n), Counted(jb), NEW jb2, NEW gone, Without(jb, jb2, gone),
         \A J \in gone : J \in DOMAIN jb => jb[J].active = 0
  PROVE  SumsOK(jb2, n)
  <1>1. ASSUME NEW P
        PROVE  Load(jb2, P) = Load(jb, P)
    <2>1. /\ Kids(jb2, P) \subseteq Kids(jb, P)
          /\ \A J \in Kids(jb, P) \ Kids(jb2, P) :
                jb[J].active = 0 /\ TaskOf(J).min_threads \in Nat
      BY DEF Kids, Without, Counted
    <2>2. Units(jb, Kids(jb, P)) = Units(jb, Kids(jb2, P))
      BY <2>1, IdleUnits
    <2>3. \A J \in Kids(jb2, P) : Weight(jb2, J) = Weight(jb, J)
      BY DEF Kids, Without, Weight
    <2>4. Units(jb2, Kids(jb2, P)) = Units(jb, Kids(jb2, P))
      BY <2>3 DEF Units
    <2> QED
      BY <2>2, <2>4 DEF Load
  <1>2. IsFiniteSet(DOMAIN jb2)
    BY FS_Difference DEF Without, SumsOK
  <1> QED
    BY <1>1, <1>2 DEF SumsOK, Without

\* Those that a call adds are worked on by nobody, and have no children yet.
LEMMA SumsWith ==
  ASSUME NEW jb, NEW n, SumsOK(jb, n), NEW jb2, Counted(jb2), NEW ids, NEW parent,
         NEW J0, NEW n0, Named(ids, J0, n0), With(jb, jb2, ids, parent),
         \A J \in DOMAIN jb2 \ DOMAIN jb : jb2[J].reserved = 0,
         \A J \in DOMAIN jb2 : jb2[J].parent # NoParent => jb2[jb2[J].parent].active > 0
  PROVE  SumsOK(jb2, n)
  <1>1. \A J \in DOMAIN jb2 \ DOMAIN jb : jb2[J].active = 0
    BY DEF With, New
  <1>2. ASSUME NEW P
        PROVE  Load(jb2, P) = Load(jb, P)
    <2>1. /\ Kids(jb, P) \subseteq Kids(jb2, P)
          /\ \A J \in Kids(jb2, P) \ Kids(jb, P) :
                jb2[J].active = 0 /\ TaskOf(J).min_threads \in Nat
      BY <1>1 DEF Kids, With, Counted
    <2>2. Units(jb2, Kids(jb2, P)) = Units(jb2, Kids(jb, P))
      BY <2>1, IdleUnits
    <2>3. \A J \in Kids(jb, P) : Weight(jb2, J) = Weight(jb, J)
      BY DEF Kids, With, Weight
    <2>4. Units(jb2, Kids(jb, P)) = Units(jb, Kids(jb, P))
      BY <2>3 DEF Units
    <2> QED
      BY <2>2, <2>4 DEF Load
  <1>3. ASSUME NEW J \in DOMAIN jb2 \ DOMAIN jb, J # NoParent
        PROVE  Load(jb2, J) = 0
    <2>1. Kids(jb2, J) = {}
      BY <1>1, <1>3 DEF Kids
    <2>2. Units(jb2, {}) = {}
      BY DEF Units
    <2> QED
      BY <2>1, <2>2, FS_EmptySet DEF Load
  <1>4. IsFiniteSet(DOMAIN jb2)
    <2>1. PICK S, f : S = {ids[i] : i \in 1..Len(ids)} /\ f = [i \in 1..Len(ids) |-> ids[i]]
      OBVIOUS
    <2>2. f \in Surjection(1..Len(ids), S)
      BY <2>1 DEF Surjection
    <2>3. IsFiniteSet(1..Len(ids))
      BY FS_Interval DEF Named
    <2>4. IsFiniteSet(S)
      BY <2>2, <2>3, FS_Surjection
    <2>5. IsFiniteSet(DOMAIN jb \cup S)
      BY <2>4, FS_Union DEF SumsOK
    <2> QED
      BY <2>1, <2>5 DEF With
  <1>5. NoParent \notin DOMAIN jb2 \ DOMAIN jb
    <2>1. \A x, y, z : <<x, y, z>> # <<>>
      OBVIOUS
    <2>2. \A J \in DOMAIN jb2 \ DOMAIN jb : IsTask(J)
      BY DEF With, Named
    <2> QED
      BY <2>1, <2>2 DEF IsTask, NoParent
  <1>6. ASSUME NEW J \in DOMAIN jb2
        PROVE  jb2[J].reserved = Load(jb2, J)
    <2>1. CASE J \in DOMAIN jb
      BY <1>2, <2>1 DEF With, SumsOK
    <2>2. CASE J \notin DOMAIN jb
      BY <1>3, <1>5, <2>2
    <2> QED
      BY <2>1, <2>2
  <1> QED
    BY <1>2, <1>4, <1>6 DEF SumsOK

\* Reserving d threads of P's, or of the pool's.
Reserves(jb, jb2, n, n2, P, d) ==
    /\ DOMAIN jb2 = DOMAIN jb
    /\ \A K \in DOMAIN jb : jb2[K].active = jb[K].active /\ jb2[K].parent = jb[K].parent
    /\ IF P = NoParent THEN n2 = n + d ELSE n2 = n
    /\ \A K \in DOMAIN jb : jb2[K].reserved = IF K = P THEN jb[K].reserved + d ELSE jb[K].reserved

\* A thread begins or ends its work on a job: its parent's load is what it was and that.
LEMMA LoadChanged ==
  ASSUME NEW jb, NEW jb2, Counted(jb), Counted(jb2), IsFiniteSet(DOMAIN jb),
         DOMAIN jb2 = DOMAIN jb, \A K \in DOMAIN jb : jb2[K].parent = jb[K].parent,
         NEW J \in DOMAIN jb, \A K \in DOMAIN jb : K # J => jb2[K].active = jb[K].active,
         NEW d \in Int, jb2[J].active = jb[J].active + d, NEW P
  PROVE  Load(jb2, P) = IF P = jb[J].parent THEN Load(jb, P) + d * TaskOf(J).min_threads
                        ELSE Load(jb, P)
  <1>1. PICK S : S = Kids(jb, P)
    OBVIOUS
  <1>2. S = Kids(jb2, P)
    BY <1>1 DEF Kids
  <1>3. Weighed(jb, S) /\ Weighed(jb2, S)
    BY <1>1, <1>2, KidsWeighed
  <1>4. Units(jb2, S \ {J}) = Units(jb, S \ {J})
    <2>1. \A K \in S \ {J} : Weight(jb2, K) = Weight(jb, K)
      BY <1>1 DEF Kids, Weight
    <2> QED
      BY <2>1 DEF Units
  <1>5. CASE P = jb[J].parent
    <2>1. J \in S
      BY <1>1, <1>5 DEF Kids
    <2>2. /\ Weighed(jb, S \ {J}) /\ Weighed(jb2, S \ {J})
          /\ Weight(jb, J) \in Nat /\ Weight(jb2, J) \in Nat
      BY <1>3, <2>1, FS_RemoveElement DEF Weighed
    <2>3. PICK c : c = Cardinality(Units(jb, S \ {J}))
      OBVIOUS
    <2>4. IsFiniteSet(Units(jb, S \ {J})) /\ IsFiniteSet(Units(jb2, S \ {J})) /\ c \in Nat
      BY <2>2, <2>3, UnitsFinite, FS_CardinalityType
    <2>5. Load(jb, P) = Weight(jb, J) + c
      BY <1>1, <2>1, <2>2, <2>3, <2>4, UnitsSplit DEF Load
    <2>6. Load(jb2, P) = Weight(jb2, J) + c
      BY <1>2, <1>4, <2>1, <2>2, <2>3, <2>4, UnitsSplit DEF Load
    <2>7. Weight(jb2, J) = Weight(jb, J) + d * TaskOf(J).min_threads
      <3>1. PICK a, k : a = jb[J].active /\ k = TaskOf(J).min_threads
        OBVIOUS
      <3>2. a \in Nat /\ k \in Nat
        BY <3>1 DEF Counted
      <3>3. (a + d) * k = a * k + d * k
        BY <3>2
      <3> QED
        BY <3>1, <3>3 DEF Weight
    <2>8. PICK w, e : w = Weight(jb, J) /\ e = d * TaskOf(J).min_threads
      OBVIOUS
    <2>9. w \in Nat /\ e \in Int
      BY <2>2, <2>8 DEF Counted
    <2>10. (w + e) + c = (w + c) + e
      BY <2>4, <2>9
    <2> QED
      BY <1>5, <2>5, <2>6, <2>7, <2>8, <2>10
  <1>6. CASE P # jb[J].parent
    <2>1. S \ {J} = S
      BY <1>1, <1>6 DEF Kids
    <2>2. Units(jb2, S) = Units(jb, S)
      BY <1>4, <2>1
    <2> QED
      BY <1>1, <1>2, <1>6, <2>2 DEF Load
  <1> QED
    BY <1>5, <1>6

\* So the sums stay exact when the change is reserved.
LEMMA SumsReserved ==
  ASSUME NEW jb, NEW n, SumsOK(jb, n), Counted(jb), NEW jb1,
         DOMAIN jb1 = DOMAIN jb, NEW J \in DOMAIN jb, NEW d \in Int,
         \A K \in DOMAIN jb : K # J => SameLoad(jb[K], jb1[K]),
         jb1[J].active = jb[J].active + d, jb1[J].parent = jb[J].parent,
         jb1[J].reserved = jb[J].reserved,
         NEW jb2, NEW n2, Counted(jb2),
         Reserves(jb1, jb2, n, n2, jb[J].parent, d * TaskOf(J).min_threads)
  PROVE  SumsOK(jb2, n2)
  <1>1. PICK Q, e : Q = jb[J].parent /\ e = d * TaskOf(J).min_threads
    OBVIOUS
  <1>2. /\ DOMAIN jb2 = DOMAIN jb /\ \A K \in DOMAIN jb : jb2[K].parent = jb[K].parent
        /\ \A K \in DOMAIN jb : K # J => jb2[K].active = jb[K].active
        /\ jb2[J].active = jb[J].active + d
        /\ IF Q = NoParent THEN n2 = n + e ELSE n2 = n
        /\ \A K \in DOMAIN jb : jb2[K].reserved = IF K = Q THEN jb[K].reserved + e ELSE jb[K].reserved
    BY <1>1 DEF Reserves, SameLoad
  <1>3. IsFiniteSet(DOMAIN jb)
    BY DEF SumsOK
  <1>4. \A P : Load(jb2, P) = IF P = Q THEN Load(jb, P) + e ELSE Load(jb, P)
    BY <1>1, <1>2, <1>3, LoadChanged
  <1>5. n = Load(jb, NoParent) /\ \A K \in DOMAIN jb : jb[K].reserved = Load(jb, K)
    BY DEF SumsOK
  <1>6. n2 = Load(jb2, NoParent)
    BY <1>2, <1>4, <1>5
  <1>7. \A K \in DOMAIN jb2 : jb2[K].reserved = Load(jb2, K)
    BY <1>2, <1>4, <1>5
  <1> QED
    BY <1>2, <1>3, <1>6, <1>7 DEF SumsOK
----------------------------------------------------------------------------
(* The steps of the threads *)

CountInv == aborted \/ SumsOK(job, wq.threads_reserved)

\* One field of a record is changed that reservations are not about.
Touched(r, q) ==
    \/ q = r
    \/ \E x : \/ q = [r EXCEPT !.extent = x] \/ q = [r EXCEPT !.exit = x]
              \/ q = [r EXCEPT !.next = x]   \/ q = [r EXCEPT !.sleeping = x]

\* Such changes keep the loads.
LEMMA TouchedLoads ==
  ASSUME NEW jb, Counted(jb), NEW jb2, DOMAIN jb2 = DOMAIN jb,
         \A K \in DOMAIN jb : Touched(jb[K], jb2[K])
  PROVE  SameLoads(jb, jb2) /\ \A K \in DOMAIN jb : IsWork(jb2[K])
  <1> SUFFICES ASSUME NEW K \in DOMAIN jb
               PROVE  SameLoad(jb[K], jb2[K]) /\ IsWork(jb2[K])
    BY DEF SameLoads
  <1>1. PICK r, q : r = jb[K] /\ q = jb2[K]
    OBVIOUS
  <1>2. IsWork(r) /\ Touched(r, q)
    BY <1>1 DEF Counted
  <1>3. SameLoad(r, q) /\ IsWork(q)
    <2>1. CASE q = r
      BY <1>2, <2>1 DEF SameLoad
    <2>2. ASSUME NEW x, \/ q = [r EXCEPT !.extent = x] \/ q = [r EXCEPT !.exit = x]
                        \/ q = [r EXCEPT !.next = x]   \/ q = [r EXCEPT !.sleeping = x]
          PROVE  SameLoad(r, q) /\ IsWork(q)
      BY ONLY <1>2, <2>2 DEF SameLoad, IsWork
    <2> QED
      BY <1>2, <2>1, <2>2 DEF Touched
  <1> QED
    BY <1>1, <1>3

\* make_runnable touches the jobs it is called on.
LEMMA NextLoads ==
  ASSUME Counted(job), NEW js
  PROVE  /\ SameLoads(job, WithNext(js)) /\ DOMAIN WithNext(js) = DOMAIN job
         /\ \A K \in DOMAIN job : IsWork(WithNext(js)[K])
  <1>1. PICK jb2 : jb2 = WithNext(js)
    OBVIOUS
  <1>2. DOMAIN jb2 = DOMAIN job
    BY <1>1 DEF WithNext
  <1>3. ASSUME NEW K \in DOMAIN job
        PROVE  Touched(job[K], jb2[K])
    <2>1. PICK r, x : r = job[K] /\ x = NextSemaphore(K)
      OBVIOUS
    <2>2. jb2[K] = IF K \in js THEN [r EXCEPT !.next = x] ELSE r
      BY <1>1, <2>1 DEF WithNext
    <2> QED
      BY <2>1, <2>2 DEF Touched
  <1>4. SameLoads(job, jb2) /\ \A K \in DOMAIN job : IsWork(jb2[K])
    BY <1>2, <1>3, TouchedLoads
  <1> QED
    BY <1>1, <1>2, <1>4

\* An owner's going to sleep and waking touches its job.
LEMMA SleepingLoads ==
  ASSUME NEW jb, \A K \in DOMAIN jb : IsWork(jb[K]), NEW J, NEW x
  PROVE  SameLoads(jb, [jb EXCEPT ![J].sleeping = x])
  <1>1. PICK jb2 : jb2 = [jb EXCEPT ![J].sleeping = x]
    OBVIOUS
  <1>2. DOMAIN jb2 = DOMAIN jb
    BY <1>1
  <1>3. ASSUME NEW K \in DOMAIN jb
        PROVE  SameLoad(jb[K], jb2[K])
    <2>1. PICK r, q : r = jb[K] /\ q = jb2[K]
      OBVIOUS
    <2>2. q = r \/ q = [r EXCEPT !.sleeping = x]
      BY <1>1, <2>1
    <2>3. IsWork(r)
      BY <2>1
    <2>4. SameLoad(r, q)
      BY ONLY <2>2, <2>3 DEF SameLoad, IsWork
    <2> QED
      BY <2>1, <2>4
  <1> QED
    BY <1>1, <1>2, <1>3 DEF SameLoads

\* Actions that neither reserve threads nor add or remove jobs.
LEMMA SumsKept ==
  ASSUME SumsOK(job, wq.threads_reserved), SameLoads(job, job'),
         wq'.threads_reserved = wq.threads_reserved
  PROVE  SumsOK(job', wq'.threads_reserved)
  <1>1. PICK jb2, n : jb2 = job' /\ n = wq.threads_reserved
    OBVIOUS
  <1>2. SumsOK(job, n) /\ SameLoads(job, jb2)
    BY <1>1
  <1>3. SumsOK(jb2, n)
    BY <1>2, SumsSame
  <1> QED
    BY <1>1, <1>3

\* Jobs as they were.
LEMMA LoadsUnchanged ==
  job' = job => SameLoads(job, job')
  BY DEF SameLoads, SameLoad

\* The end of a failed job, and its failure taken over.
LEMMA FailureSums ==
  ASSUME ShapeInv, Counted(job), SumsOK(job, wq.threads_reserved), NEW t \in Threads,
         DropFailed(t) \/ InheritFailure(t)
  PROVE  SumsOK(job', wq'.threads_reserved)
  <1>1. PICK J, x : job' = [job EXCEPT ![J].extent = x] \/ job' = [job EXCEPT ![J].exit = x]
    BY DEF DropFailed, InheritFailure
  <1>2. wq'.threads_reserved = wq.threads_reserved
    BY DEF DropFailed, InheritFailure, ShapeInv, IsQueue
  <1>3. PICK jb2 : jb2 = job'
    OBVIOUS
  <1>4. DOMAIN jb2 = DOMAIN job
    BY <1>1, <1>3
  <1>5. ASSUME NEW K \in DOMAIN job
        PROVE  Touched(job[K], jb2[K])
    <2>1. PICK r, q : r = job[K] /\ q = jb2[K]
      OBVIOUS
    <2>2. q = r \/ q = [r EXCEPT !.extent = x] \/ q = [r EXCEPT !.exit = x]
      BY <1>1, <1>3, <2>1
    <2> QED
      BY <2>1, <2>2 DEF Touched
  <1>6. SameLoads(job, jb2)
    BY <1>4, <1>5, TouchedLoads
  <1> QED
    BY <1>2, <1>3, <1>6, SumsKept

\* Sleeping and waking.
LEMMA SleepSums ==
  ASSUME ShapeInv, Counted(job), SumsOK(job, wq.threads_reserved), NEW t \in Threads,
         Sleep(t) \/ Wake(t)
  PROVE  SumsOK(job', wq'.threads_reserved)
  <1>1. wq'.threads_reserved = wq.threads_reserved
    BY DEF Sleep, Wake, WorkerBack, ShapeInv, IsQueue
  <1>2. PICK J, x, js, jn : /\ jn = job \/ jn = WithNext(js)
                            /\ job' = jn \/ job' = [jn EXCEPT ![J].sleeping = x]
    <2>1. CASE Sleep(t)
      <3>1. \/ job' = WithNext(Considered(Top(t).owned))
            \/ job' = [WithNext(Considered(Top(t).owned)) EXCEPT ![Top(t).owned].sleeping = TRUE]
        BY <2>1 DEF Sleep
      <3> QED
        BY <3>1
    <2>2. CASE Wake(t)
      <3>1. job' = job \/ job' = [job EXCEPT ![Top(t).owned].sleeping = FALSE]
        BY <2>2 DEF Wake
      <3> QED
        BY <3>1
    <2> QED
      BY <2>1, <2>2
  <1>3. SameLoads(job, jn) /\ \A K \in DOMAIN jn : IsWork(jn[K])
    <2>1. CASE jn = job
      BY <2>1 DEF SameLoads, SameLoad, Counted
    <2>2. CASE jn = WithNext(js)
      BY <2>2, NextLoads
    <2> QED
      BY <1>2, <2>1, <2>2
  <1>4. SameLoads(jn, [jn EXCEPT ![J].sleeping = x])
    BY <1>3, SleepingLoads
  <1>5. SameLoads(job, job')
    BY <1>2, <1>3, <1>4 DEF SameLoads, SameLoad
  <1> QED
    BY <1>1, <1>5, SumsKept

\* Claiming iterations of a serial job.
LEMMA ClaimSums ==
  ASSUME ShapeInv, Counted(job), SumsOK(job, wq.threads_reserved), NEW t \in Threads,
         Claim(t) \/ RunClaimed(t)
  PROVE  SumsOK(job', wq'.threads_reserved)
  <1>1. wq'.threads_reserved = wq.threads_reserved
    BY DEF Claim, RunClaimed
  <1>2. PICK js : job' = job \/ job' = WithNext(js)
    BY DEF Claim, RunClaimed
  <1>3. SameLoads(job, job')
    BY <1>2, LoadsUnchanged, NextLoads
  <1> QED
    BY <1>1, <1>3, SumsKept

\* Steps that leave the jobs as they are.
LEMMA OtherSums ==
  ASSUME ShapeInv, SumsOK(job, wq.threads_reserved), NEW t \in Threads,
         \/ Leave(t) \/ Release(t) \/ ReleaseBroadcast(t) \/ Work(t) \/ SetNumThreads(t)
         \/ EndBody(t) \/ Shutdown(t)
  PROVE  SumsOK(job', wq'.threads_reserved)
  <1>1. wq'.threads_reserved = wq.threads_reserved
    BY DEF Leave, Release, ReleaseBroadcast, Work, SetNumThreads, EndBody, Shutdown, ShapeInv,
           IsQueue
  <1>2. job' = job
    BY DEF Leave, Release, ReleaseBroadcast, Work, SetNumThreads, EndBody, Shutdown
  <1> QED
    BY <1>1, <1>2, LoadsUnchanged, SumsKept

\* A call joins its next job, or returns when it has joined them all.
LEMMA JoinSums ==
  ASSUME ShapeInv, JobsOK(FMap(stack), job, wq.jobs), SumsOK(job, wq.threads_reserved),
         NEW t \in Threads, JoinNext(t)
  PROVE  SumsOK(job', wq'.threads_reserved)
  <1>1. PICK f : f = Top(t)
    OBVIOUS
  <1>2. /\ stack[t] # <<>> /\ f.at = "join" /\ wq' = wq
        /\ \/ job' = job
           \/ f.i = Len(f.jobs) /\ job' = [J \in DOMAIN job \ Gone(f) |-> job[J]]
    BY <1>1 DEF JoinNext, At, Gone
  <1>3. CASE job' = job
    BY <1>2, <1>3, LoadsUnchanged, SumsKept
  <1>4. CASE f.i = Len(f.jobs) /\ job' = [J \in DOMAIN job \ Gone(f) |-> job[J]]
    <2>1. PICK m, jb2, n : m = FMap(stack) /\ jb2 = job' /\ n = wq.threads_reserved
      OBVIOUS
    <2>2. PICK T : IsTop(t, T)
      BY <1>2, TopAt
    <2>3. T \in DOMAIN m /\ Over(T) \notin DOMAIN m /\ m[T] = f /\ JobsOK(m, job, wq.jobs)
      BY <1>1, <2>1, <2>2 DEF IsTop
    <2>4. ForkOK(m, job) /\ Nested(m)
      BY <2>3 DEF JobsOK
    <2>5. \A J \in Gone(f) : Idle(job[J])
      <3>1. f.i \in 1..Len(f.jobs)
        BY <1>2, <2>3, <2>4 DEF Nested
      <3>2. \A i \in 1..Len(f.jobs) : i < f.i \/ i = f.i
        BY <1>4, <3>1
      <3>3. \A i \in 1..Len(f.jobs) : Idle(job[f.jobs[i]])
        BY <1>2, <2>3, <2>4, <3>2 DEF ForkOK
      <3> QED
        BY <3>3 DEF Gone
    <2>6. Without(job, jb2, Gone(f))
      BY <1>4, <2>1 DEF Without
    <2>7. Counted(job)
      BY JobsCounted
    <2>8. SumsOK(job, n) /\ \A J \in Gone(f) : J \in DOMAIN job => job[J].active = 0
      BY <2>1, <2>5 DEF Idle
    <2>9. SumsOK(jb2, n)
      BY <2>6, <2>7, <2>8, SumsWithout
    <2> QED
      BY <1>2, <2>1, <2>9
  <1> QED
    BY <1>2, <1>3, <1>4

\* After a shutdown there are no jobs, and nothing is reserved.
LEMMA JoinedSums ==
  ASSUME ShapeInv, TeamInv, JobsOK(FMap(stack), job, wq.jobs), NEW t \in Threads, Joined(t)
  PROVE  SumsOK(job', wq'.threads_reserved)
  <1>1. DOMAIN job = {} /\ job' = job
    BY JoinedAlone DEF Joined
  <1>2. wq'.threads_reserved = 0
    <2>1. "threads_reserved" \in DOMAIN wq
      BY DEF ShapeInv, IsQueue
    <2> QED
      BY <2>1 DEF Joined, ResetQueue
  <1>3. PICK jb2 : jb2 = job'
    OBVIOUS
  <1>4. DOMAIN jb2 = {}
    BY <1>1, <1>3
  <1>5. Units(jb2, Kids(jb2, NoParent)) = {}
    BY <1>4 DEF Units, Kids
  <1>6. SumsOK(jb2, 0)
    BY <1>4, <1>5, FS_EmptySet DEF SumsOK, Load
  <1> QED
    BY <1>2, <1>3, <1>6

\* A call adds jobs.  What it reserves for the time it looks at the pool it gives back.
LEMMA CallSums ==
  ASSUME ShapeInv, TeamInv, JobsOK(FMap(stack), job, wq.jobs), SumsOK(job, wq.threads_reserved),
         JobsOK(FMap(stack'), job', wq'.jobs), NEW t \in Threads,
         NEW ks \in Seq(DOMAIN Task), ks # <<>>,
         \A i \in 1..Len(ks) : Task[ks[i]].extent > 0,
         \A i, j \in 1..Len(ks) : ks[i] = ks[j] => i = j,
         NEW inits, NEW parent, NEW par_for, Enqueue(t, ks, inits, parent, par_for)
  PROVE  SumsOK(job', wq'.threads_reserved)
  <1>1. PICK c, ids : c = Top(t) /\ ids = CallJobs(c, ks)
    OBVIOUS
  <1>2. PICK m2, jb2, js2, n : m2 = FMap(stack') /\ jb2 = job' /\ js2 = wq'.jobs
                               /\ n = wq.threads_reserved
    OBVIOUS
  <1>3. Named(ids, c.job, c.it)
    BY <1>1, CallJobsNames
  <1>4. Makes(job, jb2, ids, parent, par_for)
    BY <1>1, <1>2, EnqueueMakes
  <1>5. With(job, jb2, ids, parent)
    BY ONLY <1>4, MadeFields
  <1>6. \A J \in DOMAIN jb2 \ DOMAIN job : jb2[J].reserved = 0
    <2>1. \A J : NewJob(ids, parent, par_for, J[3]).reserved = 0
      BY DEF NewJob
    <2>2. \A J \in DOMAIN jb2 \ DOMAIN job : jb2[J] = NewJob(ids, parent, par_for, J[3])
      BY <1>4 DEF Makes
    <2> QED
      BY <2>1, <2>2
  <1>7. JobsOK(m2, jb2, js2)
    BY <1>2
  <1>8. Counted(jb2)
    BY <1>7, JobsCounted
  <1>9. \A J \in DOMAIN jb2 : jb2[J].parent # NoParent => jb2[jb2[J].parent].active > 0
    BY <1>7, ParentAtWork
  <1>10. SumsOK(job, n)
    BY <1>2
  <1>11. SumsOK(jb2, n)
    BY <1>3, <1>5, <1>6, <1>8, <1>9, <1>10, SumsWith
  <1>12. wq'.threads_reserved = wq.threads_reserved
    <2>1. EnqueueEffect(t, ks)
      BY EnqueueDoes
    <2> QED
      BY <2>1 DEF EnqueueEffect, ShapeInv, IsQueue
  <1> QED
    BY <1>2, <1>11, <1>12

\* Both kinds of calls.
LEMMA CallsSums ==
  ASSUME ShapeInv, TeamInv, JobsOK(FMap(stack), job, wq.jobs), SumsOK(job, wq.threads_reserved),
         JobsOK(FMap(stack'), job', wq'.jobs), NEW t \in Threads,
         CallParallelTasks(t) \/ CallParFor(t)
  PROVE  SumsOK(job', wq'.threads_reserved)
  <1>1. CASE CallParallelTasks(t)
    <2>1. Operation(Op(t)) /\ Op(t).op = "parallel_tasks"
      BY <1>1, OpIsOperation DEF CallParallelTasks
    <2>2. PICK ks, parent : ks = Op(t).tasks /\ parent = TaskParent(Top(t).job)
      OBVIOUS
    <2>3. /\ ks \in Seq(DOMAIN Task) /\ ks # <<>>
          /\ \A i \in 1..Len(ks) : Task[ks[i]].extent > 0
          /\ \A i, j \in 1..Len(ks) : ks[i] = ks[j] => i = j
      BY <2>1, <2>2 DEF Operation
    <2>4. PICK inits : Enqueue(t, ks, inits, parent, FALSE)
      BY <1>1, <2>2 DEF CallParallelTasks
    <2> QED
      BY <2>3, <2>4, CallSums
  <1>2. CASE CallParFor(t) /\ Task[Op(t).task].extent <= 0
    <2>1. job' = job /\ wq' = wq
      BY <1>2 DEF CallParFor
    <2> QED
      BY <2>1, LoadsUnchanged, SumsKept
  <1>3. CASE CallParFor(t) /\ ~(Task[Op(t).task].extent <= 0)
    <2>1. Operation(Op(t)) /\ Op(t).op = "par_for"
      BY <1>3, OpIsOperation DEF CallParFor
    <2>2. PICK k : k = Op(t).task
      OBVIOUS
    <2>3. k \in DOMAIN Task /\ Task[k].extent > 0
      <3>1. k \in DOMAIN Task
        BY <2>1, <2>2 DEF Operation
      <3>2. Task[k].extent \in Int
        BY <3>1, TaskAssumption
      <3> QED
        BY <1>3, <2>2, <3>1, <3>2
    <2>4. PICK ks : ks = <<k>>
      OBVIOUS
    <2>5. /\ ks \in Seq(DOMAIN Task) /\ ks # <<>>
          /\ \A i \in 1..Len(ks) : Task[ks[i]].extent > 0
          /\ \A i, j \in 1..Len(ks) : ks[i] = ks[j] => i = j
      <3>1. Len(ks) = 1 /\ ks[1] = k /\ \A i : i \in 1..1 <=> i = 1
        BY <2>4
      <3> QED
        BY <2>3, <2>4, <3>1
    <2>6. Enqueue(t, ks, {}, NoParent, TRUE)
      BY <1>3, <2>2, <2>4 DEF CallParFor
    <2> QED
      BY <2>5, <2>6, CallSums
  <1> QED
    BY <1>1, <1>2, <1>3

\* What reserving does to the records and to the queue.
LEMMA ReserveDoes ==
  ASSUME NEW jobs, \A K \in DOMAIN jobs : IsWork(jobs[K]), NoParent \notin DOMAIN jobs,
         NEW queue, IsQueue(queue), NEW J, NEW d, Reserve(jobs, queue, J, d)
  PROVE  Reserves(jobs, job', queue.threads_reserved, wq'.threads_reserved, job[J].parent, d)
  <1>1. PICK P, jb2 : P = job[J].parent /\ jb2 = job'
    OBVIOUS
  <1>2. CASE P = NoParent
    <2>1. jb2 = jobs /\ wq' = [queue EXCEPT !.threads_reserved = queue.threads_reserved + d]
      BY <1>1, <1>2 DEF Reserve, Parent
    <2>2. wq'.threads_reserved = queue.threads_reserved + d
      BY <2>1 DEF IsQueue
    <2> QED
      BY <1>1, <1>2, <2>1, <2>2 DEF Reserves
  <1>3. CASE P # NoParent
    <2>1. jb2 = [jobs EXCEPT ![P].reserved = @ + d] /\ wq' = queue
      BY <1>1, <1>3 DEF Reserve, Parent
    <2>2. DOMAIN jb2 = DOMAIN jobs
      BY <2>1
    <2>3. ASSUME NEW K \in DOMAIN jobs
          PROVE  /\ jb2[K].active = jobs[K].active /\ jb2[K].parent = jobs[K].parent
                 /\ jb2[K].reserved = IF K = P THEN jobs[K].reserved + d ELSE jobs[K].reserved
      <3>1. PICK r, q, x : r = jobs[K] /\ q = jb2[K] /\ x = jobs[K].reserved + d
        OBVIOUS
      <3>2. q = IF K = P THEN [r EXCEPT !.reserved = x] ELSE r
        BY <2>1, <3>1
      <3>3. IsWork(r)
        BY <3>1
      <3>4. /\ q.active = r.active /\ q.parent = r.parent
            /\ q.reserved = IF K = P THEN x ELSE r.reserved
        BY ONLY <3>2, <3>3 DEF IsWork
      <3> QED
        BY <3>1, <3>4
    <2> QED
      BY <1>1, <1>3, <2>1, <2>2, <2>3 DEF Reserves
  <1> QED
    BY <1>2, <1>3

\* No job has the name that stands for no parent.
LEMMA JobsAreNamed ==
  ASSUME NEW m, NEW jb, NEW js, JobsOK(m, jb, js)
  PROVE  NoParent \notin DOMAIN jb
  <1>1. \A J \in DOMAIN jb : IsTask(J)
    BY DEF JobsOK, WorkOK
  <1>2. \A x, y, z : <<x, y, z>> # <<>>
    OBVIOUS
  <1> QED
    BY <1>1, <1>2 DEF IsTask, NoParent

\* A thread that starts on a job reserves what the job needs.
LEMMA StartSums ==
  ASSUME ShapeInv, JobsOK(FMap(stack), job, wq.jobs), SumsOK(job, wq.threads_reserved),
         JobsOK(FMap(stack'), job', wq'.jobs), NEW t \in Threads, Start(t)
  PROVE  SumsOK(job', wq'.threads_reserved)
  <1>1. PICK f : f = Top(t)
    OBVIOUS
  <1>2. PICK J : J = wq.jobs[Found(f.owned)]
    OBVIOUS
  <1>3. PICK jn : jn = WithNext(Considered(f.owned))
    OBVIOUS
  <1>4. PICK j2 : j2 = StartedOn(jn, J)
    OBVIOUS
  <1>5. PICK queue : queue = [wq EXCEPT !.jobs = IF Last(J) THEN WithoutJob(@, J) ELSE @]
    OBVIOUS
  <1>6. Found(f.owned) # 0 /\ Reserve(j2, queue, J, TaskOf(J).min_threads)
    BY <1>1, <1>2, <1>3, <1>4, <1>5 DEF Start, Serial, StartedOn
  <1>7. Found(f.owned) \in 1..Len(wq.jobs)
    BY <1>6, FoundJob DEF ShapeInv
  <1>8. J \in DOMAIN job
    BY <1>2, <1>7 DEF JobsOK, ListOK, Listed
  <1>9. PICK m2, jb2, js2, n : m2 = FMap(stack') /\ jb2 = job' /\ js2 = wq'.jobs
                               /\ n = wq.threads_reserved
    OBVIOUS
  <1>10. Counted(job) /\ Counted(jb2) /\ NoParent \notin DOMAIN job
    <2>1. JobsOK(m2, jb2, js2)
      BY <1>9
    <2> QED
      BY <2>1, JobsCounted, JobsAreNamed
  <1>11. /\ SameLoads(job, jn) /\ DOMAIN jn = DOMAIN job
         /\ \A K \in DOMAIN job : IsWork(jn[K])
    BY <1>3, <1>10, NextLoads
  <1>12. /\ DOMAIN j2 = DOMAIN jn /\ \A K \in DOMAIN jn : K # J => j2[K] = jn[K]
         /\ IsWork(j2[J]) /\ j2[J].active = jn[J].active + 1
         /\ j2[J].parent = jn[J].parent /\ j2[J].reserved = jn[J].reserved
    <2>1. J \in DOMAIN jn /\ IsWork(jn[J])
      BY <1>8, <1>11
    <2> QED
      BY <1>4, <2>1, StartedFields
  <1>13. /\ DOMAIN j2 = DOMAIN job /\ \A K \in DOMAIN job : IsWork(j2[K])
         /\ \A K \in DOMAIN job : K # J => SameLoad(job[K], j2[K])
         /\ j2[J].active = job[J].active + 1 /\ j2[J].parent = job[J].parent
         /\ j2[J].reserved = job[J].reserved
    BY <1>8, <1>11, <1>12 DEF SameLoads, SameLoad
  <1>14. IsQueue(queue) /\ queue.threads_reserved = n
    BY <1>5, <1>9 DEF ShapeInv, IsQueue
  <1>15. PICK n2, k : n2 = wq'.threads_reserved /\ k = TaskOf(J).min_threads
    OBVIOUS
  <1>16. Reserves(j2, jb2, n, n2, job[J].parent, k)
    BY <1>6, <1>9, <1>10, <1>13, <1>14, <1>15, ReserveDoes
  <1>17. 1 * TaskOf(J).min_threads = k
    BY <1>8, <1>10, <1>15 DEF Counted
  <1>18. SumsOK(job, n)
    BY <1>9
  <1>19. Reserves(j2, jb2, n, n2, job[J].parent, 1 * TaskOf(J).min_threads)
    BY <1>16, <1>17
  <1>20. SumsOK(jb2, n2)
    BY <1>8, <1>10, <1>13, <1>18, <1>19, SumsReserved
  <1> QED
    BY <1>9, <1>15, <1>20

\* A thread that has finished with a job gives it back.
LEMMA FinishSums ==
  ASSUME ShapeInv, JobsOK(FMap(stack), job, wq.jobs), SumsOK(job, wq.threads_reserved),
         JobsOK(FMap(stack'), job', wq'.jobs), NEW t \in Threads, Finish(t)
  PROVE  SumsOK(job', wq'.threads_reserved)
  <1>0. PICK d : d \in Int /\ d = 0 - 1
    OBVIOUS
  <1>1. PICK f : f = Top(t)
    OBVIOUS
  <1>2. PICK J, r, n1 : J = f.work /\ r = f.result /\ n1 = f.total
    OBVIOUS
  <1>3. PICK e : e = IF ~Serial(J) THEN job[J].extent ELSE IF r # 0 THEN 0 ELSE job[J].extent - n1
    OBVIOUS
  <1>4. PICK D, x : D = Iterations(f, r) /\ x = Outcome(J, r)
    OBVIOUS
  <1>5. PICK marked : marked = {K \in {job[J].siblings[i] : i \in 1..Len(job[J].siblings)} \ {J} :
                                    r # 0 /\ job[K].exit = 0}
    OBVIOUS
  <1>6. PICK j2 : j2 = [K \in DOMAIN job |->
                          IF K = J THEN FinishedWork(job[J], J, e, x, n1, D)
                          ELSE IF K \in marked THEN [job[K] EXCEPT !.exit = r] ELSE job[K]]
    OBVIOUS
  <1>7. PICK queue : queue = [wq EXCEPT !.jobs = IF Serial(J) /\ e > 0 THEN <<J>> \o @ ELSE @]
    OBVIOUS
  <1>8. /\ stack[t] # <<>> /\ f.at = "working"
        /\ Reserve(j2, queue, J, 0 - TaskOf(J).min_threads)
    BY <1>1, <1>2, <1>3, <1>4, <1>5, <1>6, <1>7 DEF Finish, At, Serial, FinishedWork
  <1>9. J \in DOMAIN job
    <2>1. PICK T : IsTop(t, T)
      BY <1>8, TopAt
    <2>2. T \in DOMAIN FMap(stack) /\ FMap(stack)[T] = f
      BY <1>1, <2>1 DEF IsTop
    <2> QED
      BY <1>2, <1>8, <2>2 DEF JobsOK, BusyOK, Busy
  <1>10. PICK m2, jb2, js2, n : m2 = FMap(stack') /\ jb2 = job' /\ js2 = wq'.jobs
                                /\ n = wq.threads_reserved
    OBVIOUS
  <1>11. Counted(job) /\ Counted(jb2) /\ NoParent \notin DOMAIN job
    <2>1. JobsOK(m2, jb2, js2)
      BY <1>10
    <2> QED
      BY <2>1, JobsCounted, JobsAreNamed
  <1>12. /\ DOMAIN j2 = DOMAIN job /\ \A K \in DOMAIN job : IsWork(j2[K])
         /\ \A K \in DOMAIN job : K # J => SameLoad(job[K], j2[K])
         /\ j2[J].active = job[J].active + d /\ j2[J].parent = job[J].parent
         /\ j2[J].reserved = job[J].reserved
    <2>1. PICK w, v : w = job[J] /\ v = j2[J]
      OBVIOUS
    <2>2. v = FinishedWork(w, J, e, x, n1, D) /\ IsWork(w) /\ w.active \in Nat
      BY <1>6, <1>9, <1>11, <2>1 DEF Counted
    <2>3. /\ IsWork(v) /\ v.active = w.active - 1 /\ v.parent = w.parent
          /\ v.reserved = w.reserved
      BY ONLY <2>2, FinishedFields
    <2>4. w.active - 1 = w.active + d
      BY <1>0, <2>2
    <2>5. ASSUME NEW K \in DOMAIN job, K # J
          PROVE  IsWork(j2[K]) /\ SameLoad(job[K], j2[K])
      <3>1. PICK u, q : u = job[K] /\ q = j2[K]
        OBVIOUS
      <3>2. q = u \/ q = [u EXCEPT !.exit = r]
        BY <1>6, <2>5, <3>1
      <3>3. IsWork(u)
        BY <1>11, <3>1 DEF Counted
      <3>4. IsWork(q) /\ SameLoad(u, q)
        BY ONLY <3>2, <3>3 DEF IsWork, SameLoad
      <3> QED
        BY <3>1, <3>4
    <2>6. DOMAIN j2 = DOMAIN job
      BY <1>6
    <2> QED
      BY <2>1, <2>3, <2>4, <2>5, <2>6
  <1>13. IsQueue(queue) /\ queue.threads_reserved = n
    BY <1>7, <1>10 DEF ShapeInv, IsQueue
  <1>14. PICK n2, k : n2 = wq'.threads_reserved /\ k = 0 - TaskOf(J).min_threads
    OBVIOUS
  <1>15. Reserves(j2, jb2, n, n2, job[J].parent, k)
    BY <1>8, <1>10, <1>11, <1>12, <1>13, <1>14, ReserveDoes
  <1>16. d * TaskOf(J).min_threads = k
    <2>1. PICK c : c = TaskOf(J).min_threads
      OBVIOUS
    <2>2. c \in Nat /\ k = 0 - c
      BY <1>9, <1>11, <1>14, <2>1 DEF Counted
    <2>3. d * c = 0 - c
      BY <1>0, <2>2
    <2> QED
      BY <2>1, <2>2, <2>3
  <1>17. SumsOK(job, n)
    BY <1>10
  <1>18. Reserves(j2, jb2, n, n2, job[J].parent, d * TaskOf(J).min_threads)
    BY <1>15, <1>16
  <1>19. SumsOK(jb2, n2)
    BY ONLY <1>0, <1>9, <1>11, <1>12, <1>17, <1>18, SumsReserved
  <1> QED
    BY <1>10, <1>14, <1>19
----------------------------------------------------------------------------
(* The invariant *)

\* At first there are no jobs.
LEMMA CountInit == Init => CountInv
  <1> SUFFICES ASSUME Init PROVE SumsOK(job, wq.threads_reserved)
    BY DEF CountInv
  <1>1. DOMAIN job = {}
    BY DEF Init
  <1>2. wq.threads_reserved = 0
    BY DEF Init, ResetQueue
  <1>3. Units(job, Kids(job, NoParent)) = {}
    BY <1>1 DEF Units, Kids
  <1> QED
    BY <1>1, <1>2, <1>3, FS_EmptySet DEF SumsOK, Load

\* Every step keeps the sums.
LEMMA CountStep == ShapeInv /\ TeamInv /\ JobsInv /\ CountInv /\ [Next]_vars => CountInv'
  <1> SUFFICES ASSUME ShapeInv, TeamInv, JobsInv, CountInv, [Next]_vars
               PROVE  CountInv'
    OBVIOUS
  <1>1. CASE UNCHANGED vars
    BY <1>1 DEF vars, CountInv
  <1>2. ASSUME NEW t \in Threads, Step(t)
        PROVE  CountInv'
    <2>1. stack[t] # <<>>
      BY <1>2, StepHasFrame
    <2>2. JobsOK(FMap(stack), job, wq.jobs) /\ SumsOK(job, wq.threads_reserved)
      BY <2>1 DEF TeamInv, JobsInv, CountInv
    <2>3. SUFFICES ASSUME ~aborted'
                   PROVE  SumsOK(job', wq'.threads_reserved)
      BY DEF CountInv
    <2>4. JobsOK(FMap(stack'), job', wq'.jobs)
      <3>1. JobsInv'
        BY JobsStep
      <3> QED
        BY <2>3, <3>1 DEF JobsInv
    <2>5. Counted(job)
      BY <2>2, JobsCounted
    <2>6. CASE DropFailed(t) \/ InheritFailure(t)
      BY <2>2, <2>5, <2>6, FailureSums
    <2>7. CASE Sleep(t) \/ Wake(t)
      BY <2>2, <2>5, <2>7, SleepSums
    <2>8. CASE Start(t)
      BY <2>2, <2>4, <2>8, StartSums
    <2>9. CASE Claim(t) \/ RunClaimed(t)
      BY <2>2, <2>5, <2>9, ClaimSums
    <2>10. CASE Finish(t)
      BY <2>2, <2>4, <2>10, FinishSums
    <2>11. CASE JoinNext(t)
      BY <2>2, <2>11, JoinSums
    <2>12. CASE CallParallelTasks(t) \/ CallParFor(t)
      BY <2>2, <2>4, <2>12, CallsSums
    <2>13. CASE \/ Leave(t) \/ Release(t) \/ ReleaseBroadcast(t) \/ Work(t) \/ SetNumThreads(t)
                \/ EndBody(t) \/ Shutdown(t)
      BY <2>2, <2>13, OtherSums
    <2>14. CASE Joined(t)
      BY <2>2, <2>14, JoinedSums
    <2> QED
      BY <1>2, <2>6, <2>7, <2>8, <2>9, <2>10, <2>11, <2>12, <2>13, <2>14 DEF Step
  <1> QED
    BY <1>1, <1>2 DEF Next

\* active_workers and both kinds of threads_reserved are exact until the pool aborts: what
\* a blocking task may rely on is what the threads at work on its siblings leave.
THEOREM CountsAreExact == Spec => [](aborted \/ CountsExact)
  <1>1. ASSUME JobsOK(FMap(stack), job, wq.jobs), SumsOK(job, wq.threads_reserved)
        PROVE  CountsExact
    <2>1. Counted(job)
      BY <1>1, JobsCounted
    <2>2. ASSUME NEW P
          PROVE  MapThenSumSet(LAMBDA K : job[K].active * TaskOf(K).min_threads,
                               {K \in DOMAIN job : Parent(K) = P}) = Load(job, P)
      <3>1. PICK S : S = {K \in DOMAIN job : Parent(K) = P}
        OBVIOUS
      <3>2. S = Kids(job, P)
        BY <3>1 DEF Kids, Parent
      <3>3. Weighed(job, S)
        BY <1>1, <2>1, <3>2, KidsWeighed DEF SumsOK
      <3>4. MapThenSumSet(LAMBDA K : job[K].active * TaskOf(K).min_threads, S)
              = Cardinality(Units(job, S))
        BY <3>3, ReservedSum
      <3> QED
        BY <3>1, <3>2, <3>4 DEF Load
    <2>3. \A J \in DOMAIN job : job[J].active = Cardinality(WorkersOn(J))
      BY <1>1, FramesAre DEF JobsOK, WorkOK
    <2>4. /\ \A J \in DOMAIN job : job[J].reserved = Load(job, J)
          /\ wq.threads_reserved = Load(job, NoParent)
      BY <1>1 DEF SumsOK
    <2> QED
      BY <2>2, <2>3, <2>4 DEF CountsExact
  <1>2. JobsInv /\ CountInv => aborted \/ CountsExact
    BY <1>1 DEF JobsInv, CountInv
  <1>3. Spec => [](ShapeInv /\ TeamInv /\ TeamsInv)
    BY StackInvariance
  <1> QED
    BY <1>2, <1>3, CountInit, CountStep, JobsInvariance, PTL DEF Spec
-----------------------------------------------------------------------------
(***************************************************************************)
(* When a task has the threads that a fork in its body asks for, for any   *)
(* number of threads: "thread over commit" never fires in a program whose  *)
(* tasks ask for enough.                                                   *)
(***************************************************************************)

\* The threads that the tasks of a fork need, all together ...
Need(ks) == MapThenSumSet(LAMBDA i : Task[ks[i]].min_threads, 1..Len(ks))

\* ... and that they take with as many threads at work on them as there can be.
Crew(k) == IF Task[k].serial THEN 1 ELSE Task[k].extent
Use(ks) == MapThenSumSet(LAMBDA i : Crew(ks[i]) * Task[ks[i]].min_threads, 1..Len(ks))

\* The forks in the body of a task.
Forks(k) == {o \in 1..Len(Task[k].body) : Task[k].body[o].op = "parallel_tasks"}

\* A task asks for as many threads as a fork in its body can use; where it has one
\* iteration at a time, for as many as the fork needs.
Covered(k) ==
    \A o \in Forks(k) :
       LET ks == Task[k].body[o].tasks IN
       IF Crew(k) <= 1 THEN Need(ks) <= Task[k].min_threads
       ELSE Use(ks) <= Task[k].min_threads

\* The jobs of a fork are those of an operation of the body that made them.
ForkedBy(P, sib) ==
    \E o \in Forks(P[3]) :
       LET ks == Task[P[3]].body[o].tasks IN
       Len(sib) = Len(ks) /\ \A i \in 1..Len(ks) : sib[i][3] = ks[i]

OriginOK(jb) ==
    \A K \in DOMAIN jb : jb[K].parent # NoParent => ForkedBy(jb[K].parent, jb[K].siblings)

\* The recursions of these sums.
NeedAdds(ks, S, it) ==
    it = [s \in SUBSET S |-> IF s = {} THEN 0
             ELSE Task[ks[CHOOSE x \in s : TRUE]].min_threads + it[s \ {CHOOSE x \in s : TRUE}]]
UseAdds(ks, S, it) ==
    it = [s \in SUBSET S |-> IF s = {} THEN 0
             ELSE Crew(ks[CHOOSE x \in s : TRUE]) * Task[ks[CHOOSE x \in s : TRUE]].min_threads
                    + it[s \ {CHOOSE x \in s : TRUE}]]

\* What the tasks of a fork need is the number of their units of need ...
LEMMA NeedIsUnits ==
  ASSUME NEW ks, NEW S, S = 1..Len(ks), NEW w,
         \A i \in S : w[i] = Task[ks[i]].min_threads, Numbers(w, S)
  PROVE  Need(ks) = Cardinality(UnitsOf(w, S))
  <1>1. PICK f : f = CHOOSE it : NeedAdds(ks, S, it)
    OBVIOUS
  <1>2. Need(ks) = f[S]
    BY <1>1, Zenon DEF Need, MapThenSumSet, MapThenFoldSet, NeedAdds
  <1>3. ASSUME NEW it
        PROVE  NeedAdds(ks, S, it) <=> SumOf(w, S, it)
    <2>1. ASSUME NEW s \in SUBSET S
          PROVE  (IF s = {} THEN 0 ELSE Task[ks[CHOOSE x \in s : TRUE]].min_threads
                                          + it[s \ {CHOOSE x \in s : TRUE}])
                 = (IF s = {} THEN 0 ELSE w[CHOOSE x \in s : TRUE] + it[s \ {CHOOSE x \in s : TRUE}])
      <3>1. s # {} => (CHOOSE x \in s : TRUE) \in S
        OBVIOUS
      <3> QED
        BY <3>1
    <2> QED
      BY <2>1 DEF NeedAdds, SumOf
  <1>4. \E it : SumOf(w, S, it)
    BY SumExists
  <1>5. NeedAdds(ks, S, f)
    BY <1>1, <1>3, <1>4, Zenon
  <1> QED
    BY <1>2, <1>3, <1>5, SumIsUnits

\* ... and what they can use is the number of theirs.
LEMMA UseIsUnits ==
  ASSUME NEW ks, NEW S, S = 1..Len(ks), NEW w,
         \A i \in S : w[i] = Crew(ks[i]) * Task[ks[i]].min_threads, Numbers(w, S)
  PROVE  Use(ks) = Cardinality(UnitsOf(w, S))
  <1>1. PICK f : f = CHOOSE it : UseAdds(ks, S, it)
    OBVIOUS
  <1>2. Use(ks) = f[S]
    BY <1>1, Zenon DEF Use, MapThenSumSet, MapThenFoldSet, UseAdds
  <1>3. ASSUME NEW it
        PROVE  UseAdds(ks, S, it) <=> SumOf(w, S, it)
    <2>1. ASSUME NEW s \in SUBSET S
          PROVE  (IF s = {} THEN 0
                  ELSE Crew(ks[CHOOSE x \in s : TRUE]) * Task[ks[CHOOSE x \in s : TRUE]].min_threads
                       + it[s \ {CHOOSE x \in s : TRUE}])
                 = (IF s = {} THEN 0 ELSE w[CHOOSE x \in s : TRUE] + it[s \ {CHOOSE x \in s : TRUE}])
      <3>1. s # {} => (CHOOSE x \in s : TRUE) \in S
        OBVIOUS
      <3> QED
        BY <3>1
    <2> QED
      BY <2>1 DEF UseAdds, SumOf
  <1>4. \E it : SumOf(w, S, it)
    BY SumExists
  <1>5. UseAdds(ks, S, f)
    BY <1>1, <1>3, <1>4, Zenon
  <1> QED
    BY <1>2, <1>3, <1>5, SumIsUnits

\* The tasks of a fork in a body are tasks.
LEMMA ForksAre ==
  ASSUME NEW k \in DOMAIN Task, NEW o \in Forks(k), NEW ks, ks = Task[k].body[o].tasks
  PROVE  /\ ks \in Seq(DOMAIN Task) /\ Len(ks) \in Nat
         /\ \A i \in 1..Len(ks) : /\ ks[i] \in DOMAIN Task /\ Task[ks[i]].min_threads \in Nat
                                  /\ Crew(ks[i]) \in Nat /\ Crew(ks[i]) > 0
  <1>1. Program(Task[k].body)
    BY TaskAssumption
  <1>2. Operation(Task[k].body[o]) /\ Task[k].body[o].op = "parallel_tasks"
    BY <1>1 DEF Forks, Program
  <1>3. ks \in Seq(DOMAIN Task) /\ \A i \in 1..Len(ks) : Task[ks[i]].extent > 0
    BY <1>2 DEF Operation
  <1>4. Len(ks) \in Nat /\ \A i \in 1..Len(ks) : ks[i] \in DOMAIN Task
    BY <1>3
  <1>5. \A i \in 1..Len(ks) : Task[ks[i]].min_threads \in Nat /\ Task[ks[i]].extent \in Int
    BY <1>4, TaskAssumption
  <1>6. \A i \in 1..Len(ks) : Crew(ks[i]) \in Nat /\ Crew(ks[i]) > 0
    BY <1>3, <1>5 DEF Crew
  <1> QED
    BY <1>3, <1>4, <1>5, <1>6

\* A smaller number for each element gives a smaller sum.
LEMMA FewerUnits ==
  ASSUME NEW S, NEW v, NEW w, Numbers(v, S), Numbers(w, S), \A x \in S : v[x] <= w[x]
  PROVE  Cardinality(UnitsOf(v, S)) <= Cardinality(UnitsOf(w, S))
  <1>1. UnitsOf(v, S) \in SUBSET UnitsOf(w, S)
    <2>1. \A x \in S : 1..v[x] \subseteq 1..w[x]
      BY DEF Numbers
    <2> QED
      BY <2>1 DEF UnitsOf
  <1> QED
    BY <1>1, UnitsOfFinite, FS_Subset

\* A fork needs no more threads than it can use.
LEMMA NeedsWhatItUses ==
  ASSUME NEW k \in DOMAIN Task, NEW o \in Forks(k), NEW ks, ks = Task[k].body[o].tasks
  PROVE  Need(ks) <= Use(ks) /\ Need(ks) \in Nat /\ Use(ks) \in Nat
  <1>1. PICK S, v, w : /\ S = 1..Len(ks) /\ v = [i \in S |-> Task[ks[i]].min_threads]
                       /\ w = [i \in S |-> Crew(ks[i]) * Task[ks[i]].min_threads]
    OBVIOUS
  <1>2. /\ Len(ks) \in Nat
        /\ \A i \in 1..Len(ks) : /\ ks[i] \in DOMAIN Task /\ Task[ks[i]].min_threads \in Nat
                                 /\ Crew(ks[i]) \in Nat /\ Crew(ks[i]) > 0
    BY ForksAre
  <1>3. ASSUME NEW i \in S
        PROVE  v[i] \in Nat /\ w[i] \in Nat /\ v[i] <= w[i]
    <2>1. PICK a, c : a = Crew(ks[i]) /\ c = Task[ks[i]].min_threads
      OBVIOUS
    <2>2. a \in Nat /\ a > 0 /\ c \in Nat
      BY <1>1, <1>2, <2>1
    <2>3. a * c \in Nat /\ c <= a * c
      <3>1. a - 1 \in Nat /\ (a - 1) * c \in Nat
        BY <2>2
      <3>2. a * c = c + (a - 1) * c
        BY <2>2
      <3> QED
        BY <2>2, <3>1, <3>2
    <2> QED
      BY <1>1, <2>1, <2>2, <2>3
  <1>4. IsFiniteSet(S)
    <2>1. 1 \in Int /\ Len(ks) \in Int
      BY <1>2
    <2> QED
      BY <1>1, <2>1, FS_Interval
  <1>5. Numbers(v, S) /\ Numbers(w, S)
    BY <1>3, <1>4 DEF Numbers
  <1>6. Cardinality(UnitsOf(v, S)) <= Cardinality(UnitsOf(w, S))
    BY <1>3, <1>5, FewerUnits
  <1>7. /\ Cardinality(UnitsOf(v, S)) \in Nat /\ Cardinality(UnitsOf(w, S)) \in Nat
    BY <1>5, UnitsOfFinite, FS_CardinalityType
  <1>8. Need(ks) = Cardinality(UnitsOf(v, S))
    BY <1>1, <1>5, NeedIsUnits
  <1>9. Use(ks) = Cardinality(UnitsOf(w, S))
    BY <1>1, <1>5, UseIsUnits
  <1> QED
    BY <1>6, <1>7, <1>8, <1>9

\* As many threads work on a job at once as its task has iterations; on a serial job, one.
LEMMA CrewOf ==
  ASSUME NEW m, NEW jb, NEW js, JobsOK(m, jb, js), NEW J \in DOMAIN jb
  PROVE  jb[J].active \in Nat /\ jb[J].active <= Crew(J[3])
  <1>1. BusyOK(m, jb) /\ WorkOK(m, jb)
    BY DEF JobsOK
  <1>2. IsFiniteSet(On(m, J)) /\ jb[J].active = Cardinality(On(m, J))
    BY <1>1 DEF WorkOK
  <1>3. jb[J].active \in Nat
    BY <1>2, FS_CardinalityType
  <1>4. CASE Serial(J)
    BY <1>1, <1>3, <1>4 DEF WorkOK, Crew, Serial, TaskOf
  <1>5. CASE ~Serial(J)
    <2>1. PICK n, S, f : n = jb[J].min /\ S = On(m, J) /\ f = [p \in S |-> m[p].min]
      OBVIOUS
    <2>2. n \in Nat /\ jb[J].extent \in Nat /\ n + jb[J].extent <= TaskOf(J).extent
          /\ TaskOf(J).extent \in Int
      <3>1. IsTask(J)
        BY <1>1 DEF WorkOK
      <3> QED
        BY <1>1, <2>1, <3>1, TaskAssumption DEF WorkOK, IsTask, TaskOf
    <2>3. \A p \in S : m[p].min \in 0..n - 1
      BY <1>1, <1>5, <2>1 DEF BusyOK, On
    <2>4. \A p, q \in S : m[p].min = m[q].min => p = q
      BY <1>1, <1>5, <2>1 DEF WorkOK
    <2>5. f \in Injection(S, 0..n - 1)
      BY <2>1, <2>3, <2>4 DEF Injection, IsInjective
    <2>6. IsFiniteSet(0..n - 1) /\ Cardinality(0..n - 1) = n
      <3>1. 0 \in Int /\ n - 1 \in Int
        BY <2>2
      <3>2. IsFiniteSet(0..n - 1) /\ Cardinality(0..n - 1) = IF 0 > n - 1 THEN 0 ELSE (n - 1) - 0 + 1
        BY ONLY <3>1, FS_Interval
      <3> QED
        BY <2>2, <3>2
    <2>7. Cardinality(S) <= n
      BY <2>5, <2>6, FS_Injection
    <2> QED
      BY <1>2, <1>3, <1>5, <2>1, <2>2, <2>7 DEF Crew, Serial, TaskOf
  <1> QED
    BY <1>4, <1>5

\* If no more than n elements of a set are sent to the same one of W.
LEMMA FewToEach ==
  ASSUME NEW A, NEW W, IsFiniteSet(W), NEW n \in Nat, NEW f \in [A -> W],
         \A y \in W : /\ IsFiniteSet({x \in A : f[x] = y})
                      /\ Cardinality({x \in A : f[x] = y}) <= n
  PROVE  IsFiniteSet(A) /\ Cardinality(A) <= Cardinality(W) * n
  <1> DEFINE F(y) == {x \in A : f[x] = y}
  <1>1. ASSUME NEW y \in W
        PROVE  \E g : g \in Injection(F(y), 1..n)
    <2>1. PICK k, S : k = Cardinality(F(y)) /\ S = F(y)
      OBVIOUS
    <2>2. k \in Nat /\ k <= n /\ IsFiniteSet(S)
      BY <2>1, FS_CardinalityType
    <2>3. ExistsBijection(S, 1..k)
      <3>1. IsFiniteSet(1..k) /\ Cardinality(1..k) = k
        BY <2>2, FS_Interval
      <3> QED
        BY <2>1, <2>2, <3>1, FS_SameCardinalityBij
    <2>4. PICK g : g \in Bijection(S, 1..k)
      BY <2>3 DEF ExistsBijection
    <2>5. g \in [S -> 1..k] /\ IsInjective(g)
      BY <2>4 DEF Bijection, Injection
    <2>6. g \in [S -> 1..n]
      BY <2>2, <2>5
    <2> QED
      BY <2>1, <2>5, <2>6 DEF Injection
  <1>2. PICK G : G = [y \in W |-> CHOOSE g : g \in Injection(F(y), 1..n)]
    OBVIOUS
  <1>3. \A y \in W : G[y] \in Injection(F(y), 1..n)
    BY <1>1, <1>2
  <1>4. PICK h : h = [x \in A |-> <<f[x], G[f[x]][x]>>]
    OBVIOUS
  <1>5. \A x \in A : f[x] \in W /\ G[f[x]][x] \in 1..n
    BY <1>3 DEF Injection
  <1>6. \A x, y \in A : h[x] = h[y] => x = y
    <2>1. SUFFICES ASSUME NEW x \in A, NEW y \in A, h[x] = h[y]
                   PROVE  x = y
      OBVIOUS
    <2>2. f[x] = f[y] /\ G[f[x]][x] = G[f[x]][y]
      BY <1>4, <2>1
    <2>3. PICK z : z = f[x]
      OBVIOUS
    <2>4. G[z] \in Injection(F(z), 1..n) /\ x \in F(z) /\ y \in F(z)
      BY <1>3, <2>2, <2>3
    <2> QED
      BY <2>2, <2>3, <2>4 DEF Injection, IsInjective
  <1>7. h \in Injection(A, W \X (1..n))
    BY <1>4, <1>5, <1>6 DEF Injection, IsInjective
  <1>8. IsFiniteSet(1..n) /\ Cardinality(1..n) = n
    BY FS_Interval
  <1>9. IsFiniteSet(W \X (1..n)) /\ Cardinality(W \X (1..n)) = Cardinality(W) * n
    BY <1>8, FS_Product
  <1> QED
    BY <1>7, <1>9, FS_Injection

\* What the children of a job take that are of one fork.
LEMMA ForkUses ==
  ASSUME NEW m, NEW jb, NEW js, JobsOK(m, jb, js), Counted(jb),
         NEW k \in DOMAIN Task, NEW o \in Forks(k), NEW ks, ks = Task[k].body[o].tasks,
         NEW sib, Len(sib) = Len(ks), \A i \in 1..Len(ks) : sib[i][3] = ks[i],
         NEW A, \A u \in A : \E i \in 1..Len(ks) :
                   sib[i] \in DOMAIN jb /\ u \in {sib[i]} \X (1..Weight(jb, sib[i]))
  PROVE  IsFiniteSet(A) /\ Cardinality(A) <= Use(ks)
  <1>1. PICK S, w : S = 1..Len(ks) /\ w = [i \in S |-> Crew(ks[i]) * Task[ks[i]].min_threads]
    OBVIOUS
  <1>2. /\ Len(ks) \in Nat
        /\ \A i \in S : Task[ks[i]].min_threads \in Nat /\ Crew(ks[i]) \in Nat
    BY <1>1, ForksAre
  <1>3. \A i \in S : w[i] \in Nat
    <2>1. ASSUME NEW i \in S
          PROVE  w[i] \in Nat
      <3>1. PICK a, c : a = Crew(ks[i]) /\ c = Task[ks[i]].min_threads
        OBVIOUS
      <3>2. a \in Nat /\ c \in Nat
        BY <1>2, <3>1
      <3>3. a * c \in Nat
        BY <3>2
      <3> QED
        BY <1>1, <3>1, <3>3
    <2> QED
      BY <2>1
  <1>4. Numbers(w, S)
    <2>1. 1 \in Int /\ Len(ks) \in Int
      BY <1>2
    <2>2. IsFiniteSet(S)
      BY <1>1, <2>1, FS_Interval
    <2> QED
      BY <1>3, <2>2 DEF Numbers
  <1>5. Use(ks) = Cardinality(UnitsOf(w, S))
    BY <1>1, <1>4, UseIsUnits
  <1>6. ASSUME NEW i \in S, sib[i] \in DOMAIN jb
        PROVE  Weight(jb, sib[i]) \in Nat /\ Weight(jb, sib[i]) <= w[i]
    <2>1. PICK J : J = sib[i]
      OBVIOUS
    <2>2. J[3] = ks[i] /\ J \in DOMAIN jb
      BY <1>1, <1>6, <2>1
    <2>3. PICK a, b, c : a = jb[J].active /\ b = Crew(ks[i]) /\ c = Task[ks[i]].min_threads
      OBVIOUS
    <2>4. a \in Nat /\ a <= Crew(J[3])
      BY <2>2, <2>3, CrewOf
    <2>5. a \in Nat /\ a <= b /\ b \in Nat /\ c \in Nat
      BY <1>2, <2>2, <2>3, <2>4
    <2>6. a * c \in Nat /\ a * c <= b * c
      <3>1. (b - a) \in Nat
        BY <2>5
      <3>2. (b - a) * c \in Nat /\ b * c = a * c + (b - a) * c
        BY <2>5, <3>1
      <3>3. a * c \in Nat
        BY <2>5
      <3> QED
        BY <3>2, <3>3
    <2>7. Weight(jb, J) = a * c
      BY <2>2, <2>3 DEF Weight, TaskOf
    <2> QED
      BY <1>1, <2>1, <2>3, <2>6, <2>7
  <1>7. PICK at : at = [u \in A |-> CHOOSE i \in S : /\ sib[i] \in DOMAIN jb
                                                     /\ u \in {sib[i]} \X (1..Weight(jb, sib[i]))]
    OBVIOUS
  <1>8. \A u \in A : /\ at[u] \in S /\ sib[at[u]] \in DOMAIN jb
                     /\ u \in {sib[at[u]]} \X (1..Weight(jb, sib[at[u]]))
    BY <1>1, <1>7
  <1>9. \A u \in A : /\ u = <<sib[at[u]], u[2]>> /\ at[u] \in S /\ u[2] \in 1..w[at[u]]
    <2>1. ASSUME NEW u \in A
          PROVE  u = <<sib[at[u]], u[2]>> /\ at[u] \in S /\ u[2] \in 1..w[at[u]]
      <3>1. PICK i, n : i = at[u] /\ n = Weight(jb, sib[i])
        OBVIOUS
      <3>2. i \in S /\ sib[i] \in DOMAIN jb /\ u \in {sib[i]} \X (1..n)
        BY <1>8, <3>1
      <3>3. n \in Nat /\ n <= w[i] /\ w[i] \in Nat
        BY <1>3, <1>6, <3>1, <3>2
      <3>4. u = <<sib[i], u[2]>> /\ u[2] \in 1..n
        BY <3>2
      <3> QED
        BY <3>1, <3>2, <3>3, <3>4
    <2> QED
      BY <2>1
  <1>10. PICK h : h = [u \in A |-> <<at[u], u[2]>>]
    OBVIOUS
  <1>11. \A u \in A : h[u] \in UnitsOf(w, S)
    BY <1>9, <1>10 DEF UnitsOf
  <1>12. \A u, v \in A : h[u] = h[v] => u = v
    <2>1. SUFFICES ASSUME NEW u \in A, NEW v \in A, h[u] = h[v]
                   PROVE  u = v
      OBVIOUS
    <2>2. at[u] = at[v] /\ u[2] = v[2]
      BY <1>10, <2>1
    <2> QED
      BY <1>9, <2>2
  <1>13. h \in Injection(A, UnitsOf(w, S))
    BY <1>10, <1>11, <1>12 DEF Injection, IsInjective
  <1>14. IsFiniteSet(UnitsOf(w, S))
    BY <1>4, UnitsOfFinite
  <1> QED
    BY <1>5, <1>13, <1>14, FS_Injection

\* The fork that a closure waits for, of the thread that called the closure at q.
ForkAt(q) == Over(Over(q))

\* A child of the job of T belongs to the fork of another thread at work on the job.
LEMMA KidsFork ==
  ASSUME NEW m, NEW jb, NEW js, JobsOK(m, jb, js), 
         NEW T \in DOMAIN m, m[T].at = "body", T[2] > 1, Over(T) \notin DOMAIN m,
         NEW K \in DOMAIN jb, jb[K].parent = m[T].job, m[T].job # NoParent
  PROVE  \E q \in On(m, m[T].job) \ {Under(T)} :
            \E i \in 1..Len(m[ForkAt(q)].jobs) :
               K = m[ForkAt(q)].jobs[i] /\ jb[K].siblings = m[ForkAt(q)].jobs
  <1>1. Nested(m) /\ ForkOK(m, jb) /\ OwnedOK(m, jb)
    BY DEF JobsOK
  <1>2. PICK p \in DOMAIN m : m[p].at = "join" /\ \E i \in 1..Len(m[p].jobs) : m[p].jobs[i] = K
    BY <1>1 DEF OwnedOK
  <1>3. PICK i \in 1..Len(m[p].jobs) : m[p].jobs[i] = K
    BY <1>2
  <1>4. /\ jb[K].siblings = m[p].jobs
        /\ p[2] > 2 /\ m[Under(p)].job = m[T].job
    BY <1>1, <1>2, <1>3 DEF ForkOK
  <1>5. PICK U, q : U = Under(p) /\ q = Under(U)
    OBVIOUS
  <1>6. IsPos(p) /\ p[2] > 1 /\ U \in DOMAIN m /\ m[U].at = "body" /\ m[U].job = m[T].job
    BY <1>1, <1>2, <1>4, <1>5 DEF Nested, IsPos
  <1>7. Over(U) = p /\ IsPos(U) /\ U[2] > 1
    <2>1. IsPos(U) /\ Over(U) = p
      BY <1>5, <1>6, Neighbours
    <2>2. U[2] = p[2] - 1 /\ p[2] \in Nat
      BY <1>5, <1>6 DEF Under, IsPos
    <2> QED
      BY <1>4, <2>1, <2>2
  <1>8. q \in DOMAIN m /\ q \in On(m, m[T].job) /\ Over(q) = U /\ IsPos(q)
    <2>1. q \in DOMAIN m /\ m[q].at = "working" /\ m[q].work = m[T].job
      BY <1>1, <1>5, <1>6, <1>7 DEF Nested, BodyAt
    <2>2. Over(q) = U /\ IsPos(q)
      BY <1>5, <1>7, Neighbours
    <2> QED
      BY <2>1, <2>2 DEF On, Busy
  <1>9. q # Under(T)
    <2>1. IsPos(T) /\ Over(Under(T)) = T
      <3>1. IsPos(T)
        BY <1>1 DEF Nested, IsPos
      <3> QED
        BY <3>1, Neighbours
    <2>2. U # T
      BY <1>2, <1>7
    <2> QED
      BY <1>8, <2>1, <2>2
  <1>10. ForkAt(q) = p
    BY <1>7, <1>8 DEF ForkAt
  <1> QED
    BY <1>3, <1>4, <1>8, <1>9, <1>10

\* A unit that a job of the fork at q takes.
Takes(m, jb, q, u) ==
    \E i \in 1..Len(m[ForkAt(q)].jobs) :
       LET K == m[ForkAt(q)].jobs[i] IN
       /\ K \in DOMAIN jb /\ jb[K].siblings = m[ForkAt(q)].jobs
       /\ u \in {K} \X (1..Weight(jb, K))

\* A closure that forks finds its job with as many threads to give as the fork needs.
LEMMA RoomToFork ==
  ASSUME NEW m, NEW jb, NEW js, JobsOK(m, jb, js), Counted(jb), OriginOK(jb),
         \A k \in DOMAIN Task : Covered(k),
         NEW T \in DOMAIN m, m[T].at = "body", T[2] > 1, Over(T) \notin DOMAIN m,
         NEW J, J = m[T].job,
         NEW o \in Forks(J[3]), NEW ks, ks = Task[J[3]].body[o].tasks
  PROVE  Need(ks) <= Task[J[3]].min_threads * jb[J].active - Load(jb, J)
  <1>1. Nested(m) /\ BusyOK(m, jb) /\ WorkOK(m, jb)
    BY DEF JobsOK
  <1>2. PICK U : U = Under(T)
    OBVIOUS
  <1>3. U \in On(m, J) /\ IsTask(J) /\ J \in DOMAIN jb /\ J[3] \in DOMAIN Task
    <2>1. IsTask(J) /\ U \in DOMAIN m /\ m[U].at = "working" /\ m[U].work = J
      BY <1>1, <1>2 DEF Nested, BodyAt
    <2> QED
      BY <1>1, <2>1 DEF On, Busy, BusyOK, IsTask
  <1>4. PICK a, c, W : a = jb[J].active /\ c = Task[J[3]].min_threads /\ W = On(m, J) \ {U}
    OBVIOUS
  <1>5. /\ IsFiniteSet(On(m, J)) /\ a = Cardinality(On(m, J)) /\ a \in Nat
        /\ a <= Crew(J[3]) /\ c \in Nat
    BY <1>1, <1>3, <1>4, CrewOf, TaskAssumption DEF WorkOK
  <1>6. IsFiniteSet(W) /\ Cardinality(W) = a - 1 /\ Cardinality(W) \in Nat
    BY <1>3, <1>4, <1>5, FS_RemoveElement, FS_CardinalityType
  <1>7. PICK A : A = Units(jb, Kids(jb, J))
    OBVIOUS
  <1>8. ASSUME NEW u \in A
        PROVE  \E q \in W : Takes(m, jb, q, u)
    <2>1. PICK K \in Kids(jb, J) : u \in {K} \X (1..Weight(jb, K))
      BY <1>7 DEF Units
    <2>2. K \in DOMAIN jb /\ jb[K].parent = J
      BY <2>1 DEF Kids
    <2>3. J # NoParent
      <3>1. \A x, y, z : <<x, y, z>> # <<>>
        OBVIOUS
      <3> QED
        BY <1>3, <3>1 DEF IsTask, NoParent
    <2>4. PICK q \in On(m, m[T].job) \ {Under(T)} :
             \E i \in 1..Len(m[ForkAt(q)].jobs) :
                K = m[ForkAt(q)].jobs[i] /\ jb[K].siblings = m[ForkAt(q)].jobs
      BY <2>2, <2>3, KidsFork
    <2>5. q \in W
      BY <1>2, <1>4, <2>4
    <2>6. Takes(m, jb, q, u)
      BY <2>1, <2>2, <2>4 DEF Takes
    <2> QED
      BY <2>5, <2>6
  <1>9. Covered(J[3]) /\ Need(ks) <= Use(ks) /\ Need(ks) \in Nat /\ Use(ks) \in Nat
    BY <1>3, NeedsWhatItUses
  <1>10. CASE Crew(J[3]) <= 1
    <2>1. a = 1 /\ Cardinality(W) = 0
      <3>1. Crew(J[3]) \in Int
        BY <1>3, TaskAssumption DEF Crew
      <3>2. a <= 1
        BY <1>5, <1>10, <3>1
      <3> QED
        BY <1>5, <1>6, <3>2
    <2>2. W = {}
      BY <1>6, <2>1, FS_EmptySet
    <2>3. A = {}
      BY <1>8, <2>2
    <2>4. Load(jb, J) = 0
      BY <1>7, <2>3, FS_EmptySet DEF Load
    <2>5. Need(ks) <= c
      BY <1>4, <1>9, <1>10 DEF Covered
    <2>6. c * 1 - 0 = c
      BY <1>5
    <2> QED
      BY <1>4, <2>1, <2>4, <2>5, <2>6
  <1>11. CASE ~(Crew(J[3]) <= 1)
    <2>1. Use(ks) <= c
      BY <1>4, <1>9, <1>11 DEF Covered
    <2>2. PICK f : f = [u \in A |-> CHOOSE q \in W : Takes(m, jb, q, u)]
      OBVIOUS
    <2>3. f \in [A -> W] /\ \A u \in A : Takes(m, jb, f[u], u)
      BY <1>8, <2>2
    <2>4. ASSUME NEW q \in W
          PROVE  /\ IsFiniteSet({u \in A : f[u] = q})
                 /\ Cardinality({u \in A : f[u] = q}) <= c
      <3>1. PICK F : F = {u \in A : f[u] = q}
        OBVIOUS
      <3>2. \A u \in F : Takes(m, jb, q, u)
        BY <2>3, <3>1
      <3>3. CASE F = {}
        BY <1>5, <3>1, <3>3, FS_EmptySet
      <3>4. CASE F # {}
        <4>1. PICK u0 \in F : TRUE
          BY <3>4
        <4>2. PICK sib : sib = m[ForkAt(q)].jobs
          OBVIOUS
        <4>3. PICK K \in DOMAIN jb : jb[K].siblings = sib /\ u0 \in {K} \X (1..Weight(jb, K))
          BY <3>2, <4>1, <4>2 DEF Takes
        <4>4. jb[K].parent = J
          <5>1. PICK L \in Kids(jb, J) : u0 \in {L} \X (1..Weight(jb, L))
            BY <1>7, <3>1, <4>1 DEF Units
          <5>2. K = L
            BY <4>3, <5>1
          <5> QED
            BY <5>1, <5>2 DEF Kids
        <4>5. J # NoParent
          <5>1. \A x, y, z : <<x, y, z>> # <<>>
            OBVIOUS
          <5> QED
            BY <1>3, <5>1 DEF IsTask, NoParent
        <4>6. ForkedBy(J, sib)
          BY <4>3, <4>4, <4>5 DEF OriginOK
        <4>7. PICK o2 \in Forks(J[3]) : LET k2 == Task[J[3]].body[o2].tasks IN
                 Len(sib) = Len(k2) /\ \A i \in 1..Len(k2) : sib[i][3] = k2[i]
          BY <4>6 DEF ForkedBy
        <4>8. PICK k2 : k2 = Task[J[3]].body[o2].tasks
          OBVIOUS
        <4>9. Len(sib) = Len(k2) /\ \A i \in 1..Len(k2) : sib[i][3] = k2[i]
          BY <4>7, <4>8
        <4>10. \A u \in F : \E i \in 1..Len(k2) :
                  sib[i] \in DOMAIN jb /\ u \in {sib[i]} \X (1..Weight(jb, sib[i]))
          BY <3>2, <4>2, <4>9 DEF Takes
        <4>11. IsFiniteSet(F) /\ Cardinality(F) <= Use(k2)
          <5>1. PICK k : k = J[3]
            OBVIOUS
          <5>2. k \in DOMAIN Task /\ o2 \in Forks(k) /\ k2 = Task[k].body[o2].tasks
            BY <1>3, <4>8, <5>1
          <5>3. JobsOK(m, jb, js) /\ Counted(jb)
            OBVIOUS
          <5> QED
            BY ONLY <4>9, <4>10, <5>2, <5>3, ForkUses
        <4>12. Use(k2) <= c
          BY <1>4, <1>9, <1>11, <4>8 DEF Covered
        <4>13. Cardinality(F) \in Nat /\ Use(k2) \in Nat
          BY <1>3, <4>8, <4>11, FS_CardinalityType, NeedsWhatItUses
        <4> QED
          BY <1>5, <3>1, <4>11, <4>12, <4>13
      <3> QED
        BY <3>3, <3>4
    <2>5. IsFiniteSet(A) /\ Cardinality(A) <= Cardinality(W) * c
      BY <1>5, <1>6, <2>3, <2>4, FewToEach
    <2>6. PICK l, n, s : l = Cardinality(A) /\ n = Need(ks) /\ s = Use(ks)
      OBVIOUS
    <2>7. /\ l \in Nat /\ n \in Nat /\ s \in Nat /\ l <= (a - 1) * c /\ n <= s /\ s <= c
          /\ a \in Nat /\ c \in Nat
      BY <1>5, <1>6, <1>9, <2>1, <2>5, <2>6, FS_CardinalityType
    <2>8. n <= c * a - l
      <3>1. (a - 1) * c = c * a - c
        BY <2>7
      <3>2. (a - 1) * c \in Int /\ c * a \in Int
        BY <2>7
      <3> QED
        BY <2>7, <3>1, <3>2
    <2> QED
      BY <1>4, <1>7, <2>6, <2>8 DEF Load
  <1> QED
    BY <1>10, <1>11
----------------------------------------------------------------------------
(* The steps of the threads *)

\* Jobs that are still alive have the parent and the siblings that they were made with, and
\* have got as far with their semaphores as they had, or as make_runnable would get them.
Kin(J, r, q) ==
    /\ IsWork(q) /\ q.parent = r.parent /\ q.siblings = r.siblings
    /\ q.next = r.next \/ q.next = NextSemaphore(J)
Kept(jb, jb2) == \A J \in DOMAIN jb2 : J \in DOMAIN jb /\ Kin(J, jb[J], jb2[J])

\* Then they come from the same forks.
LEMMA OriginKept ==
  ASSUME NEW jb, OriginOK(jb), NEW jb2, Kept(jb, jb2)
  PROVE  OriginOK(jb2)
  BY DEF OriginOK, Kept, Kin

\* Nothing happens to some jobs, or they are gone.
LEMMA KeptSome ==
  ASSUME NEW jb, \A J \in DOMAIN jb : IsWork(jb[J]),
         NEW S, NEW jb2, jb2 = [J \in DOMAIN jb \ S |-> jb[J]]
  PROVE  Kept(jb, jb2)
  BY DEF Kept, Kin

\* One after the other.
LEMMA KeptTwice ==
  ASSUME NEW a, NEW b, NEW c, Kept(a, b), Kept(b, c)
  PROVE  Kept(a, c)
  <1> SUFFICES ASSUME NEW J \in DOMAIN c
               PROVE  J \in DOMAIN a /\ Kin(J, a[J], c[J])
    BY DEF Kept
  <1>1. J \in DOMAIN b /\ J \in DOMAIN a /\ Kin(J, b[J], c[J]) /\ Kin(J, a[J], b[J])
    BY DEF Kept
  <1>2. PICK n : n = NextSemaphore(J)
    OBVIOUS
  <1> QED
    BY <1>1, <1>2 DEF Kin

\* make_runnable keeps them.
LEMMA KeptNext ==
  ASSUME \A K \in DOMAIN job : IsWork(job[K]), NEW js
  PROVE  Kept(job, WithNext(js)) /\ DOMAIN WithNext(js) = DOMAIN job
  <1>1. PICK jb2 : jb2 = WithNext(js)
    OBVIOUS
  <1>2. DOMAIN jb2 = DOMAIN job
    BY <1>1 DEF WithNext
  <1>3. ASSUME NEW K \in DOMAIN job
        PROVE  Kin(K, job[K], jb2[K])
    <2>1. PICK r, q, x : r = job[K] /\ q = jb2[K] /\ x = NextSemaphore(K)
      OBVIOUS
    <2>2. q = r \/ q = [r EXCEPT !.next = x]
      BY <1>1, <2>1 DEF WithNext
    <2>3. IsWork(r)
      BY <2>1
    <2>4. /\ IsWork(q) /\ q.parent = r.parent /\ q.siblings = r.siblings
          /\ q.next = r.next \/ q.next = x
      BY ONLY <2>2, <2>3 DEF IsWork
    <2> QED
      BY <2>1, <2>4 DEF Kin
  <1> QED
    BY <1>1, <1>2, <1>3 DEF Kept

\* One field of one job.
LEMMA KeptField ==
  ASSUME NEW jb, \A K \in DOMAIN jb : IsWork(jb[K]), NEW J, NEW x, NEW jb2,
         \/ jb2 = jb \/ jb2 = [jb EXCEPT ![J].extent = x] \/ jb2 = [jb EXCEPT ![J].exit = x]
         \/ jb2 = [jb EXCEPT ![J].sleeping = x]
  PROVE  Kept(jb, jb2)
  <1>1. DOMAIN jb2 = DOMAIN jb
    OBVIOUS
  <1>2. ASSUME NEW K \in DOMAIN jb
        PROVE  Kin(K, jb[K], jb2[K])
    <2>1. PICK r, q : r = jb[K] /\ q = jb2[K]
      OBVIOUS
    <2>2. q = r \/ q = [r EXCEPT !.extent = x] \/ q = [r EXCEPT !.exit = x]
            \/ q = [r EXCEPT !.sleeping = x]
      BY <2>1
    <2>3. IsWork(r)
      BY <2>1
    <2>4. IsWork(q) /\ q.parent = r.parent /\ q.siblings = r.siblings /\ q.next = r.next
      BY ONLY <2>2, <2>3 DEF IsWork
    <2> QED
      BY <2>1, <2>4 DEF Kin
  <1> QED
    BY <1>1, <1>2 DEF Kept

\* Reserving threads keeps them.
LEMMA KeptReserve ==
  ASSUME NEW jobs, \A K \in DOMAIN jobs : IsWork(jobs[K]), NEW queue, NEW J, NEW d,
         Reserve(jobs, queue, J, d)
  PROVE  Kept(jobs, job')
  <1>1. DOMAIN job' = DOMAIN jobs
    BY DEF Reserve
  <1>2. ASSUME NEW K \in DOMAIN jobs
        PROVE  Kin(K, jobs[K], job'[K])
    <2>1. IsWork(jobs[K])
      OBVIOUS
    <2> QED
      BY <2>1, ReserveOne DEF Kin
  <1> QED
    BY <1>1, <1>2 DEF Kept

\* So does starting on a job.
LEMMA StartKeeps ==
  ASSUME ShapeInv, JobsOK(FMap(stack), job, wq.jobs), \A K \in DOMAIN job : IsWork(job[K]),
         NEW t \in Threads, Start(t)
  PROVE  Kept(job, job')
  <1>1. PICK f, J : f = Top(t) /\ J = wq.jobs[Found(f.owned)]
    OBVIOUS
  <1>2. PICK jn : jn = WithNext(Considered(f.owned))
    OBVIOUS
  <1>3. PICK j2, queue : j2 = StartedOn(jn, J)
                         /\ queue = [wq EXCEPT !.jobs = IF Last(J) THEN WithoutJob(@, J) ELSE @]
    OBVIOUS
  <1>4. Found(f.owned) # 0 /\ Reserve(j2, queue, J, TaskOf(J).min_threads)
    BY <1>1, <1>2, <1>3 DEF Start, Serial, StartedOn
  <1>5. Found(f.owned) \in 1..Len(wq.jobs)
    BY <1>4, FoundJob DEF ShapeInv
  <1>6. J \in DOMAIN job
    BY <1>1, <1>5 DEF JobsOK, ListOK, Listed
  <1>7. Kept(job, jn) /\ DOMAIN jn = DOMAIN job
    BY <1>2, KeptNext
  <1>8. J \in DOMAIN jn /\ \A K \in DOMAIN jn : IsWork(jn[K])
    BY <1>6, <1>7 DEF Kept, Kin
  <1>9. /\ DOMAIN j2 = DOMAIN jn /\ \A K \in DOMAIN jn : K # J => j2[K] = jn[K]
        /\ IsWork(j2[J]) /\ j2[J].siblings = jn[J].siblings /\ j2[J].parent = jn[J].parent
        /\ j2[J].next = jn[J].next
    BY <1>3, <1>8, StartedFields
  <1>10. Kept(jn, j2) /\ \A K \in DOMAIN j2 : IsWork(j2[K])
    BY <1>8, <1>9 DEF Kept, Kin
  <1>11. Kept(j2, job')
    BY <1>4, <1>10, KeptReserve
  <1> QED
    BY <1>7, <1>10, <1>11, KeptTwice

\* And accounting for what was done.
LEMMA FinishKeeps ==
  ASSUME \A K \in DOMAIN job : IsWork(job[K]), NEW t \in Threads, Finish(t)
  PROVE  Kept(job, job')
  <1>1. PICK f, J : f = Top(t) /\ J = f.work
    OBVIOUS
  <1>2. PICK r, n : r = f.result /\ n = f.total
    OBVIOUS
  <1>3. PICK e : e = IF ~Serial(J) THEN job[J].extent ELSE IF r # 0 THEN 0 ELSE job[J].extent - n
    OBVIOUS
  <1>4. PICK D, x : D = Iterations(f, r) /\ x = Outcome(J, r)
    OBVIOUS
  <1>5. PICK marked : marked = {K \in {job[J].siblings[i] : i \in 1..Len(job[J].siblings)} \ {J} :
                                    r # 0 /\ job[K].exit = 0}
    OBVIOUS
  <1>6. PICK j2 : j2 = [K \in DOMAIN job |->
                          IF K = J THEN FinishedWork(job[J], J, e, x, n, D)
                          ELSE IF K \in marked THEN [job[K] EXCEPT !.exit = r] ELSE job[K]]
    OBVIOUS
  <1>7. PICK queue : queue = [wq EXCEPT !.jobs = IF Serial(J) /\ e > 0 THEN <<J>> \o @ ELSE @]
    OBVIOUS
  <1>8. Reserve(j2, queue, J, 0 - TaskOf(J).min_threads)
    BY <1>1, <1>2, <1>3, <1>4, <1>5, <1>6, <1>7 DEF Finish, At, Serial, FinishedWork
  <1>9. ASSUME NEW K \in DOMAIN job
        PROVE  Kin(K, job[K], j2[K])
    <2>1. PICK u, q : u = job[K] /\ q = j2[K]
      OBVIOUS
    <2>2. IsWork(u)
      BY <2>1
    <2>3. CASE K = J
      <3>1. q = FinishedWork(u, J, e, x, n, D)
        BY <1>6, <2>1, <2>3
      <3>2. IsWork(q) /\ q.siblings = u.siblings /\ q.parent = u.parent /\ q.next = u.next
        BY ONLY <2>2, <3>1, FinishedFields
      <3> QED
        BY <2>1, <3>2 DEF Kin
    <2>4. CASE K # J
      <3>1. q = u \/ q = [u EXCEPT !.exit = r]
        BY <1>6, <2>1, <2>4
      <3>2. IsWork(q) /\ q.siblings = u.siblings /\ q.parent = u.parent /\ q.next = u.next
        BY ONLY <2>2, <3>1 DEF IsWork
      <3> QED
        BY <2>1, <3>2 DEF Kin
    <2> QED
      BY <2>3, <2>4
  <1>10. Kept(job, j2) /\ \A K \in DOMAIN j2 : IsWork(j2[K])
    <2>1. DOMAIN j2 = DOMAIN job
      BY <1>6
    <2> QED
      BY <1>9, <2>1 DEF Kept, Kin
  <1>11. Kept(j2, job')
    BY <1>8, <1>10, KeptReserve
  <1> QED
    BY <1>10, <1>11, KeptTwice

\* Every step but a call keeps the forks that jobs come from, and aborts nothing.
LEMMA StepKeeps ==
  ASSUME ShapeInv, JobsOK(FMap(stack), job, wq.jobs), \A K \in DOMAIN job : IsWork(job[K]),
         NEW t \in Threads, Step(t), ~CallParallelTasks(t), ~CallParFor(t)
  PROVE  Kept(job, job') /\ aborted' = aborted
  <1>1. CASE DropFailed(t) \/ InheritFailure(t)
    <2>1. PICK J, x : job' = [job EXCEPT ![J].extent = x] \/ job' = [job EXCEPT ![J].exit = x]
      BY <1>1 DEF DropFailed, InheritFailure
    <2>2. aborted' = aborted
      BY <1>1 DEF DropFailed, InheritFailure
    <2>3. Kept(job, job')
      BY <2>1, KeptField
    <2> QED
      BY <2>2, <2>3
  <1>2. CASE Sleep(t)
    <2>1. PICK jn, J : /\ jn = WithNext(Considered(Top(t).owned))
                       /\ job' = jn \/ job' = [jn EXCEPT ![J].sleeping = TRUE]
      BY <1>2 DEF Sleep
    <2>2. Kept(job, jn) /\ \A K \in DOMAIN jn : IsWork(jn[K])
      BY <2>1, KeptNext DEF Kept, Kin
    <2>3. Kept(jn, job')
      <3>1. PICK jb2 : jb2 = job'
        OBVIOUS
      <3>2. \/ jb2 = jn \/ jb2 = [jn EXCEPT ![J].extent = TRUE] \/ jb2 = [jn EXCEPT ![J].exit = TRUE]
            \/ jb2 = [jn EXCEPT ![J].sleeping = TRUE]
        BY <2>1, <3>1
      <3>3. Kept(jn, jb2)
        BY ONLY <2>2, <3>2, KeptField
      <3> QED
        BY <3>1, <3>3
    <2>4. Kept(job, job')
      BY <2>2, <2>3, KeptTwice
    <2> QED
      BY <1>2, <2>4 DEF Sleep
  <1>3. CASE Wake(t)
    <2>1. job' = job \/ job' = [job EXCEPT ![Top(t).owned].sleeping = FALSE]
      BY <1>3 DEF Wake
    <2>2. Kept(job, job')
      BY <2>1, KeptField
    <2> QED
      BY <1>3, <2>2 DEF Wake
  <1>4. CASE Start(t)
    BY <1>4, StartKeeps DEF Start
  <1>5. CASE Claim(t) \/ RunClaimed(t)
    <2>1. PICK js : job' = job \/ job' = WithNext(js)
      BY <1>5 DEF Claim, RunClaimed
    <2>2. Kept(job, job')
      BY <2>1, KeptNext DEF Kept, Kin
    <2> QED
      BY <1>5, <2>2 DEF Claim, RunClaimed
  <1>6. CASE Finish(t)
    BY <1>6, FinishKeeps DEF Finish
  <1>7. CASE JoinNext(t)
    <2>1. PICK S : job' = job \/ job' = [J \in DOMAIN job \ S |-> job[J]]
      BY <1>7 DEF JoinNext
    <2>2. Kept(job, job')
      BY <2>1, KeptSome DEF Kept, Kin
    <2> QED
      BY <1>7, <2>2 DEF JoinNext
  <1>8. CASE \/ Leave(t) \/ Release(t) \/ ReleaseBroadcast(t) \/ Work(t) \/ SetNumThreads(t)
             \/ EndBody(t) \/ Shutdown(t) \/ Joined(t)
    <2>1. job' = job /\ aborted' = aborted
      BY <1>8 DEF Leave, Release, ReleaseBroadcast, Work, SetNumThreads, EndBody, Shutdown, Joined
    <2> QED
      BY <2>1 DEF Kept, Kin
  <1> QED
    BY <1>1, <1>2, <1>3, <1>4, <1>5, <1>6, <1>7, <1>8 DEF Step

\* A call aborts when its jobs need more threads than their parent has left.
LEMMA EnqueueAborts ==
  ASSUME NEW t, NEW ks, NEW inits, NEW parent, NEW par_for,
         Enqueue(t, ks, inits, parent, par_for)
  PROVE  /\ parent = NoParent => aborted' = FALSE
         /\ parent # NoParent =>
              aborted' = (Need(ks) + 0 > Task[parent[3]].min_threads * job[parent].active
                                           - job[parent].reserved)
  <1> DEFINE blocking == \E i \in 1..Len(ks) : Task[ks[i]].min_threads > 0 \/ Task[ks[i]].sems # <<>>
  <1>1. aborted' = (parent # NoParent /\
            Need(ks) + (IF parent = NoParent /\ blocking THEN 1 ELSE 0)
              > Task[parent[3]].min_threads * job[parent].active - job[parent].reserved)
    BY Zenon DEF Enqueue, Need
  <1> HIDE DEF blocking
  <1>2. CASE parent = NoParent
    BY <1>1, <1>2
  <1>3. CASE parent # NoParent
    <2>1. (IF parent = NoParent /\ blocking THEN 1 ELSE 0) = 0
      BY <1>3
    <2> QED
      BY <1>1, <1>3, <2>1
  <1> QED
    BY <1>2, <1>3

OriginInv == ~aborted /\ OriginOK(job)

\* The operation that a thread calls is one of the forks in the body of its job.
LEMMA CallIsFork ==
  ASSUME ShapeInv, NEW t \in Threads, CallParallelTasks(t), ~IsClient(Top(t).job)
  PROVE  /\ Top(t).op \in Forks(Top(t).job[3])
         /\ Op(t).tasks = Task[Top(t).job[3]].body[Top(t).op].tasks
         /\ Op(t).tasks \in Seq(DOMAIN Task) /\ Op(t).tasks # <<>>
         /\ \A i \in 1..Len(Op(t).tasks) : Task[Op(t).tasks[i]].extent > 0
         /\ \A i, j \in 1..Len(Op(t).tasks) : Op(t).tasks[i] = Op(t).tasks[j] => i = j
  <1>1. PICK f, k : f = Top(t) /\ k = f.job[3]
    OBVIOUS
  <1>2. Operation(Op(t)) /\ Op(t).op = "parallel_tasks" /\ InBody(t)
    BY OpIsOperation DEF CallParallelTasks
  <1>3. stack[t] # <<>> /\ f.at \in BodyAt /\ f.op <= Len(Ops(f.job))
    BY <1>1, <1>2 DEF CallParallelTasks, HasOp, InBody, At, BodyAt
  <1>4. f.op \in Nat \ {0} /\ Program(Ops(f.job))
    BY <1>1, <1>3, BodyTop, BodyOps
  <1>5. Ops(f.job) = Task[k].body
    BY <1>1 DEF Ops, TaskOf
  <1>6. f.op \in 1..Len(Task[k].body) /\ Op(t) = Task[k].body[f.op]
    BY <1>1, <1>3, <1>4, <1>5 DEF Op, Program
  <1> QED
    BY <1>1, <1>2, <1>6 DEF Forks, Operation

\* A fork finds the threads that it needs, and its jobs come from it.
LEMMA CallsKeepOrigin ==
  ASSUME \A k \in DOMAIN Task : Covered(k),
         ShapeInv, JobsOK(FMap(stack), job, wq.jobs), SumsOK(job, wq.threads_reserved),
         OriginInv, NEW t \in Threads, CallParallelTasks(t) \/ CallParFor(t)
  PROVE  OriginInv'
  <1>1. Counted(job) /\ \A K \in DOMAIN job : IsWork(job[K])
    BY JobsCounted DEF Counted
  <1>2. ASSUME NEW ks, NEW inits, NEW par_for, Enqueue(t, ks, inits, NoParent, par_for)
        PROVE  OriginInv'
    <2>1. aborted' = FALSE
      BY <1>2, EnqueueAborts
    <2>2. Makes(job, job', CallJobs(Top(t), ks), NoParent, par_for)
      BY <1>2, EnqueueMakes
    <2>3. PICK jb2, ids : jb2 = job' /\ ids = CallJobs(Top(t), ks)
      OBVIOUS
    <2>4. \A J \in DOMAIN jb2 : /\ J \in DOMAIN job => jb2[J] = job[J]
                                /\ J \notin DOMAIN job => jb2[J] = NewJob(ids, NoParent, par_for, J[3])
      BY <2>2, <2>3 DEF Makes
    <2>5. \A k : NewJob(ids, NoParent, par_for, k).parent = NoParent
      BY DEF NewJob
    <2>6. OriginOK(jb2)
      BY <2>4, <2>5 DEF OriginInv, OriginOK
    <2> QED
      BY <2>1, <2>3, <2>6 DEF OriginInv
  <1>3. CASE CallParFor(t)
    <2>1. CASE Task[Op(t).task].extent <= 0
      BY <1>3, <2>1 DEF CallParFor, OriginInv
    <2>2. CASE ~(Task[Op(t).task].extent <= 0)
      <3>1. Enqueue(t, <<Op(t).task>>, {}, NoParent, TRUE)
        BY <1>3, <2>2 DEF CallParFor
      <3> QED
        BY <1>2, <3>1
    <2> QED
      BY <2>1, <2>2
  <1>4. CASE CallParallelTasks(t) /\ TaskParent(Top(t).job) = NoParent
    <2>1. Enqueue(t, Op(t).tasks, Op(t).init, NoParent, FALSE)
      BY <1>4 DEF CallParallelTasks
    <2> QED
      BY <1>2, <2>1
  <1>5. CASE CallParallelTasks(t) /\ TaskParent(Top(t).job) # NoParent
    <2>1. PICK f, J : f = Top(t) /\ J = f.job
      OBVIOUS
    <2>2. ~IsClient(J) /\ TaskParent(J) = J
      BY <1>5, <2>1 DEF TaskParent
    <2>3. PICK ks, o, ids : ks = Op(t).tasks /\ o = f.op /\ ids = CallJobs(f, ks)
      OBVIOUS
    <2>4. Enqueue(t, ks, Op(t).init, J, FALSE) /\ J # NoParent
      BY <1>5, <2>1, <2>2, <2>3 DEF CallParallelTasks
    <2>5. /\ o \in Forks(J[3]) /\ ks = Task[J[3]].body[o].tasks
          /\ ks \in Seq(DOMAIN Task) /\ ks # <<>>
          /\ \A i \in 1..Len(ks) : Task[ks[i]].extent > 0
          /\ \A i, j \in 1..Len(ks) : ks[i] = ks[j] => i = j
      BY <1>5, <2>1, <2>2, <2>3, CallIsFork
    <2>6. stack[t] # <<>> /\ f.at = "body"
      BY <1>5, <2>1 DEF CallParallelTasks, HasOp, InBody, At
    <2>7. PICK T, m : IsTop(t, T) /\ m = FMap(stack)
      BY <2>6, TopAt
    <2>8. T \in DOMAIN m /\ Over(T) \notin DOMAIN m /\ m[T] = f /\ JobsOK(m, job, wq.jobs)
      BY <2>1, <2>7 DEF IsTop
    <2>9. T[2] > 1
      <3>1. Nested(m)
        BY <2>8 DEF JobsOK
      <3>2. T[2] \in Nat \ {0} /\ (T[2] = 1 => J = <<T[1]>>)
        BY <2>1, <2>6, <2>8, <3>1 DEF Nested, BodyAt
      <3>3. T[2] # 1
        BY <2>2, <3>2 DEF IsClient
      <3> QED
        BY <3>2, <3>3
    <2>10. PICK j0 : j0 = job
      OBVIOUS
    <2>11. Need(ks) <= Task[J[3]].min_threads * j0[J].active - Load(j0, J)
      <3>1. OriginOK(j0) /\ Counted(j0) /\ JobsOK(m, j0, wq.jobs)
        BY <1>1, <2>8, <2>10 DEF OriginInv
      <3>2. m[T].at = "body" /\ J = m[T].job
        BY <2>1, <2>6, <2>8
      <3>3. \A k \in DOMAIN Task : Covered(k)
        OBVIOUS
      <3> QED
        BY ONLY <2>5, <2>8, <2>9, <3>1, <3>2, <3>3, RoomToFork
    <2>12. J \in DOMAIN job
      <3>1. Nested(m) /\ BusyOK(m, job)
        BY <2>8 DEF JobsOK
      <3>2. Under(T) \in DOMAIN m /\ m[Under(T)].at = "working" /\ m[Under(T)].work = J
        BY <2>1, <2>6, <2>8, <2>9, <3>1 DEF Nested, BodyAt
      <3> QED
        BY <3>1, <3>2 DEF BusyOK, Busy
    <2>13. job[J].reserved = Load(job, J)
      BY <2>12 DEF SumsOK
    <2>14. Need(ks) \in Nat /\ J[3] \in DOMAIN Task /\ Load(job, J) \in Nat
           /\ job[J].active \in Nat /\ Task[J[3]].min_threads \in Nat
      <3>1. IsTask(J)
        BY <2>8, <2>12 DEF JobsOK, WorkOK
      <3>2. J[3] \in DOMAIN Task
        BY <3>1 DEF IsTask
      <3>3. Need(ks) \in Nat
        BY <2>5, <3>2, NeedsWhatItUses
      <3>4. IsFiniteSet(DOMAIN job)
        BY DEF SumsOK
      <3>5. IsFiniteSet(Units(job, Kids(job, J)))
        BY <1>1, <3>4, KidsWeighed, UnitsFinite
      <3>6. Load(job, J) \in Nat
        BY <3>5, FS_CardinalityType DEF Load
      <3> QED
        BY <1>1, <2>12, <3>2, <3>3, <3>6, TaskAssumption DEF Counted
    <2>15. aborted' = FALSE
      <3>1. aborted' = (Need(ks) + 0 > Task[J[3]].min_threads * job[J].active - job[J].reserved)
        BY <2>4, EnqueueAborts
      <3>2. PICK n, l, b : /\ n = Need(ks) /\ l = Load(job, J)
                           /\ b = Task[J[3]].min_threads * job[J].active
        OBVIOUS
      <3>3. n \in Nat /\ l \in Nat /\ b \in Int
        BY <2>14, <3>2
      <3>4. n <= b - l
        BY <2>10, <2>11, <3>2
      <3>5. ~(n + 0 > b - l)
        BY <3>3, <3>4
      <3>6. aborted' = (n + 0 > b - l)
        BY <2>13, <3>1, <3>2, Zenon
      <3>7. (n + 0 > b - l) = FALSE
        BY <3>5
      <3> QED
        BY <3>6, <3>7
    <2>16. Makes(job, job', ids, J, FALSE)
      BY <2>1, <2>3, <2>4, EnqueueMakes
    <2>17. ForkedBy(J, ids)
      <3>1. Len(ids) = Len(ks) /\ \A i \in 1..Len(ks) : ids[i] = <<f.job, f.it, ks[i]>>
        <4>1. Len(ks) \in Nat
          BY <2>5
        <4>2. ids = [i \in 1..Len(ks) |-> <<f.job, f.it, ks[i]>>]
          BY <2>3 DEF CallJobs, Child
        <4> QED
          BY <4>1, <4>2
      <3>2. \A i \in 1..Len(ks) : ids[i][3] = ks[i]
        BY <3>1
      <3> QED
        BY <2>5, <3>1, <3>2 DEF ForkedBy
    <2>18. PICK jb2 : jb2 = job'
      OBVIOUS
    <2>19. \A K \in DOMAIN jb2 : /\ K \in DOMAIN job => jb2[K] = job[K]
                                 /\ K \notin DOMAIN job => jb2[K] = NewJob(ids, J, FALSE, K[3])
      BY <2>16, <2>18 DEF Makes
    <2>20. \A k : NewJob(ids, J, FALSE, k).parent = J /\ NewJob(ids, J, FALSE, k).siblings = ids
      BY DEF NewJob
    <2>21. OriginOK(jb2)
      BY <2>17, <2>19, <2>20 DEF OriginInv, OriginOK
    <2> QED
      BY <2>15, <2>18, <2>21 DEF OriginInv
  <1> QED
    BY <1>3, <1>4, <1>5

\* Every step keeps the forks that jobs come from, and none aborts.
LEMMA OriginStep ==
  ASSUME \A k \in DOMAIN Task : Covered(k)
  PROVE  ShapeInv /\ TeamInv /\ JobsInv /\ CountInv /\ OriginInv /\ [Next]_vars => OriginInv'
  <1> SUFFICES ASSUME ShapeInv, TeamInv, JobsInv, CountInv, OriginInv, [Next]_vars
               PROVE  OriginInv'
    OBVIOUS
  <1>1. CASE UNCHANGED vars
    BY <1>1 DEF vars, OriginInv
  <1>2. ASSUME NEW t \in Threads, Step(t)
        PROVE  OriginInv'
    <2>1. JobsOK(FMap(stack), job, wq.jobs) /\ SumsOK(job, wq.threads_reserved)
      BY DEF OriginInv, JobsInv, CountInv
    <2>2. \A K \in DOMAIN job : IsWork(job[K])
      BY <2>1, JobsCounted DEF Counted
    <2>3. CASE CallParallelTasks(t) \/ CallParFor(t)
      BY <2>1, <2>3, CallsKeepOrigin
    <2>4. CASE ~CallParallelTasks(t) /\ ~CallParFor(t)
      <3>1. Kept(job, job') /\ aborted' = aborted
        BY <1>2, <2>1, <2>2, <2>4, StepKeeps
      <3>2. OriginOK(job')
        BY <3>1, OriginKept DEF OriginInv
      <3> QED
        BY <3>1, <3>2 DEF OriginInv
    <2> QED
      BY <2>3, <2>4
  <1> QED
    BY <1>1, <1>2 DEF Next

\* "Logic error: thread over commit." never fires in a program in which every task asks for
\* what a fork in its body can use at most, whatever the number of threads.
THEOREM CoveredNeverAborts ==
  ASSUME \A k \in DOMAIN Task : Covered(k)
  PROVE  Spec => []NeverAborts
  <1>1. Init => OriginInv
    BY DEF Init, OriginInv, OriginOK
  <1>2. ShapeInv /\ TeamInv /\ JobsInv /\ CountInv /\ OriginInv /\ [Next]_vars => OriginInv'
    BY OriginStep
  <1>3. Spec => [](ShapeInv /\ TeamInv /\ TeamsInv)
    BY StackInvariance
  <1>4. OriginInv => NeverAborts
    BY DEF OriginInv, NeverAborts
  <1> QED
    BY <1>1, <1>2, <1>3, <1>4, CountInit, CountStep, JobsInvariance, PTL DEF Spec
----------------------------------------------------------------------------
(***************************************************************************)
(* The types: what make_runnable counts is within the semaphores of a      *)
(* task, and no semaphore is taken below zero.                             *)
(***************************************************************************)

\* No job is further with its semaphores than its task has any, and tasks without
\* iterations have no job; semaphores count what there is.
NextsOK(jb) ==
    \A J \in DOMAIN jb : jb[J].next \in 0..Len(TaskOf(J).sems) /\ TaskOf(J).extent > 0

SemsOK(sm) == \A s \in DOMAIN sm : sm[s] \in Nat

TypeInv ==
    /\ lock \in Threads \cup {NoThread} /\ waiting \in [Conds -> SUBSET Threads]
    /\ aborted \/ (NextsOK(job) /\ SemsOK(sem))

\* The semaphores a job would acquire are some of those it has not acquired.
LEMMA AcquiredIn ==
  ASSUME NEW J, Len(TaskOf(J).sems) \in Nat, job[J].next \in 0..Len(TaskOf(J).sems)
  PROVE  /\ NextSemaphore(J) \in 0..Len(TaskOf(J).sems)
         /\ Acquired(J) \subseteq 1..Len(TaskOf(J).sems)
  <1>1. PICK n, l, A : n = job[J].next /\ l = Len(TaskOf(J).sems) /\ A = Acquired(J)
    OBVIOUS
  <1>2. n \in Nat /\ l \in Nat /\ n <= l /\ A \subseteq n + 1 .. l
    BY <1>1 DEF Acquired
  <1>3. A \subseteq 1..l
    BY <1>2
  <1>4. IsFiniteSet(n + 1 .. l) /\ Cardinality(n + 1 .. l) <= l - n
    <2>1. n + 1 \in Int /\ l \in Int
      BY <1>2
    <2>2. /\ IsFiniteSet(n + 1 .. l)
          /\ Cardinality(n + 1 .. l) = IF n + 1 > l THEN 0 ELSE l - (n + 1) + 1
      BY <2>1, FS_Interval
    <2> QED
      BY <1>2, <2>2
  <1>5. IsFiniteSet(A) /\ Cardinality(A) <= Cardinality(n + 1 .. l)
    BY <1>2, <1>4, FS_Subset
  <1>6. PICK c, d : c = Cardinality(A) /\ d = Cardinality(n + 1 .. l)
    OBVIOUS
  <1>7. c \in Nat /\ d \in Nat
    BY <1>4, <1>5, <1>6, FS_CardinalityType
  <1>8. n + c \in 0..l
    BY <1>2, <1>4, <1>5, <1>6, <1>7
  <1>9. NextSemaphore(J) = 0 \/ NextSemaphore(J) = n + c
    BY <1>1, <1>6 DEF NextSemaphore
  <1> QED
    BY <1>1, <1>2, <1>3, <1>8, <1>9

\* What is kept of the jobs keeps their place among their semaphores.
LEMMA KeptNexts ==
  ASSUME NextsOK(job), \A J \in DOMAIN job : IsTask(J), NEW jb2, Kept(job, jb2)
  PROVE  NextsOK(jb2)
  <1> SUFFICES ASSUME NEW J \in DOMAIN jb2
               PROVE  jb2[J].next \in 0..Len(TaskOf(J).sems) /\ TaskOf(J).extent > 0
    BY DEF NextsOK
  <1>1. J \in DOMAIN job /\ (jb2[J].next = job[J].next \/ jb2[J].next = NextSemaphore(J))
    BY DEF Kept, Kin
  <1>2. job[J].next \in 0..Len(TaskOf(J).sems) /\ TaskOf(J).extent > 0
    BY <1>1 DEF NextsOK
  <1>3. Len(TaskOf(J).sems) \in Nat
    BY <1>1, TaskAssumption DEF IsTask, TaskOf
  <1> QED
    BY <1>1, <1>2, <1>3, AcquiredIn

\* A semaphore is acquired only if it has the count.
LEMMA AcquireSems ==
  ASSUME NextsOK(job), SemsOK(sem), \A J \in DOMAIN job : IsTask(J),
         NEW js \in SUBSET DOMAIN job, Acquire(js)
  PROVE  SemsOK(sem')
  <1> DEFINE by(s) == {p \in UNION {{J} \X Acquired(J) : J \in js} :
                          SemOf(p[1], TaskOf(p[1]).sems[p[2]].s) = s}
  <1>1. sem' = [s \in DOMAIN sem |->
                  IF by(s) = {} THEN sem[s]
                  ELSE sem[s] - TaskOf((CHOOSE p \in by(s) : TRUE)[1]).sems[
                                   (CHOOSE p \in by(s) : TRUE)[2]].n]
    BY Zenon DEF Acquire
  <1>2. ASSUME NEW s \in DOMAIN sem, NEW p \in by(s)
        PROVE  sem[s] - TaskOf(p[1]).sems[p[2]].n \in Nat
    <2>1. PICK J \in js : p \in {J} \X Acquired(J)
      OBVIOUS
    <2>2. p[1] = J /\ p[2] \in Acquired(J) /\ SemOf(J, TaskOf(J).sems[p[2]].s) = s
      BY <2>1
    <2>3. Len(TaskOf(J).sems) \in Nat /\ J \in DOMAIN job /\ J[3] \in DOMAIN Task
      BY TaskAssumption DEF IsTask, TaskOf
    <2>4. p[2] \in 1..Len(TaskOf(J).sems)
      BY <2>2, <2>3, AcquiredIn DEF NextsOK
    <2>5. TaskOf(J).sems[p[2]].n \in Nat
      BY <2>3, <2>4, TaskAssumption DEF TaskOf
    <2>6. Available(J, p[2])
      <3>1. p[2] \in job[J].next + 1 .. p[2]
        BY <2>2, <2>4 DEF Acquired
      <3> QED
        BY <2>2, <3>1 DEF Acquired
    <2>7. sem[s] \in Nat /\ sem[s] >= TaskOf(J).sems[p[2]].n
      BY <2>2, <2>6 DEF Available, SemsOK
    <2>8. PICK a, b : a = sem[s] /\ b = TaskOf(J).sems[p[2]].n
      OBVIOUS
    <2>9. a \in Nat /\ b \in Nat /\ a >= b
      BY <2>5, <2>7, <2>8
    <2>10. a - b \in Nat
      BY <2>9
    <2> QED
      BY <2>2, <2>8, <2>10
  <1> HIDE DEF by
  <1>3. ASSUME NEW s \in DOMAIN sem
        PROVE  sem'[s] \in Nat
    <2>1. CASE by(s) = {}
      BY <1>1, <2>1 DEF SemsOK
    <2>2. CASE by(s) # {}
      <3>1. PICK p : p = CHOOSE q \in by(s) : TRUE
        OBVIOUS
      <3>2. p \in by(s)
        BY <2>2, <3>1
      <3>3. sem'[s] = sem[s] - TaskOf(p[1]).sems[p[2]].n
        BY <1>1, <2>2, <3>1
      <3> QED
        BY <1>2, <3>2, <3>3
    <2> QED
      BY <2>1, <2>2
  <1> QED
    BY <1>1, <1>3 DEF SemsOK

\* A search looks at jobs that are alive.
LEMMA ConsideredAlive ==
  ASSUME TaskSeq(wq.jobs), NEW jb, ListOK(jb, wq.jobs), NEW owned
  PROVE  Considered(owned) \in SUBSET DOMAIN jb
  <1>1. PICK last : last = IF Found(owned) = 0 THEN Len(wq.jobs) ELSE Found(owned)
    OBVIOUS
  <1>2. Len(wq.jobs) \in Nat
    BY DEF TaskSeq
  <1>3. last \in 0..Len(wq.jobs)
    BY <1>1, <1>2, FoundJob
  <1>4. \A p \in 1..last : wq.jobs[p] \in DOMAIN jb
    <2>1. ASSUME NEW p \in 1..last
          PROVE  wq.jobs[p] \in DOMAIN jb
      <3>1. p \in 1..Len(wq.jobs)
        BY <1>2, <1>3
      <3> QED
        BY <3>1 DEF ListOK, Listed
    <2> QED
      BY <2>1
  <1> QED
    BY <1>1, <1>4 DEF Considered

\* The lock goes to a thread or to nobody.
LEMMA LockStep ==
  ASSUME NEW t \in Threads, Step(t)
  PROVE  lock' \in {lock, t, NoThread}
  <1>1. CASE DropFailed(t) \/ InheritFailure(t) \/ Sleep(t) \/ Wake(t) \/ Start(t)
    BY <1>1 DEF DropFailed, InheritFailure, Sleep, Wake, Start
  <1>2. CASE Claim(t) \/ RunClaimed(t) \/ Finish(t) \/ Leave(t) \/ JoinNext(t)
    BY <1>2 DEF Claim, RunClaimed, Finish, Leave, JoinNext
  <1>3. ASSUME NEW ks, NEW inits, NEW parent, NEW par_for, Enqueue(t, ks, inits, parent, par_for)
        PROVE  lock' = t
    BY <1>3, Zenon DEF Enqueue
  <1>4. CASE CallParallelTasks(t) \/ CallParFor(t)
    BY <1>3, <1>4 DEF CallParallelTasks, CallParFor
  <1>5. CASE \/ Release(t) \/ ReleaseBroadcast(t) \/ Work(t) \/ SetNumThreads(t) \/ EndBody(t)
             \/ Shutdown(t) \/ Joined(t)
    BY <1>5 DEF Release, ReleaseBroadcast, Work, SetNumThreads, EndBody, Shutdown, Joined
  <1> QED
    BY <1>1, <1>2, <1>4, <1>5 DEF Step

\* Threads wait, and are woken.
LEMMA WaitStep ==
  ASSUME waiting \in [Conds -> SUBSET Threads], NEW t \in Threads, Step(t)
  PROVE  waiting' \in [Conds -> SUBSET Threads]
  <1>1. ASSUME NEW cs, Broadcast(cs)
        PROVE  waiting' \in [Conds -> SUBSET Threads]
    BY <1>1 DEF Broadcast
  <1>2. CASE Sleep(t)
    <2>1. PICK c : waiting' = [waiting EXCEPT ![c] = @ \cup {t}]
      BY <1>2 DEF Sleep
    <2> QED
      BY <2>1
  <1>3. CASE DropFailed(t) \/ InheritFailure(t) \/ Wake(t) \/ Start(t)
    BY <1>1, <1>3 DEF DropFailed, InheritFailure, Wake, Start
  <1>4. CASE Finish(t)
    <2>1. waiting' = waiting \/ \E cs : Broadcast(cs)
      BY <1>4 DEF Finish
    <2> QED
      BY <1>1, <2>1
  <1>5. CASE Claim(t) \/ RunClaimed(t) \/ Leave(t) \/ JoinNext(t)
    BY <1>5 DEF Claim, RunClaimed, Leave, JoinNext
  <1>6. ASSUME NEW ks, NEW inits, NEW parent, NEW par_for, Enqueue(t, ks, inits, parent, par_for)
        PROVE  \E cs : Broadcast(cs)
    BY <1>6, Zenon DEF Enqueue
  <1>7. CASE CallParallelTasks(t) \/ CallParFor(t)
    <2>1. waiting' = waiting \/ \E cs : Broadcast(cs)
      BY <1>6, <1>7 DEF CallParallelTasks, CallParFor
    <2> QED
      BY <1>1, <2>1
  <1>8. CASE \/ Release(t) \/ ReleaseBroadcast(t) \/ Work(t) \/ SetNumThreads(t) \/ EndBody(t)
             \/ Shutdown(t) \/ Joined(t)
    <2>1. waiting' = waiting \/ \E cs : Broadcast(cs)
      BY <1>8 DEF Release, ReleaseBroadcast, Work, SetNumThreads, EndBody, Shutdown, Joined
    <2> QED
      BY <1>1, <2>1
  <1> QED
    BY <1>2, <1>3, <1>4, <1>5, <1>7, <1>8 DEF Step

\* A call puts up idle jobs of tasks with iterations, and semaphores with their counts.
LEMMA EnqueueTypes ==
  ASSUME NextsOK(job), SemsOK(sem), NEW t, NEW ks \in Seq(DOMAIN Task),
         \A i \in 1..Len(ks) : Task[ks[i]].extent > 0,
         NEW inits, \A x \in inits : x[2] \in Nat, NEW parent, NEW par_for,
         Enqueue(t, ks, inits, parent, par_for)
  PROVE  NextsOK(job') /\ SemsOK(sem')
  <1>1. PICK jb2, ids : jb2 = job' /\ ids = CallJobs(Top(t), ks)
    OBVIOUS
  <1>2. Makes(job, jb2, ids, parent, par_for)
    BY <1>1, EnqueueMakes
  <1>3. ASSUME NEW J \in DOMAIN jb2
        PROVE  jb2[J].next \in 0..Len(TaskOf(J).sems) /\ TaskOf(J).extent > 0
    <2>1. CASE J \in DOMAIN job
      BY <1>2, <2>1 DEF Makes, NextsOK
    <2>2. CASE J \notin DOMAIN job
      <3>1. jb2[J] = NewJob(ids, parent, par_for, J[3])
        BY <1>2, <2>2 DEF Makes
      <3>2. jb2[J].next = 0
        BY <3>1 DEF NewJob
      <3>3. PICK i \in 1..Len(ids) : J = ids[i]
        BY <1>2, <2>2 DEF Makes
      <3>4. Len(ids) = Len(ks) /\ ids[i] = Child(Top(t), ks[i])
        <4>1. Len(ks) \in Nat
          OBVIOUS
        <4>2. Len(ids) = Len(ks)
          BY <1>1, CallJobsOK
        <4> QED
          BY <1>1, <3>3, <4>1, <4>2 DEF CallJobs
      <3>5. J[3] = ks[i] /\ i \in 1..Len(ks) /\ ks[i] \in DOMAIN Task
        BY <3>3, <3>4 DEF Child
      <3>6. TaskOf(J) = Task[ks[i]]
        BY <3>5 DEF TaskOf
      <3>7. Len(TaskOf(J).sems) \in Nat
        BY <3>5, <3>6, TaskAssumption
      <3> QED
        BY <3>2, <3>5, <3>6, <3>7
    <2> QED
      BY <2>1, <2>2
  <1>4. PICK f, sm : f = Top(t) /\ sm = sem'
    OBVIOUS
  <1>5. sm = [s \in DOMAIN sem \cup {<<f.job, f.it, x[1]>> : x \in inits} |->
                  IF s \in DOMAIN sem THEN sem[s]
                  ELSE (CHOOSE x \in inits : x[1] = s[3])[2]]
    BY <1>4, Zenon DEF Enqueue
  <1>6. ASSUME NEW s \in DOMAIN sm
        PROVE  sm[s] \in Nat
    <2>1. CASE s \in DOMAIN sem
      BY <1>5, <2>1 DEF SemsOK
    <2>2. CASE s \notin DOMAIN sem
      <3>1. PICK x \in inits : s = <<f.job, f.it, x[1]>>
        BY <1>5, <2>2
      <3>2. s[3] = x[1]
        BY <3>1
      <3>3. PICK y : y = CHOOSE z \in inits : z[1] = s[3]
        OBVIOUS
      <3>4. y \in inits
        BY <3>2, <3>3
      <3>5. sm[s] = y[2]
        BY <1>5, <2>2, <3>3
      <3> QED
        BY <3>4, <3>5
    <2> QED
      BY <2>1, <2>2
  <1> QED
    BY <1>1, <1>3, <1>4, <1>6 DEF NextsOK, SemsOK

\* So do the two ways to call.
LEMMA CallsTypes ==
  ASSUME ShapeInv, NextsOK(job), SemsOK(sem), NEW t \in Threads,
         CallParallelTasks(t) \/ CallParFor(t)
  PROVE  NextsOK(job') /\ SemsOK(sem')
  <1>1. CASE CallParallelTasks(t)
    <2>1. Operation(Op(t)) /\ Op(t).op = "parallel_tasks"
      BY <1>1, OpIsOperation DEF CallParallelTasks
    <2>2. /\ Op(t).tasks \in Seq(DOMAIN Task)
          /\ \A i \in 1..Len(Op(t).tasks) : Task[Op(t).tasks[i]].extent > 0
          /\ \A x \in Op(t).init : x[2] \in Nat
      BY <2>1 DEF Operation
    <2>3. Enqueue(t, Op(t).tasks, Op(t).init, TaskParent(Top(t).job), FALSE)
      BY <1>1 DEF CallParallelTasks
    <2> QED
      BY <2>2, <2>3, EnqueueTypes
  <1>2. CASE CallParFor(t)
    <2>1. Operation(Op(t)) /\ Op(t).op = "par_for"
      BY <1>2, OpIsOperation DEF CallParFor
    <2>2. PICK k : k = Op(t).task
      OBVIOUS
    <2>3. k \in DOMAIN Task /\ Task[k].extent \in Int
      BY <2>1, <2>2, TaskAssumption DEF Operation
    <2>4. CASE Task[k].extent <= 0
      BY <1>2, <2>2, <2>4 DEF CallParFor
    <2>5. CASE ~(Task[k].extent <= 0)
      <3>1. Enqueue(t, <<k>>, {}, NoParent, TRUE)
        BY <1>2, <2>2, <2>5 DEF CallParFor
      <3>2. <<k>> \in Seq(DOMAIN Task) /\ \A i \in 1..Len(<<k>>) : Task[<<k>>[i]].extent > 0
        BY <2>3, <2>5
      <3> QED
        BY <3>1, <3>2, EnqueueTypes
    <2> QED
      BY <2>4, <2>5
  <1> QED
    BY <1>1, <1>2

\* Every other step leaves the counts of the semaphores where they are, adds to one, or
\* acquires.
LEMMA SemsStep ==
  ASSUME ShapeInv, JobsOK(FMap(stack), job, wq.jobs), NextsOK(job), SemsOK(sem),
         \A J \in DOMAIN job : IsTask(J),
         NEW t \in Threads, Step(t), ~CallParallelTasks(t), ~CallParFor(t)
  PROVE  SemsOK(sem')
  <1>1. ASSUME sem' = sem
        PROVE  SemsOK(sem')
    BY <1>1
  <1>2. CASE Sleep(t) \/ Start(t)
    <2>1. Acquire(Considered(Top(t).owned))
      BY <1>2 DEF Sleep, Start
    <2>2. Considered(Top(t).owned) \in SUBSET DOMAIN job
      BY ConsideredAlive DEF ShapeInv, JobsOK
    <2> QED
      BY <2>1, <2>2, AcquireSems
  <1>3. CASE Claim(t) \/ RunClaimed(t)
    <2>1. sem' = sem \/ Acquire({Top(t).work})
      BY <1>3 DEF Claim, RunClaimed
    <2>2. {Top(t).work} \in SUBSET DOMAIN job
      <3>1. stack[t] # <<>> /\ Top(t).at = "claim"
        BY <1>3 DEF Claim, RunClaimed, At
      <3>2. PICK T, m : IsTop(t, T) /\ m = FMap(stack)
        BY <3>1, TopAt
      <3>3. T \in DOMAIN m /\ m[T] = Top(t) /\ BusyOK(m, job)
        BY <3>2 DEF IsTop, JobsOK
      <3> QED
        BY <3>1, <3>3 DEF BusyOK, Busy
    <2> QED
      BY <1>1, <2>1, <2>2, AcquireSems
  <1>4. CASE JoinNext(t)
    <2>1. sem' = sem \/ \E S \in SUBSET DOMAIN sem : sem' = [s \in S |-> sem[s]]
      BY <1>4 DEF JoinNext
    <2> QED
      BY <2>1 DEF SemsOK
  <1>5. CASE Release(t)
    <2>1. PICK s : sem' = [sem EXCEPT ![s] = @ + Op(t).n]
      BY <1>5 DEF Release
    <2>2. Op(t).n \in Nat
      BY <1>5, OpIsOperation DEF Release, Operation
    <2> QED
      BY <2>1, <2>2 DEF SemsOK
  <1>6. CASE \/ DropFailed(t) \/ InheritFailure(t) \/ Wake(t) \/ Finish(t) \/ Leave(t)
             \/ ReleaseBroadcast(t) \/ Work(t) \/ SetNumThreads(t) \/ EndBody(t) \/ Shutdown(t)
             \/ Joined(t)
    <2>1. sem' = sem
      BY <1>6 DEF DropFailed, InheritFailure, Wake, Finish, Leave, ReleaseBroadcast, Work,
                  SetNumThreads, EndBody, Shutdown, Joined
    <2> QED
      BY <1>1, <2>1
  <1> QED
    BY <1>2, <1>3, <1>4, <1>5, <1>6 DEF Step

\* Every step keeps the types.
LEMMA TypeStep == ShapeInv /\ TeamInv /\ JobsInv /\ TypeInv /\ [Next]_vars => TypeInv'
  <1> SUFFICES ASSUME ShapeInv, TeamInv, JobsInv, TypeInv, [Next]_vars
               PROVE  TypeInv'
    OBVIOUS
  <1>1. CASE UNCHANGED vars
    BY <1>1 DEF vars, TypeInv
  <1>2. ASSUME NEW t \in Threads, Step(t)
        PROVE  TypeInv'
    <2>1. lock' \in Threads \cup {NoThread} /\ waiting' \in [Conds -> SUBSET Threads]
      BY <1>2, LockStep, WaitStep DEF TypeInv
    <2>2. stack[t] # <<>>
      BY <1>2, StepHasFrame
    <2>3. JobsOK(FMap(stack), job, wq.jobs) /\ NextsOK(job) /\ SemsOK(sem)
      BY <2>2 DEF TeamInv, JobsInv, TypeInv
    <2>4. \A J \in DOMAIN job : IsTask(J) /\ IsWork(job[J])
      BY <2>3 DEF JobsOK, WorkOK
    <2>5. CASE CallParallelTasks(t) \/ CallParFor(t)
      <3>1. NextsOK(job') /\ SemsOK(sem')
        BY <2>3, <2>5, CallsTypes
      <3> QED
        BY <2>1, <3>1 DEF TypeInv
    <2>6. CASE ~CallParallelTasks(t) /\ ~CallParFor(t)
      <3>1. SemsOK(sem')
        BY <1>2, <2>3, <2>4, <2>6, SemsStep
      <3>2. Kept(job, job')
        BY <1>2, <2>3, <2>4, <2>6, StepKeeps
      <3>3. PICK jb2 : jb2 = job'
        OBVIOUS
      <3>4. NextsOK(jb2)
        BY <2>3, <2>4, <3>2, <3>3, KeptNexts
      <3> QED
        BY <2>1, <3>1, <3>3, <3>4 DEF TypeInv
    <2> QED
      BY <2>5, <2>6
  <1> QED
    BY <1>1, <1>2 DEF Next

\* The fields of the work structures stay within their task, and no semaphore is taken below
\* zero, until the pool aborts.
THEOREM TypeCorrect == Spec => [](aborted \/ TypeOK)
  <1>1. Init => TypeInv
    BY DEF Init, TypeInv, NextsOK, SemsOK
  <1>2. ASSUME TeamInv, JobsInv, TypeInv, ~aborted
        PROVE  TypeOK
    <2>1. JobsOK(FMap(stack), job, wq.jobs)
      BY <1>2 DEF JobsInv
    <2>2. ASSUME NEW J \in DOMAIN job
          PROVE  /\ job[J].extent \in 0..TaskOf(J).extent
                 /\ job[J].active \in 0..TaskOf(J).extent
                 /\ job[J].next \in 0..Len(TaskOf(J).sems)
                 /\ job[J].exit \in {0, 1}
      <3>1. PICK r, k : r = job[J] /\ k = J[3]
        OBVIOUS
      <3>2. /\ r.extent \in Nat /\ r.min \in Nat /\ r.exit \in {0, 1}
            /\ r.min + r.extent <= Task[k].extent /\ k \in DOMAIN Task
        BY <2>1, <3>1 DEF JobsOK, WorkOK, IsTask, TaskOf
      <3>3. Task[k].extent \in Int /\ Task[k].extent > 0 /\ r.next \in 0..Len(Task[k].sems)
        BY <1>2, <3>1, <3>2, TaskAssumption DEF TypeInv, NextsOK, TaskOf
      <3>4. r.active \in Nat /\ r.active <= Crew(k)
        BY <2>1, <3>1, CrewOf
      <3>5. Crew(k) \in Nat /\ Crew(k) <= Task[k].extent
        BY <3>3 DEF Crew
      <3>6. r.active \in 0..Task[k].extent
        BY <3>3, <3>4, <3>5
      <3>7. r.extent \in 0..Task[k].extent
        BY <3>2, <3>3
      <3> QED
        BY <3>1, <3>2, <3>3, <3>6, <3>7 DEF TaskOf
    <2>3. /\ lock \in Threads \cup {NoThread}
          /\ \A s \in DOMAIN sem : sem[s] \in Nat
          /\ \A c \in Conds : waiting[c] \subseteq Threads
      BY <1>2 DEF TypeInv, SemsOK
    <2>4. wq.threads_created \in 0..MaxThreads
      BY <1>2 DEF TeamInv
    <2> QED
      BY <2>2, <2>3, <2>4 DEF TypeOK
  <1>3. TeamInv /\ JobsInv /\ TypeInv => aborted \/ TypeOK
    BY <1>2
  <1>4. Spec => [](ShapeInv /\ TeamInv /\ TeamsInv)
    BY StackInvariance
  <1> QED
    BY <1>1, <1>3, <1>4, TypeStep, JobsInvariance, PTL DEF Spec
=============================================================================
