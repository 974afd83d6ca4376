------------------------ MODULE UploadManagerProofs ------------------------
(***************************************************************************)
(* For any number of workers and recordings, with or without submissions   *)
(* after stop(): a recording has one owner until its promise is resolved,  *)
(* a resolved promise is final and true only of a stored recording, and    *)
(* stop() returns only when all that was submitted before it is resolved.  *)
(*                                                                         *)
(* The number of owners is not inductive by itself.  The invariant says    *)
(* who the owners are: the queue repeats nothing, no two workers hold the  *)
(* same job, nothing queued is held, and exactly the queued and the held   *)
(* jobs are pending.  The shutdown rests on the first worker that leaves:  *)
(* it saw an empty queue, and whatever enters after that is late.          *)
(***************************************************************************)
EXTENDS UploadManager, FiniteSetTheorems, TLAPS

Queued(j) == \E i \in DOMAIN queue : queue[i] = j
Held(j) == \E w \in Workers : job[w] = j

\* A worker has a job in hand exactly while it uploads or resolves it.
HandsOK == \A w \in Workers : job[w] # NoJob <=> pc[w] \in {"put", "resolve"}

\* No two places have the same job.
NoneTwice ==
  /\ \A i, k \in DOMAIN queue : queue[i] = queue[k] => i = k
  /\ \A w, v \in Workers : job[w] = job[v] /\ job[w] # NoJob => w = v
  /\ \A w \in Workers : \A i \in DOMAIN queue : queue[i] # job[w]

\* The pending jobs are those that have a place.
PendingOK == \A j \in Jobs : result[j] = "pending" <=> Queued(j) \/ Held(j)

\* A promise is true, or about to be, only of a recording that is stored.
TruthOK ==
  /\ \A w \in Workers : pc[w] = "resolve" => job[w] \in stored
  /\ \A j \in Jobs : result[j] = "true" => j \in stored

\* A worker leaves when it is told to and the queue is empty; only late jobs
\* can be queued from then on.
ShutdownOK ==
  /\ running <=> stopper = "none"
  /\ \A w \in Workers : pc[w] = "ended" =>
       ~running /\ \A i \in DOMAIN queue : queue[i] \in late
  /\ stopper = "done" => \A w \in Workers : pc[w] = "ended"

IInv == TypeOK /\ HandsOK /\ NoneTwice /\ PendingOK /\ TruthOK /\ ShutdownOK

-----------------------------------------------------------------------------
\* What Append does to the places of a queue.
LEMMA AppendPlaces ==
  ASSUME NEW S, NEW q \in Seq(S), NEW e \in S
  PROVE  /\ Append(q, e) \in Seq(S)
         /\ \A i \in DOMAIN q : i \in DOMAIN Append(q, e) /\ Append(q, e)[i] = q[i]
         /\ Len(q) + 1 \in DOMAIN Append(q, e) /\ Append(q, e)[Len(q) + 1] = e
         /\ \A i \in DOMAIN Append(q, e) : i \in DOMAIN q \/ i = Len(q) + 1
         /\ Len(q) + 1 \notin DOMAIN q
  OBVIOUS

\* What Tail does to them: each element moves one place forward.
LEMMA TailPlaces ==
  ASSUME NEW S, NEW q \in Seq(S), q # <<>>
  PROVE  /\ Head(q) \in S /\ Tail(q) \in Seq(S)
         /\ 1 \in DOMAIN q /\ q[1] = Head(q)
         /\ \A i \in DOMAIN Tail(q) : i + 1 \in DOMAIN q /\ Tail(q)[i] = q[i + 1] /\ i + 1 # 1
         /\ \A i \in DOMAIN q : i = 1 \/ (i - 1 \in DOMAIN Tail(q) /\ Tail(q)[i - 1] = q[i])
         /\ \A i, k \in DOMAIN Tail(q) : i + 1 = k + 1 => i = k
  OBVIOUS

\* The initial state satisfies the invariant: nothing is submitted.
LEMMA InitIInv == Init => IInv
  BY UMAssumption DEF Init, IInv, TypeOK, HandsOK, NoneTwice, PendingOK, TruthOK, ShutdownOK,
     Queued, Held, max_retries

\* notify_one moves at most one waiting worker back to the lock.
LEMMA NotifyMoves ==
  ASSUME TypeOK, NotifyOne
  PROVE  /\ pc' \in [Workers -> {"lock", "blocking", "waiting", "put", "resolve", "ended"}]
         /\ \A w \in Workers : pc'[w] = pc[w] \/ (pc[w] = "waiting" /\ pc'[w] = "lock")
  BY DEF NotifyOne, Goto, Waiting, TypeOK

\* submit() gives a job that had no place the last one of the queue.
LEMMA SubmitStep ==
  ASSUME IInv, NEW j \in Jobs, submit(j)
  PROVE  IInv'
  <1>0. /\ TypeOK /\ result[j] = "none" /\ queue \in Seq(Jobs) /\ queue' = Append(queue, j)
        /\ result' = [result EXCEPT ![j] = "pending"]
        /\ late' = IF running THEN late ELSE late \cup {j}
        /\ UNCHANGED <<running, job, attempt, stored, stopper>>
    BY DEF submit, IInv, TypeOK, work
  <1>1. /\ pc' \in [Workers -> {"lock", "blocking", "waiting", "put", "resolve", "ended"}]
        /\ \A w \in Workers : pc'[w] = pc[w] \/ (pc[w] = "waiting" /\ pc'[w] = "lock")
    BY <1>0, NotifyMoves DEF submit
  <1>2. /\ queue' \in Seq(Jobs)
        /\ \A i \in DOMAIN queue : i \in DOMAIN queue' /\ queue'[i] = queue[i]
        /\ Len(queue) + 1 \in DOMAIN queue' /\ queue'[Len(queue) + 1] = j
        /\ \A i \in DOMAIN queue' : i \in DOMAIN queue \/ i = Len(queue) + 1
        /\ Len(queue) + 1 \notin DOMAIN queue
    BY <1>0, AppendPlaces
  <1>3. ~Queued(j) /\ ~Held(j)
    BY <1>0 DEF IInv, PendingOK
  <1>4. TypeOK'
    BY <1>0, <1>1, <1>2 DEF TypeOK
  <1>5. HandsOK'
    BY <1>0, <1>1 DEF IInv, HandsOK
  <1>6. NoneTwice'
    BY <1>0, <1>2, <1>3 DEF IInv, NoneTwice, Queued, Held
  <1>7. PendingOK'
    <2>1. ASSUME NEW k \in Jobs
          PROVE  result'[k] = "pending" <=> Queued(k)' \/ Held(k)'
      <3>1. Held(k)' <=> Held(k)
        BY <1>0 DEF Held
      <3>2. Queued(k)' <=> Queued(k) \/ k = j
        BY <1>2 DEF Queued
      <3>3. result'[k] = IF k = j THEN "pending" ELSE result[k]
        BY <1>0 DEF TypeOK
      <3> QED BY <3>1, <3>2, <3>3 DEF IInv, PendingOK
    <2> QED BY <2>1 DEF PendingOK
  <1>8. TruthOK'
    BY <1>0, <1>1 DEF IInv, TruthOK, TypeOK
  <1>9. ShutdownOK'
    BY <1>0, <1>1, <1>2 DEF IInv, ShutdownOK, TypeOK
  <1> QED BY <1>4, <1>5, <1>6, <1>7, <1>8, <1>9 DEF IInv

\* A worker takes the oldest job: it leaves the queue for the worker's hands.
LEMMA TakeStep ==
  ASSUME IInv, NEW w \in Workers, Take(w)
  PROVE  IInv'
  <1>0. /\ TypeOK /\ pc[w] = "lock" /\ queue \in Seq(Jobs) /\ queue # <<>>
        /\ queue' = Tail(queue) /\ job' = [job EXCEPT ![w] = Head(queue)]
        /\ attempt' = [attempt EXCEPT ![w] = 0]
        /\ pc' = [pc EXCEPT ![w] = "put"]
        /\ UNCHANGED <<running, result, stored, late, stopper>>
    BY DEF Take, IInv, TypeOK, Goto
  <1>1. /\ Head(queue) \in Jobs /\ queue' \in Seq(Jobs)
        /\ 1 \in DOMAIN queue /\ queue[1] = Head(queue)
        /\ \A i \in DOMAIN queue' : i + 1 \in DOMAIN queue /\ queue'[i] = queue[i + 1] /\ i + 1 # 1
        /\ \A i \in DOMAIN queue : i = 1 \/ (i - 1 \in DOMAIN queue' /\ queue'[i - 1] = queue[i])
        /\ \A i, k \in DOMAIN queue' : i + 1 = k + 1 => i = k
    BY <1>0, TailPlaces
  <1>2. /\ \A v \in Workers : v # w => job'[v] = job[v] /\ pc'[v] = pc[v]
        /\ job'[w] = queue[1] /\ pc'[w] = "put" /\ job[w] = NoJob /\ queue[1] # NoJob
    BY <1>0, <1>1, UMAssumption DEF IInv, HandsOK, TypeOK
  <1>3. TypeOK'
    BY <1>0, <1>1 DEF TypeOK, max_retries
  <1>4. HandsOK'
    BY <1>2 DEF IInv, HandsOK
  <1>5. NoneTwice'
    <2>1. \A i, k \in DOMAIN queue' : queue'[i] = queue'[k] => i = k
      BY <1>1 DEF IInv, NoneTwice
    <2>2. \A v, u \in Workers : job'[v] = job'[u] /\ job'[v] # NoJob => v = u
      BY <1>1, <1>2 DEF IInv, NoneTwice
    <2>3. \A v \in Workers : \A i \in DOMAIN queue' : queue'[i] # job'[v]
      BY <1>1, <1>2 DEF IInv, NoneTwice
    <2> QED BY <2>1, <2>2, <2>3 DEF NoneTwice
  <1>6. PendingOK'
    <2>1. ASSUME NEW k \in Jobs
          PROVE  result'[k] = "pending" <=> Queued(k)' \/ Held(k)'
      <3>1. Held(k)' <=> Held(k) \/ k = queue[1]
        BY <1>2, UMAssumption DEF Held
      <3>2. Queued(k) <=> Queued(k)' \/ k = queue[1]
        BY <1>1 DEF Queued
      <3> QED BY <3>1, <3>2, <1>0 DEF IInv, PendingOK
    <2> QED BY <2>1 DEF PendingOK
  <1>7. TruthOK'
    BY <1>0, <1>2 DEF IInv, TruthOK
  <1>8. ShutdownOK'
    BY <1>0, <1>1, <1>2 DEF IInv, ShutdownOK
  <1> QED BY <1>3, <1>4, <1>5, <1>6, <1>7, <1>8 DEF IInv

\* A worker that finds nothing, blocks or wakes up moves no job; it leaves
\* only when nothing is queued.
LEMMA IdleStep ==
  ASSUME IInv, NEW w \in Workers, FindEmpty(w) \/ Block(w) \/ SpuriousWakeup(w)
  PROVE  IInv'
  <1>0. /\ TypeOK /\ pc[w] \in {"lock", "blocking", "waiting"}
        /\ UNCHANGED <<running, queue, job, attempt, result, stored, late, stopper>>
        /\ \/ pc' = [pc EXCEPT ![w] = "ended"] /\ ~running /\ queue = <<>>
           \/ pc' = [pc EXCEPT ![w] = "blocking"]
           \/ pc' = [pc EXCEPT ![w] = "waiting"]
           \/ pc' = [pc EXCEPT ![w] = "lock"]
    BY DEF FindEmpty, Block, SpuriousWakeup, Goto, IInv, work
  <1>1. /\ \A v \in Workers : v # w => pc'[v] = pc[v]
        /\ pc'[w] \in {"blocking", "waiting", "lock", "ended"}
        /\ pc'[w] = "ended" => ~running /\ queue = <<>>
    BY <1>0 DEF TypeOK
  <1>2. TypeOK' /\ HandsOK'
    BY <1>0, <1>1 DEF IInv, TypeOK, HandsOK
  <1>3. NoneTwice' /\ PendingOK' /\ TruthOK'
    BY <1>0, <1>1 DEF IInv, NoneTwice, PendingOK, TruthOK, Queued, Held
  <1>4. ShutdownOK'
    BY <1>0, <1>1 DEF IInv, ShutdownOK
  <1> QED BY <1>2, <1>3, <1>4 DEF IInv

\* A PUT may store the job; 200 comes back only if it did.
LEMMA PutStep ==
  ASSUME IInv, NEW w \in Workers, NEW kept \in BOOLEAN, NEW ok \in BOOLEAN, Put(w, kept, ok)
  PROVE  IInv'
  <1>0. /\ TypeOK /\ pc[w] = "put" /\ attempt[w] < 3 /\ (ok => kept)
        /\ stored' = IF kept THEN stored \cup {job[w]} ELSE stored
        /\ attempt' = [attempt EXCEPT ![w] = IF ok THEN @ ELSE @ + 1]
        /\ pc' = [pc EXCEPT ![w] = IF ok THEN "resolve" ELSE "put"]
        /\ UNCHANGED <<running, queue, job, result, late, stopper>>
    BY DEF Put, Goto, IInv, max_retries
  <1>1. /\ job[w] # NoJob /\ job[w] \in Jobs /\ stored \subseteq stored'
        /\ stored' \subseteq stored \cup {job[w]}
        /\ \A v \in Workers : v # w => pc'[v] = pc[v]
        /\ pc'[w] \in {"put", "resolve"}
        /\ pc'[w] = "resolve" => job[w] \in stored'
    BY <1>0 DEF IInv, HandsOK, TypeOK
  <1>2. TypeOK'
    <2>1. attempt' \in [Workers -> 0..3]
      BY <1>0 DEF TypeOK, max_retries
    <2> QED BY <1>0, <1>1, <2>1 DEF TypeOK, max_retries
  <1>3. HandsOK' /\ NoneTwice' /\ PendingOK'
    BY <1>0, <1>1 DEF IInv, HandsOK, NoneTwice, PendingOK, Queued, Held
  <1>4. TruthOK' /\ ShutdownOK'
    BY <1>0, <1>1 DEF IInv, TruthOK, ShutdownOK
  <1> QED BY <1>2, <1>3, <1>4 DEF IInv

\* Resolving the promise takes the job out of the worker's hands.
LEMMA ResolveStep ==
  ASSUME IInv, NEW w \in Workers, Fail(w) \/ Succeed(w)
  PROVE  /\ IInv'
         /\ job[w] \in Jobs /\ result[job[w]] = "pending"
         /\ \A j \in Jobs : j # job[w] => result'[j] = result[j]
         /\ result'[job[w]] \in {"true", "false"}
         /\ UNCHANGED stored
  <1>0. /\ TypeOK /\ pc[w] \in {"put", "resolve"}
        /\ job' = [job EXCEPT ![w] = NoJob]
        /\ pc' = [pc EXCEPT ![w] = "lock"]
        /\ UNCHANGED <<running, queue, attempt, stored, late, stopper>>
        /\ \/ result' = [result EXCEPT ![job[w]] = "false"]
           \/ result' = [result EXCEPT ![job[w]] = "true"] /\ pc[w] = "resolve"
    BY DEF Fail, Succeed, Resolved, Goto, IInv
  <1>1. /\ job[w] # NoJob /\ job[w] \in Jobs /\ Held(job[w])
        /\ result[job[w]] = "pending"
    BY <1>0 DEF IInv, HandsOK, TypeOK, PendingOK, Held
  <1>2. /\ \A v \in Workers : v # w => pc'[v] = pc[v] /\ job'[v] = job[v]
        /\ pc'[w] = "lock" /\ job'[w] = NoJob
        /\ \A j \in Jobs : j # job[w] => result'[j] = result[j]
        /\ result'[job[w]] \in {"true", "false"}
        /\ result'[job[w]] = "true" => job[w] \in stored
    BY <1>0, <1>1 DEF TypeOK, IInv, TruthOK
  <1>3. TypeOK'
    BY <1>0, <1>1 DEF TypeOK
  <1>4. HandsOK' /\ NoneTwice'
    <2>1. \A i \in DOMAIN queue : queue[i] # NoJob
      BY UMAssumption DEF IInv, TypeOK
    <2> QED BY <1>0, <1>2, <2>1 DEF IInv, HandsOK, NoneTwice
  <1>5. PendingOK'
    <2>1. ASSUME NEW k \in Jobs
          PROVE  result'[k] = "pending" <=> Queued(k)' \/ Held(k)'
      <3>1. Queued(k)' <=> Queued(k)
        BY <1>0 DEF Queued
      <3>2. CASE k = job[w]
        <4>1. ~Queued(k) /\ ~Held(k)'
          BY <3>2, <1>1, <1>2, UMAssumption DEF IInv, NoneTwice, Queued, Held
        <4> QED BY <3>1, <3>2, <4>1, <1>2
      <3>3. CASE k # job[w]
        <4>1. Held(k)' <=> Held(k)
          BY <3>3, <1>2, UMAssumption DEF Held
        <4> QED BY <3>1, <3>3, <4>1, <1>2 DEF IInv, PendingOK
      <3> QED BY <3>2, <3>3
    <2> QED BY <2>1 DEF PendingOK
  <1>6. TruthOK' /\ ShutdownOK'
    BY <1>0, <1>1, <1>2 DEF IInv, TruthOK, ShutdownOK
  <1> QED BY <1>0, <1>1, <1>2, <1>3, <1>4, <1>5, <1>6 DEF IInv

\* stop() moves no job: it clears running_, wakes the workers and joins them.
LEMMA StopStep ==
  ASSUME IInv, StopStore \/ StopNotify \/ StopJoin
  PROVE  IInv'
  <1>0. /\ TypeOK /\ UNCHANGED <<queue, job, attempt, result, stored, late>>
        /\ \A w \in Workers : pc'[w] = pc[w] \/ (pc[w] = "waiting" /\ pc'[w] = "lock")
        /\ pc' \in [Workers -> {"lock", "blocking", "waiting", "put", "resolve", "ended"}]
        /\ \/ running' = FALSE /\ stopper = "none" /\ stopper' = "stored"
           \/ UNCHANGED running /\ stopper = "stored" /\ stopper' = "joining"
           \/ UNCHANGED running /\ stopper = "joining" /\ stopper' = "done"
              /\ \A w \in Workers : pc'[w] = "ended"
    BY DEF StopStore, StopNotify, StopJoin, IInv, TypeOK, work
  <1>1. TypeOK'
    BY <1>0 DEF TypeOK
  <1>2. HandsOK' /\ NoneTwice' /\ PendingOK' /\ TruthOK'
    BY <1>0 DEF IInv, HandsOK, NoneTwice, PendingOK, TruthOK, Queued, Held
  <1>3. ShutdownOK'
    BY <1>0 DEF IInv, ShutdownOK
  <1> QED BY <1>1, <1>2, <1>3 DEF IInv

\* Every step keeps the invariant.
LEMMA NextIInv == IInv /\ [Next]_vars => IInv'
  <1> SUFFICES ASSUME IInv, [Next]_vars PROVE IInv'
    OBVIOUS
  <1>1. ASSUME NEW j \in Jobs, submit(j) PROVE IInv'
    BY <1>1, SubmitStep
  <1>2. ASSUME NEW w \in Workers, Worker(w) \/ SpuriousWakeup(w) PROVE IInv'
    <2>1. CASE Take(w)
      BY <2>1, TakeStep
    <2>2. CASE FindEmpty(w) \/ Block(w) \/ SpuriousWakeup(w)
      BY <2>2, IdleStep
    <2>3. CASE Fail(w) \/ Succeed(w)
      BY <2>3, ResolveStep
    <2>4. ASSUME NEW kept \in BOOLEAN, NEW ok \in BOOLEAN, Put(w, kept, ok) PROVE IInv'
      BY <2>4, PutStep
    <2> QED BY <1>2, <2>1, <2>2, <2>3, <2>4 DEF Worker
  <1>3. CASE StopStore \/ StopNotify \/ StopJoin
    BY <1>3, StopStep
  <1>4. CASE UNCHANGED vars
    BY <1>4 DEF vars, work, IInv, TypeOK, HandsOK, NoneTwice, PendingOK, TruthOK, ShutdownOK,
       Queued, Held
  <1> QED BY <1>1, <1>2, <1>3, <1>4 DEF Next

\* The invariant holds in every reachable state of the pool.
LEMMA Inductive == Spec => []IInv
  BY InitIInv, NextIInv, PTL DEF Spec

-----------------------------------------------------------------------------
\* Every variable of the pool keeps its type.
THEOREM TypeCorrect == Spec => []TypeOK
  <1>1. IInv => TypeOK
    BY DEF IInv
  <1> QED BY <1>1, Inductive, PTL

\* The places of a job, counted: one while it is pending, none otherwise.
LEMMA PlacesCounted == IInv => OnePlace
  <1> SUFFICES ASSUME IInv, NEW j \in Jobs
               PROVE  Cardinality({i \in DOMAIN queue : queue[i] = j})
                        + Cardinality({w \in Workers : job[w] = j})
                        = IF result[j] = "pending" THEN 1 ELSE 0
    BY DEF OnePlace
  <1> DEFINE Q == {i \in DOMAIN queue : queue[i] = j}
             H == {w \in Workers : job[w] = j}
  <1>1. CASE Queued(j)
    <2>1. PICK i \in DOMAIN queue : queue[i] = j
      BY <1>1 DEF Queued
    <2>2. Q = {i} /\ H = {}
      BY <2>1 DEF IInv, NoneTwice
    <2>3. result[j] = "pending"
      BY <1>1 DEF IInv, PendingOK
    <2>4. Cardinality(Q) = 1 /\ Cardinality(H) = 0
      BY <2>2, FS_Singleton, FS_EmptySet
    <2> QED BY <2>3, <2>4
  <1>2. CASE Held(j)
    <2>1. PICK w \in Workers : job[w] = j
      BY <1>2 DEF Held
    <2>2. H = {w} /\ Q = {}
      BY <2>1, UMAssumption DEF IInv, NoneTwice
    <2>3. result[j] = "pending"
      BY <1>2 DEF IInv, PendingOK
    <2>4. Cardinality(H) = 1 /\ Cardinality(Q) = 0
      BY <2>2, FS_Singleton, FS_EmptySet
    <2> QED BY <2>3, <2>4
  <1>3. CASE ~Queued(j) /\ ~Held(j)
    <2>1. Q = {} /\ H = {}
      BY <1>3 DEF Queued, Held
    <2>2. result[j] # "pending"
      BY <1>3 DEF IInv, PendingOK
    <2>3. Cardinality(H) = 0 /\ Cardinality(Q) = 0
      BY <2>1, FS_EmptySet
    <2> QED BY <2>2, <2>3
  <1> QED BY <1>1, <1>2, <1>3

\* A recording is uploaded by one worker, and is never lost between the queue
\* and the worker that pops it.
THEOREM OneOwner == Spec => []OnePlace
  BY PlacesCounted, Inductive, PTL

\* The drain at shutdown is complete: when stop() has joined the workers, each
\* recording submitted before it has its result.
THEOREM ShutdownDrains == Spec => []StopDrains
  <1>1. IInv => StopDrains
    <2> SUFFICES ASSUME IInv, stopper = "done", NEW j \in Jobs \ late, result[j] = "pending"
                 PROVE  FALSE
      BY DEF StopDrains
    <2>1. \A w \in Workers : pc[w] = "ended" /\ job[w] = NoJob
      BY DEF IInv, ShutdownOK, HandsOK
    <2>2. ~Held(j)
      BY <2>1, UMAssumption DEF Held
    <2>3. ~Queued(j)
      BY <2>1, UMAssumption DEF IInv, ShutdownOK, Queued
    <2> QED BY <2>2, <2>3 DEF IInv, PendingOK
  <1> QED BY <1>1, Inductive, PTL

\* set_value is called once per promise, and with true only for a recording
\* that the object store has.
THEOREM PromisesFinal == Spec => ResultsFinal
  <1> DEFINE Final == \A j \in Jobs :
               /\ result[j] \in {"true", "false"} => result'[j] = result[j]
               /\ result'[j] = "true" => j \in stored'
  <1>1. IInv /\ IInv' /\ [Next]_vars => [Final]_vars
    <2> SUFFICES ASSUME IInv, IInv', Next PROVE Final
      BY DEF Final
    <2>1. \A j \in Jobs : result'[j] = "true" => j \in stored'
      BY DEF IInv, TruthOK
    <2>2. ASSUME NEW k \in Jobs, submit(k) PROVE Final
      <3>1. result[k] = "none" /\ \A j \in Jobs : j # k => result'[j] = result[j]
        BY <2>2 DEF submit, IInv, TypeOK
      <3> QED BY <2>1, <3>1
    <2>3. ASSUME NEW w \in Workers, Fail(w) \/ Succeed(w) PROVE Final
      BY <2>3, <2>1, ResolveStep
    <2>4. CASE UNCHANGED result
      BY <2>1, <2>4
    <2>5. ASSUME NEW w \in Workers, Worker(w) \/ SpuriousWakeup(w) PROVE Final
      BY <2>3, <2>4, <2>5 DEF Worker, Take, FindEmpty, Block, SpuriousWakeup, Put
    <2>6. CASE StopStore \/ StopNotify \/ StopJoin
      BY <2>4, <2>6 DEF StopStore, StopNotify, StopJoin
    <2> QED BY <2>2, <2>5, <2>6 DEF Next
  <1> QED BY <1>1, Inductive, PTL DEF Spec, ResultsFinal
=============================================================================
