---------------------------- MODULE UploadManager ----------------------------
(***************************************************************************)
(* UploadManager: a pool of worker threads that share one queue of         *)
(* recordings, one mutex and one condition variable.  A job is a WAV blob  *)
(* and a promise; submit() returns the promise's future.  A worker PUTs a  *)
(* job up to three times and then resolves the promise.  stop() clears     *)
(* running_ and notifies without the mutex, then joins; the workers empty  *)
(* the queue before they leave.                                            *)
(***************************************************************************)
EXTENDS Integers, Sequences, FiniteSets

CONSTANTS
  Workers,     \* the threads
  Jobs,        \* recordings submitted
  LateSubmits, \* may a detached thread submit after stop() was called?
  NoJob        \* a worker with nothing in hand

ASSUME UMAssumption ==
  /\ IsFiniteSet(Workers) /\ Workers # {} /\ IsFiniteSet(Jobs)
  /\ LateSubmits \in BOOLEAN
  /\ NoJob \notin Jobs

max_retries == 3

VARIABLES
  running,   \* running_
  queue,     \* queue_
  pc,        \* pc[w]: where worker w is in processJobs
  job,       \* job[w]: the job worker w has popped
  attempt,   \* attempt[w]: PUTs made of it
  result,    \* result[j]: "none" before submit, then "pending", "true", "false"
  stored,    \* jobs the object store has (environment)
  late,      \* history: jobs submitted after running_ was cleared
  stopper    \* progress of stop()

work == <<job, attempt>>
vars == <<running, queue, pc, work, result, stored, late, stopper>>

TypeOK ==
  /\ running \in BOOLEAN
  /\ queue \in Seq(Jobs)
  /\ pc \in [Workers -> {"lock", "blocking", "waiting", "put", "resolve", "ended"}]
  /\ job \in [Workers -> Jobs \cup {NoJob}]
  /\ attempt \in [Workers -> 0..max_retries]
  /\ result \in [Jobs -> {"none", "pending", "true", "false"}]
  /\ stored \in SUBSET Jobs /\ late \in SUBSET Jobs
  /\ stopper \in {"none", "stored", "joining", "done"}

Init ==
  /\ running = TRUE
  /\ queue = <<>>
  /\ pc = [w \in Workers |-> "lock"]
  /\ job = [w \in Workers |-> NoJob]
  /\ attempt = [w \in Workers |-> 0]
  /\ result = [j \in Jobs |-> "none"]
  /\ stored = {} /\ late = {}
  /\ stopper = "none"

Goto(w, l) == pc' = [pc EXCEPT ![w] = l]
Waiting == {w \in Workers : pc[w] = "waiting"}

\* A worker between its predicate and the wait holds the mutex.
MutexFree == \A w \in Workers : pc[w] # "blocking"

NotifyOne ==
  IF Waiting = {} THEN UNCHANGED pc
  ELSE \E w \in Waiting : Goto(w, "lock")

-----------------------------------------------------------------------------
\* A plausible bug: nobody is notified.
submitSilently(j) ==
  /\ result[j] = "none" /\ MutexFree
  /\ running \/ LateSubmits
  /\ result' = [result EXCEPT ![j] = "pending"]
  /\ queue' = Append(queue, j)
  /\ late' = IF running THEN late ELSE late \cup {j}
  /\ UNCHANGED <<running, pc, work, stored, stopper>>

submit(j) ==
  /\ result[j] = "none" /\ MutexFree
  /\ running \/ LateSubmits
  /\ result' = [result EXCEPT ![j] = "pending"]
  /\ queue' = Append(queue, j)
  /\ late' = IF running THEN late ELSE late \cup {j}
  /\ NotifyOne
  /\ UNCHANGED <<running, work, stored, stopper>>

\* A plausible bug: the job stays in the queue while it is uploaded.
TakeKeeping(w) ==
  /\ pc[w] = "lock" /\ MutexFree /\ queue # <<>>
  /\ job' = [job EXCEPT ![w] = Head(queue)]
  /\ attempt' = [attempt EXCEPT ![w] = 0]
  /\ Goto(w, "put")
  /\ UNCHANGED <<running, queue, result, stored, late, stopper>>

Take(w) ==
  /\ pc[w] = "lock" /\ MutexFree /\ queue # <<>>
  /\ job' = [job EXCEPT ![w] = Head(queue)]
  /\ queue' = Tail(queue)
  /\ attempt' = [attempt EXCEPT ![w] = 0]
  /\ Goto(w, "put")
  /\ UNCHANGED <<running, result, stored, late, stopper>>

\* A plausible bug: a stopped worker leaves without draining the queue.
FindEmptyAbandoning(w) ==
  /\ pc[w] = "lock" /\ MutexFree /\ (queue = <<>> \/ ~running)
  /\ Goto(w, IF running THEN "blocking" ELSE "ended")
  /\ UNCHANGED <<running, queue, work, result, stored, late, stopper>>

\* Nothing queued: leave when stopped, else get ready to wait.
FindEmpty(w) ==
  /\ pc[w] = "lock" /\ MutexFree /\ queue = <<>>
  /\ Goto(w, IF running THEN "blocking" ELSE "ended")
  /\ UNCHANGED <<running, queue, work, result, stored, late, stopper>>

Block(w) ==
  /\ pc[w] = "blocking"
  /\ Goto(w, "waiting")
  /\ UNCHANGED <<running, queue, work, result, stored, late, stopper>>

SpuriousWakeup(w) ==
  /\ pc[w] = "waiting"
  /\ Goto(w, "lock")
  /\ UNCHANGED <<running, queue, work, result, stored, late, stopper>>

\* A plausible bug: one attempt too many.
PutOnceMore(w, kept, ok) ==
  /\ pc[w] = "put" /\ attempt[w] <= max_retries
  /\ ok => kept
  /\ stored' = IF kept THEN stored \cup {job[w]} ELSE stored
  /\ attempt' = [attempt EXCEPT ![w] = IF ok THEN @ ELSE @ + 1]
  /\ Goto(w, IF ok THEN "resolve" ELSE "put")
  /\ UNCHANGED <<running, queue, job, result, late, stopper>>

\* One PUT of uploadWithHandle, which has no timeout: the object is stored or
\* not, and 200 comes back only if it is.  Without 200 it is tried again after
\* a pause, up to three times; an exception ends the attempts.
Put(w, kept, ok) ==
  /\ pc[w] = "put" /\ attempt[w] < max_retries
  /\ ok => kept
  /\ stored' = IF kept THEN stored \cup {job[w]} ELSE stored
  /\ attempt' = [attempt EXCEPT ![w] = IF ok THEN @ ELSE @ + 1]
  /\ Goto(w, IF ok THEN "resolve" ELSE "put")
  /\ UNCHANGED <<running, queue, job, result, late, stopper>>

Resolved(w, ok) ==
  /\ result' = [result EXCEPT ![job[w]] = IF ok THEN "true" ELSE "false"]
  /\ job' = [job EXCEPT ![w] = NoJob]
  /\ Goto(w, "lock")
  /\ UNCHANGED <<running, queue, attempt, stored, late, stopper>>

\* A plausible bug: an exhausted upload is reported as a success.
FailAsSuccess(w) ==
  /\ pc[w] = "put"
  /\ Resolved(w, TRUE)

\* set_value(false): the retries are used up, or uploadWithHandle threw.
Fail(w) ==
  /\ pc[w] = "put"
  /\ Resolved(w, FALSE)

\* set_value(true).
Succeed(w) ==
  /\ pc[w] = "resolve"
  /\ Resolved(w, TRUE)

-----------------------------------------------------------------------------
StopStore ==
  /\ stopper = "none"
  /\ running' = FALSE /\ stopper' = "stored"
  /\ UNCHANGED <<queue, pc, work, result, stored, late>>

StopNotify ==
  /\ stopper = "stored"
  /\ stopper' = "joining"
  /\ pc' = [w \in Workers |-> IF pc[w] = "waiting" THEN "lock" ELSE pc[w]]
  /\ UNCHANGED <<running, queue, work, result, stored, late>>

StopJoin ==
  /\ stopper = "joining" /\ \A w \in Workers : pc[w] = "ended"
  /\ stopper' = "done"
  /\ UNCHANGED <<running, queue, pc, work, result, stored, late>>

-----------------------------------------------------------------------------
Worker(w) ==
  \/ Take(w) \/ FindEmpty(w) \/ Block(w) \/ Fail(w) \/ Succeed(w)
  \/ \E kept, ok \in BOOLEAN : Put(w, kept, ok)

Next ==
  \/ \E j \in Jobs : submit(j)
  \/ \E w \in Workers : Worker(w) \/ SpuriousWakeup(w)
  \/ StopStore \/ StopNotify \/ StopJoin

Spec == Init /\ [][Next]_vars

\* What a worker does without waiting for the object store.
OwnStep(w) ==
  \/ Take(w) \/ FindEmpty(w) \/ Block(w) \/ Succeed(w)
  \/ attempt[w] = max_retries /\ Fail(w)

\* Workers that can run do, and stop() once called goes on.  A PUT has no
\* timeout and need not end, and no wakeup is assumed that nobody sends.
FairSpec ==
  /\ Spec
  /\ \A w \in Workers : WF_vars(OwnStep(w))
  /\ WF_vars(StopNotify) /\ WF_vars(StopJoin)

-----------------------------------------------------------------------------
(* Properties *)

\* A promise is resolved once and for all, and true means that the recording
\* is in the object store.
ResultsFinal ==
  [][\A j \in Jobs : /\ result[j] \in {"true", "false"} => result'[j] = result[j]
                     /\ result'[j] = "true" => j \in stored']_vars

\* A submitted recording is in exactly one place until its promise is resolved:
\* once in the queue, or in the hands of one worker.
OnePlace ==
  \A j \in Jobs :
    Cardinality({i \in DOMAIN queue : queue[i] = j}) + Cardinality({w \in Workers : job[w] = j})
      = IF result[j] = "pending" THEN 1 ELSE 0

\* upload_manager.cpp:62 "Drain remaining jobs on shutdown rather than
\* abandoning recordings": when stop() returns, every recording submitted
\* before it has its result.
StopDrains ==
  stopper = "done" => \A j \in Jobs \ late : result[j] # "pending"

\* A recording submitted before stop() gets its result, even when stop() comes
\* while it is queued and the notifications go to other workers, provided that
\* no worker is stuck in a PUT.
JobsResolved ==
  (\A w \in Workers : []<>(pc[w] # "put"))
    => \A j \in Jobs :
         result[j] = "pending" ~> result[j] \in {"true", "false"} \/ j \in late
=============================================================================
