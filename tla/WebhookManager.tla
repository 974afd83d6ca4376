--------------------------- MODULE WebhookManager ---------------------------
(***************************************************************************)
(* WebhookManager: one queue, mutex and condition variable per worker      *)
(* thread.  send() hashes the call id to a shard, so that a single worker  *)
(* posts the events of a call, waiting for each answer and retrying up to  *)
(* three times.  stop() clears running_ and notifies every shard without   *)
(* taking its mutex, then joins the workers.                               *)
(***************************************************************************)
EXTENDS Integers, Sequences, FiniteSets

CONSTANTS
  Workers,    \* the shards and their threads
  Calls,      \* call ids, the shard keys
  ShardOf,    \* ShardOf[c]: hash of c modulo the number of workers
  NoUrl,      \* calls whose webhook_url is empty
  MayStop,    \* is the process shut down?
  MaxEvents,  \* bound: events enqueued per call
  None        \* a worker with no event in hand

Event == [call : Calls, n : 1..MaxEvents]

ASSUME WMAssumption ==
  /\ IsFiniteSet(Workers)
  /\ ShardOf \in [Calls -> Workers]
  /\ NoUrl \subseteq Calls
  /\ MayStop \in BOOLEAN
  /\ MaxEvents \in Nat
  /\ None \notin Event

max_retries == 3

VARIABLES
  running,    \* running_
  queue,      \* queue[w]: the events waiting in shard w
  pc,         \* pc[w]: where worker w is in processRequests
  data,       \* data[w]: the event popped last, None when done with it
  attempts,   \* attempts[w]: posts made of that event
  stopper,    \* progress of stop()
  notified,   \* shards stop() has notified
  sent,       \* sent[c]: number of events enqueued for call c
  received    \* received[c]: events the webhook received (environment)

shared == <<running, stopper, notified>>
vars == <<shared, queue, pc, data, attempts, sent, received>>

TypeOK ==
  /\ running \in BOOLEAN
  /\ queue \in [Workers -> Seq(Event)]
  /\ pc \in [Workers -> {"loop", "lock", "blocking", "waiting", "post", "posting", "ended"}]
  /\ data \in [Workers -> Event \cup {None}]
  /\ attempts \in [Workers -> 0..max_retries]
  /\ stopper \in {"none", "stored", "joining", "done"}
  /\ notified \in SUBSET Workers
  /\ sent \in [Calls -> 0..MaxEvents]
  /\ received \in [Calls -> Seq(1..MaxEvents)]

Init ==
  /\ running = TRUE
  /\ queue = [w \in Workers |-> <<>>]
  /\ pc = [w \in Workers |-> "loop"]
  /\ data = [w \in Workers |-> None]
  /\ attempts = [w \in Workers |-> 0]
  /\ stopper = "none" /\ notified = {}
  /\ sent = [c \in Calls |-> 0]
  /\ received = [c \in Calls |-> <<>>]

Goto(w, l) == pc' = [pc EXCEPT ![w] = l]

\* A thread blocked on the condition variable of w goes back to its predicate.
Woken(w) == [pc EXCEPT ![w] = IF @ = "waiting" THEN "lock" ELSE @]

-----------------------------------------------------------------------------
(* send *)

\* A plausible bug: the worker is not notified.
sendSilently(c) ==
  LET w == ShardOf[c] IN
  /\ sent[c] < MaxEvents /\ pc[w] # "blocking"
  /\ sent' = [sent EXCEPT ![c] = @ + 1]
  /\ queue' = [queue EXCEPT ![w] = Append(@, [call |-> c, n |-> sent[c] + 1])]
  /\ UNCHANGED <<shared, pc, data, attempts, received>>

\* A worker between its predicate and the wait holds the mutex.
send(c) ==
  LET w == ShardOf[c] IN
  /\ sent[c] < MaxEvents /\ pc[w] # "blocking"
  /\ sent' = [sent EXCEPT ![c] = @ + 1]
  /\ queue' = [queue EXCEPT ![w] = Append(@, [call |-> c, n |-> sent[c] + 1])]
  /\ pc' = Woken(w)
  /\ UNCHANGED <<shared, data, attempts, received>>

-----------------------------------------------------------------------------
(* processRequests *)

Loop(w) ==
  /\ pc[w] = "loop"
  /\ Goto(w, IF running THEN "lock" ELSE "ended")
  /\ UNCHANGED <<shared, queue, data, attempts, sent, received>>

\* A plausible bug: taking the newest event.
TakeNewest(w) ==
  /\ pc[w] = "lock" /\ queue[w] # <<>>
  /\ data' = [data EXCEPT ![w] = queue[w][Len(queue[w])]]
  /\ queue' = [queue EXCEPT ![w] = SubSeq(@, 1, Len(@) - 1)]
  /\ attempts' = [attempts EXCEPT ![w] = 0]
  /\ Goto(w, "post")
  /\ UNCHANGED <<shared, sent, received>>

\* Under the mutex: the predicate holds and the oldest event is popped.
Take(w) ==
  /\ pc[w] = "lock" /\ queue[w] # <<>>
  /\ data' = [data EXCEPT ![w] = Head(queue[w])]
  /\ queue' = [queue EXCEPT ![w] = Tail(@)]
  /\ attempts' = [attempts EXCEPT ![w] = 0]
  /\ Goto(w, "post")
  /\ UNCHANGED <<shared, sent, received>>

\* Under the mutex: nothing queued; leave when stopped, else get ready to wait.
FindEmpty(w) ==
  /\ pc[w] = "lock" /\ queue[w] = <<>>
  /\ Goto(w, IF running THEN "blocking" ELSE "ended")
  /\ UNCHANGED <<shared, queue, data, attempts, sent, received>>

\* The wait releases the mutex and blocks in one step.
Block(w) ==
  /\ pc[w] = "blocking"
  /\ Goto(w, "waiting")
  /\ UNCHANGED <<shared, queue, data, attempts, sent, received>>

\* A condition variable may wake up for no reason.
SpuriousWakeup(w) ==
  /\ pc[w] = "waiting"
  /\ pc' = Woken(w)
  /\ UNCHANGED <<shared, queue, data, attempts, sent, received>>

\* A plausible bug: one attempt too many.
MayTryOneMore(w) == attempts[w] <= max_retries /\ running /\ data[w].call \notin NoUrl

MayTry(w) == attempts[w] < max_retries /\ running /\ data[w].call \notin NoUrl

Attempt(w) ==
  /\ pc[w] = "post" /\ MayTry(w)
  /\ attempts' = [attempts EXCEPT ![w] = @ + 1]
  /\ Goto(w, "posting")
  /\ UNCHANGED <<shared, queue, data, sent, received>>

\* The POST ends.  A request may have been received although no 200 came
\* back; after a failure the retry loop is tried again, 2 seconds later.
Posted(w, got, ok) ==
  LET c == data[w].call IN
  /\ pc[w] = "posting"
  /\ ok => got
  /\ received' = [received EXCEPT ![c] = IF got THEN Append(@, data[w].n) ELSE @]
  /\ Goto(w, IF ok THEN "loop" ELSE "post")
  /\ data' = [data EXCEPT ![w] = IF ok THEN None ELSE @]
  /\ UNCHANGED <<shared, queue, attempts, sent>>

\* A plausible bug: a failed event goes back to the queue.
AbandonRequeueing(w) ==
  /\ pc[w] = "post" /\ ~MayTry(w)
  /\ Goto(w, "loop")
  /\ queue' = [queue EXCEPT ![w] = Append(@, data[w])]
  /\ data' = [data EXCEPT ![w] = None]
  /\ UNCHANGED <<shared, attempts, sent, received>>

\* Retries are used up, or the manager stopped, or there is no URL.
Abandon(w) ==
  /\ pc[w] = "post" /\ ~MayTry(w)
  /\ Goto(w, "loop")
  /\ data' = [data EXCEPT ![w] = None]
  /\ UNCHANGED <<shared, queue, attempts, sent, received>>

-----------------------------------------------------------------------------
(* stop *)

StopStore ==
  /\ MayStop /\ stopper = "none"
  /\ running' = FALSE /\ stopper' = "stored"
  /\ UNCHANGED <<notified, queue, pc, data, attempts, sent, received>>

\* A plausible bug: only one shard is notified.
StopNotifyFirst(w) ==
  /\ stopper = "stored"
  /\ notified' = notified \cup {w}
  /\ stopper' = "joining"
  /\ pc' = Woken(w)
  /\ UNCHANGED <<running, queue, data, attempts, sent, received>>

\* notify_all wakes those who wait now, and takes no mutex.
StopNotify(w) ==
  /\ stopper = "stored" /\ w \notin notified
  /\ notified' = notified \cup {w}
  /\ stopper' = IF notified' = Workers THEN "joining" ELSE "stored"
  /\ pc' = Woken(w)
  /\ UNCHANGED <<running, queue, data, attempts, sent, received>>

StopJoin ==
  /\ stopper = "joining" /\ \A w \in Workers : pc[w] = "ended"
  /\ stopper' = "done"
  /\ UNCHANGED <<running, notified, queue, pc, data, attempts, sent, received>>

-----------------------------------------------------------------------------
Worker(w) ==
  \/ Loop(w) \/ Take(w) \/ FindEmpty(w) \/ Block(w) \/ Attempt(w) \/ Abandon(w)
  \/ \E got, ok \in BOOLEAN : Posted(w, got, ok)

Stop == StopStore \/ StopJoin \/ \E w \in Workers : StopNotify(w)

Next ==
  \/ \E c \in Calls : send(c)
  \/ \E w \in Workers : Worker(w) \/ SpuriousWakeup(w)
  \/ Stop

Spec == Init /\ [][Next]_vars

\* Every worker that can run does, and so does stop() once it is called; POSTs
\* end because of their timeout.  No wakeup is assumed that nobody sends.
FairSpec ==
  /\ Spec
  /\ \A w \in Workers : WF_vars(Worker(w)) /\ WF_vars(StopNotify(w))
  /\ WF_vars(StopJoin)

-----------------------------------------------------------------------------
(* Properties *)

\* webhook_manager.hpp:20-26: the events of a call leave in the order they
\* were enqueued.  (A retry may repeat an event, never an older one.)
InOrder ==
  \A c \in Calls : \A i, j \in DOMAIN received[c] :
    i < j => received[c][i] <= received[c][j]

\* The events of call c in the queue or in the hands of its worker.
PendingOf(c) ==
  LET w == ShardOf[c]
      isHere(e) == data[w] = e \/ \E i \in DOMAIN queue[w] : queue[w][i] = e
  IN {n \in 1..MaxEvents : isHere([call |-> c, n |-> n])}

pending == [c \in Calls |-> PendingOf(c)]

Delivery == INSTANCE WebhookDelivery WITH pending <- pending

\* The sharded workers implement the per-call order of WebhookDelivery.
ImplementsDelivery == Delivery!DSpec

\* While the process runs, no event stays in its queue: a wakeup is never lost
\* between a worker's predicate and its wait.
EventsLeaveQueue ==
  \A c \in Calls : \A n \in 1..MaxEvents :
    (\E i \in DOMAIN queue[ShardOf[c]] : queue[ShardOf[c]][i] = [call |-> c, n |-> n])
      ~> ~running \/ ~(\E i \in DOMAIN queue[ShardOf[c]] :
                           queue[ShardOf[c]][i] = [call |-> c, n |-> n])

\* stop() returns, or a worker that was between its predicate and its wait has
\* missed the notification and waits for good with an empty queue: the other
\* workers never keep stop() waiting, whatever they were doing.
StopReturnsUnlessMissed ==
  stopper = "stored" ~> stopper = "done"
                        \/ \E w \in notified : pc[w] = "waiting" /\ queue[w] = <<>>
=============================================================================
