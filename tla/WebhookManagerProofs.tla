------------------------ MODULE WebhookManagerProofs ------------------------
(***************************************************************************)
(* For any number of workers, calls and events, and whatever the hash      *)
(* function and the failures of the webhook: types are kept and the events *)
(* of a call are received in the order they were enqueued.                 *)
(*                                                                         *)
(* The order is not inductive by itself.  The invariant follows an event   *)
(* through its shard: what the webhook has received is not newer than the  *)
(* event in the worker's hands, which is older than all that are queued.   *)
(* The same order makes the event in hand the oldest pending one of its    *)
(* call, which is what the abstract WebhookDelivery lets happen: the       *)
(* workers implement it, each step being a step there or a stutter.        *)
(***************************************************************************)
EXTENDS WebhookManager, TLAPS

Busy(w) == pc[w] \in {"post", "posting"}

\* Queued events are in the shard of their call and were enqueued before.
QueueOK ==
  \A w \in Workers : \A i \in DOMAIN queue[w] :
    ShardOf[queue[w][i].call] = w /\ queue[w][i].n <= sent[queue[w][i].call]

QueueSorted ==
  \A w \in Workers : \A i, j \in DOMAIN queue[w] :
    i < j /\ queue[w][i].call = queue[w][j].call => queue[w][i].n < queue[w][j].n

\* The event in hand is of the worker's own shard, older than those queued.
DataOK ==
  \A w \in Workers : Busy(w) =>
    /\ data[w] \in Event /\ ShardOf[data[w].call] = w
    /\ data[w].n <= sent[data[w].call]
    /\ \A i \in DOMAIN queue[w] :
         queue[w][i].call = data[w].call => data[w].n < queue[w][i].n

\* What was received is older than what is queued, and not newer than what is
\* in hand.
ReceivedOK ==
  \A c \in Calls : \A k \in DOMAIN received[c] :
    LET w == ShardOf[c] IN
    /\ received[c][k] <= sent[c]
    /\ \A i \in DOMAIN queue[w] : queue[w][i].call = c => received[c][k] < queue[w][i].n
    /\ Busy(w) /\ data[w].call = c => received[c][k] <= data[w].n

IInv == TypeOK /\ QueueOK /\ QueueSorted /\ DataOK /\ ReceivedOK /\ InOrder

\* An index of a sequence is in range, and so is what it points to.
LEMMA ElementOf ==
  ASSUME NEW S, NEW s \in Seq(S), NEW i \in DOMAIN s
  PROVE  s[i] \in S /\ i \in 1..Len(s)
  OBVIOUS

\* The initial state satisfies the invariant: nothing is queued or received.
LEMMA InitIInv == Init => IInv
  BY WMAssumption DEF Init, IInv, TypeOK, QueueOK, QueueSorted, DataOK, ReceivedOK,
     InOrder, Busy, max_retries

\* Steps that move no event, and take up none, keep the invariant.
LEMMA QuietStep ==
  ASSUME IInv, TypeOK',
         UNCHANGED <<queue, sent, received>>,
         \A w \in Workers : Busy(w)' => Busy(w) /\ data'[w] = data[w]
  PROVE  IInv'
  <1>1. QueueOK' /\ QueueSorted' /\ InOrder'
    BY DEF IInv, QueueOK, QueueSorted, InOrder
  <1>2. DataOK'
    BY DEF IInv, DataOK
  <1>3. ReceivedOK'
    <2>1. \A c \in Calls : ShardOf[c] \in Workers
      BY WMAssumption
    <2> QED BY <2>1 DEF IInv, ReceivedOK
  <1> QED BY <1>1, <1>2, <1>3 DEF IInv

\* send() appends the newest event of its call.
LEMMA SendStep ==
  ASSUME IInv, NEW c \in Calls, send(c)
  PROVE  IInv'
  <1> DEFINE w == ShardOf[c]
             e == [call |-> c, n |-> sent[c] + 1]
  <1>0. /\ w \in Workers /\ TypeOK
        /\ sent[c] < MaxEvents /\ sent[c] \in 0..MaxEvents /\ MaxEvents \in Nat
        /\ sent' = [sent EXCEPT ![c] = sent[c] + 1]
        /\ queue' = [queue EXCEPT ![w] = Append(queue[w], e)]
        /\ pc' = Woken(w)
        /\ UNCHANGED <<running, stopper, notified, data, attempts, received>>
    BY WMAssumption DEF send, IInv, TypeOK, shared
  <1>1. e \in Event
    BY <1>0 DEF Event
  <1>2. /\ \A x \in Calls : sent'[x] \in 0..MaxEvents /\ sent[x] <= sent'[x]
        /\ e.call = c /\ e.n = sent[c] + 1 /\ e.n = sent'[c]
    BY <1>0 DEF TypeOK
  <1> HIDE DEF e
  <1>3. /\ \A v \in Workers : queue[v] \in Seq(Event) /\ queue'[v] \in Seq(Event)
        /\ \A v \in Workers : v # w => queue'[v] = queue[v]
        /\ Len(queue'[w]) = Len(queue[w]) + 1
        /\ \A i \in 1..Len(queue[w]) : queue'[w][i] = queue[w][i]
        /\ queue'[w][Len(queue[w]) + 1] = e
    BY <1>0, <1>1 DEF TypeOK
  <1>14. ASSUME NEW v \in Workers, NEW i \in DOMAIN queue'[v], ~(v = w /\ i = Len(queue[w]) + 1)
         PROVE  i \in DOMAIN queue[v] /\ queue'[v][i] = queue[v][i]
    BY <1>3, <1>14
  <1>15. ASSUME NEW v \in Workers, NEW i \in DOMAIN queue'[v]
         PROVE  i \in Int /\ i >= 1 /\ i <= Len(queue'[v])
    BY <1>3
  <1>4. \A v \in Workers : Busy(v)' <=> Busy(v)
    BY <1>0 DEF Woken, Busy, TypeOK
  <1>5. TypeOK'
    <2>1. pc' \in [Workers -> {"loop", "lock", "blocking", "waiting", "post", "posting", "ended"}]
      BY <1>0 DEF Woken, TypeOK
    <2>2. sent' \in [Calls -> 0..MaxEvents] /\ queue' \in [Workers -> Seq(Event)]
      BY <1>0, <1>1 DEF TypeOK
    <2> QED BY <1>0, <2>1, <2>2 DEF TypeOK
  <1>6. QueueOK'
    <2> SUFFICES ASSUME NEW v \in Workers, NEW i \in DOMAIN queue'[v]
                 PROVE  ShardOf[queue'[v][i].call] = v
                        /\ queue'[v][i].n <= sent'[queue'[v][i].call]
      BY DEF QueueOK
    <2>1. CASE v = w /\ i = Len(queue[w]) + 1
      BY <2>1, <1>2, <1>3, <1>0
    <2>2. CASE ~(v = w /\ i = Len(queue[w]) + 1)
      <3>1. i \in DOMAIN queue[v] /\ queue'[v][i] = queue[v][i]
        BY <2>2, <1>3
      <3>2. queue[v][i] \in Event
        BY <3>1, <1>3
      <3>3. queue[v][i].call \in Calls /\ queue[v][i].n \in Int
        BY <3>2 DEF Event
      <3>4. ShardOf[queue[v][i].call] = v /\ queue[v][i].n <= sent[queue[v][i].call]
        BY <3>1 DEF IInv, QueueOK
      <3>5. sent[queue[v][i].call] \in Int /\ sent'[queue[v][i].call] \in Int
            /\ sent[queue[v][i].call] <= sent'[queue[v][i].call]
        BY <3>3, <1>2, <1>0 DEF TypeOK
      <3> QED BY <3>1, <3>3, <3>4, <3>5
    <2> QED BY <2>1, <2>2
  <1>7. \A v \in Workers : \A i \in DOMAIN queue[v] :
           /\ queue[v][i].n \in Int
           /\ queue[v][i].call = c => queue[v][i].n < e.n
    <2> SUFFICES ASSUME NEW v \in Workers, NEW i \in DOMAIN queue[v]
                 PROVE  /\ queue[v][i].n \in Int
                        /\ queue[v][i].call = c => queue[v][i].n < e.n
      OBVIOUS
    <2>1. queue[v][i] \in Event
      BY <1>3
    <2>2. queue[v][i].n <= sent[queue[v][i].call]
      BY DEF IInv, QueueOK
    <2> QED BY <2>1, <2>2, <1>2, <1>0 DEF Event
  <1>8. QueueSorted'
    <2> SUFFICES ASSUME NEW v \in Workers, NEW i \in DOMAIN queue'[v], NEW j \in DOMAIN queue'[v],
                        i < j, queue'[v][i].call = queue'[v][j].call
                 PROVE  queue'[v][i].n < queue'[v][j].n
      BY DEF QueueSorted
    <2>1. i \in Int /\ j \in Int /\ i \in DOMAIN queue[v] /\ queue'[v][i] = queue[v][i]
      <3>1. i \in Int /\ j \in Int /\ j <= Len(queue'[v])
        BY <1>15
      <3>2. ~(v = w /\ i = Len(queue[w]) + 1)
        BY <3>1, <1>3, <1>0
      <3> QED BY <3>1, <3>2, <1>14
    <2>2. CASE v = w /\ j = Len(queue[w]) + 1
      BY <2>1, <2>2, <1>2, <1>3, <1>7
    <2>3. CASE ~(v = w /\ j = Len(queue[w]) + 1)
      <3>1. j \in DOMAIN queue[v] /\ queue'[v][j] = queue[v][j]
        BY <2>3, <1>3
      <3> QED BY <2>1, <3>1 DEF IInv, QueueSorted
    <2> QED BY <2>2, <2>3
  <1>9. DataOK'
    <2> SUFFICES ASSUME NEW v \in Workers, Busy(v)'
                 PROVE  /\ data[v] \in Event /\ ShardOf[data[v].call] = v
                        /\ data[v].n <= sent'[data[v].call]
                        /\ \A i \in DOMAIN queue'[v] :
                             queue'[v][i].call = data[v].call => data[v].n < queue'[v][i].n
      BY <1>0 DEF DataOK
    <2>1. /\ data[v] \in Event /\ ShardOf[data[v].call] = v
          /\ data[v].n <= sent[data[v].call]
          /\ \A i \in DOMAIN queue[v] :
               queue[v][i].call = data[v].call => data[v].n < queue[v][i].n
      BY <1>4 DEF IInv, DataOK
    <2>2. data[v].call \in Calls /\ data[v].n \in Int
      BY <2>1 DEF Event
    <2>3. data[v].n <= sent'[data[v].call]
      BY <2>1, <2>2, <1>2, <1>0 DEF TypeOK
    <2>4. ASSUME NEW i \in DOMAIN queue'[v], queue'[v][i].call = data[v].call
          PROVE  data[v].n < queue'[v][i].n
      <3>1. CASE v = w /\ i = Len(queue[w]) + 1
        BY <3>1, <2>1, <2>2, <2>4, <1>0, <1>2, <1>3
      <3>2. CASE ~(v = w /\ i = Len(queue[w]) + 1)
        <4>1. i \in DOMAIN queue[v] /\ queue'[v][i] = queue[v][i]
          BY <3>2, <1>3
        <4> QED BY <4>1, <2>1, <2>4
      <3> QED BY <3>1, <3>2
    <2> QED BY <2>1, <2>3, <2>4
  <1>10. ReceivedOK'
    <2> SUFFICES ASSUME NEW x \in Calls, NEW k \in DOMAIN received[x]
                 PROVE  /\ received[x][k] <= sent'[x]
                        /\ \A i \in DOMAIN queue'[ShardOf[x]] :
                             queue'[ShardOf[x]][i].call = x
                               => received[x][k] < queue'[ShardOf[x]][i].n
                        /\ Busy(ShardOf[x])' /\ data[ShardOf[x]].call = x
                               => received[x][k] <= data[ShardOf[x]].n
      BY <1>0 DEF ReceivedOK
    <2> DEFINE v == ShardOf[x]
    <2>0. v \in Workers
      BY WMAssumption
    <2>1. /\ received[x][k] <= sent[x]
          /\ \A i \in DOMAIN queue[v] : queue[v][i].call = x => received[x][k] < queue[v][i].n
          /\ Busy(v) /\ data[v].call = x => received[x][k] <= data[v].n
      BY DEF IInv, ReceivedOK
    <2>2. received[x][k] \in Int
      BY <1>0 DEF TypeOK
    <2>3. received[x][k] <= sent'[x]
      BY <2>1, <2>2, <1>2, <1>0 DEF TypeOK
    <2>4. ASSUME NEW i \in DOMAIN queue'[v], queue'[v][i].call = x
          PROVE  received[x][k] < queue'[v][i].n
      <3>1. CASE v = w /\ i = Len(queue[w]) + 1
        BY <3>1, <2>1, <2>2, <2>4, <1>0, <1>2, <1>3
      <3>2. CASE ~(v = w /\ i = Len(queue[w]) + 1)
        <4>1. i \in DOMAIN queue[v] /\ queue'[v][i] = queue[v][i]
          BY <3>2, <1>14, <2>0
        <4> QED BY <4>1, <2>1, <2>4
      <3> QED BY <3>1, <3>2
    <2>5. Busy(v)' <=> Busy(v)
      BY <1>4, <2>0
    <2> QED BY <2>1, <2>3, <2>4, <2>5
  <1>11. InOrder'
    BY <1>0 DEF IInv, InOrder
  <1> QED BY <1>5, <1>6, <1>8, <1>9, <1>10, <1>11 DEF IInv

\* Taking the head of the queue puts the oldest event in hand.
LEMMA TakeStep ==
  ASSUME IInv, NEW w \in Workers, Take(w)
  PROVE  IInv'
  <1>0. /\ TypeOK /\ queue[w] # <<>> /\ ~Busy(w) /\ Busy(w)'
        /\ data' = [data EXCEPT ![w] = Head(queue[w])]
        /\ queue' = [queue EXCEPT ![w] = Tail(queue[w])]
        /\ \A v \in Workers : v # w => pc'[v] = pc[v]
        /\ UNCHANGED <<running, stopper, notified, sent, received>>
    BY DEF Take, Goto, IInv, TypeOK, Busy, shared
  <1>1. /\ \A v \in Workers : queue[v] \in Seq(Event)
        /\ Len(queue[w]) \in Nat /\ Len(queue[w]) > 0
        /\ Len(queue'[w]) = Len(queue[w]) - 1
        /\ data'[w] = queue[w][1] /\ 1 \in DOMAIN queue[w]
        /\ \A v \in Workers : v # w => queue'[v] = queue[v] /\ data'[v] = data[v]
    BY <1>0 DEF TypeOK
  <1>2. queue[w][1] \in Event
    BY <1>1
  <1>3. ASSUME NEW i \in DOMAIN queue'[w]
        PROVE  /\ i \in Int /\ i >= 1 /\ i + 1 \in DOMAIN queue[w]
               /\ queue'[w][i] = queue[w][i + 1]
    BY <1>0, <1>1 DEF TypeOK
  <1>4. TypeOK'
    <2>1. data' \in [Workers -> Event \cup {None}]
      BY <1>0, <1>1, <1>2 DEF TypeOK
    <2>2. queue' \in [Workers -> Seq(Event)]
      BY <1>0 DEF TypeOK
    <2>3. pc' \in [Workers -> {"loop", "lock", "blocking", "waiting", "post", "posting", "ended"}]
          /\ attempts' \in [Workers -> 0..max_retries]
      BY <1>0 DEF Take, Goto, TypeOK, max_retries
    <2> QED BY <1>0, <2>1, <2>2, <2>3 DEF TypeOK
  <1>5. QueueOK'
    <2> SUFFICES ASSUME NEW v \in Workers, NEW i \in DOMAIN queue'[v]
                 PROVE  ShardOf[queue'[v][i].call] = v
                        /\ queue'[v][i].n <= sent[queue'[v][i].call]
      BY <1>0 DEF QueueOK
    <2>1. CASE v = w
      BY <2>1, <1>3 DEF IInv, QueueOK
    <2>2. CASE v # w
      BY <2>2, <1>1 DEF IInv, QueueOK
    <2> QED BY <2>1, <2>2
  <1>6. QueueSorted'
    <2> SUFFICES ASSUME NEW v \in Workers, NEW i \in DOMAIN queue'[v], NEW j \in DOMAIN queue'[v],
                        i < j, queue'[v][i].call = queue'[v][j].call
                 PROVE  queue'[v][i].n < queue'[v][j].n
      BY DEF QueueSorted
    <2>1. CASE v = w
      <3>1. /\ i + 1 \in DOMAIN queue[w] /\ j + 1 \in DOMAIN queue[w] /\ i + 1 < j + 1
            /\ queue'[w][i] = queue[w][i + 1] /\ queue'[w][j] = queue[w][j + 1]
        BY <2>1, <1>3
      <3> QED BY <3>1, <2>1 DEF IInv, QueueSorted
    <2>2. CASE v # w
      BY <2>2, <1>1 DEF IInv, QueueSorted
    <2> QED BY <2>1, <2>2
  <1>7. DataOK'
    <2> SUFFICES ASSUME NEW v \in Workers, Busy(v)'
                 PROVE  /\ data'[v] \in Event /\ ShardOf[data'[v].call] = v
                        /\ data'[v].n <= sent[data'[v].call]
                        /\ \A i \in DOMAIN queue'[v] :
                             queue'[v][i].call = data'[v].call => data'[v].n < queue'[v][i].n
      BY <1>0 DEF DataOK
    <2>1. CASE v = w
      <3>1. ShardOf[data'[w].call] = w /\ data'[w].n <= sent[data'[w].call]
        BY <1>1 DEF IInv, QueueOK
      <3>2. ASSUME NEW i \in DOMAIN queue'[w], queue'[w][i].call = data'[w].call
            PROVE  data'[w].n < queue'[w][i].n
        <4>1. 1 < i + 1 /\ i + 1 \in DOMAIN queue[w] /\ queue'[w][i] = queue[w][i + 1]
          BY <1>3
        <4> QED BY <4>1, <3>2, <1>1 DEF IInv, QueueSorted
      <3> QED BY <2>1, <3>1, <3>2, <1>1, <1>2
    <2>2. CASE v # w
      BY <2>2, <1>0, <1>1 DEF IInv, DataOK, Busy
    <2> QED BY <2>1, <2>2
  <1>8. ReceivedOK'
    <2> SUFFICES ASSUME NEW x \in Calls, NEW k \in DOMAIN received[x], NEW v \in Workers,
                        v = ShardOf[x]
                 PROVE  /\ received[x][k] <= sent[x]
                        /\ \A i \in DOMAIN queue'[v] :
                             queue'[v][i].call = x => received[x][k] < queue'[v][i].n
                        /\ Busy(v)' /\ data'[v].call = x => received[x][k] <= data'[v].n
      BY <1>0, WMAssumption DEF ReceivedOK
    <2>1. /\ received[x][k] <= sent[x]
          /\ \A i \in DOMAIN queue[v] : queue[v][i].call = x => received[x][k] < queue[v][i].n
          /\ Busy(v) /\ data[v].call = x => received[x][k] <= data[v].n
      BY DEF IInv, ReceivedOK
    <2>2. CASE v = w
      <3>1. \A i \in DOMAIN queue'[v] : queue'[v][i].call = x => received[x][k] < queue'[v][i].n
        BY <2>1, <2>2, <1>3
      <3>2. data'[v].call = x => received[x][k] < data'[v].n
        BY <2>1, <2>2, <1>1
      <3>3. received[x][k] \in Int /\ data'[w].n \in Int
        <4>1. received[x] \in Seq(1..MaxEvents)
          BY <1>0 DEF TypeOK
        <4>2. received[x][k] \in 1..MaxEvents
          BY <4>1, ElementOf
        <4> QED BY <4>2, <1>1, <1>2, WMAssumption DEF Event
      <3> QED BY <2>1, <2>2, <3>1, <3>2, <3>3
    <2>3. CASE v # w
      BY <2>1, <2>3, <1>0, <1>1 DEF Busy
    <2> QED BY <2>2, <2>3
  <1>9. InOrder'
    BY <1>0 DEF IInv, InOrder
  <1> QED BY <1>4, <1>5, <1>6, <1>7, <1>8, <1>9 DEF IInv

\* The event in hand is received: not older than any received before.
LEMMA PostedStep ==
  ASSUME IInv, NEW w \in Workers, NEW got \in BOOLEAN, NEW ok \in BOOLEAN, Posted(w, got, ok)
  PROVE  IInv'
  <1> DEFINE c == data[w].call
             m == data[w].n
  <1>0. /\ TypeOK /\ pc[w] = "posting" /\ Busy(w)
        /\ received' = [received EXCEPT ![c] = IF got THEN Append(received[c], m) ELSE received[c]]
        /\ pc' = [pc EXCEPT ![w] = IF ok THEN "loop" ELSE "post"]
        /\ data' = [data EXCEPT ![w] = IF ok THEN None ELSE data[w]]
        /\ UNCHANGED <<running, stopper, notified, queue, attempts, sent>>
    BY DEF Posted, Goto, IInv, Busy, shared
  <1>1. /\ data[w] \in Event /\ ShardOf[c] = w /\ m <= sent[c]
        /\ \A i \in DOMAIN queue[w] : queue[w][i].call = c => m < queue[w][i].n
    BY <1>0 DEF IInv, DataOK
  <1>2. c \in Calls /\ m \in 1..MaxEvents /\ m \in Int
    BY <1>1, WMAssumption DEF Event
  <1>3. \A k \in DOMAIN received[c] : received[c][k] <= m
    BY <1>0, <1>1, <1>2 DEF IInv, ReceivedOK
  <1> HIDE DEF c, m
  <1>4. \A x \in Calls : received[x] \in Seq(1..MaxEvents)
    BY <1>0 DEF TypeOK
  <1>5. \A x \in Calls : x # c => received'[x] = received[x]
    BY <1>0 DEF TypeOK
  <1>6. received'[c] \in Seq(1..MaxEvents)
        /\ \/ received'[c] = received[c]
           \/ /\ Len(received'[c]) = Len(received[c]) + 1
              /\ \A k \in 1..Len(received[c]) : received'[c][k] = received[c][k]
              /\ received'[c][Len(received[c]) + 1] = m
    <2>1. CASE got
      <3>1. received'[c] = Append(received[c], m)
        BY <2>1, <1>0, <1>2 DEF TypeOK
      <3> QED BY <3>1, <1>2, <1>4
    <2>2. CASE ~got
      BY <2>2, <1>0, <1>2, <1>4 DEF TypeOK
    <2> QED BY <2>1, <2>2
  <1>7. ASSUME NEW k \in DOMAIN received'[c]
        PROVE  /\ k \in Int /\ received'[c][k] \in Int
               /\ \/ k = Len(received[c]) + 1 /\ received'[c][k] = m
                  \/ k \in DOMAIN received[c] /\ received'[c][k] = received[c][k]
    <2>1. received[c] \in Seq(1..MaxEvents) /\ received'[c] \in Seq(1..MaxEvents)
      BY <1>2, <1>4, <1>6
    <2>2. received'[c][k] \in 1..MaxEvents /\ k \in 1..Len(received'[c])
      BY <2>1, ElementOf
    <2>3. CASE received'[c] = received[c]
      BY <2>1, <2>2, <2>3, WMAssumption
    <2>4. CASE received'[c] # received[c]
      <3>1. k \in 1..Len(received[c]) \/ k = Len(received[c]) + 1
        BY <2>1, <2>2, <2>4, <1>6
      <3> QED BY <3>1, <2>1, <2>2, <2>4, <1>6, WMAssumption
    <2> QED BY <2>3, <2>4
  <1>8. \A v \in Workers : (Busy(v)' => Busy(v) /\ data'[v] = data[v])
    BY <1>0 DEF Busy, TypeOK
  <1>9. TypeOK'
    <2>1. received' \in [Calls -> Seq(1..MaxEvents)]
      BY <1>0, <1>2, <1>4, <1>6 DEF TypeOK
    <2>2. data' \in [Workers -> Event \cup {None}]
      BY <1>0, <1>1 DEF TypeOK
    <2>3. pc' \in [Workers -> {"loop", "lock", "blocking", "waiting", "post", "posting", "ended"}]
      BY <1>0 DEF TypeOK
    <2> QED BY <1>0, <2>1, <2>2, <2>3 DEF TypeOK
  <1>10. QueueOK' /\ QueueSorted'
    BY <1>0 DEF IInv, QueueOK, QueueSorted
  <1>11. DataOK'
    BY <1>0, <1>8 DEF IInv, DataOK
  <1>12. ReceivedOK'
    <2> SUFFICES ASSUME NEW x \in Calls, NEW k \in DOMAIN received'[x], NEW v \in Workers,
                        v = ShardOf[x]
                 PROVE  /\ received'[x][k] <= sent[x]
                        /\ \A i \in DOMAIN queue[v] :
                             queue[v][i].call = x => received'[x][k] < queue[v][i].n
                        /\ Busy(v)' /\ data'[v].call = x => received'[x][k] <= data'[v].n
      BY <1>0, WMAssumption DEF ReceivedOK
    <2>1. CASE x = c /\ received'[x][k] = m
      BY <2>1, <1>1, <1>2, <1>8 DEF c, m
    <2>2. CASE k \in DOMAIN received[x] /\ received'[x][k] = received[x][k]
      <3>1. /\ received[x][k] <= sent[x]
            /\ \A i \in DOMAIN queue[v] : queue[v][i].call = x => received[x][k] < queue[v][i].n
            /\ Busy(v) /\ data[v].call = x => received[x][k] <= data[v].n
        BY <2>2 DEF IInv, ReceivedOK
      <3> QED BY <3>1, <2>2, <1>8
    <2> QED BY <2>1, <2>2, <1>5, <1>7
  <1>13. InOrder'
    <2> SUFFICES ASSUME NEW x \in Calls, NEW i \in DOMAIN received'[x], NEW j \in DOMAIN received'[x],
                        i < j
                 PROVE  received'[x][i] <= received'[x][j]
      BY DEF InOrder
    <2>1. CASE x # c
      BY <2>1, <1>5 DEF IInv, InOrder
    <2>2. CASE x = c
      <3>1. i \in DOMAIN received[c] /\ received'[c][i] = received[c][i]
        BY <2>2, <1>4, <1>6, <1>7, <1>2
      <3>2. CASE j \in DOMAIN received[c] /\ received'[c][j] = received[c][j]
        BY <2>2, <3>1, <3>2, <1>2 DEF IInv, InOrder
      <3>3. CASE received'[c][j] = m
        BY <2>2, <3>1, <3>3, <1>3
      <3> QED BY <2>2, <3>2, <3>3, <1>7
    <2> QED BY <2>1, <2>2
  <1> QED BY <1>9, <1>10, <1>11, <1>12, <1>13 DEF IInv

\* All other steps of the workers and of stop() move no event.
LEMMA OtherSteps ==
  ASSUME IInv, NEW w \in Workers,
         \/ Loop(w) \/ FindEmpty(w) \/ Block(w) \/ SpuriousWakeup(w) \/ Attempt(w)
         \/ Abandon(w) \/ StopStore \/ StopNotify(w) \/ StopJoin
  PROVE  IInv'
  <1> USE DEF IInv, TypeOK, Busy, Goto, Woken, shared, max_retries
  <1> SUFFICES /\ TypeOK' /\ UNCHANGED <<queue, sent, received>>
               /\ \A v \in Workers : Busy(v)' => Busy(v) /\ data'[v] = data[v]
    BY QuietStep
  <1>1. CASE Loop(w) \/ FindEmpty(w) \/ Block(w) \/ SpuriousWakeup(w)
    BY <1>1 DEF Loop, FindEmpty, Block, SpuriousWakeup
  <1>2. CASE Attempt(w)
    <2>1. attempts[w] \in 0..2 /\ attempts' = [attempts EXCEPT ![w] = attempts[w] + 1]
      BY <1>2 DEF Attempt, MayTry
    <2>2. attempts' \in [Workers -> 0..3]
      BY <2>1
    <2> QED BY <1>2, <2>2 DEF Attempt
  <1>3. CASE Abandon(w)
    BY <1>3 DEF Abandon
  <1>4. CASE StopStore \/ StopJoin
    BY <1>4 DEF StopStore, StopJoin
  <1>5. CASE StopNotify(w)
    BY <1>5 DEF StopNotify
  <1> QED BY <1>1, <1>2, <1>3, <1>4, <1>5

\* Every step keeps the invariant.
LEMMA NextIInv == IInv /\ [Next]_vars => IInv'
  <1> SUFFICES ASSUME IInv, [Next]_vars PROVE IInv'
    OBVIOUS
  <1>1. CASE \E c \in Calls : send(c)
    BY <1>1, SendStep
  <1>2. CASE \E w \in Workers : Worker(w) \/ SpuriousWakeup(w)
    BY <1>2, TakeStep, PostedStep, OtherSteps DEF Worker
  <1>3. CASE \E w \in Workers : StopNotify(w)
    BY <1>3, OtherSteps
  <1>4. CASE StopStore \/ StopJoin
    <2>1. TypeOK' /\ UNCHANGED <<queue, sent, received, pc, data>>
      BY <1>4 DEF StopStore, StopJoin, IInv, TypeOK
    <2> QED BY <2>1, QuietStep DEF Busy
  <1>5. CASE UNCHANGED vars
    <2>1. TypeOK' /\ UNCHANGED <<queue, sent, received, pc, data>>
      BY <1>5 DEF vars, shared, IInv, TypeOK
    <2> QED BY <2>1, QuietStep DEF Busy
  <1> QED BY <1>1, <1>2, <1>3, <1>4, <1>5 DEF Next, Stop

\* Types are kept: an event is posted at most three times, and workers only
\* hold events somebody enqueued.
THEOREM TypeCorrect == Spec => []TypeOK
  <1>1. IInv => TypeOK
    BY DEF IInv
  <1> QED BY <1>1, InitIInv, NextIInv, PTL DEF Spec

\* webhook_manager.hpp:20-26: the events of a call leave in the order they were
\* enqueued, for every number of workers, hash function and pattern of failures.
THEOREM OrderKept == Spec => []InOrder
  <1>1. IInv => InOrder
    BY DEF IInv
  <1> QED BY <1>1, InitIInv, NextIInv, PTL DEF Spec

-----------------------------------------------------------------------------
(* The refinement of WebhookDelivery *)

\* A worker has an event in hand only while it is busy with it.
HandsFree == \A w \in Workers : ~Busy(w) => data[w] = None

\* No event is left in a worker's hands.
LEMMA HandsFreeStep == IInv /\ HandsFree /\ [Next]_vars => HandsFree'
  <1> SUFFICES ASSUME IInv, HandsFree, [Next]_vars, NEW v \in Workers, ~Busy(v)'
               PROVE  data'[v] = None
    BY DEF HandsFree
  <1>0. TypeOK /\ (~Busy(v) => data[v] = None)
    BY DEF IInv, HandsFree
  <1>1. ASSUME NEW c \in Calls, send(c) PROVE data'[v] = None
    <2>1. data' = data /\ (Busy(v)' <=> Busy(v))
      BY <1>0, <1>1, WMAssumption DEF send, Woken, Busy, TypeOK
    <2> QED BY <1>0, <2>1
  <1>2. ASSUME NEW w \in Workers,
               Loop(w) \/ FindEmpty(w) \/ Block(w) \/ SpuriousWakeup(w) \/ StopNotify(w)
        PROVE  data'[v] = None
    <2>1. data' = data /\ (Busy(v)' <=> Busy(v))
      BY <1>0, <1>2 DEF Loop, FindEmpty, Block, SpuriousWakeup, StopNotify, Goto, Woken, Busy, TypeOK
    <2> QED BY <1>0, <2>1
  <1>3. ASSUME NEW w \in Workers, Take(w) \/ Attempt(w) \/ Abandon(w) PROVE data'[v] = None
    BY <1>0, <1>3 DEF Take, Attempt, Abandon, Goto, Busy, TypeOK
  <1>4. ASSUME NEW w \in Workers, NEW got \in BOOLEAN, NEW ok \in BOOLEAN, Posted(w, got, ok)
        PROVE  data'[v] = None
    BY <1>0, <1>4 DEF Posted, Goto, Busy, TypeOK
  <1>5. CASE StopStore \/ StopJoin \/ UNCHANGED vars
    BY <1>0, <1>5 DEF StopStore, StopJoin, vars, Busy
  <1> QED BY <1>1, <1>2, <1>3, <1>4, <1>5 DEF Next, Worker, Stop

\* Event e is in the queue or in the hands of worker w.
Here(w, e) == data[w] = e \/ \E i \in DOMAIN queue[w] : queue[w][i] = e

\* What is pending for a call, and after a step.
LEMMA PendingIs ==
  ASSUME NEW c \in Calls, NEW n
  PROVE  /\ n \in pending[c] <=> n \in 1..MaxEvents /\ Here(ShardOf[c], [call |-> c, n |-> n])
         /\ n \in pending'[c] <=> n \in 1..MaxEvents /\ Here(ShardOf[c], [call |-> c, n |-> n])'
  BY DEF pending, PendingOf, Here

\* pending is a function on the calls, compared call by call.
LEMMA PendingSame ==
  ASSUME \A x \in Calls : \A n : n \in pending'[x] <=> n \in pending[x]
  PROVE  pending' = pending
  <1>1. \A x \in Calls : pending'[x] = pending[x]
    OBVIOUS
  <1>2. pending = [x \in Calls |-> pending[x]] /\ pending' = [x \in Calls |-> pending'[x]]
    BY DEF pending
  <1> QED BY <1>1, <1>2, Zenon

\* An event becomes pending.
LEMMA PendingAdded ==
  ASSUME NEW c \in Calls, NEW k,
         \A x \in Calls : \A n : n \in pending'[x] <=> n \in pending[x] \/ (x = c /\ n = k)
  PROVE  pending' = [pending EXCEPT ![c] = @ \cup {k}]
  <1>1. \A x \in Calls : pending'[x] = IF x = c THEN pending[c] \cup {k} ELSE pending[x]
    OBVIOUS
  <1>2. pending = [x \in Calls |-> pending[x]] /\ pending' = [x \in Calls |-> pending'[x]]
    BY DEF pending
  <1> QED BY <1>1, <1>2

\* An event is no longer pending.
LEMMA PendingRemoved ==
  ASSUME NEW c \in Calls, NEW k,
         \A x \in Calls : \A n : n \in pending'[x] <=> n \in pending[x] /\ ~(x = c /\ n = k)
  PROVE  pending' = [pending EXCEPT ![c] = @ \ {k}]
  <1>1. \A x \in Calls : pending'[x] = IF x = c THEN pending[c] \ {k} ELSE pending[x]
    OBVIOUS
  <1>2. pending = [x \in Calls |-> pending[x]] /\ pending' = [x \in Calls |-> pending'[x]]
    BY DEF pending
  <1> QED BY <1>1, <1>2

\* What a sequence contains after Append.
LEMMA AppendHas ==
  ASSUME NEW S, NEW s \in Seq(S), NEW e \in S, NEW f
  PROVE  (\E i \in DOMAIN Append(s, e) : Append(s, e)[i] = f) <=>
           (\E i \in DOMAIN s : s[i] = f) \/ e = f
  <1>1. /\ Len(s) \in Nat /\ DOMAIN s = 1..Len(s) /\ DOMAIN Append(s, e) = 1..(Len(s) + 1)
        /\ \A i \in 1..Len(s) : Append(s, e)[i] = s[i]
        /\ Append(s, e)[Len(s) + 1] = e
    OBVIOUS
  <1>2. \A i \in 1..(Len(s) + 1) : i \in 1..Len(s) \/ i = Len(s) + 1
    BY <1>1
  <1>3. (\E i \in DOMAIN s : s[i] = f) => \E i \in DOMAIN Append(s, e) : Append(s, e)[i] = f
    BY <1>1
  <1>4. e = f => \E i \in DOMAIN Append(s, e) : Append(s, e)[i] = f
    BY <1>1
  <1> QED BY <1>1, <1>2, <1>3, <1>4

\* A sequence contains its head and what its tail contains.
LEMMA HeadTailHas ==
  ASSUME NEW S, NEW s \in Seq(S), s # <<>>, NEW f
  PROVE  (\E i \in DOMAIN s : s[i] = f) <=>
           Head(s) = f \/ \E i \in DOMAIN Tail(s) : Tail(s)[i] = f
  <1>1. /\ Len(s) \in Nat /\ Len(s) >= 1 /\ DOMAIN s = 1..Len(s)
        /\ DOMAIN Tail(s) = 1..(Len(s) - 1) /\ Head(s) = s[1]
        /\ \A i \in 1..(Len(s) - 1) : Tail(s)[i] = s[i + 1]
    OBVIOUS
  <1>2. \A i \in 1..Len(s) : i = 1 \/ (i - 1 \in 1..(Len(s) - 1) /\ (i - 1) + 1 = i)
    BY <1>1
  <1>3. ASSUME NEW i \in DOMAIN s, s[i] = f
        PROVE  Head(s) = f \/ \E j \in DOMAIN Tail(s) : Tail(s)[j] = f
    BY <1>1, <1>2, <1>3
  <1>4. ASSUME NEW j \in DOMAIN Tail(s), Tail(s)[j] = f PROVE \E i \in DOMAIN s : s[i] = f
    <2>1. j + 1 \in DOMAIN s /\ s[j + 1] = f
      BY <1>1, <1>4
    <2> QED BY <2>1
  <1>5. Head(s) = f => \E i \in DOMAIN s : s[i] = f
    BY <1>1
  <1> QED BY <1>3, <1>4, <1>5

\* send() is Enqueue.
LEMMA SendRefines ==
  ASSUME IInv, NEW c \in Calls, send(c)
  PROVE  Delivery!Enqueue(c)
  <1> DEFINE w == ShardOf[c]
             k == sent[c] + 1
             e == [call |-> c, n |-> k]
  <1>0. /\ w \in Workers /\ TypeOK /\ sent[c] \in 0..MaxEvents /\ MaxEvents \in Nat
        /\ sent[c] < MaxEvents /\ sent' = [sent EXCEPT ![c] = sent[c] + 1]
        /\ queue' = [queue EXCEPT ![w] = Append(queue[w], e)]
        /\ UNCHANGED <<data, received>>
    BY WMAssumption DEF send, IInv, TypeOK
  <1>k. k \in 1..MaxEvents /\ e \in Event
    BY <1>0 DEF Event
  <1>1. ASSUME NEW x \in Calls, NEW n \in 1..MaxEvents, NEW v \in Workers, v = ShardOf[x],
               NEW f, f = [call |-> x, n |-> n]
        PROVE  Here(v, f)' <=> Here(v, f) \/ (x = c /\ n = k)
    <2>1. f = e <=> x = c /\ n = k
      BY <1>1
    <2>2. x = c => v = w
      BY <1>1
    <2> HIDE DEF e, k
    <2>3. CASE v # w
      <3>1. queue'[v] = queue[v]
        BY <1>0, <2>3 DEF TypeOK
      <3> QED BY <1>0, <2>2, <2>3, <3>1 DEF Here
    <2>4. CASE v = w
      <3>1. queue[w] \in Seq(Event) /\ queue'[w] = Append(queue[w], e)
        BY <1>0 DEF TypeOK
      <3>2. (\E i \in DOMAIN queue'[w] : queue'[w][i] = f) <=>
              (\E i \in DOMAIN queue[w] : queue[w][i] = f) \/ e = f
        <4> DEFINE q == queue[w]
        <4>1. q \in Seq(Event) /\ e \in Event
          BY <1>k, <3>1
        <4> HIDE DEF q
        <4>2. (\E i \in DOMAIN Append(q, e) : Append(q, e)[i] = f) <=>
                (\E i \in DOMAIN q : q[i] = f) \/ e = f
          BY <4>1, AppendHas
        <4> QED BY <3>1, <4>2 DEF q
      <3> QED BY <1>0, <2>1, <2>4, <3>2 DEF Here
    <2> QED BY <2>3, <2>4
  <1>2. \A x \in Calls : \A n : n \in pending'[x] <=> n \in pending[x] \/ (x = c /\ n = k)
    <2> HIDE DEF k
    <2> SUFFICES ASSUME NEW x \in Calls, NEW n
                 PROVE  n \in pending'[x] <=> n \in pending[x] \/ (x = c /\ n = k)
      OBVIOUS
    <2>1. ShardOf[x] \in Workers
      BY WMAssumption
    <2>2. /\ n \in pending[x] <=> n \in 1..MaxEvents /\ Here(ShardOf[x], [call |-> x, n |-> n])
          /\ n \in pending'[x] <=> n \in 1..MaxEvents /\ Here(ShardOf[x], [call |-> x, n |-> n])'
      BY PendingIs
    <2>3. n \in 1..MaxEvents =>
            (Here(ShardOf[x], [call |-> x, n |-> n])' <=>
               Here(ShardOf[x], [call |-> x, n |-> n]) \/ (x = c /\ n = k))
      BY <2>1, <1>1, Zenon
    <2> QED BY <1>k, <2>2, <2>3
  <1>3. pending' = [pending EXCEPT ![c] = @ \cup {k}]
    BY <1>2, PendingAdded
  <1> QED BY <1>0, <1>3 DEF Delivery!Enqueue

\* Taking an event from the queue changes nothing that is pending.
LEMMA TakeRefines ==
  ASSUME IInv, HandsFree, NEW w \in Workers, Take(w)
  PROVE  UNCHANGED <<sent, pending, received>>
  <1>0. /\ TypeOK /\ queue[w] # <<>> /\ queue[w] \in Seq(Event)
        /\ data' = [data EXCEPT ![w] = Head(queue[w])]
        /\ queue' = [queue EXCEPT ![w] = Tail(queue[w])]
        /\ data[w] = None /\ UNCHANGED <<sent, received>>
    BY DEF Take, IInv, TypeOK, HandsFree, Busy
  <1>1. ASSUME NEW v \in Workers, NEW f \in Event PROVE Here(v, f)' <=> Here(v, f)
    <2>1. CASE v # w
      BY <1>0, <2>1 DEF TypeOK, Here
    <2>2. CASE v = w
      <3>1. queue'[w] = Tail(queue[w]) /\ data'[w] = Head(queue[w]) /\ data[w] # f
        BY <1>0, WMAssumption DEF TypeOK
      <3>2. (\E i \in DOMAIN queue[w] : queue[w][i] = f) <=>
              Head(queue[w]) = f \/ \E i \in DOMAIN Tail(queue[w]) : Tail(queue[w])[i] = f
        BY <1>0, HeadTailHas
      <3> QED BY <2>2, <3>1, <3>2 DEF Here
    <2> QED BY <2>1, <2>2
  <1>2. \A x \in Calls : ShardOf[x] \in Workers /\ \A n \in 1..MaxEvents : [call |-> x, n |-> n] \in Event
    BY WMAssumption DEF Event
  <1>3. \A x \in Calls : \A n : n \in pending'[x] <=> n \in pending[x]
    BY <1>1, <1>2, PendingIs
  <1> QED BY <1>0, <1>3, PendingSame

\* The event in hand is the oldest one pending of its call.
LEMMA HandOldest ==
  ASSUME IInv, NEW w \in Workers, Busy(w)
  PROVE  /\ data[w].call \in Calls /\ data[w].n \in 1..MaxEvents
         /\ Delivery!Oldest(data[w].call, data[w].n)
  <1> DEFINE c == data[w].call
             n == data[w].n
  <1>1. /\ data[w] \in Event /\ ShardOf[c] = w
        /\ \A i \in DOMAIN queue[w] : queue[w][i].call = c => n < queue[w][i].n
    BY DEF IInv, DataOK
  <1>2. c \in Calls /\ n \in 1..MaxEvents /\ data[w] = [call |-> c, n |-> n]
    BY <1>1 DEF Event
  <1>3. n \in pending[c]
    BY <1>1, <1>2, PendingIs DEF Here
  <1>4. ASSUME NEW m \in pending[c] PROVE n <= m
    <2>1. m \in 1..MaxEvents /\ Here(w, [call |-> c, n |-> m])
      BY <1>1, <1>2, PendingIs
    <2>2. CASE data[w] = [call |-> c, n |-> m]
      BY <1>2, <2>1, <2>2
    <2>3. ASSUME NEW i \in DOMAIN queue[w], queue[w][i] = [call |-> c, n |-> m] PROVE n <= m
      <3>1. queue[w][i].call = c /\ queue[w][i].n = m
        BY <2>3
      <3> QED BY <1>1, <1>2, <2>1, <3>1
    <2> QED BY <2>1, <2>2, <2>3 DEF Here
  <1> QED BY <1>2, <1>3, <1>4 DEF Delivery!Oldest

\* A worker that puts down its event leaves the rest pending.
LEMMA PutDown ==
  ASSUME IInv, NEW w \in Workers, Busy(w), data' = [data EXCEPT ![w] = None], queue' = queue
  PROVE  pending' = [pending EXCEPT ![data[w].call] = @ \ {data[w].n}]
  <1> DEFINE c == data[w].call
             k == data[w].n
  <1>1. /\ data[w] \in Event /\ ShardOf[c] = w /\ TypeOK
        /\ \A i \in DOMAIN queue[w] : queue[w][i].call = c => k < queue[w][i].n
    BY DEF IInv, DataOK
  <1>2. c \in Calls /\ k \in 1..MaxEvents /\ data[w] = [call |-> c, n |-> k]
    BY <1>1 DEF Event
  <1>3. ASSUME NEW x \in Calls, NEW n \in 1..MaxEvents, NEW v \in Workers, v = ShardOf[x],
               NEW f, f = [call |-> x, n |-> n]
        PROVE  Here(v, f)' <=> Here(v, f) /\ ~(x = c /\ n = k)
    <2>1. f \in Event /\ (f = data[w] <=> x = c /\ n = k) /\ (x = c => v = w)
      BY <1>1, <1>2, <1>3 DEF Event
    <2>2. ASSUME f = data[w], NEW i \in DOMAIN queue[w], queue[w][i] = f PROVE FALSE
      <3>1. queue[w][i].call = c /\ queue[w][i].n = k
        BY <2>2
      <3> QED BY <1>1, <1>2, <3>1
    <2>3. data'[w] = None /\ None # f /\ (v # w => data'[v] = data[v])
      BY <1>1, <2>1, WMAssumption DEF TypeOK
    <2>4. CASE v # w
      BY <2>1, <2>3, <2>4 DEF Here
    <2>5. CASE v = w
      BY <2>1, <2>2, <2>3, <2>5 DEF Here
    <2> QED BY <2>4, <2>5
  <1>4. \A x \in Calls : \A n : n \in pending'[x] <=> n \in pending[x] /\ ~(x = c /\ n = k)
    <2> HIDE DEF c, k
    <2> SUFFICES ASSUME NEW x \in Calls, NEW n
                 PROVE  n \in pending'[x] <=> n \in pending[x] /\ ~(x = c /\ n = k)
      OBVIOUS
    <2>1. ShardOf[x] \in Workers
      BY WMAssumption
    <2>2. /\ n \in pending[x] <=> n \in 1..MaxEvents /\ Here(ShardOf[x], [call |-> x, n |-> n])
          /\ n \in pending'[x] <=> n \in 1..MaxEvents /\ Here(ShardOf[x], [call |-> x, n |-> n])'
      BY PendingIs
    <2>3. n \in 1..MaxEvents =>
            (Here(ShardOf[x], [call |-> x, n |-> n])' <=>
               Here(ShardOf[x], [call |-> x, n |-> n]) /\ ~(x = c /\ n = k))
      BY <2>1, <1>3
    <2> QED BY <2>2, <2>3
  <1> QED BY <1>2, <1>4, PendingRemoved

\* The end of a POST delivers the oldest pending event, repeats it, or is not
\* seen by the webhook.
LEMMA PostedRefines ==
  ASSUME IInv, NEW w \in Workers, NEW got \in BOOLEAN, NEW ok \in BOOLEAN, Posted(w, got, ok)
  PROVE  \/ \E c \in Calls, n \in 1..MaxEvents : Delivery!Repeat(c, n) \/ Delivery!Deliver(c, n)
         \/ UNCHANGED <<sent, pending, received>>
  <1> DEFINE c == data[w].call
             n == data[w].n
  <1>0. /\ TypeOK /\ Busy(w) /\ (ok => got)
        /\ received' = [received EXCEPT ![c] = IF got THEN Append(received[c], n) ELSE received[c]]
        /\ data' = [data EXCEPT ![w] = IF ok THEN None ELSE data[w]]
        /\ UNCHANGED <<queue, sent>>
    BY DEF Posted, IInv, Busy
  <1>1. c \in Calls /\ n \in 1..MaxEvents /\ Delivery!Oldest(c, n)
    BY <1>0, HandOldest
  <1>2. CASE ok
    <2>1. data' = [data EXCEPT ![w] = None] /\ received' = [received EXCEPT ![c] = Append(@, n)]
      BY <1>0, <1>2
    <2>2. pending' = [pending EXCEPT ![c] = @ \ {n}]
      BY <1>0, <2>1, PutDown
    <2>3. Delivery!Deliver(c, n)
      BY <1>0, <1>1, <2>1, <2>2, Zenon DEF Delivery!Deliver, Delivery!Receive, Delivery!Finish
    <2> QED BY <1>1, <2>3
  <1>3. CASE ~ok
    <2>1. data' = data
      BY <1>0, <1>3 DEF TypeOK
    <2>2. pending' = pending
      BY <1>0, <2>1 DEF pending, PendingOf
    <2>3. CASE got
      <3>1. Delivery!Repeat(c, n)
        BY <1>0, <1>1, <2>2, <2>3 DEF Delivery!Repeat, Delivery!Receive
      <3> QED BY <1>1, <3>1
    <2>4. CASE ~got
      BY <1>0, <2>2, <2>4 DEF TypeOK
    <2> QED BY <2>3, <2>4
  <1> QED BY <1>2, <1>3

\* A worker that abandons its event gives up the oldest pending one.
LEMMA AbandonRefines ==
  ASSUME IInv, NEW w \in Workers, Abandon(w)
  PROVE  \E c \in Calls, n \in 1..MaxEvents : Delivery!GiveUp(c, n)
  <1>0. Busy(w) /\ data' = [data EXCEPT ![w] = None] /\ UNCHANGED <<queue, sent, received>>
    BY DEF Abandon, Busy
  <1>1. /\ data[w].call \in Calls /\ data[w].n \in 1..MaxEvents
        /\ Delivery!Oldest(data[w].call, data[w].n)
    BY <1>0, HandOldest
  <1>2. pending' = [pending EXCEPT ![data[w].call] = @ \ {data[w].n}]
    BY <1>0, PutDown
  <1>3. Delivery!GiveUp(data[w].call, data[w].n)
    BY <1>0, <1>1, <1>2, Zenon DEF Delivery!GiveUp, Delivery!Finish
  <1> QED BY <1>1, <1>3

\* Every step of the workers, of send() and of stop() is a step of the abstract
\* specification, or changes nothing it sees.
LEMMA StepRefines == IInv /\ HandsFree /\ [Next]_vars => [Delivery!DNext]_(Delivery!dvars)
  <1> SUFFICES ASSUME IInv, HandsFree, [Next]_vars
               PROVE  Delivery!DNext \/ UNCHANGED <<sent, pending, received>>
    BY DEF Delivery!dvars
  <1> USE DEF Delivery!DNext
  <1>1. ASSUME NEW c \in Calls, send(c) PROVE Delivery!DNext
    BY <1>1, SendRefines
  <1>2. ASSUME NEW w \in Workers, Take(w) PROVE UNCHANGED <<sent, pending, received>>
    BY <1>2, TakeRefines
  <1>3. ASSUME NEW w \in Workers, NEW got \in BOOLEAN, NEW ok \in BOOLEAN, Posted(w, got, ok)
        PROVE  Delivery!DNext \/ UNCHANGED <<sent, pending, received>>
    BY <1>3, PostedRefines
  <1>4. ASSUME NEW w \in Workers, Abandon(w) PROVE Delivery!DNext
    BY <1>4, AbandonRefines
  <1>5. ASSUME NEW w \in Workers,
               \/ Loop(w) \/ FindEmpty(w) \/ Block(w) \/ SpuriousWakeup(w) \/ Attempt(w)
               \/ StopNotify(w)
        PROVE  UNCHANGED <<sent, pending, received>>
    BY <1>5 DEF Loop, FindEmpty, Block, SpuriousWakeup, Attempt, StopNotify, pending, PendingOf
  <1>6. CASE StopStore \/ StopJoin \/ UNCHANGED vars
    BY <1>6 DEF StopStore, StopJoin, vars, pending, PendingOf
  <1> QED BY <1>1, <1>2, <1>3, <1>4, <1>5, <1>6 DEF Next, Worker, Stop

\* The sharded workers implement WebhookDelivery, which knows no workers, queues
\* or shards: for every hash function and pattern of failures, spurious wakeups
\* and shutdowns, only the oldest unfinished event of a call is ever posted.
THEOREM WorkersImplementDelivery == Spec => ImplementsDelivery
  <1>1. Init => HandsFree
    BY DEF Init, HandsFree
  <1>2. Init => Delivery!DInit
    <2> SUFFICES ASSUME Init PROVE pending = [c \in Calls |-> {}]
      BY DEF Init, Delivery!DInit
    <2>1. ASSUME NEW c \in Calls, NEW n \in 1..MaxEvents PROVE ~Here(ShardOf[c], [call |-> c, n |-> n])
      <3>1. [call |-> c, n |-> n] \in Event /\ ShardOf[c] \in Workers
        BY WMAssumption DEF Event
      <3> QED BY <3>1, WMAssumption DEF Init, Here
    <2>2. \A c \in Calls : pending[c] = {}
      BY <2>1, PendingIs
    <2> QED BY <2>2 DEF pending
  <1> QED BY <1>1, <1>2, InitIInv, NextIInv, HandsFreeStep, StepRefines, PTL
          DEF Spec, ImplementsDelivery, Delivery!DSpec
=============================================================================
