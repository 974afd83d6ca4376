-------------------------- MODULE WebhookDelivery --------------------------
(***************************************************************************)
(* What WebhookManager promises: the events of one call reach the webhook  *)
(* in the order they were enqueued.  The oldest pending event of a call is *)
(* posted, perhaps several times, until it is delivered or given up; only  *)
(* then is the next one posted.  Calls are independent.                    *)
(***************************************************************************)
EXTENDS Naturals, Sequences

CONSTANTS Calls, MaxEvents

VARIABLES
  sent,      \* sent[c]: number of events enqueued for call c
  pending,   \* pending[c]: the numbers of those not yet finished
  received   \* received[c]: the numbers of those the webhook received, in order

dvars == <<sent, pending, received>>

DInit ==
  /\ sent = [c \in Calls |-> 0]
  /\ pending = [c \in Calls |-> {}]
  /\ received = [c \in Calls |-> <<>>]

Enqueue(c) ==
  /\ sent[c] < MaxEvents
  /\ sent' = [sent EXCEPT ![c] = @ + 1]
  /\ pending' = [pending EXCEPT ![c] = @ \cup {sent[c] + 1}]
  /\ UNCHANGED received

Oldest(c, n) == n \in pending[c] /\ \A m \in pending[c] : n <= m

Receive(c, n) == received' = [received EXCEPT ![c] = Append(@, n)]
Finish(c, n) == pending' = [pending EXCEPT ![c] = @ \ {n}]

\* The post was received, but the sender does not know and will try again.
Repeat(c, n) == Oldest(c, n) /\ Receive(c, n) /\ UNCHANGED <<sent, pending>>

Deliver(c, n) == Oldest(c, n) /\ Receive(c, n) /\ Finish(c, n) /\ UNCHANGED sent

GiveUp(c, n) == Oldest(c, n) /\ Finish(c, n) /\ UNCHANGED <<sent, received>>

DNext ==
  \E c \in Calls :
    Enqueue(c) \/ \E n \in 1..MaxEvents : Repeat(c, n) \/ Deliver(c, n) \/ GiveUp(c, n)

DSpec == DInit /\ [][DNext]_dvars
=============================================================================
