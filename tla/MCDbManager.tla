---------------------------- MODULE MCDbManager ----------------------------
(* Small instances of DbManager for TLC. *)
EXTENDS DbManager, TLC

CONSTANTS p1, d1, t1, t2, c1, c2

Add(p, reg, unfit) == [op |-> "add", p |-> p, reg |-> reg, unfit |-> unfit]
AddDid(d, p, unfit) == [op |-> "addDid", p |-> p, d |-> d, unfit |-> unfit]
Remove(p, unfit) == [op |-> "remove", p |-> p, unfit |-> unfit]
RemoveDid(d, unfit) == [op |-> "removeDid", d |-> d, unfit |-> unfit]
Select(unfit) == [op |-> "select", unfit |-> unfit]

Symmetry == Permutations(Threads) \cup Permutations(Processes)

\* Requests whose values fit, and ones that fail for their values: a name too
\* long for the registration's id, a domain too long for the endpoint, a name
\* too long for trunk_webhooks, a quote in a name, a DID or a number.
MCRequests ==
  {Add(p1, TRUE, {}), Add(p1, FALSE, {}), AddDid(d1, p1, {}), Remove(p1, {}),
   RemoveDid(d1, {}), Select({}),
   Add(p1, TRUE, {4}), Add(p1, FALSE, {3}), AddDid(d1, p1, {2}), Remove(p1, 1..6),
   RemoveDid(d1, {1}), Select({1})}
=============================================================================
