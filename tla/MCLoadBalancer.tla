--------------------------- MODULE MCLoadBalancer ---------------------------
(* Small instances of LoadBalancer for TLC. *)
EXTENDS LoadBalancer, TLC

CONSTANTS s1, s2, h1, h2, india

MCNamesOfType == [t \in {india} |-> {s2}]
MCNoTypes == [t \in {} |-> {}]

Symmetry == Permutations(Requests)

Register(n, h) == [op |-> "register", name |-> n, host |-> h]
Unregister(n) == [op |-> "unregister", name |-> n]
Toggle(n, i, o) == [op |-> "toggle", name |-> n, inbound |-> i, outbound |-> o]
Call(t) == [op |-> "call", type |-> t]
Contact == [op |-> "contact"]

\* Overlapping requests for one server, which moves, and another server.
OverlapInputs ==
  {Register(s1, h1), Register(s1, h2), Unregister(s1),
   Toggle(s1, TRUE, None), Toggle(s1, FALSE, None), Register(s2, h1)}

\* A server that announces itself, among an operator's requests and calls.
AnnounceInputs ==
  {Register(s1, h1), Register(s1, h2), Unregister(s1), Call(None),
   Toggle(s1, TRUE, TRUE), Toggle(s1, None, FALSE)}

\* Calls routed to two servers of one host that come and go.
RoutingInputs ==
  {Register(s1, h1), Register(s2, h1), Unregister(s2),
   Toggle(s1, TRUE, TRUE), Toggle(s2, TRUE, TRUE), Toggle(s2, FALSE, FALSE),
   Call(None), Call(india), Contact}

-----------------------------------------------------------------------------
(* What the repository says of itself and the code does not do (README,      *)
(* section 5).  No run checks it; as a property of one it is violated.        *)

\* IOSL holds the names of enabled servers and no others, as main.go and
\* helpers.go describe it.  A scan that returns a key twice breaks it: the
\* name is listed twice, and updateIOSL removes its first occurrence only.
IOSLOnlyEnabled == \A n \in Servers : ~InboundGhost(n) /\ ~OutboundGhost(n)

\* A re-registration preserves the inbound/outbound state of a server that is
\* in memory when it takes effect.  A toggle between the handler's GET and its
\* write-back breaks it.
ReRegisterPreservesFlags ==
  [][\A r \in Requests, n \in Servers :
       (pc[r] = "reg_mem" /\ RegisterMem(r) /\ n = arg[r].name /\ LSML[n] # None) =>
         /\ LSML'[n].inbound = LSML[n].inbound
         /\ LSML'[n].outbound = LSML[n].outbound]_vars
=============================================================================
