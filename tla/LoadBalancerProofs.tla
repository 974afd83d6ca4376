------------------------ MODULE LoadBalancerProofs ------------------------
(***************************************************************************)
(* Proofs about LoadBalancer, for any number of servers, hosts, requests   *)
(* in flight and clients, with Redis failures, restarts and probe          *)
(* failures.                                                               *)
(*                                                                         *)
(* None of MapsAgree, EnabledListed, HealthyIffFinite is inductive alone:  *)
(* RegisterServer decides from LSML whether to create the LSCS entry, and  *)
(* ToggleServer computes the lists from the flags in LSML.  IInv joins     *)
(* them with the type invariant and with what a handler's program counter  *)
(* says of its local state.                                                *)
(*                                                                         *)
(* A Redis scan may return a key twice, so the lists may hold more than    *)
(* the enabled servers; GhostsExplained says that nothing else adds such a *)
(* name.                                                                   *)
(*                                                                         *)
(* Memory and Redis are written in separate steps.  That they agree again  *)
(* when the handlers are done is proved for the case in which the code     *)
(* provides for it: Redis answers, and the administrative requests for one *)
(* server do not overlap.  SyncInv says which handler accounts for each    *)
(* difference in between.                                                  *)
(*                                                                         *)
(* Last, the media servers' announcements: Announcement adds accounts that *)
(* come and go and posts that are lost to the load balancer.  Hiding the   *)
(* accounts leaves a behaviour of LoadBalancer, so whatever holds of the   *)
(* registry holds with the servers that announce themselves.               *)
(***************************************************************************)
EXTENDS Announcement, TLAPS, FiniteSetTheorems, WellFoundedInduction

\* A request past its first step holds an input of its kind, and a handler
\* that has read its registration still has it.
RequestsOK ==
  \A r \in Requests :
    /\ pc[r] \in {"reg_get", "reg_set", "reg_mem"} => arg[r] \in RegisterReq
    /\ pc[r] \in {"unreg_del", "unreg_mem"} => arg[r] \in UnregisterReq
    /\ pc[r] \in {"tog_get", "tog_set", "tog_mem"} => arg[r] \in ToggleReq
    /\ pc[r] \in {"find", "post"} => arg[r] \in CallReq \cup ContactReq
    /\ pc[r] \in {"reg_set", "reg_mem", "tog_set", "tog_mem", "post"} => local[r] # None

IInv == TypeOK /\ RequestsOK /\ MapsAgree /\ EnabledListed /\ HealthyIffFinite

-----------------------------------------------------------------------------
(* The list operations *)

\* A set of natural numbers that is not empty has a least element.
LEMMA LeastNumber ==
  ASSUME NEW T \in SUBSET Nat, T # {}
  PROVE  \E x \in T : \A y \in T : x <= y
<1> DEFINE R == OpToRel(<, Nat)
<1>1. IsWellFoundedOn(R, Nat)
  BY NatLessThanWellFounded
<1>2. \A x, y \in Nat : <<y, x>> \in R <=> y < x
  BY DEF OpToRel
<1> HIDE DEF R
<1>3. PICK x \in T : \A y \in T : ~(<<y, x>> \in R)
  BY <1>1, WFMin
<1>4. ASSUME NEW y \in T PROVE x <= y
  <2>1. x \in Nat /\ y \in Nat
    OBVIOUS
  <2>2. ~(y < x)
    BY <1>2, <1>3, <2>1
  <2> QED BY <2>1, <2>2
<1> QED BY <1>4

\* The search of updateIOSL stops at an occurrence of a name that is listed.
LEMMA FirstIndexLemma ==
  ASSUME NEW s \in Seq(Servers), NEW n \in Servers, IsIn(s, n)
  PROVE  FirstIndex(s, n) \in DOMAIN s /\ s[FirstIndex(s, n)] = n
<1> DEFINE T == {i \in DOMAIN s : s[i] = n}
<1>1. DOMAIN s = 1..Len(s) /\ Len(s) \in Nat
  OBVIOUS
<1>2. T # {} /\ T \in SUBSET Nat
  BY <1>1 DEF IsIn
<1>3. PICK i \in T : \A j \in T : i <= j
  BY <1>2, LeastNumber
<1>4. \A j \in 1..(i - 1) : s[j] # n
  BY <1>1, <1>3
<1> QED BY <1>3, <1>4 DEF FirstIndex

\* Removing one occurrence of a name (the slice expression of updateIOSL)
\* leaves the other names, and leaves that name only when it was repeated.
LEMMA WithoutLemma ==
  ASSUME NEW s \in Seq(Servers), NEW k \in DOMAIN s
  PROVE  /\ Without(s, k) \in Seq(Servers)
         /\ \A m \in Servers : IsIn(Without(s, k), m) => IsIn(s, m)
         /\ \A m \in Servers : IsIn(s, m) /\ m # s[k] => IsIn(Without(s, k), m)
         /\ IsIn(Without(s, k), s[k]) => Repeated(s, s[k])
         /\ \A m \in Servers : Repeated(Without(s, k), m) => Repeated(s, m)
<1> DEFINE t == Without(s, k)
           Old(i) == IF i < k THEN i ELSE i + 1
<1>1. Len(s) \in Nat /\ DOMAIN s = 1..Len(s) /\ k \in 1..Len(s)
  OBVIOUS
<1>2. t \in [1..(Len(s) - 1) -> Servers] /\ Len(s) - 1 \in Nat
  BY <1>1 DEF Without
<1>3. t \in Seq(Servers) /\ DOMAIN t = 1..(Len(s) - 1)
  BY <1>2
<1>4. \A i \in DOMAIN t : Old(i) \in DOMAIN s /\ Old(i) # k /\ t[i] = s[Old(i)]
  BY <1>1, <1>2 DEF Without
<1>5. \A i, j \in DOMAIN t : i # j => Old(i) # Old(j)
  BY <1>1, <1>2
<1>6. \A i \in DOMAIN s : i # k => \E j \in DOMAIN t : Old(j) = i
  <2> SUFFICES ASSUME NEW i \in DOMAIN s, i # k PROVE \E j \in DOMAIN t : Old(j) = i
    OBVIOUS
  <2>1. CASE i < k
    <3>1. i \in DOMAIN t /\ Old(i) = i
      BY <1>1, <1>3, <2>1
    <3> QED BY <3>1
  <2>2. CASE i > k
    <3>1. i - 1 \in DOMAIN t /\ Old(i - 1) = i
      BY <1>1, <1>3, <2>2
    <3> QED BY <3>1
  <2> QED BY <1>1, <2>1, <2>2
<1> HIDE DEF t, Old
<1>7. \A m \in Servers : IsIn(t, m) => IsIn(s, m)
  BY <1>4 DEF IsIn
<1>8. \A m \in Servers : IsIn(s, m) /\ m # s[k] => IsIn(t, m)
  BY <1>4, <1>6 DEF IsIn
<1>9. IsIn(t, s[k]) => Repeated(s, s[k])
  BY <1>4 DEF IsIn, Repeated
<1>10. \A m \in Servers : Repeated(t, m) => Repeated(s, m)
  BY <1>4, <1>5 DEF Repeated
<1> QED BY <1>3, <1>7, <1>8, <1>9, <1>10 DEF t

\* One half of updateIOSL lists an enabled name, leaves a disabled one only when
\* it was repeated, repeats no name, and leaves the other names alone.
LEMMA ListedLemma ==
  ASSUME NEW s \in Seq(Servers), NEW n \in Servers, NEW e \in BOOLEAN
  PROVE  /\ Listed(s, n, e) \in Seq(Servers)
         /\ e => IsIn(Listed(s, n, e), n)
         /\ IsIn(Listed(s, n, e), n) => e \/ Repeated(s, n)
         /\ \A m \in Servers \ {n} : IsIn(Listed(s, n, e), m) <=> IsIn(s, m)
         /\ \A m \in Servers : Repeated(Listed(s, n, e), m) => Repeated(s, m)
<1>1. CASE e /\ ~IsIn(s, n)
  <2>1. Listed(s, n, e) = Append(s, n)
    BY <1>1 DEF Listed
  <2>2. \A i \in DOMAIN s : s[i] # n
    BY <1>1 DEF IsIn
  <2>3. /\ Append(s, n) \in Seq(Servers) /\ DOMAIN Append(s, n) = 1..(Len(s) + 1)
        /\ Append(s, n)[Len(s) + 1] = n
        /\ \A i \in 1..Len(s) : Append(s, n)[i] = s[i]
        /\ DOMAIN s = 1..Len(s) /\ Len(s) \in Nat
    OBVIOUS
  <2>4. \A m \in Servers : Repeated(Append(s, n), m) => Repeated(s, m)
    BY <2>2, <2>3 DEF Repeated
  <2>5. IsIn(Append(s, n), n)
    BY <2>3 DEF IsIn
  <2>6. \A m \in Servers \ {n} : IsIn(Append(s, n), m) <=> IsIn(s, m)
    BY <2>3 DEF IsIn
  <2> QED BY <1>1, <2>1, <2>3, <2>4, <2>5, <2>6
<1>2. CASE ~e /\ IsIn(s, n)
  <2>1. FirstIndex(s, n) \in DOMAIN s /\ s[FirstIndex(s, n)] = n
    BY <1>2, FirstIndexLemma
  <2>2. Listed(s, n, e) = Without(s, FirstIndex(s, n))
    BY <1>2 DEF Listed
  <2> QED BY <1>2, <2>1, <2>2, WithoutLemma
<1>3. CASE ~(e /\ ~IsIn(s, n)) /\ ~(~e /\ IsIn(s, n))
  BY <1>3 DEF Listed
<1> QED BY <1>1, <1>2, <1>3

\* A list made from a scan has the scanned names with the flag, and no others.
LEMMA SelectionLemma ==
  ASSUME NEW scan \in Scans, NEW T \in SUBSET Servers, NEW s \in Selections(scan, T)
  PROVE  /\ s \in Seq(Servers)
         /\ \A m \in Servers : IsIn(s, m) <=> m \in T /\ IsIn(scan, m)
<1> DEFINE places == {k \in DOMAIN scan : scan[k] \in T}
<1>1. PICK n \in 0..MaxScan : scan \in [1..n -> Servers]
  BY DEF Scans
<1>2. IsFiniteSet(places) /\ Cardinality(places) \in Nat
  <2>1. IsFiniteSet(1..n) /\ places \subseteq 1..n
    BY <1>1, LBAssumption, FS_Interval
  <2>2. IsFiniteSet(places)
    BY <2>1, FS_Subset
  <2> QED BY <2>2, FS_CardinalityType
<1>3. PICK f \in [1..Cardinality(places) -> places] :
        /\ \A k \in places : \E i \in DOMAIN f : f[i] = k
        /\ s = [i \in DOMAIN f |-> scan[f[i]]]
  BY DEF Selections
<1>4. \A i \in DOMAIN f : f[i] \in DOMAIN scan /\ scan[f[i]] \in T /\ scan[f[i]] \in Servers
  BY <1>1, <1>3
<1>5. s \in [1..Cardinality(places) -> Servers]
  BY <1>3, <1>4
<1>6. s \in Seq(Servers)
  <2>1. PICK c \in Nat : c = Cardinality(places)
    BY <1>2
  <2>2. s \in [1..c -> Servers]
    BY <1>5, <2>1
  <2> QED BY <2>2
<1>7. ASSUME NEW m \in Servers, IsIn(s, m) PROVE m \in T /\ IsIn(scan, m)
  BY <1>3, <1>4, <1>7 DEF IsIn
<1>8. ASSUME NEW m \in Servers, m \in T, IsIn(scan, m) PROVE IsIn(s, m)
  <2>1. PICK k \in DOMAIN scan : scan[k] = m
    BY <1>8 DEF IsIn
  <2>2. PICK i \in DOMAIN f : f[i] = k
    BY <1>3, <1>8, <2>1
  <2> QED BY <1>3, <2>1, <2>2 DEF IsIn
<1> QED BY <1>6, <1>7, <1>8

-----------------------------------------------------------------------------
(* The inductive invariant *)

\* updateIOSL lists a server again when LSML changes at it to the flags it is
\* given, or loses it.
LEMMA UpdateLemma ==
  ASSUME TypeOK, EnabledListed, NEW n \in Servers,
         NEW inb \in BOOLEAN, NEW outb \in BOOLEAN,
         updateIOSL(n, inb, outb),
         \A m \in Servers \ {n} : LSML'[m] = LSML[m],
         (LSML'[n] # None /\ LSML'[n].inbound) <=> inb,
         (LSML'[n] # None /\ LSML'[n].outbound) <=> outb
  PROVE  /\ InboundServers' \in Seq(Servers) /\ OutboundServers' \in Seq(Servers)
         /\ EnabledListed'
<1>1. /\ InboundServers' \in Seq(Servers)
      /\ inb => IsIn(InboundServers', n)
      /\ \A m \in Servers \ {n} : IsIn(InboundServers', m) <=> IsIn(InboundServers, m)
  BY ListedLemma DEF TypeOK, updateIOSL
<1>2. /\ OutboundServers' \in Seq(Servers)
      /\ outb => IsIn(OutboundServers', n)
      /\ \A m \in Servers \ {n} : IsIn(OutboundServers', m) <=> IsIn(OutboundServers, m)
  BY ListedLemma DEF TypeOK, updateIOSL
<1>3. ASSUME NEW m \in Servers, LSML'[m] # None
      PROVE  /\ LSML'[m].inbound => IsIn(InboundServers', m)
             /\ LSML'[m].outbound => IsIn(OutboundServers', m)
  <2>1. CASE m = n  BY <2>1, <1>1, <1>2, <1>3
  <2>2. CASE m # n  BY <2>2, <1>1, <1>2, <1>3 DEF EnabledListed
  <2> QED BY <2>1, <2>2
<1>4. EnabledListed' = \A m \in Servers :
                         LSML'[m] # None => /\ LSML'[m].inbound => IsIn(InboundServers', m)
                                            /\ LSML'[m].outbound => IsIn(OutboundServers', m)
  BY DEF EnabledListed, IsIn
<1> QED BY <1>1, <1>2, <1>3, <1>4

\* Answering a request keeps the handlers' local state well formed.
LEMMA RespondLemma ==
  ASSUME TypeOK, RequestsOK, NEW r \in Requests, Respond(r)
  PROVE  /\ pc' \in [Requests -> Steps]
         /\ arg' \in [Requests -> Inputs \cup {None}]
         /\ local' \in [Requests -> Registration \cup {None}]
         /\ RequestsOK'
<1>1. /\ pc' \in [Requests -> Steps]
      /\ arg' \in [Requests -> Inputs \cup {None}]
      /\ local' \in [Requests -> Registration \cup {None}]
  BY DEF TypeOK, Respond, Steps
<1>2. RequestsOK'
  BY DEF RequestsOK, Respond, TypeOK
<1> QED BY <1>1, <1>2

\* Init: nothing is registered and no request is in flight.
LEMMA InitIInv == Init => IInv
<1> SUFFICES ASSUME Init PROVE IInv
  OBVIOUS
<1>1. TypeOK
  BY LBAssumption DEF Init, TypeOK, Steps, Media
<1>2. RequestsOK
  BY DEF Init, RequestsOK
<1>3. MapsAgree /\ HealthyIffFinite
  BY DEF Init, MapsAgree, HealthyIffFinite
<1>4. EnabledListed
  BY DEF Init, EnabledListed
<1> QED BY <1>1, <1>2, <1>3, <1>4 DEF IInv

\* The parts of IInv that only speak of the in-memory structures.
MemInv == MapsAgree /\ EnabledListed /\ HealthyIffFinite

\* A step that leaves the structures alone keeps what is said of them.
LEMMA MemUnchanged == ASSUME MemInv, UNCHANGED memory PROVE MemInv'
BY DEF MemInv, MapsAgree, EnabledListed, HealthyIffFinite, memory, IsIn

\* Steps of a handler that leave the memory alone.
LEMMA HandlerSteps ==
  ASSUME IInv, NEW r \in Requests,
         \/ Arrive(r) \/ RegisterGet(r) \/ RegisterSet(r) \/ UnregisterDel(r)
         \/ ToggleGet(r) \/ ToggleSet(r) \/ Deliver(r)
  PROVE  IInv'
<1> USE DEF IInv
<1>1. MemInv'
  <2>1. UNCHANGED memory
    BY DEF Arrive, RegisterGet, RegisterSet, UnregisterDel, ToggleGet, ToggleSet, Deliver
  <2> QED BY <2>1, MemUnchanged DEF MemInv
<1>2. CASE Arrive(r)
  <2>1. PICK a \in Inputs : /\ arg' = [arg EXCEPT ![r] = a]
                            /\ pc' = [pc EXCEPT ![r] = FirstStep[a.op]]
    BY <1>2 DEF Arrive
  <2>2. \/ a \in RegisterReq /\ FirstStep[a.op] = "reg_get"
        \/ a \in UnregisterReq /\ FirstStep[a.op] = "unreg_del"
        \/ a \in ToggleReq /\ FirstStep[a.op] = "tog_get"
        \/ a \in CallReq \cup ContactReq /\ FirstStep[a.op] = "find"
    BY LBAssumption DEF RegisterReq, UnregisterReq, ToggleReq, CallReq, ContactReq, FirstStep
  <2>3. FirstStep[a.op] \in {"reg_get", "unreg_del", "tog_get", "find"}
    BY <2>2
  <2>4. TypeOK'
    BY <1>2, <2>1, <2>3 DEF Arrive, TypeOK, Steps, memory, heartbeat
  <2>5. RequestsOK'
    BY <1>2, <2>1, <2>2 DEF Arrive, TypeOK, RequestsOK
  <2> QED BY <2>4, <2>5, <1>1 DEF MemInv
<1>3. CASE RegisterGet(r)
  <2>1. arg[r] \in RegisterReq
    BY <1>3 DEF RegisterGet, RequestsOK
  <2>2. \E reg \in Registration : local' = [local EXCEPT ![r] = reg]
    BY <1>3, <2>1, LBAssumption DEF RegisterGet, TypeOK, Registration, RegisterReq
  <2>3. TypeOK'
    BY <1>3, <2>2 DEF RegisterGet, Goto, TypeOK, Steps, memory, heartbeat
  <2>4. RequestsOK'
    BY <1>3, <2>1, <2>2, LBAssumption DEF RegisterGet, Goto, TypeOK, RequestsOK
  <2> QED BY <2>3, <2>4, <1>1 DEF MemInv
<1>4. CASE RegisterSet(r)
  <2>1. arg[r] \in RegisterReq /\ local[r] \in Registration
    BY <1>4 DEF RegisterSet, RequestsOK, TypeOK
  <2>2. redis' \in [Servers -> Registration \cup {None}]
    BY <1>4, <2>1 DEF RegisterSet, TypeOK, RegisterReq
  <2>3. CASE Respond(r)
    BY <1>1, <1>4, <2>2, <2>3, RespondLemma
       DEF RegisterSet, TypeOK, MemInv, memory, heartbeat
  <2>4. CASE Goto(r, "reg_mem") /\ UNCHANGED local
    BY <1>1, <1>4, <2>1, <2>2, <2>4
       DEF RegisterSet, Goto, TypeOK, RequestsOK, Steps, MemInv, memory, heartbeat
  <2> QED BY <1>4, <2>3, <2>4 DEF RegisterSet
<1>5. CASE UnregisterDel(r)
  <2>1. arg[r] \in UnregisterReq
    BY <1>5 DEF UnregisterDel, RequestsOK
  <2>2. redis' \in [Servers -> Registration \cup {None}]
    BY <1>5, <2>1 DEF UnregisterDel, TypeOK, UnregisterReq
  <2>3. CASE Respond(r)
    BY <1>1, <1>5, <2>2, <2>3, RespondLemma
       DEF UnregisterDel, TypeOK, MemInv, memory, heartbeat
  <2>4. CASE Goto(r, "unreg_mem") /\ UNCHANGED local
    BY <1>1, <1>5, <2>1, <2>2, <2>4
       DEF UnregisterDel, Goto, TypeOK, RequestsOK, Steps, MemInv, memory, heartbeat
  <2> QED BY <1>5, <2>3, <2>4 DEF UnregisterDel
<1>6. CASE ToggleGet(r)
  <2>1. arg[r] \in ToggleReq
    BY <1>6 DEF ToggleGet, RequestsOK
  <2>2. CASE Respond(r)
    BY <1>1, <1>6, <2>2, RespondLemma DEF ToggleGet, TypeOK, MemInv, memory, heartbeat
  <2>3. CASE ~Respond(r)
    <3>1. \E reg \in Registration : local' = [local EXCEPT ![r] = reg]
      BY <1>6, <2>1, <2>3 DEF ToggleGet, TypeOK, Toggled, ToggleReq, Registration
    <3>2. Goto(r, "tog_set")
      BY <1>6, <2>3 DEF ToggleGet
    <3>3. TypeOK'
      BY <1>6, <3>1, <3>2 DEF ToggleGet, Goto, TypeOK, Steps, memory, heartbeat
    <3>4. RequestsOK'
      BY <2>1, <3>1, <3>2, LBAssumption DEF Goto, TypeOK, RequestsOK
    <3> QED BY <3>3, <3>4, <1>1 DEF MemInv
  <2> QED BY <2>2, <2>3
<1>7. CASE ToggleSet(r)
  <2>1. arg[r] \in ToggleReq /\ local[r] \in Registration
    BY <1>7 DEF ToggleSet, RequestsOK, TypeOK
  <2>2. redis' \in [Servers -> Registration \cup {None}]
    BY <1>7, <2>1 DEF ToggleSet, TypeOK, ToggleReq
  <2> QED
    BY <1>1, <1>7, <2>1, <2>2
       DEF ToggleSet, Goto, TypeOK, RequestsOK, Steps, MemInv, memory, heartbeat
<1>8. CASE Deliver(r)
  <2>1. local[r] \in Registration
    BY <1>8 DEF Deliver, RequestsOK, TypeOK
  <2>2. media' \in [Hosts -> Media]
    <3> DEFINE h == local[r].host
    <3>1. h \in Hosts /\ media[h] \in Media
      BY <2>1 DEF Registration, TypeOK
    <3>2. media[h].calls \in 0..MaxLoad
      BY <3>1 DEF Media
    <3>3. CASE UNCHANGED media
      BY <3>3 DEF TypeOK
    <3>4. CASE /\ media[h].calls < IF arg[r].op = "contact" THEN MaxLoad ELSE MaxCalls
               /\ media' = [media EXCEPT ![h] = [up |-> TRUE, calls |-> @.calls + 1]]
      <4>1. media[h].calls + 1 \in 0..MaxLoad
        BY <3>2, <3>4, LBAssumption
      <4>2. [up |-> TRUE, calls |-> media[h].calls + 1] \in Media
        BY <4>1 DEF Media
      <4> QED BY <3>1, <3>4, <4>2 DEF TypeOK
    <3> QED BY <1>8, <3>3, <3>4 DEF Deliver
  <2> QED
    BY <1>1, <1>8, <2>2, RespondLemma DEF Deliver, TypeOK, MemInv, memory, heartbeat
<1> QED BY <1>2, <1>3, <1>4, <1>5, <1>6, <1>7, <1>8

\* RegisterServer, UnregisterServer and ToggleServer, each run under the
\* write lock by a handler that then answers.
LEMMA MemorySteps ==
  ASSUME IInv, NEW r \in Requests, RegisterMem(r) \/ UnregisterMem(r) \/ ToggleMem(r)
  PROVE  IInv'
<1> USE DEF IInv
<1> DEFINE n == arg[r].name
<1>1. /\ pc' \in [Requests -> Steps]
      /\ arg' \in [Requests -> Inputs \cup {None}]
      /\ local' \in [Requests -> Registration \cup {None}]
      /\ RequestsOK'
  BY RespondLemma DEF RegisterMem, UnregisterMem, ToggleMem
<1>2. n \in Servers /\ LSML[n] \in Metadata \cup {None} /\ LSCS[n] \in 0..INF \cup {None}
  BY DEF RegisterMem, UnregisterMem, ToggleMem, RequestsOK, TypeOK,
         RegisterReq, UnregisterReq, ToggleReq
<1>3. CASE RegisterMem(r)
  <2>1. local[r] \in Registration
    BY <1>3 DEF RegisterMem, RequestsOK, TypeOK
  <2> DEFINE meta == Meta(local[r], IF LSML[n] # None THEN LSML[n].health ELSE "unknown")
             count == IF LSML[n] # None THEN LSCS[n] ELSE INF
  <2>2. /\ LSML' = [LSML EXCEPT ![n] = meta] /\ LSCS' = [LSCS EXCEPT ![n] = count]
        /\ updateIOSL(n, local[r].inbound, local[r].outbound)
    BY <1>3 DEF RegisterMem, RegisterServer
  <2>3. /\ meta \in Metadata /\ meta # None
        /\ meta.inbound = local[r].inbound /\ meta.outbound = local[r].outbound
        /\ meta.health = IF LSML[n] # None THEN LSML[n].health ELSE "unknown"
    BY <2>1, <1>2, LBAssumption DEF Meta, Metadata, Registration
  <2>4. count \in 0..INF /\ count # None /\ (meta.health = "healthy" <=> count # INF)
    BY <1>2, <2>3, LBAssumption DEF MapsAgree, HealthyIffFinite, INF
  <2>5. local[r].inbound \in BOOLEAN /\ local[r].outbound \in BOOLEAN
    BY <2>1 DEF Registration
  <2> HIDE DEF meta, count, n
  <2>6. /\ LSML'[n] = meta /\ \A m \in Servers \ {n} : LSML'[m] = LSML[m]
        /\ LSCS'[n] = count /\ \A m \in Servers \ {n} : LSCS'[m] = LSCS[m]
        /\ LSML' \in [Servers -> Metadata \cup {None}]
        /\ LSCS' \in [Servers -> 0..INF \cup {None}]
    BY <1>2, <2>2, <2>3, <2>4 DEF TypeOK
  <2>7. /\ InboundServers' \in Seq(Servers) /\ OutboundServers' \in Seq(Servers)
        /\ EnabledListed'
    BY <1>2, <2>2, <2>3, <2>5, <2>6, UpdateLemma
  <2>8. MapsAgree' /\ HealthyIffFinite'
    BY <1>2, <2>3, <2>4, <2>6 DEF MapsAgree, HealthyIffFinite
  <2>9. TypeOK'
    BY <1>1, <1>3, <2>6, <2>7 DEF TypeOK, RegisterMem, heartbeat
  <2> QED BY <1>1, <2>7, <2>8, <2>9
<1>4. CASE UnregisterMem(r)
  <2>1. /\ LSML' = [LSML EXCEPT ![n] = None] /\ LSCS' = [LSCS EXCEPT ![n] = None]
        /\ updateIOSL(n, FALSE, FALSE)
    BY <1>4 DEF UnregisterMem, UnregisterServer
  <2> HIDE DEF n
  <2>2. /\ LSML'[n] = None /\ \A m \in Servers \ {n} : LSML'[m] = LSML[m]
        /\ LSCS'[n] = None /\ \A m \in Servers \ {n} : LSCS'[m] = LSCS[m]
        /\ LSML' \in [Servers -> Metadata \cup {None}]
        /\ LSCS' \in [Servers -> 0..INF \cup {None}]
    BY <1>2, <2>1 DEF TypeOK
  <2>3. /\ InboundServers' \in Seq(Servers) /\ OutboundServers' \in Seq(Servers)
        /\ EnabledListed'
    BY <1>2, <2>1, <2>2, UpdateLemma
  <2>4. MapsAgree' /\ HealthyIffFinite'
    BY <1>2, <2>2 DEF MapsAgree, HealthyIffFinite
  <2>5. TypeOK'
    BY <1>1, <1>4, <2>2, <2>3 DEF TypeOK, UnregisterMem, heartbeat
  <2> QED BY <1>1, <2>3, <2>4, <2>5
<1>5. CASE ToggleMem(r)
  <2>1. CASE UNCHANGED memory
    BY <1>1, <1>5, <2>1, MemUnchanged DEF MemInv, TypeOK, ToggleMem, memory, heartbeat
  <2>2. CASE ~UNCHANGED memory
    <3> DEFINE reg == [host |-> LSML[n].host,
                       inbound |-> Toggled(arg[r].inbound, LSML[n].inbound),
                       outbound |-> Toggled(arg[r].outbound, LSML[n].outbound)]
               meta == Meta(reg, LSML[n].health)
    <3>1. /\ LSML[n] # None /\ LSML' = [LSML EXCEPT ![n] = meta]
          /\ updateIOSL(n, reg.inbound, reg.outbound)
          /\ LSCS' = LSCS
      BY <1>5, <2>2 DEF ToggleMem, ToggleServer
    <3>2. reg \in Registration
      BY <1>2, <1>5, <3>1
         DEF ToggleMem, RequestsOK, ToggleReq, Toggled, Metadata, Registration
    <3>3. reg.inbound \in BOOLEAN /\ reg.outbound \in BOOLEAN
      BY <3>2 DEF Registration
    <3>4. /\ meta \in Metadata /\ meta # None
          /\ meta.inbound = reg.inbound /\ meta.outbound = reg.outbound
          /\ meta.health = LSML[n].health
      BY <1>2, <3>1, <3>2, LBAssumption DEF Meta, Metadata, Registration
    <3> HIDE DEF reg, meta, n
    <3>5. /\ LSML'[n] = meta /\ \A m \in Servers \ {n} : LSML'[m] = LSML[m]
          /\ LSML' \in [Servers -> Metadata \cup {None}]
      BY <1>2, <3>1, <3>4 DEF TypeOK
    <3>6. /\ InboundServers' \in Seq(Servers) /\ OutboundServers' \in Seq(Servers)
          /\ EnabledListed'
      BY <1>2, <3>1, <3>3, <3>4, <3>5, UpdateLemma
    <3>7. MapsAgree' /\ HealthyIffFinite'
      BY <1>2, <3>1, <3>4, <3>5 DEF MapsAgree, HealthyIffFinite
    <3>8. TypeOK'
      BY <1>1, <1>5, <3>1, <3>5, <3>6 DEF TypeOK, ToggleMem, heartbeat
    <3> QED BY <1>1, <3>6, <3>7, <3>8
  <2> QED BY <2>1, <2>2
<1> QED BY <1>3, <1>4, <1>5

\* Routing: the optimistic increment of one finite count.
LEMMA FindStep == ASSUME IInv, NEW r \in Requests, Find(r) PROVE IInv'
<1> USE DEF IInv
<1>1. CASE Respond(r) /\ UNCHANGED LSCS
  <2>1. UNCHANGED memory
    BY <1>1 DEF Find, memory
  <2> QED BY <1>1, <2>1, MemUnchanged, RespondLemma DEF Find, MemInv, TypeOK, memory, heartbeat
<1>2. CASE \E n \in Servers :
             /\ LSCS[n] \in 0..(MaxCount - 1) /\ LSML[n] # None
             /\ LSCS' = [LSCS EXCEPT ![n] = @ + 1]
             /\ local' = [local EXCEPT ![r] =
                            [host |-> LSML[n].host, inbound |-> LSML[n].inbound,
                             outbound |-> LSML[n].outbound]]
             /\ Goto(r, "post")
  <2>1. PICK n \in Servers :
             /\ LSCS[n] \in 0..(MaxCount - 1) /\ LSML[n] # None
             /\ LSCS' = [LSCS EXCEPT ![n] = @ + 1]
             /\ local' = [local EXCEPT ![r] =
                            [host |-> LSML[n].host, inbound |-> LSML[n].inbound,
                             outbound |-> LSML[n].outbound]]
             /\ Goto(r, "post")
    BY <1>2
  <2>2. /\ LSCS'[n] = LSCS[n] + 1 /\ \A m \in Servers \ {n} : LSCS'[m] = LSCS[m]
        /\ LSCS[n] + 1 \in 0..MaxCount
    BY <2>1, LBAssumption DEF TypeOK
  <2>3. UNCHANGED <<LSML, InboundServers, OutboundServers>>
    BY DEF Find
  <2>4. LSCS' \in [Servers -> 0..INF \cup {None}]
    BY <2>1, <2>2, LBAssumption DEF TypeOK, INF
  <2>5. MapsAgree' /\ HealthyIffFinite'
    BY <2>1, <2>2, <2>3, LBAssumption DEF MapsAgree, HealthyIffFinite, INF
  <2>6. EnabledListed'
    BY <2>3 DEF EnabledListed, IsIn
  <2>7. \E reg \in Registration : local' = [local EXCEPT ![r] = reg]
    BY <2>1 DEF TypeOK, Metadata, Registration
  <2>8. TypeOK'
    BY <2>1, <2>3, <2>4, <2>7 DEF Find, Goto, TypeOK, Steps, heartbeat
  <2>9. RequestsOK'
    BY <2>1, <2>7, LBAssumption DEF Find, Goto, TypeOK, RequestsOK
  <2> QED BY <2>5, <2>6, <2>8, <2>9
<1>3. \A n \in Candidates(arg[r]) : n \in Servers /\ LSCS[n] \in 0..MaxCount /\ LSML[n] # None
  <2>1. arg[r] \in CallReq \cup ContactReq
    BY DEF Find, RequestsOK
  <2>2. ASSUME NEW list \in Seq(Servers), NEW n \in Lowest(list)
        PROVE  n \in Servers /\ LSCS[n] \notin {None, INF}
    BY <2>2 DEF Lowest
  <2>3. ASSUME NEW t \in Types, NEW n \in OfType(t)
        PROVE  n \in Servers /\ LSCS[n] \notin {None, INF}
    BY <2>3, LBAssumption DEF OfType
  <2>4. ASSUME NEW n \in Candidates(arg[r])
        PROVE  n \in Servers /\ LSCS[n] \notin {None, INF}
    BY <2>1, <2>2, <2>3, <2>4 DEF Candidates, CallReq, ContactReq, TypeOK
  <2>5. ASSUME NEW n \in Servers, LSCS[n] \notin {None, INF}
        PROVE  LSCS[n] \in 0..MaxCount /\ LSML[n] # None
    BY <2>5, LBAssumption DEF TypeOK, INF, MapsAgree
  <2> QED BY <2>4, <2>5
<1>4. QED
  BY <1>1, <1>2, <1>3, LBAssumption DEF Find

\* The heartbeat round: snapshot, probes, and the results under the lock.
LEMMA HeartbeatSteps ==
  ASSUME IInv, \/ HeartbeatSnapshot \/ HeartbeatApply
               \/ \E n \in Servers : Probe(n)
  PROVE  IInv'
<1> USE DEF IInv
<1>1. RequestsOK'
  BY DEF HeartbeatSnapshot, HeartbeatApply, Probe, RequestsOK, requests
<1>2. CASE HeartbeatSnapshot
  <2>1. hbTarget' \in [Servers -> Hosts \cup {None}]
    BY <1>2 DEF HeartbeatSnapshot, TypeOK, Metadata
  <2> QED BY <1>1, <1>2, <2>1, MemUnchanged
          DEF HeartbeatSnapshot, MemInv, TypeOK, memory, requests
<1>3. CASE \E n \in Servers : Probe(n)
  <2>1. PICK n \in Servers : Probe(n)
    BY <1>3
  <2>2. hbTarget[n] \in Hosts /\ media[hbTarget[n]].calls \in 0..MaxLoad
    BY <2>1 DEF Probe, Healthy, TypeOK, Media
  <2> DEFINE good == [ok |-> TRUE, calls |-> media[hbTarget[n]].calls]
             bad == [ok |-> FALSE, calls |-> 0]
  <2>a. good \in Reply /\ bad \in Reply
    BY <2>2, LBAssumption DEF Reply
  <2>b. hbReply' = [hbReply EXCEPT ![n] = good] \/ hbReply' = [hbReply EXCEPT ![n] = bad]
    BY <2>1 DEF Probe, Healthy
  <2> HIDE DEF good, bad
  <2>3. \E reply \in Reply : hbReply' = [hbReply EXCEPT ![n] = reply]
    BY <2>a, <2>b
  <2> QED BY <1>1, <2>1, <2>3, MemUnchanged DEF Probe, Healthy, MemInv, TypeOK, memory, requests
<1>4. CASE HeartbeatApply
  <2> DEFINE updated == {n \in Targets : LSML[n] # None}
  <2>1. ASSUME NEW n \in Servers
        PROVE  \/ LSML'[n] = LSML[n] /\ LSCS'[n] = LSCS[n]
               \/ /\ LSML[n] \in Metadata
                  /\ LSML'[n] = Meta(LSML[n], "healthy") /\ LSCS'[n] \in 0..MaxLoad
               \/ /\ LSML[n] \in Metadata
                  /\ LSML'[n] = Meta(LSML[n], "unhealthy") /\ LSCS'[n] = INF
    <3>1. CASE n \notin updated
      BY <1>4, <3>1 DEF HeartbeatApply
    <3>2. CASE n \in updated
      <4>1. hbReply[n] \in Reply /\ LSML[n] \in Metadata
        BY <1>4, <3>2 DEF HeartbeatApply, Targets, TypeOK
      <4>2. hbReply[n].ok \in BOOLEAN /\ hbReply[n].calls \in 0..MaxLoad
        BY <4>1 DEF Reply
      <4>3. /\ LSML'[n] = Meta(LSML[n], IF hbReply[n].ok THEN "healthy" ELSE "unhealthy")
            /\ LSCS'[n] = IF hbReply[n].ok THEN hbReply[n].calls ELSE INF
        BY <1>4, <3>2 DEF HeartbeatApply
      <4> QED BY <4>1, <4>2, <4>3
    <3> QED BY <3>1, <3>2
  <2>2. ASSUME NEW meta \in Metadata, NEW health \in {"healthy", "unhealthy"}
        PROVE  /\ Meta(meta, health) \in Metadata /\ Meta(meta, health) # None
               /\ Meta(meta, health).health = health
               /\ Meta(meta, health).inbound = meta.inbound
               /\ Meta(meta, health).outbound = meta.outbound
    BY <2>2, LBAssumption DEF Meta, Metadata
  <2>3. INF \in Nat /\ None \notin 0..INF /\ \A c \in 0..MaxLoad : c \in 0..INF /\ c # INF
    BY LBAssumption DEF INF
  <2>4. ASSUME NEW n \in Servers
        PROVE  /\ LSML'[n] \in Metadata \cup {None} /\ LSCS'[n] \in 0..INF \cup {None}
               /\ LSML'[n] # None <=> LSCS'[n] # None
               /\ LSML'[n] # None => (LSML'[n].health = "healthy" <=> LSCS'[n] # INF)
               /\ (LSML'[n] # None /\ LSML'[n].inbound) <=> (LSML[n] # None /\ LSML[n].inbound)
               /\ (LSML'[n] # None /\ LSML'[n].outbound) <=> (LSML[n] # None /\ LSML[n].outbound)
    <3>1. CASE LSML'[n] = LSML[n] /\ LSCS'[n] = LSCS[n]
      BY <3>1 DEF TypeOK, MapsAgree, HealthyIffFinite
    <3>2. CASE /\ LSML[n] \in Metadata
               /\ LSML'[n] = Meta(LSML[n], "healthy") /\ LSCS'[n] \in 0..MaxLoad
      BY <2>2, <2>3, <3>2, LBAssumption
    <3>3. CASE /\ LSML[n] \in Metadata
               /\ LSML'[n] = Meta(LSML[n], "unhealthy") /\ LSCS'[n] = INF
      BY <2>2, <2>3, <3>3, LBAssumption
    <3> QED BY <2>1, <3>1, <3>2, <3>3
  <2>5. /\ LSML' \in [Servers -> Metadata \cup {None}]
        /\ LSCS' \in [Servers -> 0..INF \cup {None}]
        /\ hbTarget' \in [Servers -> Hosts \cup {None}]
        /\ hbReply' \in [Servers -> Reply \cup {None}]
    BY <1>4, <2>4 DEF HeartbeatApply
  <2>6. MapsAgree' /\ HealthyIffFinite'
    BY <2>4 DEF MapsAgree, HealthyIffFinite
  <2>7. EnabledListed'
    BY <1>4, <2>4 DEF HeartbeatApply, EnabledListed, IsIn
  <2>8. TypeOK'
    BY <1>4, <2>5 DEF HeartbeatApply, TypeOK, requests
  <2> QED BY <1>1, <2>6, <2>7, <2>8
<1> QED BY <1>2, <1>3, <1>4

\* A restart rebuilds consistent structures from whatever it could read.
LEMMA RestartStep == ASSUME IInv, Restart PROVE IInv'
<1> USE DEF IInv
<1> DEFINE On(scan) == {n \in Servers : IsIn(scan, n)}
<1>1. PICK scan \in Scans : Load(scan) /\ \A n \in Servers : IsIn(scan, n) => redis[n] # None
  BY DEF Restart
<1> DEFINE loaded == On(scan)
<1>2. \A n \in loaded : n \in Servers /\ redis[n] \in Registration
  BY <1>1 DEF TypeOK
<1>3. ASSUME NEW n \in loaded
      PROVE  /\ LSML'[n] \in Metadata /\ LSML'[n] # None
             /\ LSML'[n].health = "unknown"
             /\ LSML'[n].inbound = redis[n].inbound /\ LSML'[n].outbound = redis[n].outbound
             /\ redis[n].inbound \in BOOLEAN /\ redis[n].outbound \in BOOLEAN
             /\ LSCS'[n] = INF
  <2>1. redis[n] \in Registration /\ LSML'[n] = Meta(redis[n], "unknown") /\ LSCS'[n] = INF
    BY <1>1, <1>2 DEF Load
  <2> QED BY <2>1, LBAssumption DEF Meta, Metadata, Registration
<1>4. \A n \in Servers \ loaded : LSML'[n] = None /\ LSCS'[n] = None
  BY <1>1 DEF Load
<1>5. /\ InboundServers' \in Seq(Servers)
      /\ \A m \in loaded : redis[m].inbound => IsIn(InboundServers', m)
  <2> DEFINE T == {n \in Servers : redis[n] # None /\ redis[n].inbound}
  <2>1. T \in SUBSET Servers /\ InboundServers' \in Selections(scan, T)
    BY <1>1 DEF Load
  <2>2. \A m \in loaded : redis[m].inbound => m \in T /\ IsIn(scan, m) /\ m \in Servers
    BY <1>1
  <2> HIDE DEF T, loaded
  <2>3. /\ InboundServers' \in Seq(Servers)
        /\ \A m \in Servers : IsIn(InboundServers', m) <=> m \in T /\ IsIn(scan, m)
    BY <2>1, SelectionLemma
  <2> QED BY <2>2, <2>3
<1>6. /\ OutboundServers' \in Seq(Servers)
      /\ \A m \in loaded : redis[m].outbound => IsIn(OutboundServers', m)
  <2> DEFINE T == {n \in Servers : redis[n] # None /\ redis[n].outbound}
  <2>1. T \in SUBSET Servers /\ OutboundServers' \in Selections(scan, T)
    BY <1>1 DEF Load
  <2>2. \A m \in loaded : redis[m].outbound => m \in T /\ IsIn(scan, m) /\ m \in Servers
    BY <1>1
  <2> HIDE DEF T, loaded
  <2>3. /\ OutboundServers' \in Seq(Servers)
        /\ \A m \in Servers : IsIn(OutboundServers', m) <=> m \in T /\ IsIn(scan, m)
    BY <2>1, SelectionLemma
  <2> QED BY <2>2, <2>3
<1>7. INF \in Nat /\ None \notin 0..INF
  BY LBAssumption DEF INF
<1>8. /\ LSML' \in [Servers -> Metadata \cup {None}]
      /\ LSCS' \in [Servers -> 0..INF \cup {None}]
  <2>1. DOMAIN LSML' = Servers /\ DOMAIN LSCS' = Servers
    BY <1>1 DEF Load
  <2>2. ASSUME NEW n \in Servers
        PROVE  LSML'[n] \in Metadata \cup {None} /\ LSCS'[n] \in 0..INF \cup {None}
    BY <1>3, <1>4, <1>7
  <2>3. /\ LSML' = [n \in Servers |-> LSML'[n]] /\ LSCS' = [n \in Servers |-> LSCS'[n]]
    BY <1>1, <2>1 DEF Load
  <2> QED BY <2>2, <2>3
<1>9. MapsAgree' /\ HealthyIffFinite'
  BY <1>3, <1>4, <1>7 DEF MapsAgree, HealthyIffFinite
<1>10. EnabledListed'
  <2>1. ASSUME NEW m \in Servers, LSML'[m] # None
        PROVE  /\ LSML'[m].inbound => IsIn(InboundServers', m)
               /\ LSML'[m].outbound => IsIn(OutboundServers', m)
    BY <1>3, <1>4, <1>5, <1>6, <2>1
  <2> QED BY <2>1 DEF EnabledListed, IsIn
<1>11. RequestsOK'
  BY DEF Restart, NoRequests, RequestsOK
<1>12. TypeOK'
  BY <1>1, <1>5, <1>6, <1>8 DEF Restart, NoRequests, TypeOK, Steps
<1> QED BY <1>9, <1>10, <1>11, <1>12

\* The media servers' own steps.
LEMMA MediaSteps ==
  ASSUME IInv, NEW h \in Hosts, CallEnds(h) \/ HostFlips(h)
  PROVE  IInv'
<1> USE DEF IInv
<1>1. media[h].up \in BOOLEAN /\ media[h].calls \in 0..MaxLoad
  BY DEF TypeOK, Media
<1>2. CASE CallEnds(h)
  <2>1. [up |-> TRUE, calls |-> media[h].calls - 1] \in Media
    BY <1>1, <1>2, LBAssumption DEF CallEnds, Media
  <2>2. media' \in [Hosts -> Media]
    BY <1>2, <2>1 DEF CallEnds, TypeOK
  <2> QED BY <1>2, <2>2, MemUnchanged
          DEF CallEnds, MemInv, TypeOK, RequestsOK, memory, requests, heartbeat
<1>3. CASE HostFlips(h)
  <2>1. [up |-> ~media[h].up, calls |-> 0] \in Media
    BY <1>1, LBAssumption DEF Media
  <2>2. media' \in [Hosts -> Media]
    BY <1>3, <2>1 DEF HostFlips, TypeOK
  <2> QED BY <1>3, <2>2, MemUnchanged
          DEF HostFlips, MemInv, TypeOK, RequestsOK, memory, requests, heartbeat
<1> QED BY <1>2, <1>3

\* Every handler step, heartbeat step and restart keeps the invariant.
LEMMA NextIInv == IInv /\ [Next]_vars => IInv'
<1> SUFFICES ASSUME IInv, [Next]_vars PROVE IInv'
  OBVIOUS
<1>1. CASE UNCHANGED vars
  BY <1>1, MemUnchanged
     DEF IInv, MemInv, vars, memory, requests, heartbeat, TypeOK, RequestsOK
<1>2. ASSUME NEW r \in Requests, Arrive(r) \/ Handle(r) PROVE IInv'
  BY <1>2, HandlerSteps, MemorySteps, FindStep DEF Handle
<1>3. CASE HeartbeatSnapshot \/ HeartbeatApply \/ \E n \in Servers : Probe(n)
  BY <1>3, HeartbeatSteps
<1>4. CASE Restart
  BY <1>4, RestartStep
<1>5. ASSUME NEW h \in Hosts, CallEnds(h) \/ HostFlips(h) PROVE IInv'
  BY <1>5, MediaSteps
<1> QED BY <1>1, <1>2, <1>3, <1>4, <1>5 DEF Next

-----------------------------------------------------------------------------
(* Results *)

\* In every reachable state all variables have their types and the handlers'
\* local state fits their program counters.
THEOREM TypeCorrect == Spec => []TypeOK
<1>1. Spec => []IInv
  BY InitIInv, NextIInv, PTL DEF Spec
<1>2. IInv => TypeOK
  BY DEF IInv
<1> QED BY <1>1, <1>2, PTL

\* LSML and LSCS always have the same servers, no enabled server is missing from
\* the lists of IOSL, and health and count agree, whatever handlers, heartbeat
\* rounds, Redis failures, restarts and repeated scan keys interleave.
THEOREM MemoryConsistent == Spec => []StructuresAgree
<1>1. Spec => []IInv
  BY InitIInv, NextIInv, PTL DEF Spec
<1>2. IInv => StructuresAgree
  BY DEF IInv, StructuresAgree
<1> QED BY <1>1, <1>2, PTL

\* The server a search over a list returns has the smallest count of all the
\* listed servers that have one.
LEMMA LowestLemma ==
  ASSUME NEW list \in Seq(Servers), NEW n \in Lowest(list)
  PROVE  /\ n \in Servers /\ IsIn(list, n) /\ LSCS[n] \notin {None, INF}
         /\ \A m \in Servers : IsIn(list, m) /\ LSCS[m] # None => LSCS[n] <= LSCS[m]
BY DEF Lowest, IsIn

\* Every call is routed to a registered and healthy server, eligible unless a
\* repeated scan key left its name in the list, and with no more calls than
\* any eligible one unless the client asked for a type.
THEOREM RoutingCorrect == Spec => RoutesToLeastLoaded
<1> DEFINE Chosen(a, n) ==
             \/ Eligible(a, n)
             \/ a.op = "contact" /\ InboundGhost(n)
             \/ a.op = "call" /\ a.type = None /\ OutboundGhost(n)
           Good(r, n) ==
             (pc[r] = "find" /\ pc'[r] = "post" /\ LSCS'[n] # LSCS[n]) =>
               /\ LSML[n] # None /\ LSML[n].health = "healthy"
               /\ Chosen(arg[r], n)
               /\ (arg[r].op = "contact" \/ arg[r].type = None) =>
                    \A m \in Servers : Eligible(arg[r], m) => LSCS[n] <= LSCS[m]
<1>1. ASSUME IInv, [Next]_vars, NEW r \in Requests, NEW n \in Servers,
             pc[r] = "find", pc'[r] = "post", LSCS'[n] # LSCS[n]
      PROVE  Find(r) /\ n \in Candidates(arg[r])
  <2> USE DEF IInv
  <2>1. Find(r)
    <3>1. ASSUME NEW q \in Requests, Handle(q), q # r PROVE FALSE
      BY <1>1, <3>1
         DEF Handle, TypeOK, RegisterGet, RegisterSet, RegisterMem, UnregisterDel,
             UnregisterMem, ToggleGet, ToggleSet, ToggleMem, Find, Deliver, Respond, Goto
    <3>2. ASSUME NEW q \in Requests, Arrive(q) PROVE FALSE
      BY <1>1, <3>2 DEF Arrive, memory
    <3>3. Handle(r) => Find(r)
      BY <1>1 DEF Handle, RegisterGet, RegisterSet, RegisterMem, UnregisterDel,
                  UnregisterMem, ToggleGet, ToggleSet, ToggleMem, Deliver
    <3>4. ~UNCHANGED pc
      BY <1>1
    <3>5. ~(UNCHANGED vars) /\ ~HeartbeatSnapshot /\ ~HeartbeatApply
          /\ ~(\E m \in Servers : Probe(m)) /\ ~(\E h \in Hosts : CallEnds(h) \/ HostFlips(h))
      BY <3>4 DEF vars, requests, HeartbeatSnapshot, HeartbeatApply, Probe, CallEnds, HostFlips
    <3>6. ~Restart
      BY <1>1 DEF Restart, NoRequests
    <3> QED BY <1>1, <3>1, <3>2, <3>3, <3>5, <3>6 DEF Next
  <2>2. n \in Candidates(arg[r])
    BY <1>1, <2>1 DEF Find, TypeOK
  <2> QED BY <2>1, <2>2
<1>2. ASSUME IInv, NEW r \in Requests, NEW n \in Servers,
             Find(r), n \in Candidates(arg[r])
      PROVE  /\ LSML[n] # None /\ LSML[n].health = "healthy"
             /\ Chosen(arg[r], n)
             /\ (arg[r].op = "contact" \/ arg[r].type = None) =>
                  \A m \in Servers : Eligible(arg[r], m) => LSCS[n] <= LSCS[m]
  <2> USE <1>2 DEF IInv
  <2>1. arg[r] \in CallReq \cup ContactReq
    BY DEF Find, RequestsOK
  <2>2. ASSUME LSCS[n] \notin {None, INF} PROVE LSML[n] # None /\ LSML[n].health = "healthy"
    BY <2>2 DEF MapsAgree, HealthyIffFinite
  <2>3. CASE arg[r] \in ContactReq
    <3>1. arg[r].op = "contact" /\ n \in Lowest(InboundServers)
      BY <2>3 DEF ContactReq, Candidates
    <3>2. \A m \in Servers : Eligible(arg[r], m) => IsIn(InboundServers, m) /\ LSCS[m] # None
      BY <3>1 DEF Eligible, EnabledListed, MapsAgree
    <3>3. InboundServers \in Seq(Servers)
      BY DEF TypeOK
    <3>4. IsIn(InboundServers, n) /\ LSCS[n] \notin {None, INF}
      BY <3>1, <3>3, LowestLemma
    <3>5. Chosen(arg[r], n)
      BY <3>1, <3>4 DEF Eligible, InboundGhost
    <3>6. \A m \in Servers : Eligible(arg[r], m) => LSCS[n] <= LSCS[m]
      BY <3>1, <3>2, <3>3, LowestLemma
    <3> QED BY <2>2, <3>4, <3>5, <3>6
  <2>4. CASE arg[r] \in CallReq /\ arg[r].type # None
    <3>1. arg[r].op = "call" /\ n \in OfType(arg[r].type)
      BY <2>4 DEF CallReq, Candidates
    <3> QED BY <2>2, <2>4, <3>1 DEF OfType, Eligible
  <2>5. CASE arg[r] \in CallReq /\ arg[r].type = None
    <3>1. arg[r].op = "call" /\ n \in Lowest(OutboundServers)
      BY <2>5 DEF CallReq, Candidates
    <3>2. \A m \in Servers : Eligible(arg[r], m) => IsIn(OutboundServers, m) /\ LSCS[m] # None
      BY <2>5, <3>1 DEF Eligible, EnabledListed, MapsAgree
    <3>3. OutboundServers \in Seq(Servers)
      BY DEF TypeOK
    <3>4. IsIn(OutboundServers, n) /\ LSCS[n] \notin {None, INF}
      BY <3>1, <3>3, LowestLemma
    <3>5. Chosen(arg[r], n)
      BY <2>5, <3>1, <3>4 DEF Eligible, OutboundGhost
    <3>6. \A m \in Servers : Eligible(arg[r], m) => LSCS[n] <= LSCS[m]
      BY <3>1, <3>2, <3>3, LowestLemma
    <3> QED BY <2>2, <3>4, <3>5, <3>6
  <2> QED BY <2>1, <2>3, <2>4, <2>5
<1>3. IInv /\ [Next]_vars => [\A r \in Requests, n \in Servers : Good(r, n)]_vars
  BY <1>1, <1>2
<1>4. Spec => []IInv
  BY InitIInv, NextIInv, PTL DEF Spec
<1> QED BY <1>3, <1>4, PTL DEF Spec, RoutesToLeastLoaded

\* updateIOSL repeats no name, and leaves the name of a server that is now
\* disabled or gone only when it was repeated.
LEMMA UpdateGhosts ==
  ASSUME TypeOK, NEW n \in Servers, NEW inb \in BOOLEAN, NEW outb \in BOOLEAN,
         updateIOSL(n, inb, outb),
         \A m \in Servers \ {n} : LSML'[m] = LSML[m],
         inb => (LSML'[n] # None /\ LSML'[n].inbound),
         outb => (LSML'[n] # None /\ LSML'[n].outbound),
         NEW m \in Servers
  PROVE  /\ Repeated(InboundServers', m) => Repeated(InboundServers, m)
         /\ Repeated(OutboundServers', m) => Repeated(OutboundServers, m)
         /\ InboundGhost(m)' => InboundGhost(m) \/ Repeated(InboundServers, m)
         /\ OutboundGhost(m)' => OutboundGhost(m) \/ Repeated(OutboundServers, m)
<1>1. /\ IsIn(InboundServers', n) => inb \/ Repeated(InboundServers, n)
      /\ \A k \in Servers \ {n} : IsIn(InboundServers', k) <=> IsIn(InboundServers, k)
      /\ Repeated(InboundServers', m) => Repeated(InboundServers, m)
  BY ListedLemma DEF TypeOK, updateIOSL
<1>2. /\ IsIn(OutboundServers', n) => outb \/ Repeated(OutboundServers, n)
      /\ \A k \in Servers \ {n} : IsIn(OutboundServers', k) <=> IsIn(OutboundServers, k)
      /\ Repeated(OutboundServers', m) => Repeated(OutboundServers, m)
  BY ListedLemma DEF TypeOK, updateIOSL
<1>3. /\ InboundGhost(m)' <=> IsIn(InboundServers', m) /\ ~(LSML'[m] # None /\ LSML'[m].inbound)
      /\ OutboundGhost(m)' <=> IsIn(OutboundServers', m) /\ ~(LSML'[m] # None /\ LSML'[m].outbound)
  BY DEF InboundGhost, OutboundGhost, IsIn
<1>4. CASE m = n
  BY <1>1, <1>2, <1>3, <1>4
<1>5. CASE m # n
  BY <1>1, <1>2, <1>3, <1>5 DEF InboundGhost, OutboundGhost
<1> QED BY <1>4, <1>5

\* A name that is listed twice, or listed for a server that is disabled or gone,
\* goes back to a scan that returned its key twice.
THEOREM GhostsExplained == Spec => GhostsOnlyFromScan
<1> DEFINE NotRepeated(m) ==
             /\ Repeated(InboundServers', m) => Repeated(InboundServers, m)
             /\ Repeated(OutboundServers', m) => Repeated(OutboundServers, m)
           NoGhost(m) ==
             /\ InboundGhost(m)' => InboundGhost(m) \/ Repeated(InboundServers, m)
             /\ OutboundGhost(m)' => OutboundGhost(m) \/ Repeated(OutboundServers, m)
<1>1. ASSUME UNCHANGED <<InboundServers, OutboundServers>>, NEW m \in Servers,
             LSML'[m] # None <=> LSML[m] # None,
             LSML[m] # None => /\ LSML'[m].inbound = LSML[m].inbound
                               /\ LSML'[m].outbound = LSML[m].outbound
      PROVE  NotRepeated(m) /\ NoGhost(m)
  BY <1>1 DEF Repeated, InboundGhost, OutboundGhost, IsIn
<1>2. ASSUME UNCHANGED memory, NEW m \in Servers PROVE NotRepeated(m) /\ NoGhost(m)
  BY <1>1, <1>2 DEF memory
<1>3. ASSUME IInv, NEW r \in Requests, RegisterMem(r) \/ UnregisterMem(r) \/ ToggleMem(r),
             NEW m \in Servers
      PROVE  NotRepeated(m) /\ NoGhost(m)
  <2> USE <1>3 DEF IInv
  <2> DEFINE n == arg[r].name
  <2>1. n \in Servers /\ LSML[n] \in Metadata \cup {None}
    BY DEF RegisterMem, UnregisterMem, ToggleMem, RequestsOK, TypeOK,
           RegisterReq, UnregisterReq, ToggleReq
  <2>2. UNCHANGED memory
        \/ \E inb, outb \in BOOLEAN :
             /\ updateIOSL(n, inb, outb)
             /\ \A k \in Servers \ {n} : LSML'[k] = LSML[k]
             /\ inb => (LSML'[n] # None /\ LSML'[n].inbound)
             /\ outb => (LSML'[n] # None /\ LSML'[n].outbound)
    <3>1. CASE RegisterMem(r)
      <4> DEFINE h == IF LSML[n] # None THEN LSML[n].health ELSE "unknown"
      <4>1. local[r] \in Registration
        BY <3>1 DEF RegisterMem, RequestsOK, TypeOK
      <4>2. h \in {"unknown", "healthy", "unhealthy"}
        BY <2>1 DEF Metadata
      <4>3. /\ Meta(local[r], h) # None /\ Meta(local[r], h).inbound = local[r].inbound
            /\ Meta(local[r], h).outbound = local[r].outbound
            /\ local[r].inbound \in BOOLEAN /\ local[r].outbound \in BOOLEAN
        BY <4>1, <4>2, LBAssumption DEF Meta, Metadata, Registration
      <4>4. /\ LSML' = [LSML EXCEPT ![n] = Meta(local[r], h)]
            /\ updateIOSL(n, local[r].inbound, local[r].outbound)
        BY <3>1 DEF RegisterMem, RegisterServer
      <4> HIDE DEF h, n
      <4>5. LSML'[n] = Meta(local[r], h) /\ \A k \in Servers \ {n} : LSML'[k] = LSML[k]
        BY <2>1, <4>4 DEF TypeOK
      <4> QED BY <4>3, <4>4, <4>5
    <3>2. CASE UnregisterMem(r)
      <4>1. LSML' = [LSML EXCEPT ![n] = None] /\ updateIOSL(n, FALSE, FALSE)
        BY <3>2 DEF UnregisterMem, UnregisterServer
      <4>2. \A k \in Servers \ {n} : LSML'[k] = LSML[k]
        BY <4>1 DEF TypeOK
      <4> QED BY <4>1, <4>2
    <3>3. CASE ToggleMem(r) /\ ~UNCHANGED memory
      <4> DEFINE reg == [host |-> LSML[n].host,
                         inbound |-> Toggled(arg[r].inbound, LSML[n].inbound),
                         outbound |-> Toggled(arg[r].outbound, LSML[n].outbound)]
                 meta == Meta(reg, LSML[n].health)
      <4>1. /\ LSML[n] # None /\ LSML' = [LSML EXCEPT ![n] = meta]
            /\ updateIOSL(n, reg.inbound, reg.outbound)
        BY <3>3 DEF ToggleMem, ToggleServer
      <4>2. reg \in Registration
        BY <2>1, <3>3, <4>1 DEF ToggleMem, RequestsOK, ToggleReq, Toggled, Metadata, Registration
      <4>3. /\ meta # None /\ meta.inbound = reg.inbound /\ meta.outbound = reg.outbound
            /\ reg.inbound \in BOOLEAN /\ reg.outbound \in BOOLEAN
        BY <2>1, <4>1, <4>2, LBAssumption DEF Meta, Metadata, Registration
      <4> HIDE DEF reg, meta, n
      <4>4. LSML'[n] = meta /\ \A k \in Servers \ {n} : LSML'[k] = LSML[k]
        BY <2>1, <4>1 DEF TypeOK
      <4> QED BY <4>1, <4>3, <4>4
    <3> QED BY <3>1, <3>2, <3>3
  <2>3. CASE ~UNCHANGED memory
    <3>1. PICK inb \in BOOLEAN, outb \in BOOLEAN :
             /\ updateIOSL(n, inb, outb)
             /\ \A k \in Servers \ {n} : LSML'[k] = LSML[k]
             /\ inb => (LSML'[n] # None /\ LSML'[n].inbound)
             /\ outb => (LSML'[n] # None /\ LSML'[n].outbound)
      BY <2>2, <2>3
    <3> HIDE DEF n
    <3> QED BY <2>1, <3>1, UpdateGhosts
  <2> QED BY <1>2, <2>3
<1>4. ASSUME IInv, HeartbeatApply, NEW m \in Servers PROVE NotRepeated(m) /\ NoGhost(m)
  <2>1. UNCHANGED <<InboundServers, OutboundServers>>
    BY <1>4 DEF HeartbeatApply
  <2>2. \/ LSML'[m] = LSML[m]
        \/ LSML[m] # None /\ \E h \in {"healthy", "unhealthy"} : LSML'[m] = Meta(LSML[m], h)
    BY <1>4 DEF HeartbeatApply
  <2>3. LSML[m] \in Metadata \cup {None}
    BY <1>4 DEF IInv, TypeOK
  <2>4. ASSUME LSML[m] # None, NEW h \in {"healthy", "unhealthy"}
        PROVE  /\ Meta(LSML[m], h) # None /\ Meta(LSML[m], h).inbound = LSML[m].inbound
               /\ Meta(LSML[m], h).outbound = LSML[m].outbound
    BY <2>3, <2>4, LBAssumption DEF Meta, Metadata
  <2> QED BY <1>1, <2>1, <2>2, <2>4
<1>5. ASSUME IInv, Restart, NEW m \in Servers PROVE NoGhost(m)
  <2>1. PICK scan \in Scans : Load(scan) /\ \A n \in Servers : IsIn(scan, n) => redis[n] # None
    BY <1>5 DEF Restart
  <2> DEFINE In == {n \in Servers : redis[n] # None /\ redis[n].inbound}
             Out == {n \in Servers : redis[n] # None /\ redis[n].outbound}
  <2>2. /\ In \in SUBSET Servers /\ InboundServers' \in Selections(scan, In)
        /\ Out \in SUBSET Servers /\ OutboundServers' \in Selections(scan, Out)
    BY <2>1 DEF Load
  <2>3. ASSUME IsIn(scan, m)
        PROVE  /\ LSML'[m] # None /\ LSML'[m].inbound = redis[m].inbound
               /\ LSML'[m].outbound = redis[m].outbound
    <3>1. redis[m] \in Registration /\ LSML'[m] = Meta(redis[m], "unknown")
      BY <1>5, <2>1, <2>3 DEF Load, IInv, TypeOK
    <3> QED BY <3>1, LBAssumption DEF Meta, Metadata, Registration
  <2>4. (m \in In => redis[m].inbound) /\ (m \in Out => redis[m].outbound)
    OBVIOUS
  <2> HIDE DEF In, Out
  <2>5. /\ IsIn(InboundServers', m) => m \in In /\ IsIn(scan, m)
        /\ IsIn(OutboundServers', m) => m \in Out /\ IsIn(scan, m)
    BY <2>2, SelectionLemma
  <2>6. /\ InboundGhost(m)' <=> IsIn(InboundServers', m) /\ ~(LSML'[m] # None /\ LSML'[m].inbound)
        /\ OutboundGhost(m)' <=> IsIn(OutboundServers', m) /\ ~(LSML'[m] # None /\ LSML'[m].outbound)
    BY DEF InboundGhost, OutboundGhost, IsIn
  <2> QED BY <2>3, <2>4, <2>5, <2>6
<1>6. ASSUME IInv, Next, NEW m \in Servers PROVE (NotRepeated(m) \/ Restart) /\ NoGhost(m)
  <2>1. ASSUME NEW r \in Requests, Find(r) PROVE NotRepeated(m) /\ NoGhost(m)
    BY <1>1, <2>1 DEF Find
  <2>2. ASSUME NEW r \in Requests, Arrive(r) \/ Handle(r) PROVE NotRepeated(m) /\ NoGhost(m)
    <3>1. CASE Find(r) \/ RegisterMem(r) \/ UnregisterMem(r) \/ ToggleMem(r)
      BY <1>3, <1>6, <2>1, <3>1
    <3>2. CASE ~(Find(r) \/ RegisterMem(r) \/ UnregisterMem(r) \/ ToggleMem(r))
      <4>1. UNCHANGED memory
        BY <2>2, <3>2 DEF Handle, Arrive, RegisterGet, RegisterSet, UnregisterDel,
                          ToggleGet, ToggleSet, Deliver
      <4> QED BY <1>2, <4>1
    <3> QED BY <3>1, <3>2
  <2>3. CASE \/ HeartbeatSnapshot \/ \E n \in Servers : Probe(n)
             \/ \E h \in Hosts : CallEnds(h) \/ HostFlips(h)
    <3>1. UNCHANGED memory
      BY <2>3 DEF HeartbeatSnapshot, Probe, CallEnds, HostFlips
    <3> QED BY <1>2, <3>1
  <2> QED BY <1>4, <1>5, <1>6, <2>2, <2>3 DEF Next
<1>7. IInv /\ [Next]_vars =>
        [\A n \in Servers :
           /\ Repeated(InboundServers', n) => Repeated(InboundServers, n) \/ Restart
           /\ Repeated(OutboundServers', n) => Repeated(OutboundServers, n) \/ Restart
           /\ InboundGhost(n)' => InboundGhost(n) \/ Repeated(InboundServers, n)
           /\ OutboundGhost(n)' => OutboundGhost(n) \/ Repeated(OutboundServers, n)]_vars
  BY <1>6
<1>8. Spec => []IInv
  BY InitIInv, NextIInv, PTL DEF Spec
<1> QED BY <1>7, <1>8, PTL DEF Spec, GhostsOnlyFromScan

-----------------------------------------------------------------------------
(* Memory and Redis *)

\* The handler has changed Redis and not yet the memory.
Writing(r) == pc[r] \in {"reg_mem", "unreg_mem", "tog_mem"}

\* Metadata without the health status.
Plain(m) ==
  IF m = None THEN None ELSE [host |-> m.host, inbound |-> m.inbound, outbound |-> m.outbound]

SameFlags(a, b) == a.inbound = b.inbound /\ a.outbound = b.outbound

\* What a toggle makes of a registration.
After(a, old) == [host |-> old.host, inbound |-> Toggled(a.inbound, old.inbound),
                  outbound |-> Toggled(a.outbound, old.outbound)]

\* Only a handler that has written to Redis, and not yet to the memory, makes a
\* difference between the two,
ServersInSync ==
  \A n \in Servers :
    (\A r \in Requests : ~(Writing(r) /\ arg[r].name = n)) => Plain(LSML[n]) = redis[n]

\* and what it holds removes it.
InSync(r) ==
  LET n == arg[r].name IN
  /\ pc[r] = "reg_set" => (redis[n] # None => SameFlags(local[r], redis[n]))
  /\ pc[r] = "reg_mem" => /\ redis[n] = local[r]
                          /\ Plain(LSML[n]) # None => SameFlags(local[r], Plain(LSML[n]))
  /\ pc[r] = "unreg_mem" => redis[n] = None
  /\ pc[r] = "tog_set" => redis[n] # None /\ local[r] = After(arg[r], redis[n])
  /\ pc[r] = "tog_mem" => /\ redis[n] = local[r] /\ Plain(LSML[n]) # None
                          /\ local[r] = After(arg[r], Plain(LSML[n]))

SyncInv == ServersInSync /\ \A r \in Requests : InSync(r)

\* A metadata record without its health is a registration.
LEMMA PlainMeta ==
  ASSUME NEW reg \in Registration, NEW h \in {"unknown", "healthy", "unhealthy"}
  PROVE  /\ Meta(reg, h) \in Metadata /\ Meta(reg, h) # None
         /\ Plain(Meta(reg, h)) = reg /\ reg # None
  <1>1. Meta(reg, h) \in Metadata
    BY DEF Meta, Metadata, Registration
  <1>2. Meta(reg, h) # None /\ reg # None
    BY <1>1, LBAssumption
  <1>3. Meta(reg, h).host = reg.host /\ Meta(reg, h).inbound = reg.inbound
        /\ Meta(reg, h).outbound = reg.outbound
    BY DEF Meta
  <1>4. reg = [host |-> reg.host, inbound |-> reg.inbound, outbound |-> reg.outbound]
    BY DEF Registration
  <1> QED BY <1>1, <1>2, <1>3, <1>4 DEF Plain

\* The metadata of a server without its health.
LEMMA PlainType ==
  ASSUME NEW m \in Metadata
  PROVE  /\ m # None /\ Plain(m) \in Registration /\ Plain(m) # None
         /\ Plain(m).host = m.host /\ Plain(m).inbound = m.inbound /\ Plain(m).outbound = m.outbound
         /\ m.health \in {"unknown", "healthy", "unhealthy"}
         /\ \A h \in {"unknown", "healthy", "unhealthy"} : Plain(Meta(m, h)) = Plain(m)
  <1>1. m # None
    BY LBAssumption
  <1>2. Plain(m) = [host |-> m.host, inbound |-> m.inbound, outbound |-> m.outbound]
    BY <1>1 DEF Plain
  <1>3. Plain(m) \in Registration
    BY <1>2 DEF Metadata, Registration
  <1>4. Plain(m) # None
    BY <1>3, LBAssumption
  <1>5. ASSUME NEW h \in {"unknown", "healthy", "unhealthy"} PROVE Plain(Meta(m, h)) = Plain(m)
    <2>1. Meta(m, h) = Meta(Plain(m), h)
      BY <1>2 DEF Meta
    <2> QED BY <1>3, <2>1, PlainMeta
  <1>6. m.health \in {"unknown", "healthy", "unhealthy"}
    BY DEF Metadata
  <1> QED BY <1>1, <1>2, <1>3, <1>4, <1>5, <1>6

\* A step that moves no registration, and takes no request across a write.
LEMMA QuietSync ==
  ASSUME SyncInv, UNCHANGED redis, \A n \in Servers : Plain(LSML'[n]) = Plain(LSML[n]),
         IInv,
         \A r \in Requests :
           \/ pc'[r] = pc[r] /\ arg'[r] = arg[r] /\ local'[r] = local[r]
           \/ /\ pc[r] \notin {"reg_set", "reg_mem", "unreg_mem", "tog_set", "tog_mem"}
              /\ pc'[r] \notin {"reg_set", "reg_mem", "unreg_mem", "tog_set", "tog_mem"}
  PROVE  SyncInv'
  <1>1. ASSUME NEW r \in Requests PROVE InSync(r)'
    <2>1. CASE pc'[r] \notin {"reg_set", "reg_mem", "unreg_mem", "tog_set", "tog_mem"}
      BY <2>1 DEF InSync
    <2>2. CASE /\ pc'[r] = pc[r] /\ arg'[r] = arg[r] /\ local'[r] = local[r]
               /\ pc[r] \in {"reg_set", "reg_mem", "unreg_mem", "tog_set", "tog_mem"}
      <3>1. arg[r].name \in Servers
        BY <2>2 DEF IInv, RequestsOK, RegisterReq, UnregisterReq, ToggleReq
      <3>2. InSync(r) /\ Plain(LSML'[arg[r].name]) = Plain(LSML[arg[r].name])
        BY <3>1 DEF SyncInv
      <3> QED BY <2>2, <3>2 DEF InSync
    <2> QED BY <2>1, <2>2
  <1>2. \A r \in Requests, n \in Servers : Writing(r)' /\ arg'[r].name = n <=> Writing(r) /\ arg[r].name = n
    BY DEF Writing
  <1>3. ServersInSync'
    <2> SUFFICES ASSUME NEW n \in Servers, \A r \in Requests : ~(Writing(r)' /\ arg'[r].name = n)
                 PROVE  Plain(LSML'[n]) = redis'[n]
      BY DEF ServersInSync
    <2>1. \A r \in Requests : ~(Writing(r) /\ arg[r].name = n)
      BY <1>2
    <2> QED BY <2>1 DEF SyncInv, ServersInSync
  <1> QED BY <1>1, <1>3 DEF SyncInv

\* A step of a handler for server n leaves the other servers and handlers alone.
LEMMA AdminFrame ==
  ASSUME IInv, SyncInv, OnePerServer, NEW q \in Requests, Admin(q),
         NEW n \in Servers, n = arg[q].name,
         \A r \in Requests : r # q => pc'[r] = pc[r] /\ arg'[r] = arg[r] /\ local'[r] = local[r],
         \A m \in Servers : m # n => redis'[m] = redis[m] /\ Plain(LSML'[m]) = Plain(LSML[m]),
         Writing(q)' => arg'[q] = arg[q],
         InSync(q)', Writing(q)' \/ Plain(LSML'[n]) = redis'[n]
  PROVE  SyncInv'
  <1>1. ASSUME NEW r \in Requests PROVE InSync(r)'
    <2>1. CASE r = q
      BY <2>1
    <2>2. CASE r # q /\ pc[r] \notin {"reg_set", "reg_mem", "unreg_mem", "tog_set", "tog_mem"}
      BY <2>2 DEF InSync
    <2>3. CASE r # q /\ pc[r] \in {"reg_set", "reg_mem", "unreg_mem", "tog_set", "tog_mem"}
      <3>1. Admin(r) /\ arg[r].name \in Servers
        BY <2>3 DEF Admin, IInv, RequestsOK, RegisterReq, UnregisterReq, ToggleReq
      <3>2. arg[r].name # n
        BY <2>3, <3>1 DEF OnePerServer
      <3>3. /\ InSync(r) /\ Plain(LSML'[arg[r].name]) = Plain(LSML[arg[r].name])
            /\ redis'[arg[r].name] = redis[arg[r].name]
        BY <3>1, <3>2 DEF SyncInv
      <3> QED BY <2>3, <3>3 DEF InSync
    <2> QED BY <2>1, <2>2, <2>3
  <1>2. ServersInSync'
    <2> SUFFICES ASSUME NEW m \in Servers, \A r \in Requests : ~(Writing(r)' /\ arg'[r].name = m)
                 PROVE  Plain(LSML'[m]) = redis'[m]
      BY DEF ServersInSync
    <2>1. CASE m = n
      BY <2>1
    <2>2. CASE m # n
      <3>1. ASSUME NEW r \in Requests PROVE ~(Writing(r) /\ arg[r].name = m)
        <4>1. CASE r = q
          BY <2>2, <4>1
        <4>2. CASE r # q
          BY <4>2 DEF Writing
        <4> QED BY <4>1, <4>2
      <3>2. Plain(LSML[m]) = redis[m]
        BY <3>1 DEF SyncInv, ServersInSync
      <3> QED BY <2>2, <3>2
    <2> QED BY <2>1, <2>2
  <1> QED BY <1>1, <1>2 DEF SyncInv

\* An answered request holds nothing, and the others keep what they hold.
LEMMA Answered ==
  ASSUME IInv, NEW q \in Requests, Respond(q)
  PROVE  /\ \A r \in Requests : r # q => pc'[r] = pc[r] /\ arg'[r] = arg[r] /\ local'[r] = local[r]
         /\ InSync(q)' /\ ~Writing(q)'
  <1>1. pc'[q] = "idle"
    BY DEF Respond, IInv, TypeOK
  <1>2. InSync(q)' /\ ~Writing(q)'
    BY <1>1 DEF InSync, Writing
  <1> QED BY <1>2 DEF Respond, IInv, TypeOK

\* A handler that has not written yet finds its server the same in both.
LEMMA BeforeWrite ==
  ASSUME IInv, SyncInv, OnePerServer, NEW q \in Requests, Admin(q), ~Writing(q)
  PROVE  arg[q].name \in Servers /\ Plain(LSML[arg[q].name]) = redis[arg[q].name]
  <1>1. arg[q].name \in Servers
    BY DEF Admin, IInv, RequestsOK, RegisterReq, UnregisterReq, ToggleReq
  <1>2. \A r \in Requests : Writing(r) => Admin(r)
    BY DEF Writing, Admin
  <1>3. \A r \in Requests : ~(Writing(r) /\ arg[r].name = arg[q].name)
    BY <1>2 DEF OnePerServer
  <1> QED BY <1>1, <1>3 DEF SyncInv, ServersInSync

\* The two GETs read what Redis and the memory both hold.
LEMMA GetSync ==
  ASSUME RedisMayFail = FALSE, IInv, SyncInv, OnePerServer, NEW q \in Requests,
         RegisterGet(q) \/ ToggleGet(q)
  PROVE  SyncInv'
  <1>0. Admin(q) /\ ~Writing(q)
    BY DEF RegisterGet, ToggleGet, Admin, Writing
  <1> SUFFICES ASSUME NEW n \in Servers, n = arg[q].name, Plain(LSML[n]) = redis[n]
               PROVE  SyncInv'
    BY <1>0, BeforeWrite
  <1>1. UNCHANGED <<redis, LSML>>
    BY DEF RegisterGet, ToggleGet, memory
  <1>2. CASE RegisterGet(q)
    <2>1. /\ pc'[q] = "reg_set" /\ arg' = arg
          /\ \A r \in Requests : r # q => pc'[r] = pc[r] /\ local'[r] = local[r]
      BY <1>2 DEF RegisterGet, Goto, IInv, TypeOK
    <2>2. redis[n] # None => SameFlags(local'[q], redis[n])
      <3> SUFFICES ASSUME redis[n] # None PROVE SameFlags(local'[q], redis[n])
        OBVIOUS
      <3>1. local' = [local EXCEPT ![q] = [host |-> arg[q].host, inbound |-> redis[n].inbound,
                                           outbound |-> redis[n].outbound]]
        BY <1>2 DEF RegisterGet
      <3>2. local'[q] = [host |-> arg[q].host, inbound |-> redis[n].inbound,
                         outbound |-> redis[n].outbound]
        BY <3>1 DEF IInv, TypeOK
      <3> QED BY <3>2 DEF SameFlags
    <2>3. InSync(q)'
      BY <1>1, <2>1, <2>2 DEF InSync, SameFlags
    <2> QED BY <1>0, <1>1, <2>1, <2>3, AdminFrame
  <1>3. CASE ToggleGet(q) /\ redis[n] = None
    <2>1. Respond(q)
      BY <1>3 DEF ToggleGet
    <2> QED BY <1>0, <1>1, <2>1, Answered, AdminFrame
  <1>4. CASE ToggleGet(q) /\ redis[n] # None
    <2>1. /\ local' = [local EXCEPT ![q] = After(arg[q], redis[n])]
          /\ pc' = [pc EXCEPT ![q] = "tog_set"] /\ arg' = arg
      BY <1>4 DEF ToggleGet, After, Goto
    <2>2. /\ pc'[q] = "tog_set" /\ local'[q] = After(arg[q], redis[n])
          /\ \A r \in Requests : r # q => pc'[r] = pc[r] /\ local'[r] = local[r]
      BY <2>1 DEF IInv, TypeOK
    <2>3. InSync(q)'
      BY <1>1, <1>4, <2>1, <2>2 DEF InSync, After
    <2> QED BY <1>0, <1>1, <2>1, <2>2, <2>3, AdminFrame
  <1> QED BY <1>2, <1>3, <1>4

\* The two SETs and the DEL make the difference the handler then removes.
LEMMA WriteSync ==
  ASSUME RedisMayFail = FALSE, IInv, SyncInv, OnePerServer, NEW q \in Requests,
         RegisterSet(q) \/ ToggleSet(q) \/ UnregisterDel(q)
  PROVE  SyncInv'
  <1>0. Admin(q) /\ ~Writing(q)
    BY DEF RegisterSet, ToggleSet, UnregisterDel, Admin, Writing
  <1> SUFFICES ASSUME NEW n \in Servers, n = arg[q].name, Plain(LSML[n]) = redis[n]
               PROVE  SyncInv'
    BY <1>0, BeforeWrite
  <1>1. UNCHANGED LSML /\ InSync(q)
    BY DEF RegisterSet, ToggleSet, UnregisterDel, memory, SyncInv
  <1>2. CASE RegisterSet(q)
    <2>1. /\ redis' = [redis EXCEPT ![n] = local[q]] /\ pc' = [pc EXCEPT ![q] = "reg_mem"]
          /\ arg' = arg /\ local' = local /\ pc[q] = "reg_set"
      BY <1>2 DEF RegisterSet, Goto
    <2>2. /\ redis'[n] = local[q] /\ pc'[q] = "reg_mem"
          /\ \A m \in Servers : m # n => redis'[m] = redis[m]
          /\ \A r \in Requests : r # q => pc'[r] = pc[r]
      BY <2>1 DEF IInv, TypeOK
    <2>3. InSync(q)'
      BY <1>1, <2>1, <2>2 DEF InSync, SameFlags
    <2>4. Writing(q)'
      BY <2>2 DEF Writing
    <2> QED BY <1>0, <1>1, <2>1, <2>2, <2>3, <2>4, AdminFrame
  <1>3. CASE ToggleSet(q)
    <2>1. /\ redis' = [redis EXCEPT ![n] = local[q]] /\ pc' = [pc EXCEPT ![q] = "tog_mem"]
          /\ arg' = arg /\ local' = local /\ pc[q] = "tog_set"
      BY <1>3 DEF ToggleSet, Goto
    <2>2. /\ redis'[n] = local[q] /\ pc'[q] = "tog_mem"
          /\ \A m \in Servers : m # n => redis'[m] = redis[m]
          /\ \A r \in Requests : r # q => pc'[r] = pc[r]
      BY <2>1 DEF IInv, TypeOK
    <2>3. InSync(q)'
      BY <1>1, <2>1, <2>2 DEF InSync, After
    <2>4. Writing(q)'
      BY <2>2 DEF Writing
    <2> QED BY <1>0, <1>1, <2>1, <2>2, <2>3, <2>4, AdminFrame
  <1>4. CASE UnregisterDel(q) /\ redis[n] = None
    <2>1. Respond(q) /\ UNCHANGED redis
      BY <1>4 DEF UnregisterDel
    <2> QED BY <1>0, <1>1, <2>1, Answered, AdminFrame
  <1>5. CASE UnregisterDel(q) /\ redis[n] # None
    <2>1. /\ redis' = [redis EXCEPT ![n] = None] /\ pc' = [pc EXCEPT ![q] = "unreg_mem"]
          /\ arg' = arg /\ local' = local
      BY <1>5 DEF UnregisterDel, Goto
    <2>2. /\ redis'[n] = None /\ pc'[q] = "unreg_mem"
          /\ \A m \in Servers : m # n => redis'[m] = redis[m]
          /\ \A r \in Requests : r # q => pc'[r] = pc[r]
      BY <2>1 DEF IInv, TypeOK
    <2>3. InSync(q)'
      BY <2>1, <2>2 DEF InSync
    <2>4. Writing(q)'
      BY <2>2 DEF Writing
    <2> QED BY <1>0, <1>1, <2>1, <2>2, <2>3, <2>4, AdminFrame
  <1> QED BY <1>2, <1>3, <1>4, <1>5

\* The handler's change of the memory removes the difference.
LEMMA MemSync ==
  ASSUME IInv, SyncInv, OnePerServer, NEW q \in Requests,
         RegisterMem(q) \/ UnregisterMem(q) \/ ToggleMem(q)
  PROVE  SyncInv'
  <1>1. Admin(q) /\ Respond(q) /\ UNCHANGED redis
    BY DEF RegisterMem, UnregisterMem, ToggleMem, Admin
  <1>2. arg[q].name \in Servers
    BY <1>1 DEF Admin, IInv, RequestsOK, RegisterReq, UnregisterReq, ToggleReq
  <1> SUFFICES ASSUME NEW n \in Servers, n = arg[q].name
               PROVE  SyncInv'
    BY <1>2
  <1>3. InSync(q) /\ LSML[n] \in Metadata \cup {None} /\ local[q] \in Registration \cup {None}
    BY DEF SyncInv, IInv, TypeOK
  <1>4. /\ Plain(LSML'[n]) = redis[n]
        /\ \A m \in Servers : m # n => LSML'[m] = LSML[m]
    <2>1. CASE RegisterMem(q)
      <3> DEFINE h == IF LSML[n] # None THEN LSML[n].health ELSE "unknown"
      <3>1. local[q] \in Registration /\ redis[n] = local[q]
        BY <1>3, <2>1 DEF RegisterMem, IInv, RequestsOK, InSync
      <3>2. h \in {"unknown", "healthy", "unhealthy"}
        BY <1>3, PlainType
      <3>3. LSML' = [LSML EXCEPT ![n] = Meta(local[q], h)]
        BY <2>1 DEF RegisterMem, RegisterServer
      <3>4. /\ LSML'[n] = Meta(local[q], h)
            /\ \A m \in Servers : m # n => LSML'[m] = LSML[m]
        BY <3>3 DEF IInv, TypeOK
      <3> QED BY <3>1, <3>2, <3>4, PlainMeta
    <2>2. CASE UnregisterMem(q)
      <3>1. redis[n] = None
        BY <1>3, <2>2 DEF UnregisterMem, InSync
      <3>2. LSML' = [LSML EXCEPT ![n] = None]
        BY <2>2 DEF UnregisterMem, UnregisterServer
      <3>3. LSML'[n] = None /\ \A m \in Servers : m # n => LSML'[m] = LSML[m]
        BY <3>2 DEF IInv, TypeOK
      <3> QED BY <3>1, <3>3 DEF Plain
    <2>3. CASE ToggleMem(q)
      <3>1. /\ redis[n] = local[q] /\ Plain(LSML[n]) # None
            /\ local[q] = After(arg[q], Plain(LSML[n]))
        BY <1>3, <2>3 DEF ToggleMem, InSync
      <3>2. LSML[n] \in Metadata /\ LSML[n] # None
        BY <1>3, <3>1 DEF Plain
      <3>3. local[q] \in Registration
        BY <1>3, <2>3 DEF ToggleMem, IInv, RequestsOK
      <3>4. After(arg[q], LSML[n]) = local[q]
        BY <3>1, <3>2, PlainType DEF After
      <3>5. LSML' = [LSML EXCEPT ![n] = Meta(After(arg[q], LSML[n]), LSML[n].health)]
        BY <2>3, <3>2 DEF ToggleMem, ToggleServer, After
      <3>6. /\ LSML'[n] = Meta(local[q], LSML[n].health)
            /\ \A m \in Servers : m # n => LSML'[m] = LSML[m]
        BY <3>4, <3>5 DEF IInv, TypeOK
      <3>7. LSML[n].health \in {"unknown", "healthy", "unhealthy"}
        BY <3>2, PlainType
      <3> QED BY <3>1, <3>3, <3>6, <3>7, PlainMeta
    <2> QED BY <2>1, <2>2, <2>3
  <1> QED BY <1>1, <1>4, Answered, AdminFrame

\* Routing and the heartbeat move no registration.
LEMMA OtherSync ==
  ASSUME IInv, SyncInv,
         \/ \E r \in Requests : Arrive(r) \/ Find(r) \/ Deliver(r)
         \/ HeartbeatSnapshot \/ HeartbeatApply \/ \E n \in Servers : Probe(n)
         \/ \E h \in Hosts : CallEnds(h) \/ HostFlips(h)
         \/ UNCHANGED vars
  PROVE  SyncInv'
  <1>1. ASSUME NEW r \in Requests, Arrive(r) PROVE SyncInv'
    <2>1. PICK a \in Inputs : /\ arg' = [arg EXCEPT ![r] = a]
                              /\ pc' = [pc EXCEPT ![r] = FirstStep[a.op]]
      BY <1>1 DEF Arrive
    <2>2. FirstStep[a.op] \in {"reg_get", "unreg_del", "tog_get", "find"}
      BY LBAssumption DEF FirstStep, RegisterReq, UnregisterReq, ToggleReq, CallReq, ContactReq
    <2>3. UNCHANGED <<redis, LSML, local>> /\ pc[r] = "idle"
      BY <1>1 DEF Arrive, memory
    <2>4. \A q \in Requests :
            \/ pc'[q] = pc[q] /\ arg'[q] = arg[q] /\ local'[q] = local[q]
            \/ /\ pc[q] \notin {"reg_set", "reg_mem", "unreg_mem", "tog_set", "tog_mem"}
               /\ pc'[q] \notin {"reg_set", "reg_mem", "unreg_mem", "tog_set", "tog_mem"}
      BY <2>1, <2>2, <2>3 DEF IInv, TypeOK
    <2> QED BY <2>3, <2>4, QuietSync
  <1>2. ASSUME NEW r \in Requests, Find(r) \/ Deliver(r) PROVE SyncInv'
    <2>1. UNCHANGED <<redis, LSML>> /\ pc[r] \in {"find", "post"}
      BY <1>2 DEF Find, Deliver, memory
    <2>2. Respond(r) \/ (Goto(r, "post") /\ \E v \in Registration \cup {None} :
                           local' = [local EXCEPT ![r] = v])
      <3>1. CASE Deliver(r)
        BY <3>1 DEF Deliver
      <3>2. CASE Find(r) /\ ~Respond(r)
        <4>1. PICK n \in Candidates(arg[r]) :
                /\ LSML[n] # None
                /\ local' = [local EXCEPT ![r] = [host |-> LSML[n].host, inbound |-> LSML[n].inbound,
                                                  outbound |-> LSML[n].outbound]]
                /\ Goto(r, "post")
          BY <3>2 DEF Find
        <4>2. local'[r] \in Registration \cup {None} /\ local' = [local EXCEPT ![r] = local'[r]]
          BY <1>2, <4>1, FindStep, HandlerSteps DEF IInv, TypeOK
        <4> QED BY <4>1, <4>2
      <3> QED BY <1>2, <3>1, <3>2
    <2>3. \A q \in Requests :
            \/ pc'[q] = pc[q] /\ arg'[q] = arg[q] /\ local'[q] = local[q]
            \/ /\ pc[q] \notin {"reg_set", "reg_mem", "unreg_mem", "tog_set", "tog_mem"}
               /\ pc'[q] \notin {"reg_set", "reg_mem", "unreg_mem", "tog_set", "tog_mem"}
      BY <2>1, <2>2 DEF Respond, Goto, IInv, TypeOK
    <2> QED BY <2>1, <2>3, QuietSync
  <1>3. CASE HeartbeatApply
    <2>1. UNCHANGED <<redis, pc, arg, local>>
      BY <1>3 DEF HeartbeatApply, requests
    <2>2. ASSUME NEW n \in Servers PROVE Plain(LSML'[n]) = Plain(LSML[n])
      <3>1. \/ LSML'[n] = LSML[n]
            \/ /\ LSML[n] # None
               /\ \E h \in {"healthy", "unhealthy"} : LSML'[n] = Meta(LSML[n], h)
        BY <1>3 DEF HeartbeatApply
      <3>2. LSML[n] \in Metadata \cup {None}
        BY DEF IInv, TypeOK
      <3> QED BY <3>1, <3>2, PlainType
    <2> QED BY <2>1, <2>2, QuietSync
  <1>4. CASE \/ HeartbeatSnapshot \/ \E n \in Servers : Probe(n)
             \/ \E h \in Hosts : CallEnds(h) \/ HostFlips(h)
             \/ UNCHANGED vars
    <2>1. UNCHANGED <<redis, LSML, pc, arg, local>>
      BY <1>4 DEF HeartbeatSnapshot, Probe, CallEnds, HostFlips, vars, memory, requests
    <2> QED BY <2>1, QuietSync
  <1> QED BY <1>1, <1>2, <1>3, <1>4

\* A restart, whatever the handlers were doing, loads what Redis holds.
LEMMA RestartSync ==
  ASSUME RedisMayFail = FALSE, IInv, Restart
  PROVE  SyncInv'
  <1>1. UNCHANGED redis /\ \A r \in Requests : pc'[r] = "idle"
    BY DEF Restart, NoRequests
  <1>2. \A r \in Requests : InSync(r)'
    BY <1>1 DEF InSync
  <1>3. ASSUME NEW n \in Servers PROVE Plain(LSML'[n]) = redis'[n]
    <2>1. LSML'[n] = IF redis[n] # None THEN Meta(redis[n], "unknown") ELSE None
      <3>1. PICK scan \in Scans : Load(scan) /\ (IsIn(scan, n) <=> redis[n] # None)
        BY DEF Restart
      <3> QED BY <3>1 DEF Load
    <2>2. redis[n] \in Registration \cup {None}
      BY DEF IInv, TypeOK
    <2>3. CASE redis[n] = None
      BY <1>1, <2>1, <2>3 DEF Plain
    <2>4. CASE redis[n] # None
      BY <1>1, <2>1, <2>2, <2>4, PlainMeta
    <2> QED BY <2>3, <2>4
  <1>4. ServersInSync'
    BY <1>3 DEF ServersInSync
  <1> QED BY <1>2, <1>4 DEF SyncInv

\* Every step keeps the memory and Redis in step, as long as Redis answers and
\* no two administrative requests for one server overlap.
LEMMA NextSync ==
  ASSUME RedisMayFail = FALSE
  PROVE  IInv /\ SyncInv /\ OnePerServer /\ [Next]_vars => SyncInv'
  <1> SUFFICES ASSUME IInv, SyncInv, OnePerServer, [Next]_vars PROVE SyncInv'
    OBVIOUS
  <1>1. ASSUME NEW r \in Requests, Arrive(r) \/ Handle(r) PROVE SyncInv'
    BY <1>1, GetSync, WriteSync, MemSync, OtherSync DEF Handle
  <1>2. CASE Restart
    BY <1>2, RestartSync
  <1> QED BY <1>1, <1>2, OtherSync DEF Next

\* At the start nothing is registered anywhere.
LEMMA InitSync == Init => SyncInv
  <1> SUFFICES ASSUME Init PROVE SyncInv
    OBVIOUS
  <1>1. \A r \in Requests : InSync(r)
    BY DEF Init, InSync
  <1>2. ServersInSync
    BY DEF Init, ServersInSync, Plain
  <1> QED BY <1>1, <1>2 DEF SyncInv

\* While Redis answers and administrative requests for one server come one at a
\* time, the memory holds the registrations Redis holds whenever no request is
\* in flight, whatever else runs: requests for other servers, routing, the
\* heartbeat, and restarts in the middle of a handler.
THEOREM MemoryMirrorsRedis ==
  ASSUME RedisMayFail = FALSE
  PROVE  Spec => MirrorsUnlessOverlap
  <1>1. IInv /\ SyncInv => LSMLSameAsRedis
    <2> SUFFICES ASSUME IInv, SyncInv, \A r \in Requests : pc[r] = "idle", NEW n \in Servers
                 PROVE  Mirrors(LSML[n], redis[n])
      BY DEF LSMLSameAsRedis
    <2>1. Plain(LSML[n]) = redis[n]
      BY DEF SyncInv, ServersInSync, Writing
    <2>2. LSML[n] \in Metadata \cup {None}
      BY DEF IInv, TypeOK
    <2>3. CASE LSML[n] = None
      BY <2>1, <2>3 DEF Plain, Mirrors
    <2>4. CASE LSML[n] # None
      BY <2>1, <2>2, <2>4, PlainType DEF Mirrors
    <2> QED BY <2>3, <2>4
  <1> QED BY <1>1, InitIInv, NextIInv, InitSync, NextSync, PTL DEF Spec, MirrorsUnlessOverlap

-----------------------------------------------------------------------------
(* Announcements *)

\* A server's post is one of the requests that may arrive.
LEMMA PostArrives ==
  ASSUME NEW n \in Servers, Posts(n)
  PROVE  \E r \in Requests : Arrive(r)
  <1> DEFINE a == [op |-> "register", name |-> n, host |-> Home[n]]
  <1>1. PICK r \in Requests :
          /\ pc[r] = "idle"
          /\ pc' = [pc EXCEPT ![r] = FirstStep["register"]]
          /\ arg' = [arg EXCEPT ![r] = a]
    BY DEF Posts
  <1>2. a \in Inputs /\ a.op = "register"
    BY HomeAssumption
  <1>3. UNCHANGED <<redis, memory, local, heartbeat, media>>
    BY DEF Posts
  <1>4. Arrive(r)
    BY <1>1, <1>2, <1>3 DEF Arrive
  <1> QED BY <1>4

\* onRegState does nothing to the load balancer but post.
LEMMA ANextNext == [ANext]_announcementVars => [Next]_vars
  <1> SUFFICES ASSUME [ANext]_announcementVars PROVE [Next]_vars
    OBVIOUS
  <1>1. CASE UNCHANGED announcementVars
    BY <1>1 DEF announcementVars
  <1>2. CASE Next
    BY <1>2
  <1>3. ASSUME NEW n \in Servers, onRegState(n) PROVE [Next]_vars
    <2>1. CASE Posts(n)
      BY <2>1, PostArrives DEF Next
    <2>2. CASE UNCHANGED vars
      BY <2>2
    <2> QED BY <1>3, <2>1, <2>2 DEF onRegState, Accepted, Refused, PostLost
  <1> QED BY <1>1, <1>2, <1>3 DEF ANext

\* The load balancer together with the servers that register at Asterisk, lose
\* their registration, die, come back and post, or fail to post, behaves as the
\* load balancer under arbitrary clients does: every post of onRegState is a
\* request it provides for, and nothing else of an account reaches it.
THEOREM AnnouncementImplementsRegistry == ASpec => Spec
  <1>1. AInit => Init
    BY DEF AInit
  <1> QED BY <1>1, ANextNext, PTL DEF ASpec, Spec

\* With servers that announce themselves at each refresh of their account, and
\* whatever of these posts is lost, the memory's structures agree, and while
\* Redis answers and the administrative requests for one server (its own posts
\* among them) do not overlap, the memory holds the registrations Redis holds
\* whenever no request is in flight.
THEOREM AnnouncedServersMirrored ==
  ASSUME RedisMayFail = FALSE
  PROVE  ASpec => []StructuresAgree /\ MirrorsUnlessOverlap
  BY AnnouncementImplementsRegistry, MemoryConsistent, MemoryMirrorsRedis, PTL
=============================================================================
