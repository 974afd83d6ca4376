---------------------------- MODULE LoadBalancer ----------------------------
(***************************************************************************)
(* The Go load balancer: registrations persisted in Redis, and the three   *)
(* in-memory structures guarded by stateMu (LSML: metadata per server,     *)
(* LSCS: call count per server, IOSL: the two lists of enabled servers).   *)
(*                                                                         *)
(* Gin serves each HTTP request on its own goroutine.  A handler is a      *)
(* sequence of steps (one Redis command, one critical section, one proxied *)
(* HTTP call) and the steps of different requests interleave, with each    *)
(* other and with the heartbeat worker, which snapshots its targets under  *)
(* the lock, probes them without it, and applies all results under it.     *)
(* The media servers are the environment: each runs on a host, is up or    *)
(* down, and has a number of calls.                                        *)
(***************************************************************************)
EXTENDS Integers, Sequences, FiniteSets

CONSTANTS
  Servers,       \* container names
  Hosts,         \* addresses (host and port) containers register
  Requests,      \* slots for HTTP requests in flight
  Types,         \* the "type" strings a call request may carry
  NamesOfType,   \* NamesOfType[t]: the server names that contain t
  Inputs,        \* the requests clients send
  RedisMayFail,  \* may a Redis command return an error?
  ProbeMayFail,  \* may a probe of a host with capacity fail (timeout)?
  HostsMayFail,  \* may a media server go down and come back?
  MaxCalls,      \* MAX_CONCURRENT_CALLS of a media server
  MaxLoad,       \* bound: calls on a host (inbound calls skip the limit)
  MaxCount,      \* bound: largest finite LSCS value
  MaxScan,       \* bound: keys one Redis scan returns, repeated ones included
  None           \* the missing value: nil, no key, no entry

\* math.MaxInt in LSCS: the server is not known to be healthy.
INF == MaxCount + 1

Registration == [host : Hosts, inbound : BOOLEAN, outbound : BOOLEAN]
Metadata == [host : Hosts, inbound : BOOLEAN, outbound : BOOLEAN,
             health : {"unknown", "healthy", "unhealthy"}]
Reply == [ok : BOOLEAN, calls : 0..MaxLoad]
Media == [up : BOOLEAN, calls : 0..MaxLoad]

RegisterReq == [op : {"register"}, name : Servers, host : Hosts]
UnregisterReq == [op : {"unregister"}, name : Servers]
ToggleReq == [op : {"toggle"}, name : Servers,
              inbound : BOOLEAN \cup {None}, outbound : BOOLEAN \cup {None}]
CallReq == [op : {"call"}, type : Types \cup {None}]
ContactReq == [op : {"contact"}]

ASSUME LBAssumption ==
  /\ IsFiniteSet(Servers)
  /\ MaxCalls \in Nat /\ MaxLoad \in Nat /\ MaxCount \in Nat
  /\ MaxCalls <= MaxLoad /\ MaxLoad <= MaxCount
  /\ MaxScan \in Nat /\ Cardinality(Servers) <= MaxScan
  /\ RedisMayFail \in BOOLEAN /\ ProbeMayFail \in BOOLEAN /\ HostsMayFail \in BOOLEAN
  /\ NamesOfType \in [Types -> SUBSET Servers]
  /\ None \notin Servers \cup Hosts \cup Types \cup BOOLEAN
  /\ None \notin Int
  /\ None \notin Registration \cup Metadata \cup Reply
  /\ Inputs \subseteq RegisterReq \cup UnregisterReq \cup ToggleReq
                        \cup CallReq \cup ContactReq

VARIABLES
  redis,           \* redis[n]: value of key container:n
  LSML,            \* LSML[n]: metadata of server n
  LSCS,            \* LSCS[n]: call count of server n, INF when unhealthy
  InboundServers,  \* IOSL, inbound half
  OutboundServers, \* IOSL, outbound half
  pc,              \* pc[r]: next step of request r
  arg,             \* arg[r]: the request's input
  local,           \* local[r]: the handler's local registration or metadata
  hbTarget,        \* hbTarget[n]: address being probed in this round
  hbReply,         \* hbReply[n]: answer of the probe
  media            \* media[h]: the media server at address h (environment)

memory == <<LSML, LSCS, InboundServers, OutboundServers>>
requests == <<pc, arg, local>>
heartbeat == <<hbTarget, hbReply>>
vars == <<redis, memory, requests, heartbeat, media>>

Steps == {"idle", "reg_get", "reg_set", "reg_mem", "unreg_del", "unreg_mem",
          "tog_get", "tog_set", "tog_mem", "find", "post"}

FirstStep == [register |-> "reg_get", unregister |-> "unreg_del",
              toggle |-> "tog_get", call |-> "find", contact |-> "find"]

TypeOK ==
  /\ redis \in [Servers -> Registration \cup {None}]
  /\ LSML \in [Servers -> Metadata \cup {None}]
  /\ LSCS \in [Servers -> 0..INF \cup {None}]
  /\ InboundServers \in Seq(Servers) /\ OutboundServers \in Seq(Servers)
  /\ pc \in [Requests -> Steps]
  /\ arg \in [Requests -> Inputs \cup {None}]
  /\ local \in [Requests -> Registration \cup {None}]
  /\ hbTarget \in [Servers -> Hosts \cup {None}]
  /\ hbReply \in [Servers -> Reply \cup {None}]
  /\ media \in [Hosts -> Media]

-----------------------------------------------------------------------------
(* IOSL *)

IsIn(s, n) == \E i \in DOMAIN s : s[i] = n

Repeated(s, n) == \E i, j \in DOMAIN s : i # j /\ s[i] = n /\ s[j] = n

\* append(s[:k], s[k+1:]...)
Without(s, k) == [i \in 1..(Len(s) - 1) |-> IF i < k THEN s[i] ELSE s[i + 1]]

FirstIndex(s, n) ==
  CHOOSE i \in DOMAIN s : s[i] = n /\ \A j \in 1..(i - 1) : s[j] # n

\* Bug: an enabled server is appended whether it is listed or not.
ListedAgain(s, n, enabled) ==
  IF enabled THEN Append(s, n)
  ELSE IF IsIn(s, n) THEN Without(s, FirstIndex(s, n))
  ELSE s

\* One half of updateIOSL: append when enabled and absent, remove the first
\* occurrence when disabled and present.
Listed(s, n, enabled) ==
  IF enabled /\ ~IsIn(s, n) THEN Append(s, n)
  ELSE IF ~enabled /\ IsIn(s, n) THEN Without(s, FirstIndex(s, n))
  ELSE s

updateIOSL(n, inbound, outbound) ==
  /\ InboundServers' = Listed(InboundServers, n, inbound)
  /\ OutboundServers' = Listed(OutboundServers, n, outbound)

-----------------------------------------------------------------------------
(* Initial state and restart *)

\* A ServerMetadata: a registration with a health status.
Meta(reg, health) == [host |-> reg.host, inbound |-> reg.inbound,
                      outbound |-> reg.outbound, health |-> health]

\* The names a Redis SCAN yields, in the order it yields them: SCAN may return
\* a key more than once.
Scans == UNION {[1..k -> Servers] : k \in 0..MaxScan}

\* The list of the scanned names that are in T, in the order of the scan and as
\* often as the scan has them.
Selections(scan, T) ==
  LET places == {k \in DOMAIN scan : scan[k] \in T}
      Ascending(f) == \A i, j \in DOMAIN f : i < j => f[i] < f[j]
      Onto(f) == \A k \in places : \E i \in DOMAIN f : f[i] = k
  IN {[i \in DOMAIN f |-> scan[f[i]]] :
        f \in {g \in [1..Cardinality(places) -> places] : Ascending(g) /\ Onto(g)}}

\* InitServerArrays: rebuild the memory from the keys that were scanned and
\* could be read.  A repeated key overwrites its map entries and is appended
\* to the lists again.
Load(scan) ==
  /\ LSML' = [n \in Servers |->
                IF IsIn(scan, n) THEN Meta(redis[n], "unknown") ELSE None]
  /\ LSCS' = [n \in Servers |-> IF IsIn(scan, n) THEN INF ELSE None]
  /\ InboundServers' \in
       Selections(scan, {n \in Servers : redis[n] # None /\ redis[n].inbound})
  /\ OutboundServers' \in
       Selections(scan, {n \in Servers : redis[n] # None /\ redis[n].outbound})

NoRequests ==
  /\ pc' = [r \in Requests |-> "idle"]
  /\ arg' = [r \in Requests |-> None]
  /\ local' = [r \in Requests |-> None]

Init ==
  /\ redis = [n \in Servers |-> None]
  /\ LSML = [n \in Servers |-> None]
  /\ LSCS = [n \in Servers |-> None]
  /\ InboundServers = <<>> /\ OutboundServers = <<>>
  /\ pc = [r \in Requests |-> "idle"]
  /\ arg = [r \in Requests |-> None]
  /\ local = [r \in Requests |-> None]
  /\ hbTarget = [n \in Servers |-> None]
  /\ hbReply = [n \in Servers |-> None]
  /\ media = [h \in Hosts |-> [up |-> TRUE, calls |-> 0]]

\* The process dies with its memory, its requests and its heartbeat round;
\* main() loads the registrations again before it serves anything.  A failed
\* SCAN or GET leaves names out.
Restart ==
  /\ \E scan \in Scans :
       /\ \A n \in Servers : IsIn(scan, n) => redis[n] # None
       /\ RedisMayFail \/ \A n \in Servers : redis[n] # None => IsIn(scan, n)
       /\ Load(scan)
  /\ NoRequests
  /\ hbTarget' = [n \in Servers |-> None]
  /\ hbReply' = [n \in Servers |-> None]
  /\ UNCHANGED <<redis, media>>

-----------------------------------------------------------------------------
(* Requests *)

Arrive(r) ==
  /\ pc[r] = "idle"
  /\ \E a \in Inputs :
       /\ arg' = [arg EXCEPT ![r] = a]
       /\ pc' = [pc EXCEPT ![r] = FirstStep[a.op]]
  /\ UNCHANGED <<redis, memory, local, heartbeat, media>>

\* SendResponse and return: the request slot is free again.
Respond(r) ==
  /\ pc' = [pc EXCEPT ![r] = "idle"]
  /\ arg' = [arg EXCEPT ![r] = None]
  /\ local' = [local EXCEPT ![r] = None]

Goto(r, step) == pc' = [pc EXCEPT ![r] = step] /\ UNCHANGED arg

\* RegisterContainerHandler, Redis GET: keep the stored flags; a missing key
\* and a failed GET both leave them false.
RegisterGet(r) ==
  LET n == arg[r].name
      Reg(i, o) == [host |-> arg[r].host, inbound |-> i, outbound |-> o]
  IN /\ pc[r] = "reg_get"
     /\ \/ /\ redis[n] # None
           /\ local' = [local EXCEPT ![r] = Reg(redis[n].inbound, redis[n].outbound)]
        \/ /\ redis[n] = None \/ RedisMayFail
           /\ local' = [local EXCEPT ![r] = Reg(FALSE, FALSE)]
     /\ Goto(r, "reg_set")
     /\ UNCHANGED <<redis, memory, heartbeat, media>>

\* Redis SET.  On an error the handler answers 503 and leaves the memory
\* alone; the command may or may not have reached Redis.
RegisterSet(r) ==
  LET stored == [redis EXCEPT ![arg[r].name] = local[r]]
  IN /\ pc[r] = "reg_set"
     /\ \/ redis' = stored /\ Goto(r, "reg_mem") /\ UNCHANGED local
        \/ RedisMayFail /\ redis' \in {redis, stored} /\ Respond(r)
     /\ UNCHANGED <<memory, heartbeat, media>>

\* Bug: a re-registration keeps the old address.
RegisterServerKeepingHost(n, reg) ==
  /\ LSML' = [LSML EXCEPT ![n] =
                [host |-> IF LSML[n] # None THEN LSML[n].host ELSE reg.host,
                 inbound |-> reg.inbound, outbound |-> reg.outbound,
                 health |-> IF LSML[n] # None THEN LSML[n].health ELSE "unknown"]]
  /\ LSCS' = [LSCS EXCEPT ![n] = IF LSML[n] # None THEN @ ELSE INF]
  /\ updateIOSL(n, reg.inbound, reg.outbound)

\* RegisterServer: a known server keeps its health and its call count.
RegisterServer(n, reg) ==
  /\ LSML' = [LSML EXCEPT ![n] =
                Meta(reg, IF LSML[n] # None THEN LSML[n].health ELSE "unknown")]
  /\ LSCS' = [LSCS EXCEPT ![n] = IF LSML[n] # None THEN @ ELSE INF]
  /\ updateIOSL(n, reg.inbound, reg.outbound)

RegisterMem(r) ==
  /\ pc[r] = "reg_mem"
  /\ RegisterServer(arg[r].name, local[r])
  /\ Respond(r)
  /\ UNCHANGED <<redis, heartbeat, media>>

\* UnregisterContainerHandler, Redis DEL: 503 on an error, 404 when there
\* was nothing to delete, and only otherwise the memory is changed.
UnregisterDel(r) ==
  LET n == arg[r].name
      deleted == [redis EXCEPT ![n] = None]
  IN /\ pc[r] = "unreg_del"
     /\ \/ redis[n] # None /\ redis' = deleted /\ Goto(r, "unreg_mem") /\ UNCHANGED local
        \/ redis[n] = None /\ UNCHANGED redis /\ Respond(r)
        \/ RedisMayFail /\ redis' \in {redis, deleted} /\ Respond(r)
     /\ UNCHANGED <<memory, heartbeat, media>>

UnregisterServer(n) ==
  /\ LSML' = [LSML EXCEPT ![n] = None]
  /\ LSCS' = [LSCS EXCEPT ![n] = None]
  /\ updateIOSL(n, FALSE, FALSE)

UnregisterMem(r) ==
  /\ pc[r] = "unreg_mem"
  /\ UnregisterServer(arg[r].name)
  /\ Respond(r)
  /\ UNCHANGED <<redis, heartbeat, media>>

\* Bug: the missing flag is taken for a value.
ToggledAlways(flag, old) == flag

\* An optional JSON flag overrides the old value when it is present.
Toggled(flag, old) == IF flag = None THEN old ELSE flag

\* ToggleContainerHandler, Redis GET: an error and a missing key answer 404.
ToggleGet(r) ==
  LET old == redis[arg[r].name]
  IN /\ pc[r] = "tog_get"
     /\ \/ /\ old # None
           /\ local' = [local EXCEPT ![r] =
                          [host |-> old.host,
                           inbound |-> Toggled(arg[r].inbound, old.inbound),
                           outbound |-> Toggled(arg[r].outbound, old.outbound)]]
           /\ Goto(r, "tog_set")
        \/ (old = None \/ RedisMayFail) /\ Respond(r)
     /\ UNCHANGED <<redis, memory, heartbeat, media>>

\* Redis SET, whose error is ignored.
ToggleSet(r) ==
  LET stored == [redis EXCEPT ![arg[r].name] = local[r]]
  IN /\ pc[r] = "tog_set"
     /\ \/ redis' = stored
        \/ RedisMayFail /\ UNCHANGED redis
     /\ Goto(r, "tog_mem")
     /\ UNCHANGED <<memory, local, heartbeat, media>>

\* ToggleServer, whose "not found in memory" error is ignored too.
ToggleServer(n, inbound, outbound) ==
  \/ LSML[n] = None /\ UNCHANGED memory
  \/ /\ LSML[n] # None
     /\ LET reg == [host |-> LSML[n].host,
                    inbound |-> Toggled(inbound, LSML[n].inbound),
                    outbound |-> Toggled(outbound, LSML[n].outbound)]
        IN /\ LSML' = [LSML EXCEPT ![n] = Meta(reg, LSML[n].health)]
           /\ updateIOSL(n, reg.inbound, reg.outbound)
     /\ UNCHANGED LSCS

ToggleMem(r) ==
  /\ pc[r] = "tog_mem"
  /\ ToggleServer(arg[r].name, arg[r].inbound, arg[r].outbound)
  /\ Respond(r)
  /\ UNCHANGED <<redis, heartbeat, media>>

-----------------------------------------------------------------------------
(* Routing *)

\* Bug: the first healthy server of the list is taken.
FirstHealthy(list) ==
  {list[i] : i \in {k \in DOMAIN list :
     /\ LSCS[list[k]] \notin {None, INF}
     /\ \A j \in DOMAIN list : j < k => LSCS[list[j]] \in {None, INF}}}

\* FindLowestLoadContainer: the names of the list with the smallest finite
\* count; a strict comparison keeps the first of them.
Lowest(list) ==
  {list[i] : i \in {k \in DOMAIN list :
     /\ LSCS[list[k]] \notin {None, INF}
     /\ \A j \in DOMAIN list : LSCS[list[j]] # None =>
          /\ LSCS[list[k]] <= LSCS[list[j]]
          /\ j < k => LSCS[list[k]] < LSCS[list[j]]}}

\* FindContainerByType: Go iterates a map in any order, so any healthy server
\* whose name contains the type; the enabled flags are not consulted.
OfType(t) == {n \in NamesOfType[t] : LSML[n] # None /\ LSCS[n] \notin {None, INF}}

Candidates(a) ==
  IF a.op = "contact" THEN Lowest(InboundServers)
  ELSE IF a.type # None THEN OfType(a.type)
  ELSE Lowest(OutboundServers)

\* InitiateCallHandler / GetInboundContactHandler up to the choice: 503 when
\* there is no candidate, else the optimistic increment and a metadata copy.
Find(r) ==
  /\ pc[r] = "find"
  /\ \/ Candidates(arg[r]) = {} /\ Respond(r) /\ UNCHANGED LSCS
     \/ \E n \in Candidates(arg[r]) :
          /\ LSCS[n] < MaxCount
          /\ LSCS' = [LSCS EXCEPT ![n] = @ + 1]
          /\ \/ LSML[n] = None /\ Respond(r)
             \/ /\ LSML[n] # None
                /\ local' = [local EXCEPT ![r] =
                               [host |-> LSML[n].host, inbound |-> LSML[n].inbound,
                                outbound |-> LSML[n].outbound]]
                /\ Goto(r, "post")
  /\ UNCHANGED <<redis, LSML, InboundServers, OutboundServers, heartbeat, media>>

\* The call reaches the host, which counts it: a proxied POST is refused at
\* the limit, an inbound INVITE that Asterisk sends is not.  It may also fail
\* there, or on the way; nothing takes the optimistic increment back.
Deliver(r) ==
  LET h == local[r].host
  IN /\ pc[r] = "post"
     /\ \/ /\ media[h].up
           /\ media[h].calls < IF arg[r].op = "contact" THEN MaxLoad ELSE MaxCalls
           /\ media' = [media EXCEPT ![h] = [up |-> TRUE, calls |-> @.calls + 1]]
        \/ UNCHANGED media
     /\ Respond(r)
     /\ UNCHANGED <<redis, memory, heartbeat>>

-----------------------------------------------------------------------------
(* Heartbeat worker *)

Targets == {n \in Servers : hbTarget[n] # None}

\* The snapshot under the read lock; with no servers the round ends at once.
HeartbeatSnapshot ==
  /\ Targets = {}
  /\ \E n \in Servers : LSML[n] # None
  /\ hbTarget' = [n \in Servers |-> IF LSML[n] # None THEN LSML[n].host ELSE None]
  /\ UNCHANGED <<redis, memory, requests, hbReply, media>>

\* healthCheck of a media server answers 200 below its limit.
Healthy(h) == media[h].up /\ media[h].calls < MaxCalls

\* GET /health of one target.  A host that is down, or at its limit (503),
\* gives an error; so does a probe that times out.
Probe(n) ==
  LET h == hbTarget[n]
  IN /\ h # None /\ hbReply[n] = None
     /\ \/ /\ Healthy(h)
           /\ hbReply' = [hbReply EXCEPT ![n] = [ok |-> TRUE, calls |-> media[h].calls]]
        \/ /\ ProbeMayFail \/ ~Healthy(h)
           /\ hbReply' = [hbReply EXCEPT ![n] = [ok |-> FALSE, calls |-> 0]]
     /\ UNCHANGED <<redis, memory, requests, hbTarget, media>>

\* Bug: the check that the server is still registered is dropped for LSCS.
HeartbeatApplyUnchecked ==
  LET updated == {n \in Targets : LSML[n] # None}
  IN /\ Targets # {}
     /\ \A n \in Targets : hbReply[n] # None
     /\ LSML' = [n \in Servers |->
                   IF n \in updated
                   THEN Meta(LSML[n], IF hbReply[n].ok THEN "healthy" ELSE "unhealthy")
                   ELSE LSML[n]]
     /\ LSCS' = [n \in Servers |->
                   IF n \in Targets
                   THEN IF hbReply[n].ok THEN hbReply[n].calls ELSE INF
                   ELSE LSCS[n]]
     /\ hbTarget' = [n \in Servers |-> None]
     /\ hbReply' = [n \in Servers |-> None]
     /\ UNCHANGED <<redis, InboundServers, OutboundServers, requests, media>>

\* Bug: a failed probe marks the metadata but leaves the call count alone.
HeartbeatApplyKeepingCount ==
  LET updated == {n \in Targets : LSML[n] # None}
  IN /\ Targets # {}
     /\ \A n \in Targets : hbReply[n] # None
     /\ LSML' = [n \in Servers |->
                   IF n \in updated
                   THEN Meta(LSML[n], IF hbReply[n].ok THEN "healthy" ELSE "unhealthy")
                   ELSE LSML[n]]
     /\ LSCS' = [n \in Servers |->
                   IF n \in updated /\ hbReply[n].ok THEN hbReply[n].calls ELSE LSCS[n]]
     /\ hbTarget' = [n \in Servers |-> None]
     /\ hbReply' = [n \in Servers |-> None]
     /\ UNCHANGED <<redis, InboundServers, OutboundServers, requests, media>>

\* All results under one write lock; servers gone from LSML are skipped.
HeartbeatApply ==
  LET updated == {n \in Targets : LSML[n] # None}
  IN /\ Targets # {}
     /\ \A n \in Targets : hbReply[n] # None
     /\ LSML' = [n \in Servers |->
                   IF n \in updated
                   THEN Meta(LSML[n], IF hbReply[n].ok THEN "healthy" ELSE "unhealthy")
                   ELSE LSML[n]]
     /\ LSCS' = [n \in Servers |->
                   IF n \in updated
                   THEN IF hbReply[n].ok THEN hbReply[n].calls ELSE INF
                   ELSE LSCS[n]]
     /\ hbTarget' = [n \in Servers |-> None]
     /\ hbReply' = [n \in Servers |-> None]
     /\ UNCHANGED <<redis, InboundServers, OutboundServers, requests, media>>

-----------------------------------------------------------------------------
(* Media servers (environment) *)

\* A call of the host ends, hung up by a party or by EndCallHandler's POST.
CallEnds(h) ==
  /\ media[h].up /\ media[h].calls > 0
  /\ media' = [media EXCEPT ![h] = [up |-> TRUE, calls |-> @.calls - 1]]
  /\ UNCHANGED <<redis, memory, requests, heartbeat>>

\* A host goes down with its calls, or comes back empty.
HostFlips(h) ==
  /\ HostsMayFail
  /\ media' = [media EXCEPT ![h] = [up |-> ~@.up, calls |-> 0]]
  /\ UNCHANGED <<redis, memory, requests, heartbeat>>

-----------------------------------------------------------------------------
Handle(r) ==
  \/ RegisterGet(r) \/ RegisterSet(r) \/ RegisterMem(r)
  \/ UnregisterDel(r) \/ UnregisterMem(r)
  \/ ToggleGet(r) \/ ToggleSet(r) \/ ToggleMem(r)
  \/ Find(r) \/ Deliver(r)

Next ==
  \/ \E r \in Requests : Arrive(r) \/ Handle(r)
  \/ HeartbeatSnapshot
  \/ \E n \in Servers : Probe(n)
  \/ HeartbeatApply
  \/ Restart
  \/ \E h \in Hosts : CallEnds(h) \/ HostFlips(h)

Spec == Init /\ [][Next]_vars

\* The heartbeat goroutine loops forever and its HTTP client has a timeout;
\* Go's scheduler runs every runnable handler.
Fairness ==
  /\ WF_vars(HeartbeatSnapshot)
  /\ \A n \in Servers : WF_vars(Probe(n))
  /\ WF_vars(HeartbeatApply)
  /\ \A r \in Requests : WF_vars(Handle(r))

FairSpec == Spec /\ Fairness

-----------------------------------------------------------------------------
(* Properties *)

\* Under stateMu the three structures describe the same servers: a server has
\* a count exactly when it has metadata, whatever the order in which handlers
\* and the heartbeat worker take the lock.
MapsAgree == \A n \in Servers : LSML[n] # None <=> LSCS[n] # None

\* No enabled server is missing from the list that routing searches.
EnabledListed ==
  \A n \in Servers :
    LSML[n] # None => /\ LSML[n].inbound => IsIn(InboundServers, n)
                      /\ LSML[n].outbound => IsIn(OutboundServers, n)

\* What the dashboard shows and what routing uses never disagree: metadata
\* says "healthy" exactly when the call count is finite.
HealthyIffFinite ==
  \A n \in Servers : LSML[n] # None => (LSML[n].health = "healthy" <=> LSCS[n] # INF)

\* LSML, LSCS and IOSL, changed by four handlers, the heartbeat and a restart,
\* always tell the same story: the same servers have metadata and a count, the
\* enabled ones are all listed, and "healthy" means a finite count.
StructuresAgree == MapsAgree /\ EnabledListed /\ HealthyIffFinite

\* A list has the name of a server that is not registered, or is disabled.
InboundGhost(n) == IsIn(InboundServers, n) /\ ~(LSML[n] # None /\ LSML[n].inbound)
OutboundGhost(n) == IsIn(OutboundServers, n) /\ ~(LSML[n] # None /\ LSML[n].outbound)

\* A repeated scan key is the only source of such names: no handler ever enters
\* a name twice, and a server that is disabled or unregistered leaves a name
\* behind only in a list that a scan has given it more than once.
GhostsOnlyFromScan ==
  [][\A n \in Servers :
       /\ Repeated(InboundServers', n) => Repeated(InboundServers, n) \/ Restart
       /\ Repeated(OutboundServers', n) => Repeated(OutboundServers, n) \/ Restart
       /\ InboundGhost(n)' => InboundGhost(n) \/ Repeated(InboundServers, n)
       /\ OutboundGhost(n)' => OutboundGhost(n) \/ Repeated(OutboundServers, n)]_vars

Mirrors(meta, reg) ==
  \/ meta = None /\ reg = None
  \/ /\ meta # None /\ reg # None
     /\ meta.host = reg.host
     /\ meta.inbound = reg.inbound /\ meta.outbound = reg.outbound

\* Whenever no request is in flight, LSML holds the same registrations as
\* Redis: the same servers, addresses and flags.  Two requests for one server
\* break it, as each writes Redis and the memory in separate steps.
LSMLSameAsRedis ==
  (\A r \in Requests : pc[r] = "idle") => \A n \in Servers : Mirrors(LSML[n], redis[n])

\* The request registers, unregisters or toggles a server.
Admin(r) ==
  pc[r] \in {"reg_get", "reg_set", "reg_mem", "unreg_del", "unreg_mem",
             "tog_get", "tog_set", "tog_mem"}

\* No two registrations, unregistrations or toggles of one server overlap.
OnePerServer ==
  \A r, q \in Requests : Admin(r) /\ Admin(q) /\ arg[r].name = arg[q].name => r = q

\* Nothing but such an overlap makes the memory differ from Redis while Redis
\* answers: not concurrent requests for other servers, routing, the heartbeat,
\* or a restart in the middle of a handler.
MirrorsUnlessOverlap == []OnePerServer => []LSMLSameAsRedis

\* Does request a consider server n?
Eligible(a, n) ==
  /\ LSML[n] # None
  /\ IF a.op = "contact" THEN LSML[n].inbound
     ELSE IF a.type # None THEN n \in NamesOfType[a.type]
     ELSE LSML[n].outbound

\* Every call is routed to a registered and healthy server: an eligible one, or
\* one whose name a repeated scan key has left in the list; and unless the
\* client asked for a type, no eligible server has fewer calls.  Stated over
\* the metadata, not over the lists and counts the search reads.
RoutesToLeastLoaded ==
  [][\A r \in Requests, n \in Servers :
       (pc[r] = "find" /\ pc'[r] = "post" /\ LSCS'[n] # LSCS[n]) =>
         /\ LSML[n] # None /\ LSML[n].health = "healthy"
         /\ \/ Eligible(arg[r], n)
            \/ arg[r].op = "contact" /\ InboundGhost(n)
            \/ arg[r].op = "call" /\ arg[r].type = None /\ OutboundGhost(n)
         /\ (arg[r].op = "contact" \/ arg[r].type = None) =>
              \A m \in Servers : Eligible(arg[r], m) => LSCS[n] <= LSCS[m]]_vars

\* What a probe of server n would store in LSCS now.
Truth(n) ==
  IF Healthy(LSML[n].host) THEN media[LSML[n].host].calls ELSE INF

\* No call or inbound contact is being routed.
NoCallInFlight ==
  \A r \in Requests : pc[r] # "idle" => arg[r].op \notin {"call", "contact"}

\* Drift of LSCS (lost increments, increments of calls that failed, a host
\* that died or came back) is always repaired: if from some time on the load
\* balancer does not restart, a server stays registered at its address, its
\* host's state stays the same and no call is being routed, then its count
\* settles at what the host reports, although the server keeps re-registering
\* and being toggled.
CountsConverge ==
  \A n \in Servers, h \in Hosts, v \in 0..INF :
    ( /\ <>[][~Restart]_vars
      /\ <>[](LSML[n] # None /\ LSML[n].host = h /\ Truth(n) = v /\ NoCallInFlight) )
    => <>[](LSCS[n] = v)
=============================================================================
