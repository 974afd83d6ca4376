---------------------------- MODULE Announcement ----------------------------
(***************************************************************************)
(* The media servers as the load balancer meets them.  Each has one SIP    *)
(* account at Asterisk, which PJSIP registers, refreshes before it expires *)
(* and retries after a failure; whenever the registrar has accepted it,    *)
(* onRegState posts the server's name and address to the load balancer.    *)
(*                                                                         *)
(* The post is not repeated, any HTTP answer counts as success, and a lost *)
(* registration is not announced: what heals the load balancer's view is   *)
(* the next refresh.                                                       *)
(***************************************************************************)
EXTENDS LoadBalancer

CONSTANT Home \* Home[n]: PUBLIC_IP and HTTP_PORT of server n, parts of its name

\* Among the requests clients send are the registrations the servers post.
ASSUME HomeAssumption ==
  /\ Home \in [Servers -> Hosts]
  /\ \A n \in Servers : [op |-> "register", name |-> n, host |-> Home[n]] \in Inputs

VARIABLE registered \* registered[n]: regIsActive of the account of server n

announcementVars == <<vars, registered>>

AInit ==
  /\ Init
  /\ registered = [n \in Servers |-> FALSE]

\* The PJSIP thread of server n is inside curl_easy_perform.
Posting(n) ==
  \E r \in Requests : pc[r] # "idle" /\ arg[r] = [op |-> "register", name |-> n, host |-> Home[n]]

\* notifyLoadBalancerWithResponse: the post reaches the load balancer,
Posts(n) ==
  /\ \E r \in Requests :
       /\ pc[r] = "idle"
       /\ pc' = [pc EXCEPT ![r] = FirstStep["register"]]
       /\ arg' = [arg EXCEPT ![r] = [op |-> "register", name |-> n, host |-> Home[n]]]
  /\ UNCHANGED <<redis, memory, local, heartbeat, media>>

\* or curl reports an error, which is logged.
PostLost == UNCHANGED vars

Registered(n, active) == registered' = [registered EXCEPT ![n] = active]

\* Bug: only a registration that was not active before is announced.
AcceptedFirst(n) ==
  /\ Registered(n, TRUE)
  /\ IF registered[n] THEN UNCHANGED vars ELSE Posts(n) \/ PostLost

\* onRegState with code 200 and an active registration: first or refreshed.
Accepted(n) ==
  /\ Registered(n, TRUE)
  /\ Posts(n) \/ PostLost

\* onRegState with any other code: Asterisk refused, or did not answer.
Refused(n) == Registered(n, FALSE) /\ UNCHANGED vars

onRegState(n) ==
  /\ media[Home[n]].up
  /\ ~Posting(n)
  /\ Accepted(n) \/ Refused(n)

\* An account ends with its process.
ANext ==
  \/ Next /\ registered' = [n \in Servers |-> registered[n] /\ media'[Home[n]].up]
  \/ \E n \in Servers : onRegState(n)

ASpec == AInit /\ [][ANext]_announcementVars

\* PJSIP registers again and again; a registrar and a network that work at
\* all accept some of these attempts and carry some of the posts.
AFairSpec ==
  /\ ASpec /\ Fairness
  /\ \A n \in Servers : SF_announcementVars(onRegState(n) /\ Accepted(n) /\ Posts(n))

-----------------------------------------------------------------------------
(* Properties *)

\* The load balancer's view heals: a media server that stays up is known at its
\* own address again and again, whatever posts were lost, although operators
\* unregister it, register its name elsewhere, and the load balancer restarts
\* for some time.
KnownAgain ==
  \A n \in Servers :
    (<>[](media[Home[n]].up) /\ <>[][~Restart]_vars)
       => []<>(LSML[n] # None /\ LSML[n].host = Home[n])
=============================================================================
