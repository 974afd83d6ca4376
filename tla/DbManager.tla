----------------------------- MODULE DbManager -----------------------------
(***************************************************************************)
(* Providers and DIDs: the endpoints add-provider, add-did,                *)
(* remove-provider and remove-did of the media servers, each a sequence of *)
(* SQL statements on the database that Asterisk reads, without a           *)
(* transaction, stopped at the first one that fails.                       *)
(*                                                                         *)
(* All threads of a process (16 for HTTP, and PJSIP's, which looks up the  *)
(* webhook of an inbound call) share one MySQL connection, without a       *)
(* mutex; each process (container) has its own.  executeSqlQuery           *)
(* reconnects when there is no connection, and once more when the          *)
(* statement is answered by "server gone" or "server lost"; a statement    *)
(* that was lost may have been executed.  Two threads inside the client    *)
(* library on one connection have no defined outcome: a fault.             *)
(*                                                                         *)
(* A registered provider is reported to Asterisk over its manager          *)
(* interface (AmiManager), after the rows were written.                    *)
(***************************************************************************)
EXTENDS Integers, Sequences, FiniteSets

CONSTANTS
  Providers,  \* provider names, ids of ps_endpoints
  Dids,       \* ids of ps_provider_dids
  Threads,    \* threads that use the database, of all processes
  Processes,  \* media servers that share the database
  Requests,   \* the requests clients send
  None

Tables == {"auths", "aors", "endpoints", "registrations", "webhooks"}

\* The values of a request are pasted into its statements unchecked.  unfit
\* numbers the statements that the server refuses for them, whatever the tables
\* hold: a value is longer than its column, or has a quote in it.
Unfit == SUBSET (1..6)

Adds == [op : {"add"}, p : Providers, reg : BOOLEAN, unfit : Unfit]
AddDids == [op : {"addDid"}, p : Providers, d : Dids, unfit : Unfit]
Removes == [op : {"remove"}, p : Providers, unfit : Unfit]
RemoveDids == [op : {"removeDid"}, d : Dids, unfit : Unfit]
Selects == [op : {"select"}, unfit : Unfit]

ASSUME DBAssumption ==
  /\ Requests \subseteq Adds \cup AddDids \cup Removes \cup RemoveDids \cup Selects
  /\ None \notin Providers \cup Requests

VARIABLES
  process, \* process[t]: the process thread t belongs to
  rows,    \* rows[table]: the providers that have their row in it
  dids,    \* dids[d]: the provider the DID row d belongs to
  conn,    \* conn[c]: mysql_conn of process c: "null", "open", "broken"
  pc,      \* pc[t]: next step of thread t
  job,     \* job[t]: its request
  at,      \* at[t]: the statement it has reached
  raced,   \* history: rival operations on the same provider that overlapped job[t]
  clean,   \* history: had the provider it adds no row when job[t] began?
  claim,   \* history: what the last undisturbed request promised of a provider
  fault

database == <<rows, dids>>
history == <<raced, clean, claim>>
vars == <<process, rows, dids, conn, pc, job, at, raced, clean, claim, fault>>

Steps == {"idle", "enter", "query", "again", "failed",
          "ami_connect", "ami_login", "ami_command"}
InClient == {"query", "again"}  \* inside the client library
Kinds == {"add", "addDid", "remove", "removeDid", "select"}

-----------------------------------------------------------------------------
(* Statements *)

Insert(table, p) == [verb |-> "insert", table |-> table, p |-> p]
Delete(table, p) == [verb |-> "delete", table |-> table, p |-> p]

\* addProvider: auth, aor, endpoint, and the registration if there is one.
AddProgram(p, reg) ==
  IF reg
  THEN <<Insert("auths", p), Insert("aors", p), Insert("endpoints", p),
         Insert("registrations", p)>>
  ELSE <<Insert("auths", p), Insert("aors", p), Insert("endpoints", p)>>

\* addDid: the row of the DID, and an upsert of the provider's webhook.
AddDidProgram(d, p) ==
  <<[verb |-> "insertDid", d |-> d, p |-> p], [verb |-> "upsertWebhook", p |-> p]>>

\* Bug: the endpoint is deleted before the rows that refer to it.
RemoveProgramEndpointFirst(p) ==
  <<Delete("endpoints", p), [verb |-> "deleteDids", p |-> p], Delete("webhooks", p),
    Delete("registrations", p), Delete("aors", p), Delete("auths", p)>>

\* Bug: the registration is forgotten.
RemoveProgramKeepingRegistration(p) ==
  <<[verb |-> "deleteDids", p |-> p], Delete("webhooks", p),
    Delete("aors", p), Delete("auths", p), Delete("endpoints", p)>>

\* removeProvider: dependents first.
RemoveProgram(p) ==
  <<[verb |-> "deleteDids", p |-> p], Delete("webhooks", p), Delete("registrations", p),
    Delete("aors", p), Delete("auths", p), Delete("endpoints", p)>>

Program(j) ==
  CASE j.op = "add" -> AddProgram(j.p, j.reg)
    [] j.op = "addDid" -> AddDidProgram(j.d, j.p)
    [] j.op = "remove" -> RemoveProgram(j.p)
    [] j.op = "removeDid" -> <<[verb |-> "deleteDid", d |-> j.d]>>
    [] OTHER -> <<[verb |-> "select"]>>

TypeOK ==
  /\ process \in [Threads -> Processes]
  /\ rows \in [Tables -> SUBSET Providers]
  /\ dids \in [Dids -> Providers \cup {None}]
  /\ conn \in [Processes -> {"null", "open", "broken"}]
  /\ pc \in [Threads -> Steps]
  /\ job \in [Threads -> Requests \cup {None}]
  /\ at \in [Threads -> Nat \ {0}]
  /\ \A t \in Threads : job[t] # None => at[t] <= Len(Program(job[t]))
  /\ raced \in [Threads -> SUBSET Kinds]
  /\ clean \in [Threads -> BOOLEAN]
  /\ claim \in [Providers -> {"none", "added", "registered", "removed"}]
  /\ fault \in {"none", "shared_connection"}

\* Primary keys, the two foreign keys to ps_endpoints (the one of
\* trunk_webhooks cascades, the one of ps_provider_dids does not).
Legal(st) ==
  CASE st.verb = "insert" -> st.p \notin rows[st.table]
    [] st.verb = "insertDid" -> dids[st.d] = None /\ st.p \in rows["endpoints"]
    [] st.verb = "upsertWebhook" -> st.p \in rows["endpoints"]
    [] st.verb = "delete" -> st.table = "endpoints" => \A d \in Dids : dids[d] # st.p
    [] OTHER -> TRUE

Execute(st) ==
  /\ rows' = CASE st.verb = "insert" -> [rows EXCEPT ![st.table] = @ \cup {st.p}]
               [] st.verb = "upsertWebhook" -> [rows EXCEPT !["webhooks"] = @ \cup {st.p}]
               [] st.verb = "delete" ->
                    [x \in Tables |->
                       IF x = st.table \/ (st.table = "endpoints" /\ x = "webhooks")
                       THEN rows[x] \ {st.p} ELSE rows[x]]
               [] OTHER -> rows
  /\ dids' = CASE st.verb = "insertDid" -> [dids EXCEPT ![st.d] = st.p]
               [] st.verb = "deleteDid" -> [dids EXCEPT ![st.d] = None]
               [] st.verb = "deleteDids" ->
                    [d \in Dids |-> IF dids[d] = st.p THEN None ELSE dids[d]]
               [] OTHER -> dids

-----------------------------------------------------------------------------
(* Requests *)

Init ==
  /\ process \in [Threads -> Processes]
  /\ rows = [x \in Tables |-> {}]
  /\ dids = [d \in Dids |-> None]
  /\ conn = [c \in Processes |-> "open"]
  /\ pc = [t \in Threads |-> "idle"]
  /\ job = [t \in Threads |-> None]
  /\ at = [t \in Threads |-> 1]
  /\ raced = [t \in Threads |-> {}]
  /\ clean = [t \in Threads |-> FALSE]
  /\ claim = [p \in Providers |-> "none"]
  /\ fault = "none"

Busy(t) == job[t] # None

OnProvider(j) == j.op \in {"add", "addDid", "remove"}

\* Threads whose request is under way and concerns the provider of j.
Rivals(j) == {t \in Threads : /\ Busy(t) /\ OnProvider(j) /\ OnProvider(job[t])
                              /\ job[t].p = j.p}

\* The operations that can make one on the same provider come out differently.
Rival == [add |-> {"add", "remove"}, remove |-> {"add", "addDid"},
          addDid |-> {}, removeDid |-> {}, select |-> {}]

Absent(p) == (\A x \in Tables : p \notin rows[x]) /\ (\A d \in Dids : dids[d] # p)

\* What a beginning request takes back of what was promised before it.
Begun(j) ==
  [p \in Providers |->
     IF OnProvider(j) /\ j.p = p
        /\ \/ j.op = "add" /\ claim[p] = "removed"
           \/ j.op = "remove" /\ claim[p] \in {"added", "registered"}
     THEN "none" ELSE claim[p]]

\* A request passed the checks of its endpoint.
Begin(t) ==
  /\ ~Busy(t) /\ pc[t] \in {"idle", "failed"}
  /\ \E j \in Requests :
       /\ job' = [job EXCEPT ![t] = j]
       /\ raced' = [u \in Threads |->
                      IF u = t THEN {job[v].op : v \in Rivals(j)} \cap Rival[j.op]
                      ELSE IF u \in Rivals(j) THEN raced[u] \cup ({j.op} \cap Rival[job[u].op])
                      ELSE raced[u]]
       /\ clean' = [clean EXCEPT ![t] = j.op = "add" /\ Absent(j.p)]
       /\ claim' = Begun(j)
  /\ pc' = [pc EXCEPT ![t] = "enter"]
  /\ UNCHANGED <<database, conn, at, fault>>

\* What an undisturbed success promises.
Promised(t) ==
  [p \in Providers |->
     IF OnProvider(job[t]) /\ job[t].p = p
     THEN CASE job[t].op = "add" /\ "remove" \notin raced[t] ->
                 IF job[t].reg THEN "registered" ELSE "added"
            [] job[t].op = "remove" /\ "add" \notin raced[t] -> "removed"
            [] OTHER -> claim[p]
     ELSE claim[p]]

\* The thread has no request any more.
Released(t) ==
  /\ job' = [job EXCEPT ![t] = None]
  /\ at' = [at EXCEPT ![t] = 1]
  /\ raced' = [raced EXCEPT ![t] = {}]
  /\ clean' = [clean EXCEPT ![t] = FALSE]

\* The operation returns true: the answer, or first the registration check.
Succeed(t) ==
  /\ claim' = Promised(t)
  /\ pc' = [pc EXCEPT ![t] = IF job[t].op = "add" /\ job[t].reg
                             THEN "ami_connect" ELSE "idle"]
  /\ Released(t)

\* The thread goes on with the same request.
Goto(t, step) ==
  /\ pc' = [pc EXCEPT ![t] = step]
  /\ UNCHANGED <<job, at, raced, clean, claim>>

\* Bug: the result of executeSqlQuery is not looked at.
FailUnnoticed(t) ==
  /\ pc' = [pc EXCEPT ![t] = "idle"]
  /\ claim' = Promised(t)
  /\ Released(t)

\* executeSqlQuery returns false: so does the operation, and the answer is 500
\* (a query without a result is answered with an empty list instead).
Fail(t) ==
  /\ pc' = [pc EXCEPT ![t] = "failed"]
  /\ Released(t)
  /\ UNCHANGED claim

\* Bug: "<=" for "<".
ProceedPastEnd(t) ==
  \/ at[t] > Len(Program(job[t])) /\ Succeed(t)
  \/ /\ at[t] <= Len(Program(job[t]))
     /\ at' = [at EXCEPT ![t] = @ + 1]
     /\ pc' = [pc EXCEPT ![t] = "enter"]
     /\ UNCHANGED <<job, raced, clean, claim>>

\* executeSqlQuery returns true: the next statement, or the end.
Proceed(t) ==
  \/ at[t] = Len(Program(job[t])) /\ Succeed(t)
  \/ /\ at[t] < Len(Program(job[t]))
     /\ at' = [at EXCEPT ![t] = @ + 1]
     /\ pc' = [pc EXCEPT ![t] = "enter"]
     /\ UNCHANGED <<job, raced, clean, claim>>

-----------------------------------------------------------------------------
(* executeSqlQuery, executeSelectQuery *)

Statement(t) == Program(job[t])[at[t]]

\* mysql_query returns 0: the values fit and no key forbids the statement.
Fits(t) == at[t] \notin job[t].unfit
Taken(t) == Fits(t) /\ Legal(Statement(t))

\* Is another thread of this process using its connection?
InUse(t) == \E u \in Threads \ {t} : process[u] = process[t] /\ pc[u] \in InClient

Connected(t, state) == conn' = [conn EXCEPT ![process[t]] = state]

\* mysql_conn is looked at and, if it is null, connected.
Enter(t) ==
  /\ pc[t] = "enter"
  /\ \/ /\ InUse(t)
        /\ fault' = "shared_connection"
        /\ Goto(t, "enter") /\ UNCHANGED conn
     \/ /\ ~InUse(t) /\ conn[process[t]] # "null"
        /\ Goto(t, "query") /\ UNCHANGED <<conn, fault>>
     \/ /\ ~InUse(t) /\ conn[process[t]] = "null"
        /\ \/ Connected(t, "open") /\ Goto(t, "query")
           \/ UNCHANGED conn /\ Fail(t)
        /\ UNCHANGED fault
  /\ UNCHANGED database

\* The server answers mysql_query: done, or refused.
Answered(t) ==
  /\ conn[process[t]] = "open"
  /\ \/ Taken(t) /\ Execute(Statement(t)) /\ Proceed(t)
     \/ ~Taken(t) /\ UNCHANGED database /\ Fail(t)
  /\ UNCHANGED conn

\* No answer: the server had closed the connection, or the connection breaks
\* now, before or after the statement was executed.
Lost(t) ==
  \/ UNCHANGED database
  \/ /\ conn[process[t]] = "open" /\ Taken(t)
     /\ Execute(Statement(t))

\* The first mysql_query.  When it is lost, disconnectFromDatabase and
\* connectToDatabase follow; between them only the database can change.
Query(t) ==
  /\ pc[t] = "query"
  /\ \/ Answered(t)
     \/ Lost(t) /\ Connected(t, "open") /\ Goto(t, "again")
     \/ Lost(t) /\ Connected(t, "null") /\ Fail(t)
  /\ UNCHANGED fault

\* The statement is sent a second time, and not a third.
Again(t) ==
  /\ pc[t] = "again"
  /\ \/ Answered(t)
     \/ Lost(t) /\ Connected(t, "broken") /\ Fail(t)
  /\ UNCHANGED fault

-----------------------------------------------------------------------------
(* triggerRegistrationCheck, whose result is only logged *)

AmiGoto(t, from, step) ==
  /\ pc[t] = from
  /\ pc' = [pc EXCEPT ![t] = step]
  /\ UNCHANGED <<database, conn, job, at, history, fault>>

\* connectToAMI polls for at most five seconds.
AmiConnect(t) == AmiGoto(t, "ami_connect", "ami_login") \/ AmiGoto(t, "ami_connect", "idle")

\* loginToAMI and sendAMICommand wait in recv, which has no timeout.
AmiLogin(t) == AmiGoto(t, "ami_login", "ami_command") \/ AmiGoto(t, "ami_login", "idle")
AmiCommand(t) == AmiGoto(t, "ami_command", "idle")

-----------------------------------------------------------------------------
Sql(t) == Enter(t) \/ Query(t) \/ Again(t)

Next ==
  /\ fault = "none"
  /\ UNCHANGED process
  /\ \E t \in Threads :
       Begin(t) \/ Sql(t) \/ AmiConnect(t) \/ AmiLogin(t) \/ AmiCommand(t)

Spec == Init /\ [][Next]_vars

-----------------------------------------------------------------------------
(* Properties *)

\* A provider whose addition was reported as done, by a request that no removal
\* overlapped, has all its rows until a removal begins: whatever other
\* processes add, however often the connection was lost on the way.
AddedIsComplete ==
  \A p \in Providers :
    /\ claim[p] \in {"added", "registered"} =>
         \A x \in {"auths", "aors", "endpoints"} : p \in rows[x]
    /\ claim[p] = "registered" => p \in rows["registrations"]

\* A provider whose removal was reported as done, by a request that no addition
\* of the provider overlapped, has no row in any table until an addition
\* begins, whatever DIDs are being added to it.
RemovedIsGone ==
  \A p \in Providers : claim[p] = "removed" => Absent(p)

\* Failures have a cause the caller can do something about.  When the values
\* fit, a removal that no addition overlapped fails only when the connection
\* failed, and so does an addition that began with no row of the provider and
\* had no rival; removing a DID and looking something up fail for no other
\* reason either.
FailureExplained ==
  [][\A t \in Threads :
       (Busy(t) /\ pc'[t] = "failed" /\ pc[t] # "again" /\ conn'[process[t]] = "open" /\ Fits(t)) =>
          /\ job[t].op = "remove" => raced[t] # {}
          /\ (job[t].op = "add" /\ clean[t]) => raced[t] # {}
          /\ job[t].op \notin {"removeDid", "select"}]_vars
=============================================================================
