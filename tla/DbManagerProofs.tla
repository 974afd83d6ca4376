--------------------------- MODULE DbManagerProofs ---------------------------
(***************************************************************************)
(* What the answers to add-provider and remove-provider say of the         *)
(* database, for any number of providers, DIDs, threads and processes, and *)
(* any connections lost on the way.                                        *)
(***************************************************************************)
EXTENDS DbManager, TLAPS

-----------------------------------------------------------------------------
(* Requests and their statements *)

\* A request has an operation, and the provider and DID that the operation needs.
LEMMA RequestShape ==
  ASSUME NEW j \in Requests
  PROVE  /\ j # None /\ j.op \in Kinds
         /\ OnProvider(j) => j.p \in Providers
         /\ j.op = "add" => j.reg \in BOOLEAN
         /\ j.op \in {"addDid", "removeDid"} => j.d \in Dids
<1>1. j \in Adds \cup AddDids \cup Removes \cup RemoveDids \cup Selects /\ j # None
  BY DBAssumption
<1>2. CASE j \in Adds
  BY <1>1, <1>2 DEF Adds, OnProvider, Kinds
<1>3. CASE j \in AddDids
  BY <1>1, <1>3 DEF AddDids, OnProvider, Kinds
<1>4. CASE j \in Removes
  BY <1>1, <1>4 DEF Removes, OnProvider, Kinds
<1>5. CASE j \in RemoveDids
  BY <1>1, <1>5 DEF RemoveDids, OnProvider, Kinds
<1>6. CASE j \in Selects
  BY <1>1, <1>6 DEF Selects, OnProvider, Kinds
<1> QED
  BY <1>1, <1>2, <1>3, <1>4, <1>5, <1>6

\* The length of an operation.
Length(j) ==
  CASE j.op = "add" -> IF j.reg THEN 4 ELSE 3
    [] j.op = "addDid" -> 2
    [] j.op = "remove" -> 6
    [] OTHER -> 1

\* The tables addProvider and removeProvider come to, one after the other.
AddTable(k) == CASE k = 1 -> "auths" [] k = 2 -> "aors" [] k = 3 -> "endpoints"
                 [] OTHER -> "registrations"
RemoveTable(k) == CASE k = 2 -> "webhooks" [] k = 3 -> "registrations" [] k = 4 -> "aors"
                    [] k = 5 -> "auths" [] OTHER -> "endpoints"

\* The k-th statement of an operation.
StatementOf(j, k) ==
  CASE j.op = "add" -> Insert(AddTable(k), j.p)
    [] j.op = "addDid" /\ k = 1 -> [verb |-> "insertDid", d |-> j.d, p |-> j.p]
    [] j.op = "addDid" /\ k = 2 -> [verb |-> "upsertWebhook", p |-> j.p]
    [] j.op = "remove" /\ k = 1 -> [verb |-> "deleteDids", p |-> j.p]
    [] j.op = "remove" /\ k # 1 -> Delete(RemoveTable(k), j.p)
    [] j.op = "removeDid" -> [verb |-> "deleteDid", d |-> j.d]
    [] OTHER -> [verb |-> "select"]

\* addProvider has three or four statements, and which is which.
LEMMA AddProgramIs ==
  ASSUME NEW p, NEW reg \in BOOLEAN
  PROVE  /\ Len(AddProgram(p, reg)) = IF reg THEN 4 ELSE 3
         /\ \A k \in 1..Len(AddProgram(p, reg)) :
              AddProgram(p, reg)[k] = Insert(AddTable(k), p)
<1>1. \A k \in 1..4 : k = 1 \/ k = 2 \/ k = 3 \/ k = 4
  OBVIOUS
<1>2. CASE reg
  <2>1. /\ Len(AddProgram(p, reg)) = 4
        /\ AddProgram(p, reg)[1] = Insert("auths", p)
        /\ AddProgram(p, reg)[2] = Insert("aors", p)
        /\ AddProgram(p, reg)[3] = Insert("endpoints", p)
        /\ AddProgram(p, reg)[4] = Insert("registrations", p)
    BY <1>2 DEF AddProgram
  <2> QED
    BY <1>1, <1>2, <2>1 DEF AddTable
<1>3. CASE ~reg
  <2>1. /\ Len(AddProgram(p, reg)) = 3
        /\ AddProgram(p, reg)[1] = Insert("auths", p)
        /\ AddProgram(p, reg)[2] = Insert("aors", p)
        /\ AddProgram(p, reg)[3] = Insert("endpoints", p)
    BY <1>3 DEF AddProgram
  <2> QED
    BY <1>1, <1>3, <2>1 DEF AddTable
<1> QED
  BY <1>2, <1>3

\* The statements of any request, by number.
LEMMA ProgramIs ==
  ASSUME NEW j \in Requests
  PROVE  /\ Len(Program(j)) = Length(j) /\ Length(j) \in Nat \ {0}
         /\ \A k \in 1..Length(j) : Program(j)[k] = StatementOf(j, k)
<1>1. CASE j.op = "add"
  <2>1. Program(j) = AddProgram(j.p, j.reg)
    BY <1>1 DEF Program
  <2>2. j.reg \in BOOLEAN /\ Length(j) = IF j.reg THEN 4 ELSE 3
    BY <1>1, RequestShape DEF Length
  <2>3. \A k : StatementOf(j, k) = Insert(AddTable(k), j.p)
    BY <1>1 DEF StatementOf
  <2>4. /\ Len(AddProgram(j.p, j.reg)) = IF j.reg THEN 4 ELSE 3
        /\ \A k \in 1..Len(AddProgram(j.p, j.reg)) :
              AddProgram(j.p, j.reg)[k] = Insert(AddTable(k), j.p)
    BY <2>2, AddProgramIs, Zenon
  <2>5. /\ Len(Program(j)) = Length(j)
        /\ \A k \in 1..Len(Program(j)) : Program(j)[k] = Insert(AddTable(k), j.p)
    BY <2>1, <2>2, <2>4
  <2>6. Length(j) \in Nat \ {0}
    BY <2>2
  <2> QED
    BY <2>3, <2>5, <2>6
<1>2. CASE j.op = "addDid"
  <2>1. Program(j) = AddDidProgram(j.d, j.p)
    BY <1>2 DEF Program
  <2>2. Length(j) = 2
    BY <1>2 DEF Length
  <2>3. StatementOf(j, 1) = AddDidProgram(j.d, j.p)[1] /\ StatementOf(j, 2) = AddDidProgram(j.d, j.p)[2]
    BY <1>2 DEF AddDidProgram, StatementOf
  <2>4. Len(AddDidProgram(j.d, j.p)) = 2
    BY DEF AddDidProgram
  <2>5. \A k \in 1..2 : k = 1 \/ k = 2
    OBVIOUS
  <2> QED
    BY <2>1, <2>2, <2>3, <2>4, <2>5
<1>3. CASE j.op = "remove"
  <2>1. Program(j) = RemoveProgram(j.p)
    BY <1>3 DEF Program
  <2> QED
    BY <1>3, <2>1 DEF RemoveProgram, Length, StatementOf, RemoveTable
<1>4. CASE j.op = "removeDid"
  BY <1>4 DEF Program, Length, StatementOf
<1>5. CASE j.op = "select"
  BY <1>5 DEF Program, Length, StatementOf
<1> QED
  BY <1>1, <1>2, <1>3, <1>4, <1>5, RequestShape DEF Kinds
-----------------------------------------------------------------------------
(* The inductive invariant *)

\* A thread has a request exactly while it is inside executeSqlQuery.
BusyInSql ==
  \A t \in Threads : /\ job[t] # None <=> pc[t] \in {"enter", "query", "again"}
                     /\ job[t] = None => at[t] = 1

\* The two foreign keys.
ForeignKeys ==
  /\ \A d \in Dids : dids[d] # None => dids[d] \in rows["endpoints"]
  /\ rows["webhooks"] \subseteq rows["endpoints"]

\* Does thread t carry out operation op on provider p?
Doing(t, op, p) == job[t] # None /\ job[t].op = op /\ job[t].p = p

\* Rivals that are under way have been noticed.
RacesNoted ==
  \A t, u \in Threads, p \in Providers : t # u =>
    /\ Doing(t, "add", p) /\ Doing(u, "add", p) => "add" \in raced[t]
    /\ Doing(t, "add", p) /\ Doing(u, "remove", p) => "remove" \in raced[t]
    /\ Doing(t, "remove", p) /\ Doing(u, "add", p) => "add" \in raced[t]
    /\ Doing(t, "remove", p) /\ Doing(u, "addDid", p) => "addDid" \in raced[t]

\* A promise ends when the opposite operation begins.
ClaimsCurrent ==
  \A t \in Threads, p \in Providers :
    /\ Doing(t, "remove", p) => claim[p] \notin {"added", "registered"}
    /\ Doing(t, "add", p) => claim[p] # "removed"

\* An addition that met no removal has the rows it has passed.
AddProgress ==
  \A t \in Threads, p \in Providers :
    Doing(t, "add", p) /\ "remove" \notin raced[t] =>
      \A k \in 1..4 : k < at[t] => p \in rows[AddTable(k)]

\* A removal that met no addition has emptied what it has passed; whether the
\* webhook and the DIDs are gone is settled by the deletion of the endpoint.
RemoveProgress ==
  \A t \in Threads, p \in Providers :
    Doing(t, "remove", p) /\ "add" \notin raced[t] =>
      \A k \in 3..5 : k < at[t] => p \notin rows[RemoveTable(k)]

\* An addition that began without rows and has no rival finds none in its way,
\* unless its own statement was lost.
CleanAddition ==
  \A t \in Threads, p \in Providers :
    Doing(t, "add", p) /\ clean[t] /\ raced[t] = {} =>
      \A k \in 1..4 : (k > at[t] \/ (k = at[t] /\ pc[t] # "again")) => p \notin rows[AddTable(k)]

\* A removal without a rival has no DID left after its first statement.
DidsRemoved ==
  \A t \in Threads, p \in Providers :
    Doing(t, "remove", p) /\ raced[t] = {} /\ at[t] > 1 => \A d \in Dids : dids[d] # p

Inv ==
  /\ BusyInSql /\ ForeignKeys /\ RacesNoted /\ ClaimsCurrent
  /\ AddProgress /\ RemoveProgress /\ CleanAddition /\ DidsRemoved
  /\ AddedIsComplete /\ RemovedIsGone

IInv == TypeOK /\ Inv

-----------------------------------------------------------------------------
(* What a statement does *)

\* The statement of thread t is executed.
Executed(t) == Legal(Statement(t)) /\ Execute(Statement(t))

\* Rows only disappear from the tables of a provider that is being removed, a
\* provider's endpoint with its webhook and after its DIDs; they only appear
\* for a provider that is being added, or gets a DID and has an endpoint.
RowsChange(t) ==
  /\ rows' \in [Tables -> SUBSET Providers]
  /\ \A x \in Tables, p \in Providers :
       /\ p \in rows[x] /\ p \notin rows'[x] => Doing(t, "remove", p)
       /\ p \notin rows[x] /\ p \in rows'[x] =>
            \/ Doing(t, "add", p) /\ x = AddTable(at[t])
            \/ Doing(t, "addDid", p) /\ x = "webhooks" /\ p \in rows["endpoints"]
  /\ \A p \in Providers : p \in rows["endpoints"] /\ p \notin rows'["endpoints"] =>
       p \notin rows'["webhooks"] /\ \A d \in Dids : dids'[d] # p

\* A DID only appears for a provider that has an endpoint.
DidsChange(t) ==
  /\ dids' \in [Dids -> Providers \cup {None}]
  /\ \A d \in Dids : dids'[d] # dids[d] /\ dids'[d] # None =>
       Doing(t, "addDid", dids'[d]) /\ dids'[d] \in rows["endpoints"] /\ rows' = rows

\* What thread t can rely on once its statement was executed.
Done(t) ==
  /\ \A p \in Providers : Doing(t, "add", p) => p \in rows'[AddTable(at[t])]
  /\ \A p \in Providers : Doing(t, "remove", p) =>
       /\ at[t] = 1 => \A d \in Dids : dids'[d] # p
       /\ at[t] # 1 => p \notin rows'[RemoveTable(at[t])]
       /\ at[t] = 6 => p \notin rows'["webhooks"] /\ \A d \in Dids : dids'[d] # p

\* A thread that has a request is at one of its statements.
LEMMA AtInRange ==
  ASSUME TypeOK, NEW t \in Threads, job[t] # None
  PROVE  /\ job[t] \in Requests
         /\ at[t] \in 1..Length(job[t])
         /\ Statement(t) = StatementOf(job[t], at[t])
<1>1. job[t] \in Requests /\ at[t] \in Nat \ {0} /\ at[t] <= Len(Program(job[t]))
  BY DEF TypeOK
<1>2. Len(Program(job[t])) = Length(job[t]) /\ Length(job[t]) \in Nat
  BY <1>1, ProgramIs
<1>3. at[t] \in 1..Length(job[t])
  BY <1>1, <1>2
<1> QED
  BY <1>1, <1>3, ProgramIs DEF Statement

\* What executing the statement a thread has reached does to the rows and the DIDs.
LEMMA Effects ==
  ASSUME TypeOK, NEW t \in Threads, job[t] # None, Executed(t)
  PROVE  RowsChange(t) /\ DidsChange(t) /\ Done(t)
<1> DEFINE j == job[t]
           k == at[t]
           st == Statement(t)
<1>1. j \in Requests /\ k \in 1..Length(j) /\ st = StatementOf(j, k)
  BY AtInRange
<1>2. /\ j.op \in Kinds
      /\ OnProvider(j) => j.p \in Providers
      /\ j.op \in {"addDid", "removeDid"} => j.d \in Dids
  BY <1>1, RequestShape
<1>3. /\ rows \in [Tables -> SUBSET Providers]
      /\ dids \in [Dids -> Providers \cup {None}]
      /\ None \notin Providers
  BY DBAssumption DEF TypeOK
<1>4. Legal(st) /\ Execute(st)
  BY DEF Executed
<1> HIDE DEF st
<1>5. CASE j.op = "add"
  <2>1. /\ st.verb = "insert" /\ st.table = AddTable(k) /\ st.p = j.p
        /\ AddTable(k) \in Tables \ {"webhooks"}
    BY <1>1, <1>5 DEF StatementOf, Insert, AddTable, Tables
  <2>2. rows' = [rows EXCEPT ![AddTable(k)] = @ \cup {j.p}] /\ dids' = dids
    BY <1>4, <2>1 DEF Execute
  <2> QED
    BY <1>2, <1>3, <1>5, <2>1, <2>2 DEF RowsChange, DidsChange, Done, Doing, Tables, OnProvider
<1>6. CASE j.op = "addDid" /\ k = 1
  <2>1. st.verb = "insertDid" /\ st.d = j.d /\ st.p = j.p
    BY <1>1, <1>6 DEF StatementOf
  <2>2. rows' = rows /\ dids' = [dids EXCEPT ![j.d] = j.p] /\ j.p \in rows["endpoints"]
    BY <1>4, <2>1 DEF Execute, Legal
  <2> QED
    BY <1>2, <1>3, <1>6, <2>2 DEF RowsChange, DidsChange, Done, Doing, OnProvider
<1>7. CASE j.op = "addDid" /\ k = 2
  <2>1. st.verb = "upsertWebhook" /\ st.p = j.p
    BY <1>1, <1>7 DEF StatementOf
  <2>2. /\ rows' = [rows EXCEPT !["webhooks"] = @ \cup {j.p}]
        /\ dids' = dids /\ j.p \in rows["endpoints"]
    BY <1>4, <2>1 DEF Execute, Legal
  <2> QED
    BY <1>2, <1>3, <1>7, <2>2 DEF RowsChange, DidsChange, Done, Doing, Tables, OnProvider
<1>8. CASE j.op = "remove" /\ k = 1
  <2>1. st.verb = "deleteDids" /\ st.p = j.p
    BY <1>1, <1>8 DEF StatementOf
  <2>2. /\ rows' = rows
        /\ dids' = [d \in Dids |-> IF dids[d] = j.p THEN None ELSE dids[d]]
    BY <1>4, <2>1 DEF Execute
  <2> QED
    BY <1>2, <1>3, <1>8, <2>2 DEF RowsChange, DidsChange, Done, Doing, OnProvider
<1>9. CASE j.op = "remove" /\ k # 1
  <2>1. st.verb = "delete" /\ st.table = RemoveTable(k) /\ st.p = j.p
    BY <1>1, <1>9 DEF StatementOf, Delete
  <2>2. k \in 2..6 /\ RemoveTable(k) \in Tables /\ (RemoveTable(k) = "endpoints" <=> k = 6)
    BY <1>1, <1>9 DEF Length, RemoveTable, Tables
  <2>3. /\ rows' = [x \in Tables |->
                      IF x = RemoveTable(k) \/ (RemoveTable(k) = "endpoints" /\ x = "webhooks")
                      THEN rows[x] \ {j.p} ELSE rows[x]]
        /\ dids' = dids
        /\ RemoveTable(k) = "endpoints" => \A d \in Dids : dids[d] # j.p
    BY <1>4, <2>1 DEF Execute, Legal
  <2>4. RowsChange(t)
    BY <1>2, <1>3, <1>9, <2>2, <2>3 DEF RowsChange, Doing, Tables, OnProvider
  <2>5. DidsChange(t) /\ Done(t)
    BY <1>2, <1>3, <1>9, <2>2, <2>3 DEF DidsChange, Done, Doing, Tables, OnProvider
  <2> QED
    BY <2>4, <2>5
<1>10. CASE j.op = "removeDid"
  <2>1. st.verb = "deleteDid" /\ st.d = j.d
    BY <1>1, <1>10 DEF StatementOf
  <2>2. rows' = rows /\ dids' = [dids EXCEPT ![j.d] = None]
    BY <1>4, <2>1 DEF Execute
  <2> QED
    BY <1>2, <1>3, <1>10, <2>2 DEF RowsChange, DidsChange, Done, Doing
<1>11. CASE j.op = "select"
  <2>1. st.verb = "select"
    BY <1>1, <1>11 DEF StatementOf
  <2>2. rows' = rows /\ dids' = dids
    BY <1>4, <2>1 DEF Execute
  <2> QED
    BY <1>3, <1>11, <2>2 DEF RowsChange, DidsChange, Done, Doing
<1>12. j.op = "addDid" => k = 1 \/ k = 2
  BY <1>1 DEF Length
<1> QED
  BY <1>2, <1>5, <1>6, <1>7, <1>8, <1>9, <1>10, <1>11, <1>12 DEF Kinds

-----------------------------------------------------------------------------
(* The steps of executeSqlQuery *)

\* The ways thread t goes on: it is through with its request, sends the
\* statement, sends it again, or comes to the next one after it was executed.
GoesOn(t) ==
  \/ /\ job'[t] = None /\ at'[t] = 1
     /\ pc'[t] \notin {"enter", "query", "again"}
  \/ /\ job'[t] = job[t] /\ raced'[t] = raced[t] /\ clean'[t] = clean[t]
     /\ \/ /\ at'[t] = at[t] /\ pc[t] = "enter" /\ pc'[t] \in {"enter", "query"}
           /\ UNCHANGED database
        \/ at'[t] = at[t] /\ pc'[t] = "again"
        \/ /\ at'[t] = at[t] + 1 /\ at[t] < Length(job[t]) /\ pc'[t] = "enter"
           /\ Executed(t)

\* Only thread t moves, and only its last statement promises anything.
Moves(t) ==
  /\ \A u \in Threads : u # t =>
       /\ job'[u] = job[u] /\ at'[u] = at[u] /\ pc'[u] = pc[u]
       /\ raced'[u] = raced[u] /\ clean'[u] = clean[u]
  /\ GoesOn(t)
  /\ \/ claim' = claim
     \/ /\ job'[t] = None /\ at[t] = Length(job[t]) /\ Executed(t)
        /\ claim' = Promised(t)
  /\ UNCHANGED database \/ Executed(t)

\* The types of the variables that control a thread.
ControlTypes ==
  /\ pc \in [Threads -> Steps]
  /\ job \in [Threads -> Requests \cup {None}]
  /\ at \in [Threads -> Nat \ {0}]
  /\ \A t \in Threads : job[t] # None => at[t] <= Len(Program(job[t]))
  /\ raced \in [Threads -> SUBSET Kinds]
  /\ clean \in [Threads -> BOOLEAN]
  /\ claim \in [Providers -> {"none", "added", "registered", "removed"}]

\* A thread that goes on with its statement moves in the sense of Moves.
LEMMA GotoMoves ==
  ASSUME TypeOK, NEW t \in Threads, job[t] # None, NEW step \in {"enter", "query", "again"},
         Goto(t, step), UNCHANGED database \/ Executed(t),
         step # "again" => pc[t] = "enter" /\ UNCHANGED database
  PROVE  Moves(t) /\ ControlTypes'
<1>1. ControlTypes'
  BY DEF TypeOK, ControlTypes, Goto, Steps
<1>2. GoesOn(t)
  BY DEF TypeOK, GoesOn, Goto
<1> QED
  BY <1>1, <1>2 DEF TypeOK, Moves, Goto

\* So does one that gives up its request,
LEMMA ReleasedMoves ==
  ASSUME TypeOK, NEW t \in Threads, job[t] # None, Released(t),
         NEW step \in {"idle", "failed", "ami_connect"}, pc' = [pc EXCEPT ![t] = step]
  PROVE  /\ GoesOn(t)
         /\ \A u \in Threads : u # t =>
              /\ job'[u] = job[u] /\ at'[u] = at[u] /\ pc'[u] = pc[u]
              /\ raced'[u] = raced[u] /\ clean'[u] = clean[u]
         /\ pc' \in [Threads -> Steps]
         /\ job' \in [Threads -> Requests \cup {None}]
         /\ at' \in [Threads -> Nat \ {0}]
         /\ \A u \in Threads : job'[u] # None => at'[u] <= Len(Program(job'[u]))
         /\ raced' \in [Threads -> SUBSET Kinds]
         /\ clean' \in [Threads -> BOOLEAN]
<1> USE DEF TypeOK, Released, Steps
<1>1. job'[t] = None /\ at'[t] = 1 /\ pc'[t] = step
  OBVIOUS
<1>2. GoesOn(t)
  BY <1>1 DEF GoesOn
<1>3. \A u \in Threads : u # t =>
        /\ job'[u] = job[u] /\ at'[u] = at[u] /\ pc'[u] = pc[u]
        /\ raced'[u] = raced[u] /\ clean'[u] = clean[u]
  OBVIOUS
<1>4. \A u \in Threads : job'[u] # None => at'[u] <= Len(Program(job'[u]))
  BY <1>1, <1>3
<1> QED
  BY <1>2, <1>3, <1>4

\* one whose statement failed,
LEMMA FailMoves ==
  ASSUME TypeOK, NEW t \in Threads, job[t] # None, Fail(t),
         UNCHANGED database \/ Executed(t)
  PROVE  Moves(t) /\ ControlTypes'
<1>1. Released(t) /\ pc' = [pc EXCEPT ![t] = "failed"] /\ claim' = claim
  BY DEF Fail
<1>2. claim' \in [Providers -> {"none", "added", "registered", "removed"}]
  BY <1>1 DEF TypeOK
<1> QED
  BY <1>1, <1>2, ReleasedMoves DEF Moves, ControlTypes

\* and one whose statement succeeded.
LEMMA ProceedMoves ==
  ASSUME TypeOK, NEW t \in Threads, job[t] # None, Proceed(t), Executed(t)
  PROVE  Moves(t) /\ ControlTypes'
<1>1. /\ job[t] \in Requests /\ at[t] \in 1..Length(job[t])
      /\ Len(Program(job[t])) = Length(job[t]) /\ Length(job[t]) \in Nat
  BY AtInRange, ProgramIs
<1>2. CASE at[t] = Len(Program(job[t])) /\ Succeed(t)
  <2>1. PICK step \in {"idle", "ami_connect"} : pc' = [pc EXCEPT ![t] = step]
    BY <1>2 DEF Succeed
  <2>2. Released(t) /\ claim' = Promised(t)
    BY <1>2 DEF Succeed
  <2>3. claim' \in [Providers -> {"none", "added", "registered", "removed"}]
    BY <2>2 DEF Promised, TypeOK
  <2>4. job'[t] = None
    BY <2>2 DEF Released, TypeOK
  <2> QED
    BY <1>1, <1>2, <2>1, <2>2, <2>3, <2>4, ReleasedMoves DEF Moves, ControlTypes
<1>3. CASE /\ at[t] < Len(Program(job[t]))
           /\ at' = [at EXCEPT ![t] = @ + 1]
           /\ pc' = [pc EXCEPT ![t] = "enter"]
           /\ UNCHANGED <<job, raced, clean, claim>>
  <2>1. GoesOn(t)
    BY <1>1, <1>3 DEF TypeOK, GoesOn
  <2>2. ControlTypes'
    BY <1>1, <1>3 DEF TypeOK, ControlTypes, Steps
  <2> QED
    BY <1>3, <2>1, <2>2 DEF TypeOK, Moves
<1> QED
  BY <1>2, <1>3 DEF Proceed

\* An unanswered statement was executed or it was not.
LEMMA LostChange ==
  ASSUME NEW t \in Threads, Lost(t)
  PROVE  UNCHANGED database \/ Executed(t)
BY DEF Lost, Executed, Taken

\* Every step of executeSqlQuery moves one thread and executes its statement or nothing.
LEMMA SqlMoves ==
  ASSUME TypeOK, BusyInSql, NEW t \in Threads, Sql(t), UNCHANGED process
  PROVE  job[t] # None /\ Moves(t) /\ TypeOK'
<1>1. job[t] # None /\ process[t] \in Processes
  BY DEF Sql, Enter, Query, Again, BusyInSql, TypeOK
<1>2. CASE Enter(t)
  <2>1. /\ UNCHANGED database /\ pc[t] = "enter"
        /\ conn' \in [Processes -> {"null", "open", "broken"}]
        /\ fault' \in {"none", "shared_connection"}
    BY <1>1, <1>2 DEF Enter, Connected, TypeOK
  <2>2. Goto(t, "enter") \/ Goto(t, "query") \/ Fail(t)
    BY <1>2 DEF Enter
  <2>3. Moves(t) /\ ControlTypes'
    BY <1>1, <2>1, <2>2, GotoMoves, FailMoves
  <2> QED
    BY <1>1, <2>1, <2>3 DEF TypeOK, ControlTypes, database
<1>3. CASE Query(t) \/ Again(t)
  <2>1. /\ conn' \in [Processes -> {"null", "open", "broken"}]
        /\ fault' \in {"none", "shared_connection"}
    BY <1>1, <1>3 DEF Query, Again, Answered, Connected, TypeOK
  <2>2. \/ Executed(t) /\ Proceed(t)
        \/ (UNCHANGED database \/ Executed(t)) /\ Fail(t)
        \/ (UNCHANGED database \/ Executed(t)) /\ Goto(t, "again")
    BY <1>3, LostChange DEF Query, Again, Answered, Executed, Taken
  <2>3. Moves(t) /\ ControlTypes'
    BY <1>1, <2>2, GotoMoves, FailMoves, ProceedMoves
  <2>4. /\ rows' \in [Tables -> SUBSET Providers]
        /\ dids' \in [Dids -> Providers \cup {None}]
    <3>1. CASE UNCHANGED database
      BY <3>1 DEF database, TypeOK
    <3>2. CASE Executed(t)
      BY <1>1, <3>2, Effects DEF RowsChange, DidsChange
    <3> QED
      BY <2>2, <3>1, <3>2
  <2> QED
    BY <1>1, <2>1, <2>3, <2>4 DEF TypeOK, ControlTypes
<1> QED
  BY <1>1, <1>2, <1>3 DEF Sql

\* A statement keeps the foreign keys, and what other threads and earlier
\* answers rely on; a thread that comes to its next statement has made the
\* progress its position stands for.
LEMMA MovesKeep ==
  ASSUME IInv, TypeOK', NEW t \in Threads, job[t] # None, Moves(t)
  PROVE  Inv'
<1> USE DEF IInv, Inv
<1>1. /\ RowsChange(t) /\ DidsChange(t)
      /\ Executed(t) => Done(t)
  <2>1. CASE UNCHANGED database
    <3>1. RowsChange(t) /\ DidsChange(t)
      BY <2>1 DEF RowsChange, DidsChange, database, TypeOK, Tables
    <3>2. Executed(t) => Done(t)
      BY Effects
    <3> QED
      BY <3>1, <3>2
  <2>2. CASE Executed(t)
    BY <2>2, Effects
  <2> QED
    BY <2>1, <2>2 DEF Moves
<1>2. /\ job[t] \in Requests /\ at[t] \in 1..Length(job[t])
      /\ \A p \in Providers : Doing(t, "add", p) => Length(job[t]) = IF job[t].reg THEN 4 ELSE 3
      /\ \A p \in Providers : Doing(t, "remove", p) => Length(job[t]) = 6
  BY AtInRange DEF Length, Doing
<1>3. \A u \in Threads, op \in Kinds, p \in Providers : Doing(u, op, p)' =>
        /\ Doing(u, op, p)
        /\ raced'[u] = raced[u] /\ clean'[u] = clean[u]
  BY DEF Moves, GoesOn, Doing
<1>4. BusyInSql'
  BY DEF BusyInSql, Moves, GoesOn
<1>5. ForeignKeys'
  <2>1. AddTable(at[t]) # "webhooks"
    BY DEF AddTable
  <2>2. ASSUME NEW d \in Dids, dids'[d] # None
        PROVE  dids'[d] \in rows'["endpoints"]
    <3>1. dids'[d] \in Providers /\ dids'[d] \in rows["endpoints"]
      BY <1>1, <2>2 DEF ForeignKeys, DidsChange
    <3> QED
      BY <1>1, <3>1 DEF RowsChange
  <2>3. ASSUME NEW p \in rows'["webhooks"]
        PROVE  p \in rows'["endpoints"]
    <3>1. p \in Providers
      BY <1>1 DEF RowsChange, Tables
    <3>2. p \in rows["endpoints"]
      BY <1>1, <2>1, <3>1 DEF ForeignKeys, RowsChange, Tables
    <3> QED
      BY <1>1, <3>1, <3>2 DEF RowsChange
  <2> QED
    BY <2>2, <2>3 DEF ForeignKeys
<1>6. RacesNoted'
  BY <1>3 DEF RacesNoted, Kinds
<1>7. ClaimsCurrent'
  <2>1. CASE claim' = claim
    BY <1>3, <2>1 DEF ClaimsCurrent, Kinds
  <2>2. CASE job'[t] = None /\ claim' = Promised(t)
    <3> SUFFICES ASSUME NEW u \in Threads, NEW p \in Providers
                 PROVE  /\ Doing(u, "remove", p)' => claim'[p] \notin {"added", "registered"}
                        /\ Doing(u, "add", p)' => claim'[p] # "removed"
      BY DEF ClaimsCurrent
    <3>1. CASE u = t
      BY <2>2, <3>1 DEF Doing
    <3>2. CASE u # t
      <4>1. \/ claim'[p] = claim[p]
            \/ Doing(t, "add", p) /\ "remove" \notin raced[t] /\ claim'[p] \in {"added", "registered"}
            \/ Doing(t, "remove", p) /\ "add" \notin raced[t] /\ claim'[p] = "removed"
        BY <2>2 DEF Promised, Doing
      <4> QED
        BY <1>3, <3>2, <4>1 DEF ClaimsCurrent, RacesNoted, Kinds
    <3> QED
      BY <3>1, <3>2
  <2> QED
    BY <2>1, <2>2 DEF Moves
<1>8. /\ \A k \in 1..4 : AddTable(k) \in Tables \ {"webhooks"}
      /\ \A k \in 3..5 : RemoveTable(k) \in Tables \ {"webhooks"}
      /\ \A k, l \in 1..4 : AddTable(k) = AddTable(l) => k = l
  <2>1. /\ AddTable(1) = "auths" /\ AddTable(2) = "aors"
        /\ AddTable(3) = "endpoints" /\ AddTable(4) = "registrations"
        /\ RemoveTable(3) = "registrations" /\ RemoveTable(4) = "aors"
        /\ RemoveTable(5) = "auths"
    BY DEF AddTable, RemoveTable
  <2>2. /\ \A k \in 1..4 : k = 1 \/ k = 2 \/ k = 3 \/ k = 4
        /\ \A k \in 3..5 : k = 3 \/ k = 4 \/ k = 5
    OBVIOUS
  <2>3. \A k \in 3..5 : RemoveTable(k) \in Tables \ {"webhooks"}
    BY <2>1, <2>2 DEF Tables
  <2>4. \A k \in 1..4 : AddTable(k) \in Tables \ {"webhooks"}
    BY <2>1, <2>2 DEF Tables
  <2>5. \A k, l \in 1..4 : AddTable(k) = AddTable(l) => k = l
    BY <2>1, <2>2
  <2> QED
    BY <2>3, <2>4, <2>5
<1>9. \A u \in Threads : at[u] \in Nat /\ at'[u] \in Nat
  BY DEF TypeOK
<1>10. AddProgress'
  <2> SUFFICES ASSUME NEW u \in Threads, NEW p \in Providers, NEW k \in 1..4,
                      Doing(u, "add", p)', "remove" \notin raced'[u], k < at'[u]
               PROVE  p \in rows'[AddTable(k)]
    BY DEF AddProgress
  <2>1. Doing(u, "add", p) /\ "remove" \notin raced[u]
    BY <1>3 DEF Kinds
  <2>2. CASE u # t
    <3>1. p \in rows[AddTable(k)]
      BY <2>1, <2>2 DEF AddProgress, Moves
    <3> QED
      BY <1>1, <1>8, <2>1, <2>2, <3>1 DEF RowsChange, RacesNoted
  <2>3. CASE u = t
    <3>1. k < at[t] \/ (k = at[t] /\ Executed(t))
      BY <1>9, <2>3 DEF Moves, GoesOn, Doing
    <3>2. CASE k < at[t]
      BY <1>1, <1>8, <2>1, <2>3, <3>2 DEF RowsChange, AddProgress, Doing
    <3>3. CASE k = at[t] /\ Executed(t)
      BY <1>1, <2>1, <2>3, <3>3 DEF Done
    <3> QED
      BY <3>1, <3>2, <3>3
  <2> QED
    BY <2>2, <2>3
<1>11. RemoveProgress'
  <2> SUFFICES ASSUME NEW u \in Threads, NEW p \in Providers, NEW k \in 3..5,
                      Doing(u, "remove", p)', "add" \notin raced'[u], k < at'[u]
               PROVE  p \notin rows'[RemoveTable(k)]
    BY DEF RemoveProgress
  <2>1. Doing(u, "remove", p) /\ "add" \notin raced[u]
    BY <1>3 DEF Kinds
  <2>2. CASE u # t
    <3>1. p \notin rows[RemoveTable(k)]
      BY <2>1, <2>2 DEF RemoveProgress, Moves
    <3> QED
      BY <1>1, <1>8, <2>1, <2>2, <3>1 DEF RowsChange, RacesNoted
  <2>3. CASE u = t
    <3>1. k < at[t] \/ (k = at[t] /\ Executed(t))
      BY <1>9, <2>3 DEF Moves, GoesOn, Doing
    <3>2. CASE k < at[t]
      BY <1>1, <1>8, <2>1, <2>3, <3>2 DEF RowsChange, RemoveProgress, Doing
    <3>3. CASE k = at[t] /\ Executed(t)
      BY <1>1, <2>1, <2>3, <3>3 DEF Done
    <3> QED
      BY <3>1, <3>2, <3>3
  <2> QED
    BY <2>2, <2>3
<1>12. CleanAddition'
  <2> SUFFICES ASSUME NEW u \in Threads, NEW p \in Providers, NEW k \in 1..4,
                      Doing(u, "add", p)', clean'[u], raced'[u] = {},
                      k > at'[u] \/ (k = at'[u] /\ pc'[u] # "again")
               PROVE  p \notin rows'[AddTable(k)]
    BY DEF CleanAddition
  <2>1. Doing(u, "add", p) /\ clean[u] /\ raced[u] = {}
    BY <1>3 DEF Kinds
  <2>2. CASE u # t
    <3>1. p \notin rows[AddTable(k)]
      BY <2>1, <2>2 DEF CleanAddition, Moves
    <3> QED
      BY <1>1, <1>8, <2>1, <2>2, <3>1 DEF RowsChange, RacesNoted
  <2>3. CASE u = t
    <3>1. \/ k > at[t]
          \/ k = at[t] /\ pc[t] # "again" /\ UNCHANGED database
      BY <1>9, <2>3 DEF Moves, GoesOn, Doing
    <3>2. p \notin rows[AddTable(k)]
      BY <2>1, <2>3, <3>1 DEF CleanAddition
    <3>3. CASE k > at[t]
      BY <1>1, <1>2, <1>8, <1>9, <2>1, <2>3, <3>2, <3>3 DEF RowsChange, Doing
    <3>4. CASE UNCHANGED database
      BY <3>2, <3>4 DEF database
    <3> QED
      BY <3>1, <3>3, <3>4
  <2> QED
    BY <2>2, <2>3
<1>13. DidsRemoved'
  <2> SUFFICES ASSUME NEW u \in Threads, NEW p \in Providers, NEW d \in Dids,
                      Doing(u, "remove", p)', raced'[u] = {}, at'[u] > 1
               PROVE  dids'[d] # p
    BY DEF DidsRemoved
  <2>1. Doing(u, "remove", p) /\ raced[u] = {} /\ p # None
    BY <1>3, DBAssumption DEF Kinds
  <2>2. CASE u # t
    <3>1. dids[d] # p
      BY <2>1, <2>2 DEF DidsRemoved, Moves
    <3> QED
      BY <1>1, <2>1, <2>2, <3>1 DEF DidsChange, RacesNoted
  <2>3. CASE u = t
    <3>1. at[t] > 1 \/ (at[t] = 1 /\ Executed(t))
      BY <1>2, <1>9, <2>3 DEF Moves, GoesOn, Doing
    <3>2. CASE at[t] > 1
      BY <1>1, <2>1, <2>3, <3>2 DEF DidsChange, DidsRemoved, Doing
    <3>3. CASE at[t] = 1 /\ Executed(t)
      BY <1>1, <2>1, <2>3, <3>3 DEF Done
    <3> QED
      BY <3>1, <3>2, <3>3
  <2> QED
    BY <2>2, <2>3
<1>14. \A p \in Providers :
         \/ claim'[p] = claim[p]
         \/ /\ Doing(t, "add", p) /\ "remove" \notin raced[t]
            /\ claim'[p] = IF job[t].reg THEN "registered" ELSE "added"
            /\ at[t] = Length(job[t]) /\ Executed(t)
         \/ /\ Doing(t, "remove", p) /\ "add" \notin raced[t]
            /\ claim'[p] = "removed"
            /\ at[t] = 6 /\ Executed(t)
  BY <1>2 DEF Moves, Promised, Doing
<1>15. AddedIsComplete'
  <2> SUFFICES ASSUME NEW p \in Providers
               PROVE  /\ claim'[p] \in {"added", "registered"} =>
                           \A x \in {"auths", "aors", "endpoints"} : p \in rows'[x]
                      /\ claim'[p] = "registered" => p \in rows'["registrations"]
    BY DEF AddedIsComplete
  <2>1. CASE claim'[p] = claim[p]
    BY <1>1, <2>1 DEF AddedIsComplete, RowsChange, ClaimsCurrent, Tables
  <2>2. CASE /\ Doing(t, "add", p) /\ "remove" \notin raced[t]
             /\ claim'[p] = IF job[t].reg THEN "registered" ELSE "added"
             /\ at[t] = Length(job[t]) /\ Executed(t)
    <3>1. \A k \in 1..4 : k <= at[t] => p \in rows'[AddTable(k)]
      <4> SUFFICES ASSUME NEW k \in 1..4, k <= at[t]
                   PROVE  p \in rows'[AddTable(k)]
        OBVIOUS
      <4>1. CASE k < at[t]
        BY <1>1, <1>8, <2>2, <4>1 DEF RowsChange, AddProgress, Doing
      <4>2. CASE k = at[t]
        BY <1>1, <2>2, <4>2 DEF Done
      <4> QED
        BY <1>9, <4>1, <4>2
    <3>2. /\ AddTable(1) = "auths" /\ AddTable(2) = "aors"
          /\ AddTable(3) = "endpoints" /\ AddTable(4) = "registrations"
      BY DEF AddTable
    <3> QED
      BY <1>2, <2>2, <3>1, <3>2
  <2>3. CASE claim'[p] = "removed"
    BY <2>3
  <2> QED
    BY <1>14, <2>1, <2>2, <2>3
<1>16. RemovedIsGone'
  <2> SUFFICES ASSUME NEW p \in Providers, claim'[p] = "removed"
               PROVE  Absent(p)'
    BY DEF RemovedIsGone
  <2>1. p # None
    BY DBAssumption
  <2>2. CASE claim[p] = "removed"
    <3>1. Absent(p) /\ ~Doing(t, "add", p)
      BY <2>2 DEF RemovedIsGone, ClaimsCurrent
    <3> QED
      BY <1>1, <2>1, <3>1 DEF Absent, RowsChange, DidsChange, Tables
  <2>3. CASE /\ Doing(t, "remove", p) /\ "add" \notin raced[t]
             /\ at[t] = 6 /\ Executed(t)
    <3>1. \A k \in 3..5 : p \notin rows'[RemoveTable(k)]
      BY <1>1, <1>8, <2>3 DEF RowsChange, RemoveProgress, Doing
    <3>2. /\ RemoveTable(3) = "registrations" /\ RemoveTable(4) = "aors"
          /\ RemoveTable(5) = "auths" /\ RemoveTable(6) = "endpoints"
      BY DEF RemoveTable
    <3>3. /\ p \notin rows'["endpoints"] /\ p \notin rows'["webhooks"]
          /\ \A d \in Dids : dids'[d] # p
      BY <1>1, <2>3, <3>2 DEF Done
    <3> QED
      BY <3>1, <3>2, <3>3 DEF Absent, Tables
  <2> QED
    BY <1>14, <2>2, <2>3
<1> QED
  BY <1>4, <1>5, <1>6, <1>7, <1>10, <1>11, <1>12, <1>13, <1>15, <1>16

-----------------------------------------------------------------------------
(* The other steps *)

\* A beginning request keeps the invariant: the promises it would break are taken back.
LEMMA BeginKeeps ==
  ASSUME IInv, NEW t \in Threads, Begin(t), UNCHANGED process
  PROVE  IInv'
<1> USE DEF IInv, Inv
<1>1. PICK j \in Requests :
        /\ job' = [job EXCEPT ![t] = j]
        /\ raced' = [u \in Threads |->
                       IF u = t THEN {job[v].op : v \in Rivals(j)} \cap Rival[j.op]
                       ELSE IF u \in Rivals(j) THEN raced[u] \cup ({j.op} \cap Rival[job[u].op])
                       ELSE raced[u]]
        /\ clean' = [clean EXCEPT ![t] = j.op = "add" /\ Absent(j.p)]
        /\ claim' = Begun(j)
  BY DEF Begin
<1>2. /\ job[t] = None /\ at[t] = 1 /\ rows' = rows /\ dids' = dids /\ at' = at
      /\ conn' = conn /\ fault' = fault /\ pc' = [pc EXCEPT ![t] = "enter"]
  BY DEF Begin, Busy, BusyInSql, database
<1>3. j # None /\ j.op \in Kinds /\ (OnProvider(j) => j.p \in Providers)
  BY RequestShape
<1>4. \A p \in Providers :
        claim'[p] = IF OnProvider(j) /\ j.p = p
                       /\ \/ j.op = "add" /\ claim[p] = "removed"
                          \/ j.op = "remove" /\ claim[p] \in {"added", "registered"}
                    THEN "none" ELSE claim[p]
  BY <1>1 DEF Begun
<1>5. /\ \A u \in Threads : u # t => /\ job'[u] = job[u] /\ clean'[u] = clean[u]
                                     /\ pc'[u] = pc[u] /\ raced[u] \subseteq raced'[u]
      /\ job'[t] = j /\ pc'[t] = "enter" /\ at'[t] = 1
  BY <1>1, <1>2 DEF TypeOK
<1>6. TypeOK'
  <2>1. Len(Program(j)) >= 1
    BY ProgramIs
  <2>2. raced' \in [Threads -> SUBSET Kinds]
    BY <1>1, <1>3 DEF TypeOK, Rival, Kinds
  <2>3. claim' \in [Providers -> {"none", "added", "registered", "removed"}]
    BY <1>1 DEF TypeOK, Begun
  <2>4. \A u \in Threads : job'[u] # None => at'[u] <= Len(Program(job'[u]))
    BY <1>2, <1>5, <2>1 DEF TypeOK
  <2>5. clean' \in [Threads -> BOOLEAN]
    BY <1>1 DEF TypeOK
  <2> QED
    BY <1>1, <1>2, <2>2, <2>3, <2>4, <2>5 DEF TypeOK, Steps
<1>7. BusyInSql'
  BY <1>2, <1>3, <1>5 DEF BusyInSql
<1>8. ForeignKeys'
  BY <1>2 DEF ForeignKeys
<1>9. RacesNoted'
  <2> SUFFICES ASSUME NEW u \in Threads, NEW v \in Threads, NEW p \in Providers, u # v,
                      NEW a \in {"add", "remove"}, NEW b \in Kinds, b \in Rival[a],
                      Doing(u, a, p)', Doing(v, b, p)'
               PROVE  b \in raced'[u]
    BY DEF RacesNoted, Rival, Kinds
  <2>1. CASE u # t /\ v # t
    BY <1>5, <2>1 DEF RacesNoted, Doing, Rival, Kinds
  <2>2. CASE u = t
    <3>1. Doing(v, b, p) /\ j.op = a /\ j.p = p
      BY <1>5, <2>2 DEF Doing
    <3>2. v \in Rivals(j)
      BY <3>1 DEF Rivals, Busy, OnProvider, Doing, Rival
    <3> QED
      BY <1>1, <2>2, <3>1, <3>2 DEF Doing
  <2>3. CASE v = t
    <3>1. Doing(u, a, p) /\ j.op = b /\ j.p = p
      BY <1>5, <2>3 DEF Doing
    <3>2. u \in Rivals(j)
      BY <3>1 DEF Rivals, Busy, OnProvider, Doing, Rival
    <3> QED
      BY <1>1, <2>3, <3>1, <3>2 DEF Doing
  <2> QED
    BY <2>1, <2>2, <2>3
<1>10. ClaimsCurrent'
  BY <1>4, <1>5 DEF ClaimsCurrent, Doing, OnProvider
<1>11. AddProgress'
  BY <1>2, <1>5 DEF AddProgress, Doing
<1>12. RemoveProgress'
  BY <1>2, <1>5 DEF RemoveProgress, Doing
<1>13. CleanAddition'
  <2>1. \A k \in 1..4 : AddTable(k) \in Tables
    BY DEF AddTable, Tables
  <2>2. clean'[t] => Absent(j.p)
    BY <1>1 DEF TypeOK
  <2> QED
    BY <1>2, <1>5, <2>1, <2>2 DEF CleanAddition, Doing, Absent
<1>14. DidsRemoved'
  BY <1>2, <1>5 DEF DidsRemoved, Doing
<1>15. AddedIsComplete'
  BY <1>2, <1>4 DEF AddedIsComplete
<1>16. RemovedIsGone'
  BY <1>2, <1>4 DEF RemovedIsGone, Absent
<1> QED
  BY <1>6, <1>7, <1>8, <1>9, <1>10, <1>11, <1>12, <1>13, <1>14, <1>15, <1>16

\* The registration check over the manager interface keeps the invariant.
LEMMA AmiKeeps ==
  ASSUME IInv, NEW t \in Threads, UNCHANGED process,
         AmiConnect(t) \/ AmiLogin(t) \/ AmiCommand(t)
  PROVE  IInv'
<1>1. PICK step \in {"idle", "ami_login", "ami_command"} :
        /\ pc[t] \in {"ami_connect", "ami_login", "ami_command"}
        /\ pc' = [pc EXCEPT ![t] = step]
        /\ UNCHANGED <<rows, dids, conn, job, at, raced, clean, claim, fault>>
  BY DEF AmiConnect, AmiLogin, AmiCommand, AmiGoto, database, history
<1>2. TypeOK'
  BY <1>1 DEF IInv, TypeOK, Steps
<1>3. BusyInSql'
  BY <1>1 DEF IInv, Inv, TypeOK, BusyInSql
<1>4. CleanAddition'
  BY <1>1, <1>3 DEF IInv, Inv, TypeOK, BusyInSql, CleanAddition, Doing
<1> QED
  BY <1>1, <1>2, <1>3, <1>4 DEF IInv, Inv, ForeignKeys, RacesNoted, ClaimsCurrent, AddProgress,
     RemoveProgress, DidsRemoved, AddedIsComplete, RemovedIsGone, Doing, Absent

-----------------------------------------------------------------------------
(* Theorems *)

\* The invariant holds of an empty database.
LEMMA InitInv ==
  ASSUME Init
  PROVE  IInv
<1>1. TypeOK
  BY DEF Init, TypeOK, Steps
<1> QED
  BY <1>1 DEF Init, IInv, Inv, BusyInSql, ForeignKeys, RacesNoted, ClaimsCurrent, AddProgress,
     RemoveProgress, CleanAddition, DidsRemoved, AddedIsComplete, RemovedIsGone, Doing, Tables

\* Every step keeps the invariant.
LEMMA NextInv ==
  ASSUME IInv, [Next]_vars
  PROVE  IInv'
<1>1. CASE Next
  <2>1. PICK t \in Threads : Begin(t) \/ Sql(t) \/ AmiConnect(t) \/ AmiLogin(t) \/ AmiCommand(t)
    BY <1>1 DEF Next
  <2>2. UNCHANGED process
    BY <1>1 DEF Next
  <2>3. CASE Begin(t)
    BY <2>2, <2>3, BeginKeeps
  <2>4. CASE Sql(t)
    <3>1. job[t] # None /\ Moves(t) /\ TypeOK'
      BY <2>2, <2>4, SqlMoves DEF IInv, Inv
    <3>2. Inv'
      BY <3>1, MovesKeep
    <3> QED
      BY <3>1, <3>2 DEF IInv
  <2>5. CASE AmiConnect(t) \/ AmiLogin(t) \/ AmiCommand(t)
    BY <2>2, <2>5, AmiKeeps
  <2> QED
    BY <2>1, <2>3, <2>4, <2>5
<1>2. CASE UNCHANGED vars
  <2>1. TypeOK'
    BY <1>2 DEF vars, IInv, TypeOK
  <2>2. BusyInSql' /\ ForeignKeys' /\ AddedIsComplete' /\ RemovedIsGone'
    BY <1>2 DEF vars, IInv, Inv, BusyInSql, ForeignKeys, AddedIsComplete, RemovedIsGone, Absent
  <2>3. RacesNoted' /\ ClaimsCurrent'
    BY <1>2 DEF vars, IInv, Inv, RacesNoted, ClaimsCurrent, Doing
  <2>4. AddProgress' /\ RemoveProgress' /\ CleanAddition' /\ DidsRemoved'
    BY <1>2 DEF vars, IInv, Inv, AddProgress, RemoveProgress, CleanAddition, DidsRemoved, Doing
  <2> QED
    BY <2>1, <2>2, <2>3, <2>4 DEF IInv, Inv
<1> QED
  BY <1>1, <1>2

\* The inductive invariant holds of every behaviour.
LEMMA Invariance == Spec => []IInv
<1>1. Init => IInv
  BY InitInv
<1>2. IInv /\ [Next]_vars => IInv'
  BY NextInv
<1> QED
  BY <1>1, <1>2, PTL DEF Spec

\* Rows, DIDs, connections and threads have their types, and no thread runs
\* past the end of its operation.
THEOREM TypeCorrect == Spec => []TypeOK
<1>1. IInv => TypeOK
  BY DEF IInv
<1> QED
  BY <1>1, Invariance, PTL

\* A provider that was reported as added has all its rows until a removal
\* begins, for any number of providers, threads and processes, if no removal
\* overlapped the addition.
THEOREM AdditionsHold == Spec => []AddedIsComplete
<1>1. IInv => AddedIsComplete
  BY DEF IInv, Inv
<1> QED
  BY <1>1, Invariance, PTL

\* A provider that was reported as removed has no rows until an addition
\* begins, if none overlapped the removal, whatever DIDs were added meanwhile.
THEOREM RemovalsHold == Spec => []RemovedIsGone
<1>1. IInv => RemovedIsGone
  BY DEF IInv, Inv
<1> QED
  BY <1>1, Invariance, PTL

\* A statement that needs nothing of its rivals is refused by no constraint.
LEMMA RefusalExplained ==
  ASSUME IInv, NEW t \in Threads, job[t] # None, pc[t] # "again", ~Legal(Statement(t))
  PROVE  /\ job[t].op = "remove" => raced[t] # {}
         /\ (job[t].op = "add" /\ clean[t]) => raced[t] # {}
         /\ job[t].op \notin {"removeDid", "select"}
<1> DEFINE j == job[t]
           k == at[t]
<1>1. j \in Requests /\ k \in 1..Length(j) /\ Statement(t) = StatementOf(j, k)
  BY AtInRange DEF IInv
<1>2. OnProvider(j) => j.p \in Providers
  BY <1>1, RequestShape
<1>3. CASE j.op = "add"
  <2>1. /\ Statement(t).verb = "insert" /\ Statement(t).table = AddTable(k)
        /\ Statement(t).p = j.p
    BY <1>1, <1>3 DEF StatementOf, Insert
  <2>2. j.p \in rows[AddTable(k)] /\ k \in 1..4 /\ Doing(t, "add", j.p)
    BY <1>1, <1>3, <2>1 DEF Legal, Length, Doing
  <2> QED
    BY <1>2, <1>3, <2>2 DEF IInv, Inv, CleanAddition, OnProvider
<1>4. CASE j.op = "remove"
  <2>1. k = 1 => Statement(t).verb = "deleteDids"
    BY <1>1, <1>4 DEF StatementOf
  <2>2. k # 1
    BY <2>1 DEF Legal
  <2>3. Statement(t).verb = "delete" /\ Statement(t).p = j.p
    BY <1>1, <1>4, <2>2 DEF StatementOf, Delete
  <2>4. ~\A d \in Dids : dids[d] # j.p
    BY <2>3 DEF Legal
  <2> QED
    BY <1>1, <1>2, <1>4, <2>2, <2>4 DEF IInv, Inv, DidsRemoved, OnProvider, Doing
<1>5. CASE j.op = "removeDid"
  <2>1. Statement(t).verb = "deleteDid"
    BY <1>1, <1>5 DEF StatementOf
  <2> QED
    BY <2>1 DEF Legal
<1>6. CASE j.op = "select"
  <2>1. Statement(t).verb = "select"
    BY <1>1, <1>6 DEF StatementOf
  <2> QED
    BY <2>1 DEF Legal
<1> QED
  BY <1>3, <1>4, <1>5, <1>6

\* A removal, and an addition that found no row of the provider, fail only when
\* the connection fails, a rival overlaps them or their values do not fit.
THEOREM FailuresExplained == Spec => FailureExplained
<1>1. ASSUME IInv, Next, NEW t \in Threads, Busy(t), pc'[t] = "failed", pc[t] # "again",
             conn'[process[t]] = "open", Fits(t)
      PROVE  job[t] # None /\ ~Legal(Statement(t))
  <2>1. job[t] # None /\ pc[t] \in {"enter", "query"}
    BY <1>1 DEF Busy, IInv, Inv, BusyInSql
  <2>2. PICK u \in Threads : Begin(u) \/ Sql(u) \/ AmiConnect(u) \/ AmiLogin(u) \/ AmiCommand(u)
    BY <1>1 DEF Next
  <2>3. u = t
    <3>1. \E step : pc' = [pc EXCEPT ![u] = step]
      BY <2>2 DEF Begin, Sql, Enter, Query, Again, Answered, Proceed, Succeed, Fail, Goto,
                  AmiConnect, AmiLogin, AmiCommand, AmiGoto
    <3> QED
      BY <1>1, <2>1, <3>1 DEF IInv, TypeOK
  <2>4. process[t] \in Processes /\ pc \in [Threads -> Steps]
        /\ conn \in [Processes -> {"null", "open", "broken"}]
    BY <1>1 DEF IInv, TypeOK
  <2>5. CASE Enter(t)
    BY <1>1, <2>4, <2>5 DEF Enter, Goto, Connected
  <2>6. CASE Query(t)
    BY <1>1, <2>1, <2>4, <2>6 DEF Query, Answered, Taken, Proceed, Succeed, Goto, Connected
  <2> QED
    BY <2>1, <2>2, <2>3, <2>5, <2>6 DEF Begin, Busy, Sql, Again, AmiConnect, AmiLogin,
       AmiCommand, AmiGoto
<1>2. ASSUME IInv, Next
      PROVE  \A t \in Threads :
               (Busy(t) /\ pc'[t] = "failed" /\ pc[t] # "again" /\ conn'[process[t]] = "open"
                  /\ Fits(t)) =>
                  /\ job[t].op = "remove" => raced[t] # {}
                  /\ (job[t].op = "add" /\ clean[t]) => raced[t] # {}
                  /\ job[t].op \notin {"removeDid", "select"}
  BY <1>1, <1>2, RefusalExplained
<1>3. IInv /\ [Next]_vars =>
        [\A t \in Threads :
           (Busy(t) /\ pc'[t] = "failed" /\ pc[t] # "again" /\ conn'[process[t]] = "open"
              /\ Fits(t)) =>
              /\ job[t].op = "remove" => raced[t] # {}
              /\ (job[t].op = "add" /\ clean[t]) => raced[t] # {}
              /\ job[t].op \notin {"removeDid", "select"}]_vars
  BY <1>2
<1> QED
  BY <1>3, Invariance, PTL DEF Spec, FailureExplained
=============================================================================
