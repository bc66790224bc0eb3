------------------------------ MODULE AdminAPI ------------------------------
(***************************************************************************)
(* The administration API (src/pkg/service/api/v1): concurrent requests    *)
(* that create a principal, a project or a payment method, or change a     *)
(* payment method's status, behind AuthHandler, whose containers outlive   *)
(* the process that signed them.                                           *)
(*                                                                         *)
(* There is one name per kind of entity: all requests of a kind are about  *)
(* the same one, and every request brings metadata.  A row of a table is   *)
(* the request that inserted it.                                           *)
(***************************************************************************)
EXTENDS Integers, FiniteSets, Keychain

CONSTANTS
    Requests,       \* requests to the API
    MaxProcs,       \* bound: processes, one after the other
    MaxKeys,        \* bound: keys in the configuration file
    Configured      \* whether the file holds an authorization key at all

Procs == 1..MaxProcs
Entities == {"principal", "project", "method"}
Ops == Entities \cup {"change"}
Seed == "seed"                      \* inserted before the model starts
None == "none"

ASSUME AdminAssumption ==
    /\ Seed \notin Requests
    /\ MaxProcs \in Nat \ {0} /\ MaxKeys \in Nat \ {0}
    /\ Configured \in BOOLEAN

\* principals and methods have a status, and selects join the newest one
HasStatus == {"principal", "method"}
Row(e, r) == [table |-> e, part |-> "row", by |-> r]
Status(e, r) == [table |-> e, part |-> "status", by |-> r]
Meta(e, r) == [table |-> e, part |-> "meta", by |-> r]
Parent(e) == IF e = "project" THEN "principal" ELSE "project"
Tables == [table : Entities, part : {"row", "status", "meta"}, by : Requests \cup {Seed}]

VARIABLES
    db,             \* committed rows of both databases
    op, pc,         \* what a request asks for and where its handler is
    open,           \* requests whose transaction is open
    wrote,          \* rows the transaction inserted
    answer,         \* the answer of a request
    fault,          \* requests that lost a write the handler did not notice
    leaked,         \* requests whose provider lookup failed
    newest,         \* the process new connections reach
    authKeys, keychain, session

handlerVars == <<db, op, pc, open, wrote, answer, fault, leaked>>
authVars == <<newest, authKeys, keychain, session>>
vars == <<handlerVars, authVars>>

\* the client's container: none, one that has expired, one signed with a key
NoSession == [key |-> 0, by |-> 0, expired |-> FALSE]
ExpiredSession == [key |-> 0, by |-> 0, expired |-> TRUE]

HandlerTypeOK ==
    /\ db \subseteq Tables
    /\ op \in [Requests -> Ops \cup {None}]
    /\ pc \in [Requests -> {"idle", "begin", "check", "row", "rest", "commit",
                            "done"}]
    /\ open \subseteq Requests /\ fault \subseteq Requests /\ leaked \subseteq Requests
    /\ wrote \in [Requests -> SUBSET Tables]
    /\ answer \in [Requests -> {None, "created", "changed", "notfound", "conflict",
                                "error", "cut"}]

AuthTypeOK ==
    /\ newest \in Procs
    /\ authKeys \in Seq(Nat) /\ Len(authKeys) <= MaxKeys
    /\ keychain \in [Procs -> Seq(Int)]
    /\ session \in [key : Int, by : 0..newest, expired : BOOLEAN]

TypeOK == HandlerTypeOK /\ AuthTypeOK

\* the keychain of a new process: the configured keys, or, when there are none,
\* the one setDefaults generates
NewKeychain(p) ==
    LET keys == registerKeychain(authKeys)
    IN  IF keys = << >> THEN pushKey(keys, -p) ELSE keys

Init ==
    /\ db \in {{}, {Row("principal", Seed), Status("principal", Seed), Row("project", Seed)}}
    /\ op = [r \in Requests |-> None] /\ pc = [r \in Requests |-> "idle"]
    /\ open = {} /\ wrote = [r \in Requests |-> {}]
    /\ answer = [r \in Requests |-> None] /\ fault = {} /\ leaked = {}
    /\ newest = 1 /\ authKeys = IF Configured THEN <<1>> ELSE << >>
    /\ keychain = [p \in Procs |-> IF p = 1 THEN NewKeychain(1) ELSE << >>]
    /\ session = NoSession

-----------------------------------------------------------------------------
(* Authorization *)

\* respondWithAuthorization: a new container, signed with the first key
respondWithAuthorization(p) ==
    session' = [key |-> BinKey(keychain[p]), by |-> p, expired |-> FALSE]

\* a request with the system password, at the new or a draining old process
Login(p) ==
    /\ p \in 1..newest /\ session = NoSession
    /\ respondWithAuthorization(p)
    /\ UNCHANGED <<handlerVars, newest, authKeys, keychain>>

\* AuthHandler: not expired, and signed with a key of the process's chain
AuthHandler(p) == ~session.expired /\ MatchKey(keychain[p], session.key)

\* GET /authorization answers with a fresh container; a container that is
\* refused is taken from the client with the cookie
Refresh(p) ==
    /\ p \in 1..newest /\ session # NoSession
    /\ IF AuthHandler(p) THEN respondWithAuthorization(p) ELSE session' = NoSession
    /\ UNCHANGED <<handlerVars, newest, authKeys, keychain>>

Expire ==
    /\ session # NoSession /\ session' = ExpiredSession
    /\ UNCHANGED <<handlerVars, newest, authKeys, keychain>>

\* an operator adds a key to the configuration file, which the next process reads
AddKey ==
    /\ Configured /\ Len(authKeys) < MaxKeys
    /\ authKeys' = Append(authKeys, Len(authKeys) + 1)
    /\ UNCHANGED <<handlerVars, newest, keychain, session>>

NewProcess ==
    /\ newest < MaxProcs
    /\ newest' = newest + 1
    /\ keychain' = [keychain EXCEPT ![newest + 1] = NewKeychain(newest + 1)]
    /\ UNCHANGED <<handlerVars, authKeys, session>>

\* a request passes AuthHandler and reaches its handler
Arrive(r, p) ==
    /\ pc[r] = "idle" /\ p \in 1..newest /\ session # NoSession /\ AuthHandler(p)
    /\ \E o \in Ops : op' = [op EXCEPT ![r] = o]
    /\ pc' = [pc EXCEPT ![r] = "begin"]
    /\ UNCHANGED <<db, open, wrote, answer, fault, leaked, authVars>>

-----------------------------------------------------------------------------
(* The handlers' transactions *)

Entity(r) == IF op[r] = "change" THEN "method" ELSE op[r]
Goto(r, l) == pc' = [pc EXCEPT ![r] = l]

\* an entity that selects find in the given rows
Visible(e, rows) ==
    \E t \in rows : /\ t.table = e /\ t.part = "row"
                    /\ e \in HasStatus => \E u \in rows : u.table = e /\ u.part = "status"

\* the handler returns; its deferred function rolls back what is open
Return(r, a) ==
    /\ Goto(r, "done") /\ answer' = [answer EXCEPT ![r] = a]
    /\ open' = open \ {r} /\ wrote' = [wrote EXCEPT ![r] = {}]

\* Begin.  putNewPaymentMethod looks for the project first, in another database
\* and outside the transaction.
Begin(r) ==
    /\ pc[r] = "begin"
    /\ IF op[r] = "method" /\ ~Visible("project", db)
       THEN Return(r, "notfound")
       ELSE /\ Goto(r, "check") /\ open' = open \cup {r}
            /\ UNCHANGED <<answer, wrote>>
    /\ UNCHANGED <<db, op, fault, leaked, authVars>>

\* Begin fails: the handlers of payment methods do not look at the error and
\* panic, which cuts the connection
BeginFail(r) ==
    /\ pc[r] = "begin"
    /\ Return(r, IF op[r] \in {"method", "change"} THEN "cut" ELSE "error")
    /\ UNCHANGED <<db, op, fault, leaked, authVars>>

\* the handler's selects: the parent of a project, the method to change, whether
\* the project or method to create is there; a principal is inserted without a look
Missing(r) ==
    \/ op[r] = "project" /\ ~Visible("principal", db)
    \/ op[r] = "change" /\ ~Visible("method", db)

Exists(r) == op[r] \in {"project", "method"} /\ Visible(op[r], db)

Check(r) ==
    /\ pc[r] = "check"
    /\ \/ Missing(r) /\ Return(r, "notfound")
       \/ ~Missing(r) /\ Exists(r) /\ Return(r, "conflict")
       \/ /\ ~Missing(r) /\ ~Exists(r)
          /\ Goto(r, IF op[r] = "change" THEN "rest" ELSE "row")
          /\ UNCHANGED <<open, wrote, answer>>
    /\ UNCHANGED <<db, op, fault, leaked, authVars>>

\* the lookup of the provider fails: putNewPaymentMethod sets commit before it
\* returns, and nothing ends the transaction
ProviderFail(r) ==
    /\ pc[r] = "check" /\ op[r] = "method"
    /\ Goto(r, "done") /\ answer' = [answer EXCEPT ![r] = "error"]
    /\ leaked' = leaked \cup {r}
    /\ UNCHANGED <<db, op, open, wrote, fault, authVars>>

\* the unique index is not there (mutant)
RowFreeAlways(e) == TRUE

\* the unique index: no such row is committed or about to be
RowFree(e) == \A t \in db \cup UNION {wrote[q] : q \in Requests} : t # Row(e, t.by)

\* the row is inserted outside the transaction (mutant)
InsertRowDB(r) ==
    /\ pc[r] = "row" /\ RowFree(op[r])
    /\ db' = db \cup {Row(op[r], r)}
    /\ Goto(r, "rest")
    /\ UNCHANGED <<op, open, wrote, answer, fault, leaked, authVars>>

\* InsertPrincipalTx, InsertProjectTx with its configuration, InsertPaymentMethodTx
InsertRow(r) ==
    /\ pc[r] = "row" /\ RowFree(op[r])
    /\ wrote' = [wrote EXCEPT ![r] = {Row(op[r], r)}]
    /\ Goto(r, "rest")
    /\ UNCHANGED <<db, op, open, answer, fault, leaked, authVars>>

\* the index refuses the row once another transaction has committed its own
InsertDuplicate(r) ==
    /\ pc[r] = "row" /\ \E t \in db : t = Row(op[r], t.by)
    /\ Return(r, "error")
    /\ UNCHANGED <<db, op, fault, leaked, authVars>>

\* the inserts that follow; postChangePaymentMethod answers now, before it commits
InsertRest(r, rest) ==
    /\ pc[r] = "rest"
    /\ wrote' = [wrote EXCEPT ![r] = @ \cup rest] /\ Goto(r, "commit")
    /\ answer' = [answer EXCEPT ![r] = IF op[r] = "change" THEN "changed" ELSE @]
    /\ UNCHANGED <<db, op, open, leaked, authVars>>

\* InsertPrincipalStatusTx or InsertPaymentMethodStatusTx, and InsertMetadataTx
InsertStatus(r) ==
    LET e == Entity(r)
    IN  /\ InsertRest(r, {Meta(e, r)} \cup (IF e \in HasStatus THEN {Status(e, r)} ELSE {}))
        /\ UNCHANGED fault

\* postChangePaymentMethod finds the status it was asked for and inserts none
StatusUnchanged(r) ==
    op[r] = "change" /\ InsertRest(r, {Meta("method", r)}) /\ UNCHANGED fault

\* postChangePaymentMethod does not look at the error of its insert
StatusLost(r) ==
    op[r] = "change" /\ InsertRest(r, {Meta("method", r)}) /\ fault' = fault \cup {r}

\* the error of a statement is answered and the transaction left open (mutant)
StatementFailOpen(r) ==
    /\ pc[r] \in {"check", "row", "rest"}
    /\ Goto(r, "done") /\ answer' = [answer EXCEPT ![r] = "error"]
    /\ UNCHANGED <<db, op, open, wrote, fault, leaked, authVars>>

\* a statement fails, or waits for the index until the server gives up
StatementFail(r) ==
    /\ pc[r] \in {"check", "row", "rest"}
    /\ Return(r, "error")
    /\ UNCHANGED <<db, op, fault, leaked, authVars>>

\* the error of Commit is not looked at (mutant)
CommitUnchecked(r) ==
    /\ pc[r] = "commit"
    /\ \/ db' = db \cup wrote[r]
       \/ UNCHANGED db
    /\ Return(r, IF op[r] = "change" THEN "changed" ELSE "created")
    /\ UNCHANGED <<op, fault, leaked, authVars>>

\* Commit, then the answer
Commit(r) ==
    /\ pc[r] = "commit"
    /\ db' = db \cup wrote[r]
    /\ Return(r, IF op[r] = "change" THEN answer[r] ELSE "created")
    /\ UNCHANGED <<op, fault, leaked, authVars>>

\* Commit fails, whatever became of the transaction; a change has been answered
CommitFail(r) ==
    /\ pc[r] = "commit"
    /\ db' \in {db, db \cup wrote[r]}
    /\ fault' = IF op[r] = "change" THEN fault \cup {r} ELSE fault
    /\ Return(r, IF op[r] = "change" THEN answer[r] ELSE "error")
    /\ UNCHANGED <<op, leaked, authVars>>

-----------------------------------------------------------------------------
HandlerStep(r) ==
    \/ Begin(r) \/ BeginFail(r) \/ Check(r) \/ ProviderFail(r)
    \/ InsertRow(r) \/ InsertDuplicate(r) \/ InsertStatus(r) \/ StatusUnchanged(r)
    \/ StatusLost(r) \/ Commit(r) \/ CommitFail(r)

Next ==
    \/ \E r \in Requests : \/ HandlerStep(r) \/ StatementFail(r)
                           \/ \E p \in Procs : Arrive(r, p)
    \/ \E p \in Procs : Login(p) \/ Refresh(p)
    \/ Expire \/ AddKey \/ NewProcess

\* A handler goes on; that statements fail is not counted on.
Spec == Init /\ [][Next]_vars /\ \A r \in Requests : WF_vars(HandlerStep(r))

-----------------------------------------------------------------------------
\* Nothing half made is committed: every principal and method has the status that
\* selects join, a project its principal, a method its project, however the
\* transactions of concurrent handlers end (principal.go:178-216,
\* payment_method.go:202-245).
CompleteEntities ==
    \A t \in db : t.part = "row" =>
        /\ t.table \in HasStatus => Status(t.table, t.by) \in db
        /\ t.table # "principal" => Visible(Parent(t.table), db)

\* Of concurrent requests to create one entity at most one is told it did, and
\* that one's rows are there; a request that is told of an error may have
\* created it all the same (project.go:256-301).
CreatedOnce ==
    \A q, r \in Requests : answer[q] = "created" =>
        /\ Row(op[q], q) \in db
        /\ answer[r] = "created" /\ op[r] = op[q] => r = q

\* A change that was answered, and of which no write was lost unnoticed, is
\* committed when its handler ends (payment_method.go:372-380).
ChangeIsKept ==
    \A r \in Requests : pc[r] = "done" /\ answer[r] = "changed" /\ r \notin fault =>
        Meta("method", r) \in db

\* A handler that has returned left no transaction open, which would keep a
\* connection and its locks, but for a failed lookup of the provider
\* (payment_method.go:153-169).
TransactionsEnd == \A r \in open : pc[r] = "done" => r \in leaked

\* With keys in the configuration a client's session outlives restarts and new
\* keys: a container that has not expired is refused only by a process older
\* than the one that signed it, which is still draining its connections
\* (service/auth.go:126, context.go:157).
SessionKept ==
    [][Configured /\ session # NoSession /\ ~session.expired /\ session' = NoSession =>
         \E p \in 1..(session.by - 1) : session.key \notin Range(keychain[p])]_vars

\* Every request is answered (or cut): a handler that waits for the unique index
\* waits for one that ends (project.go:271, payment_method.go:202).
RequestAnswered == \A r \in Requests : pc[r] = "begin" ~> answer[r] # None

=============================================================================
