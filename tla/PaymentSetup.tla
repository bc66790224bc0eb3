---------------------------- MODULE PaymentSetup ----------------------------
(***************************************************************************)
(* How a payment comes into being and how the customer gets to it.         *)
(* PaymentAPI.InitPayment inserts the payment, its configuration, metadata *)
(* and token in one database transaction of PaymentDB, retried on a lock   *)
(* error, and answers the merchant after the commit.  A customer brings    *)
(* the token of an answer to web.Handler.authenticatePaymentToken, which   *)
(* finds the payment, deletes the token and hands out a cookie.  Requests  *)
(* run concurrently, wait for each other's row locks, fail, and are lost   *)
(* when the server crashes.  The merchant only ever sees the encoded id of *)
(* a payment, as a string, and GetPayment decodes it.  Implements          *)
(* PaymentRegistry.                                                        *)
(***************************************************************************)
EXTENDS IDEncoder

CONSTANTS Request,                \* calls of InitPayment, of one project
          Customer,               \* requests that bring a token
          Ident,                  \* the merchant's names for payments
          TokenName,              \* values PaymentToken.GenerateToken can draw
          NoToken,                \* no token
          MaxPaymentId,           \* bound on payment.id, one for every request will do
          TransactionMaxRetries,  \* cfg.Database.TransactionMaxRetries
          IDEncKey                \* cfg.Payment.PaymentIDEncPrime and PaymentIDEncXOR

ASSUME SetupAssumption ==
    /\ MaxPaymentId \in Nat
    /\ TransactionMaxRetries \in Nat
    /\ Request \cap Customer = {}
    /\ NoToken \notin TokenName
    /\ MaxPaymentId <= Max
    /\ IDEncKey \in Key

VARIABLES
    ident,       \* ident[r]: the ident request r asks for
    payments,    \* committed rows of payment, [id, ident]
    configured,  \* ids with a committed row of payment_config
    tokens,      \* committed rows of payment_token, [token, id, fresh]
    pc,          \* pc[a]: where request a is
    retries,     \* retries[a]: lock errors met by a
    tx,          \* tx[r]: the rows r has inserted and not committed
    resp,        \* resp[r]: the answer r is going to write
    answer,      \* answer[r]: what the merchant was told
    brought,     \* brought[c]: the token customer c brings
    held,        \* held[c]: the id PaymentByToken found for c, 0 for none
    cookie,      \* cookie[c]: the payment c's response has a cookie for, 0 for none
    spent,       \* history: ids whose token was used or is too old
    late         \* late[c]: what was spent when c arrived

initVars == <<ident, payments, configured, tx, resp, answer>>
customerVars == <<brought, held, cookie, late>>
vars == <<initVars, customerVars, tokens, pc, retries, spent>>

Actor == Request \cup Customer
PaymentId == 1..MaxPaymentId

Rows == [id : PaymentId \cup {0}, configured : BOOLEAN, token : TokenName \cup {NoToken}]
NoRows == [id |-> 0, configured |-> FALSE, token |-> NoToken]

NoAnswer == [kind |-> "none"]
Error == [kind |-> "error"]
Answer == {NoAnswer, Error}
          \cup [kind : {"conflict"}, ident : Ident]
          \cup [kind : {"success"}, id : Int64, token : TokenName]

PC == {"start", "begun", "created", "token", "respond",
       "found", "deleted", "done", "lost"}

TypeOK ==
    /\ ident \in [Request -> Ident]
    /\ payments \subseteq [id : PaymentId, ident : Ident]
    /\ configured \subseteq PaymentId
    /\ tokens \subseteq [token : TokenName, id : PaymentId, fresh : BOOLEAN]
    /\ pc \in [Actor -> PC]
    /\ retries \in [Actor -> 0..TransactionMaxRetries]
    /\ tx \in [Request -> Rows]
    /\ resp \in [Request -> Answer]
    /\ answer \in [Request -> Answer]
    /\ brought \in [Customer -> TokenName \cup {NoToken}]
    /\ held \in [Customer -> PaymentId \cup {0}]
    /\ cookie \in [Customer -> PaymentId \cup {0}]
    /\ spent \subseteq PaymentId
    /\ late \in [Customer -> SUBSET PaymentId]

Init ==
    /\ ident \in [Request -> Ident]
    /\ payments = {} /\ configured = {} /\ tokens = {}
    /\ pc = [a \in Actor |-> "start"]
    /\ retries = [a \in Actor |-> 0]
    /\ tx = [r \in Request |-> NoRows]
    /\ resp = [r \in Request |-> NoAnswer]
    /\ answer = [r \in Request |-> NoAnswer]
    /\ brought = [c \in Customer |-> NoToken]
    /\ held = [c \in Customer |-> 0]
    /\ cookie = [c \in Customer |-> 0]
    /\ spent = {}
    /\ late = [c \in Customer |-> {}]

Goto(a, from, to) == pc[a] = from /\ pc' = [pc EXCEPT ![a] = to]

----------------------------------------------------------------------------
(* InitPayment.                                                            *)

Rollback(r) == tx' = [tx EXCEPT ![r] = NoRows]

\* Mutant: the deferred function does not roll back.
ReturnOpen(r, a) ==
    /\ resp' = [resp EXCEPT ![r] = a]
    /\ pc' = [pc EXCEPT ![r] = "respond"]
    /\ UNCHANGED <<ident, payments, configured, tokens, tx, retries, answer, spent, customerVars>>
\* Every return leaves the transaction rolled back and an answer to write.
Return(r, a) ==
    /\ resp' = [resp EXCEPT ![r] = a]
    /\ pc' = [pc EXCEPT ![r] = "respond"]
    /\ Rollback(r)
    /\ UNCHANGED <<ident, payments, configured, tokens, retries, answer, spent, customerVars>>

\* The request is malformed, unsigned, too old or names no currency; or it has
\* met too many lock errors.
Refuse(r) == pc[r] = "start" /\ Return(r, Error)

Begin(r) ==
    /\ Goto(r, "start", "begun")
    /\ retries[r] < TransactionMaxRetries
    /\ UNCHANGED <<initVars, customerVars, tokens, retries, spent>>

\* Anything in the transaction may fail for good: the callback's project key is
\* unknown or another project's, the payment method is not there, not active or
\* not the project's, the database fails, the answer cannot be signed.
Fail(r) == pc[r] \in {"begun", "created", "token"} /\ Return(r, Error)

\* Error 1213: MySQL has rolled the transaction back, InitPayment begins again.
Retry(r) ==
    /\ pc[r] \in {"begun", "created", "token"}
    /\ retries' = [retries EXCEPT ![r] = @ + 1]
    /\ pc' = [pc EXCEPT ![r] = "start"]
    /\ Rollback(r)
    /\ resp' = [resp EXCEPT ![r] = NoAnswer]
    /\ UNCHANGED <<ident, payments, configured, tokens, answer, spent, customerVars>>

\* Nobody else has inserted the ident and not committed: the unique index
\* (project_id, ident) makes the insert wait for them.
IdentUnlocked(r) == \A o \in Request \ {r} : tx[o].id # 0 => ident[o] # ident[r]
IdentTaken(r) == \E p \in payments : p.ident = ident[r]

\* The id the column hands out.  One that was rolled back is not used again in
\* MySQL; nobody has seen it, so that it may be here.
IdFree(i) == /\ \A p \in payments : p.id # i
             /\ \A o \in Request : tx[o].id # i
AutoIncrement == CHOOSE i \in PaymentId : IdFree(i)

\* The payment with its configuration row (SetPaymentConfig) and, if there are
\* any, metadata rows (SetPaymentMetadata).
NewPayment == [NoRows EXCEPT !.id = AutoIncrement, !.configured = TRUE]

\* Mutant: the index on (project_id, ident) is not unique.
CreatePaymentAnyIdent(r) ==
    /\ Goto(r, "begun", "created")
    /\ tx' = [tx EXCEPT ![r] = NewPayment]
    /\ UNCHANGED <<ident, payments, configured, tokens, retries, resp, answer, spent, customerVars>>
\* The last conjunct is the bound MaxPaymentId.
CreatePayment(r) ==
    /\ Goto(r, "begun", "created")
    /\ IdentUnlocked(r)
    /\ ~IdentTaken(r)
    /\ tx' = [tx EXCEPT ![r] = NewPayment]
    /\ UNCHANGED <<ident, payments, configured, tokens, retries, resp, answer, spent, customerVars>>
    /\ \E i \in PaymentId : IdFree(i)

\* The insert fails; the payment with the ident is looked up afterwards, with
\* the first read of the transaction, and found.
DuplicateIdent(r) ==
    /\ pc[r] = "begun"
    /\ IdentUnlocked(r)
    /\ IdentTaken(r)
    /\ Return(r, [kind |-> "conflict", ident |-> ident[r]])

EncodedPaymentID == [id \in Word |-> Hide(IDEncKey, id)]
DecodedPaymentID == [id \in Int64 |-> Show(IDEncKey, id)]

\* The confirmation names the payment by its encoded id.
Success(r, t) == [kind |-> "success", id |-> EncodedPaymentID[tx[r].id], token |-> t]

\* GenerateToken drew a token there already is: error 1062, draw again.
RegenerateToken(r) ==
    /\ pc[r] = "created"
    /\ \E u \in tokens : resp' = [resp EXCEPT ![r] = Success(r, u.token)]
    /\ UNCHANGED <<ident, payments, configured, tokens, pc, retries, tx, answer, spent, customerVars>>

\* No uncommitted insert or delete holds the row of the token.
TokenUnlocked(a, t) == /\ \A o \in Request \ {a} : tx[o].token # t
                       /\ \A c \in Customer \ {a} : pc[c] = "deleted" => brought[c] # t
\* No row has the token.  Nor was it ever handed out: 32 random bytes do not come
\* again after their row is deleted.
TokenFree(t) == /\ \A u \in tokens : u.token # t
                /\ \A o \in Request : answer[o].kind = "success" => answer[o].token # t

\* Mutant: the answer keeps the first token drawn.
CreatePaymentTokenFirst(r) ==
    /\ Goto(r, "created", "token")
    /\ \E t \in TokenName :
          /\ TokenUnlocked(r, t) /\ TokenFree(t)
          /\ tx' = [tx EXCEPT ![r].token = t]
          /\ resp' = IF resp[r] = NoAnswer THEN [resp EXCEPT ![r] = Success(r, t)] ELSE resp
    /\ UNCHANGED <<ident, payments, configured, tokens, retries, answer, spent, customerVars>>
\* CreatePaymentToken: the draw that is inserted is the one the answer will name.
CreatePaymentToken(r) ==
    /\ Goto(r, "created", "token")
    /\ \E t \in TokenName :
          /\ TokenUnlocked(r, t) /\ TokenFree(t)
          /\ tx' = [tx EXCEPT ![r].token = t]
          /\ resp' = [resp EXCEPT ![r] = Success(r, t)]
    /\ UNCHANGED <<ident, payments, configured, tokens, retries, answer, spent, customerVars>>

\* The database commits r's rows.
CommitRows(r) ==
    /\ payments' = payments \cup {[id |-> tx[r].id, ident |-> ident[r]]}
    /\ configured' = configured \cup {i \in {tx[r].id} : tx[r].configured}
    /\ tokens' = tokens \cup {[token |-> tx[r].token, id |-> tx[r].id, fresh |-> TRUE]}
    /\ Rollback(r)

Commit(r) ==
    /\ Goto(r, "token", "respond")
    /\ CommitRows(r)
    /\ UNCHANGED <<ident, retries, resp, answer, spent, customerVars>>

\* tx.Commit fails with another error than 1213; the rows may be there or not.
CommitUnknown(r) ==
    /\ Goto(r, "token", "respond")
    /\ resp' = [resp EXCEPT ![r] = Error]
    /\ \/ CommitRows(r)
       \/ Rollback(r) /\ UNCHANGED <<payments, configured, tokens>>
    /\ UNCHANGED <<ident, retries, answer, spent, customerVars>>

\* The deferred resp.Write
WriteResponse(r) ==
    /\ Goto(r, "respond", "done")
    /\ answer' = [answer EXCEPT ![r] = resp[r]]
    /\ resp' = [resp EXCEPT ![r] = NoAnswer]
    /\ retries' = [retries EXCEPT ![r] = 0]
    /\ UNCHANGED <<ident, payments, configured, tokens, tx, spent, customerVars>>

----------------------------------------------------------------------------
(* authenticatePaymentToken.  The customer knows the token of an answer.   *)

Arrive(c) ==
    /\ pc[c] = "start" /\ brought[c] = NoToken
    /\ \E r \in Request : /\ answer[r].kind = "success"
                          /\ brought' = [brought EXCEPT ![c] = answer[r].token]
    /\ late' = [late EXCEPT ![c] = spent]
    /\ UNCHANGED <<initVars, tokens, pc, retries, held, cookie, spent>>

\* The payment whose token is young enough, as PaymentByTokenTx selects it.
PaymentByToken(t) == {u.id : u \in {u \in tokens : u.token = t /\ u.fresh}}

\* beginTx and PaymentByToken; what the response carries already stays in it.
FindPayment(c) ==
    /\ Goto(c, "start", "found")
    /\ brought[c] # NoToken
    /\ retries[c] < TransactionMaxRetries
    /\ \E id \in PaymentByToken(brought[c]) : held' = [held EXCEPT ![c] = id]
    /\ UNCHANGED <<initVars, tokens, retries, brought, cookie, spent, late>>

\* The handler returns; its locals go.
CustomerDone(c) ==
    /\ pc' = [pc EXCEPT ![c] = "done"]
    /\ held' = [held EXCEPT ![c] = 0]
    /\ retries' = [retries EXCEPT ![c] = 0]
    /\ UNCHANGED <<initVars, brought, cookie, late>>

\* Not found, an error of the database, no usable key, too many lock errors.
\* A cookie set by an attempt before is sent with the error.
RefuseCustomer(c) ==
    /\ pc[c] \in {"start", "found", "deleted"}
    /\ brought[c] # NoToken
    /\ CustomerDone(c)
    /\ UNCHANGED <<tokens, spent>>

\* DeletePaymentToken waits for the row and does not ask whether it was there;
\* then setPaymentCookie.
DeletePaymentToken(c) ==
    /\ Goto(c, "found", "deleted")
    /\ TokenUnlocked(c, brought[c])
    /\ cookie' = [cookie EXCEPT ![c] = held[c]]
    /\ UNCHANGED <<initVars, tokens, retries, brought, held, spent, late>>

RetryCustomer(c) ==
    /\ pc[c] \in {"found", "deleted"}
    /\ retries' = [retries EXCEPT ![c] = @ + 1]
    /\ pc' = [pc EXCEPT ![c] = "start"]
    /\ UNCHANGED <<initVars, tokens, customerVars, spent>>

\* Mutant: the transaction is rolled back when the handler returns.
RedirectUncommitted(c) ==
    /\ pc[c] = "deleted"
    /\ CustomerDone(c)
    /\ spent' = spent \cup {held[c]}
    /\ UNCHANGED tokens
\* The commit and redirectTokenRequest.
Redirect(c) ==
    /\ pc[c] = "deleted"
    /\ CustomerDone(c)
    /\ tokens' = {u \in tokens : u.token # brought[c]}
    /\ spent' = spent \cup {held[c]}

\* The commit fails, and yet the token is gone.
RedirectUnknown(c) ==
    /\ pc[c] = "deleted"
    /\ CustomerDone(c)
    /\ tokens' = {u \in tokens : u.token # brought[c]}
    /\ UNCHANGED spent

----------------------------------------------------------------------------
(* GetPayment reads and changes nothing: the payments it answers with, for *)
(* an ident or else for a displayed id.                                    *)

GetPaymentByIdent(i) == {p \in payments : p.ident = i}

\* Mutant: the displayed id is looked up as it is.
GetPaymentByEncodedID(id) == {p \in payments : p.id = id}
\* The displayed id is parsed, which may fail, and decoded.
GetPaymentByID(id) == {p \in payments : \E i \in ParsePaymentIDStr(id) : p.id = DecodedPaymentID[i]}

----------------------------------------------------------------------------
(* PaymentTokenMaxAgeDefault passes for a token.                           *)
TokenTooOld(u) ==
    /\ u.fresh
    /\ tokens' = (tokens \ {u}) \cup {[u EXCEPT !.fresh = FALSE]}
    /\ spent' = spent \cup {u.id}
    /\ UNCHANGED <<initVars, customerVars, pc, retries>>

\* The server goes down: what is not committed or answered is lost.
Crash ==
    /\ pc' = [a \in Actor |-> IF pc[a] \in {"start", "done", "lost"} /\ retries[a] = 0
                              THEN pc[a] ELSE "lost"]
    /\ pc' # pc
    /\ tx' = [r \in Request |-> NoRows]
    /\ resp' = [r \in Request |-> NoAnswer]
    /\ retries' = [a \in Actor |-> 0]
    /\ held' = [c \in Customer |-> 0]
    /\ UNCHANGED <<ident, payments, configured, tokens, answer, spent, brought, cookie, late>>

InitStep(r) == Begin(r) \/ CreatePayment(r) \/ DuplicateIdent(r)
               \/ CreatePaymentToken(r) \/ Commit(r) \/ WriteResponse(r)
               \/ (retries[r] >= TransactionMaxRetries /\ Refuse(r))

CustomerStep(c) == FindPayment(c) \/ DeletePaymentToken(c) \/ Redirect(c)
                   \/ (PaymentByToken(brought[c]) = {} /\ RefuseCustomer(c))

Next ==
    \/ \E r \in Request :
          \/ Refuse(r) \/ Begin(r) \/ Fail(r) \/ Retry(r)
          \/ CreatePayment(r) \/ DuplicateIdent(r)
          \/ RegenerateToken(r) \/ CreatePaymentToken(r)
          \/ Commit(r) \/ CommitUnknown(r) \/ WriteResponse(r)
    \/ \E c \in Customer :
          \/ Arrive(c) \/ FindPayment(c) \/ RefuseCustomer(c) \/ DeletePaymentToken(c)
          \/ RetryCustomer(c) \/ Redirect(c) \/ RedirectUnknown(c)
    \/ \E u \in tokens : TokenTooOld(u)
    \/ Crash

Spec == Init /\ [][Next]_vars

\* The server schedules every request, and a lock error is not for ever.
FairSpec == Spec /\ \A r \in Request : WF_vars(InitStep(r))
                 /\ \A c \in Customer : WF_vars(CustomerStep(c))

----------------------------------------------------------------------------
(* Properties.                                                             *)

\* The payments, the tokens that can be redeemed and the answers as the merchant
\* and the customer know them.
KnownPayments == {[id |-> p.id, ident |-> p.ident, configured |-> p.id \in configured] : p \in payments}
ValidTokens == {[token |-> u.token, id |-> u.id] : u \in {u \in tokens : u.fresh}}
KnownAnswers == [r \in Request |-> IF answer[r].kind = "success"
                                   THEN [answer[r] EXCEPT !.id = DecodedPaymentID[@]] ELSE answer[r]]
Registry == INSTANCE PaymentRegistry WITH
    payments <- KnownPayments, tokens <- ValidTokens, answer <- KnownAnswers

\* InitPayment creates payments whole and once per ident, whatever the retries,
\* crashes and lost commits, and its answers are true (init_payment.go:445).
ImplementsRegistry == Registry!Spec

\* What an answer names can be asked for: GetPayment finds the confirmed payment
\* by the id in the answer, and only that one, and the one in the way of a
\* conflict by its ident (get_payment.go:86, 127, 145), in the database itself.
\* So it is for a key whose xor is not negative.
AnswerCanBeLookedUp ==
    \A r \in Request :
        /\ answer[r].kind = "success" =>
               {p.ident : p \in GetPaymentByID(answer[r].id)} = {ident[r]}
        /\ answer[r].kind = "conflict" => GetPaymentByIdent(answer[r].ident) # {}

\* The numbers a displayed id leads to.
LeadsTo(key, i) == {Show(key, d) : d \in ParsePaymentIDStr(Hide(key, i))}
DecodableIDs == {i \in Word : \A key \in Key : LeadsTo(key, i) = IF key.xor >= 0 THEN {i} ELSE {}}

\* Whatever the key, a payment's displayed id never leads to another one, and so it
\* is for all payments that follow, up to the greatest number; it leads back to its
\* own exactly if the key's xor is not negative.  With a negative one no id that is
\* handed out can be parsed (payment_id.go:26-32, 103-117).
IdsRoundTrip == \A p \in payments : p.id..Max \subseteq DecodableIDs

\* A token opens a payment once: who arrives after it was redeemed, or after it
\* expired, gets no cookie, not even with an error page (web/payment.go:96-104).
\* Customers who overlap may both get one.
OneTimeToken == \A c \in Customer : cookie[c] \notin late[c]

\* Every call of InitPayment is answered unless the server goes down, though
\* calls wait for each other's idents and tokens.
InitAnswered == \A r \in Request : (pc[r] = "begun") ~> (pc[r] \in {"done", "lost"})
=============================================================================
