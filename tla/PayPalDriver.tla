---------------------------- MODULE PayPalDriver ----------------------------
(***************************************************************************)
(* The PayPal driver on top of the payment ledger.  The driver keeps its   *)
(* own table, provider_paypal_transaction, whose newest row decides what   *)
(* the next request does: PaymentHandler starts a PayPal payment (doInit), *)
(* the customer comes back to ReturnHandler, which leaves executePayment   *)
(* behind, or to CancelHandler.  Each request is a Request of the ledger;  *)
(* an action of this module is a step of PaymentLedger joined with what    *)
(* the driver does, or a step of the driver alone.  The commit goroutines  *)
(* are left to PaymentLedger: nothing here reads their state.              *)
(***************************************************************************)
EXTENDS PaymentLedger

CONSTANTS Payer,      \* requests served by PaymentHandler
          Returner,   \* requests served by ReturnHandler
          Canceller,  \* requests served by CancelHandler
          Intent,     \* intent of the PayPal payments: cfg.Type
          Faults      \* may the database, the network, the clock or the server fail?

ASSUME PayPalAssumption ==
    /\ Request = Payer \cup Returner \cup Canceller
    /\ Payer \cap Returner = {} /\ Payer \cap Canceller = {} /\ Returner \cap Canceller = {}
    /\ Providers = {"paypal_rest"}
    /\ Faults \in BOOLEAN

VARIABLES
    clock,     \* the last timestamp given to a PayPal transaction
    paypal,    \* rows of provider_paypal_transaction, in commit order
    step,      \* step[r]: where r is inside the driver
    seen,      \* seen[r]: the PayPal transaction r read (currentTx)
    rows,      \* rows[r]: the PayPal transactions r is about to insert
    executed   \* PayPal payments PayPal has executed: money that moved

driverVars == <<clock, paypal, step, seen, rows, executed>>
allVars == <<vars, driverVars>>

Type == {"CreatePayment", "CreatePaymentResponse", "ExecutePayment",
         "ExecutePaymentResponse", "Error"}

\* pay: the PayPal payment, named after the request that created it.
\* base is history: how many rows the snapshot of an execute request held.
PayPalRow == [ts : Nat, type : Type, pay : Request, base : Nat]

Step == {"idle", "create", "doInit", "created", "execute", "intent", "post",
         "answered", "error", "done"}

\* TransactionCurrentByPaymentIDTx
Newest == {i \in DOMAIN paypal : \A j \in DOMAIN paypal : paypal[j].ts <= paypal[i].ts}

\* The clock does not stand still unless faults are allowed.
Stamp == /\ clock' \in (IF Faults THEN clock ELSE clock + 1)..(clock + 1)
         /\ clock' <= MaxTime
NewRow(t, pay) == [ts |-> clock', type |-> t, pay |-> pay, base |-> 0]

DriverInit ==
    /\ Init
    /\ clock = 0
    /\ paypal = <<>>
    /\ step = [r \in Request |-> "idle"]
    /\ seen = [r \in Request |-> <<>>]
    /\ rows = [r \in Request |-> <<>>]
    /\ executed = {}

Goto(r, s) == step' = [step EXCEPT ![r] = s] /\ rows' = [rows EXCEPT ![r] = <<>>]
Prepare(r, s, new) == step' = [step EXCEPT ![r] = s] /\ rows' = [rows EXCEPT ![r] = new]

\* InsertTransactionTx and Commit, which may report an error although the rows
\* are in: where it says Insert(r) \/ UNCHANGED paypal.  The key is (project_id,
\* payment_id, timestamp).
Insert(r) == /\ \A n \in DOMAIN rows[r], i \in DOMAIN paypal : rows[r][n].ts # paypal[i].ts
             /\ paypal' = paypal \o rows[r]

\* SetPaymentTransaction fails: another row of the payment has the timestamp.
Duplicate(r) == pc[r] = "intent" /\ ~TimestampFree(paymentTx[r].ts)

\* setPayPalError: an Error row is on its way, outside any transaction.
setPayPalError(r, pay) == Stamp /\ Prepare(r, "error", <<NewRow("Error", pay)>>)

\* Mutant: the error is logged and not saved.
ErrorStepLogged(r) ==
    /\ step[r] = "error"
    /\ Goto(r, "done")
    /\ UNCHANGED <<vars, clock, paypal, seen, executed>>
ErrorStep(r) ==
    /\ step[r] = "error"
    /\ \/ Insert(r)
       \/ Faults /\ UNCHANGED paypal
    /\ Goto(r, "done")
    /\ UNCHANGED <<vars, clock, seen, executed>>

----------------------------------------------------------------------------
(* PaymentHandler, then InitPayment and its goroutine doInit.              *)

Open(r) ==
    /\ r \in Payer /\ step[r] = "idle"
    /\ \/ ReadPayment(r) \/ IntentOpen(r) \/ NoIntent(r) \/ CommitTx(r) \/ CommitIntent(r)
       \/ Faults /\ (Retry(r) \/ CommitUnknown(r))
       \/ (Faults \/ Duplicate(r)) /\ Fail(r)
    /\ UNCHANGED driverVars

\* A payment that has a PayPal transaction is initialized already.
DriverInitPayment(r) ==
    /\ r \in Payer /\ step[r] = "idle" /\ pc[r] = "served"
    /\ IF paypal # <<>> THEN Goto(r, "done") /\ UNCHANGED clock
       ELSE Stamp /\ Prepare(r, "create", <<NewRow("CreatePayment", r)>>)
    /\ UNCHANGED <<vars, paypal, seen, executed>>

InitCommit(r) ==
    /\ step[r] = "create"
    /\ \/ Insert(r) /\ Goto(r, "doInit")
       \/ Faults /\ (Insert(r) \/ UNCHANGED paypal) /\ Goto(r, "done")  \* no doInit
    /\ UNCHANGED <<vars, clock, seen, executed>>

\* PayPal's answer to the create request: a payment, created or in another
\* state, which adds an Error row; an error; or nothing, when authentication fails.
doInit(r) ==
    /\ step[r] = "doInit"
    /\ \/ Stamp /\ Prepare(r, "created", <<NewRow("CreatePaymentResponse", r)>>)
       \/ /\ clock' = clock + 2 /\ clock' <= MaxTime
          /\ Prepare(r, "created", <<[NewRow("CreatePaymentResponse", r) EXCEPT !.ts = clock + 1],
                                     NewRow("Error", r)>>)
       \/ setPayPalError(r, r)
       \/ Faults /\ Goto(r, "done") /\ UNCHANGED clock
    /\ UNCHANGED <<vars, paypal, seen, executed>>

InitResponse(r) ==
    /\ step[r] = "created"
    /\ \/ Insert(r) /\ Goto(r, "done") /\ UNCHANGED clock
       \/ Faults /\ (Insert(r) \/ UNCHANGED paypal) /\ setPayPalError(r, r)
    /\ UNCHANGED <<vars, seen, executed>>

----------------------------------------------------------------------------
(* ReturnHandler and its goroutine executePayment.                         *)

\* The nonce must belong to a PayPal transaction.  Payment and current PayPal
\* transaction are read in one database transaction.
ReturnRead(r) ==
    /\ r \in Returner /\ step[r] = "idle"
    /\ ReadPayment(r)
    /\ \E i \in Newest :
           seen' = [seen EXCEPT ![r] = <<[paypal[i] EXCEPT !.base = Len(paypal)]>>]
    /\ UNCHANGED <<clock, paypal, step, rows, executed>>

\* Mutant: a payment being executed may be executed again.
Executable(t) == t \in {"CreatePaymentResponse", "ExecutePayment"}
NeedsExecute(t) == t = "CreatePaymentResponse"

\* No execute required: the status page is served.
ReturnSkip(r) ==
    /\ r \in Returner /\ step[r] = "idle" /\ pc[r] = "read"
    /\ ~NeedsExecute(seen[r][1].type)
    /\ NoIntent(r)
    /\ Goto(r, "done")
    /\ UNCHANGED <<clock, paypal, seen, executed>>

ReturnExecute(r) ==
    /\ r \in Returner /\ step[r] = "idle" /\ pc[r] = "read"
    /\ NeedsExecute(seen[r][1].type)
    /\ Stamp
    /\ Prepare(r, "execute", <<[NewRow("ExecutePayment", seen[r][1].pay)
                                   EXCEPT !.base = seen[r][1].base]>>)
    /\ UNCHANGED <<vars, paypal, seen, executed>>

ReturnCommit(r) ==
    /\ step[r] = "execute"
    /\ \/ Insert(r) /\ Goto(r, "intent") /\ UNCHANGED vars
       \/ Faults /\ Fail(r) /\ (Insert(r) \/ UNCHANGED paypal) /\ Goto(r, "done")
    /\ UNCHANGED <<clock, seen, executed>>

ReturnFail(r) ==
    /\ r \in Returner /\ step[r] = "idle" /\ Faults
    /\ Fail(r)
    /\ UNCHANGED driverVars

\* executePayment asks for the intent with the payment ReturnHandler read.
ExecuteIntent(r) ==
    /\ step[r] = "intent"
    /\ \/ Intent = "sale" /\ IntentPaid(r) /\ Goto(r, "post") /\ UNCHANGED clock
       \/ Intent = "authorize" /\ IntentAuthorized(r) /\ Goto(r, "post") /\ UNCHANGED clock
       \/ Intent \notin {"sale", "authorize"} /\ Fail(r) /\ Goto(r, "done") /\ UNCHANGED clock
       \/ /\ Intent \in {"sale", "authorize"}
          /\ Faults \/ payment[r].status # "open"
          /\ Fail(r) /\ setPayPalError(r, seen[r][1].pay)
    /\ UNCHANGED <<paypal, seen, executed>>

\* PayPal executes a payment at most once; a second request is refused.
PayPalExecutes(pay) == executed' = executed \cup {pay}

\* Mutant: the answer's status is not looked at.
ExecuteUnchecked(r) ==
    /\ step[r] = "post"
    /\ Stamp /\ Prepare(r, "answered", <<NewRow("ExecutePaymentResponse", seen[r][1].pay)>>)
    /\ executed' \in {executed, executed \cup {seen[r][1].pay}}
    /\ UNCHANGED <<vars, paypal, seen>>
\* The execute request: executed and answered with 200; refused, or answered
\* with something unusable; or lost before or after PayPal acted on it.
executePayment(r) ==
    LET pay == seen[r][1].pay IN
    /\ step[r] = "post"
    /\ \/ /\ pay \notin executed /\ PayPalExecutes(pay)
          /\ Stamp /\ Prepare(r, "answered", <<NewRow("ExecutePaymentResponse", pay)>>)
          /\ UNCHANGED vars
       \/ /\ Fail(r) /\ setPayPalError(r, pay)
          /\ UNCHANGED executed \/ (Faults /\ PayPalExecutes(pay))
       \/ /\ Faults /\ Fail(r) /\ Goto(r, "done") /\ UNCHANGED clock
          /\ UNCHANGED executed \/ PayPalExecutes(pay)
    /\ UNCHANGED <<paypal, seen>>

\* Mutant: the response is saved before the transaction.
ResponseFirst(r) ==
    /\ step[r] = "answered"
    /\ \/ rows[r] # <<>> /\ Insert(r) /\ Prepare(r, "answered", <<>>) /\ UNCHANGED vars
       \/ rows[r] = <<>> /\ (CommitTx(r) \/ Fail(r)) /\ UNCHANGED paypal /\ Goto(r, "done")
    /\ UNCHANGED <<clock, seen, executed>>
\* One transaction: the PayPal response and the payment transaction.
ExecuteCommit(r) ==
    /\ step[r] = "answered"
    /\ \/ (CommitTx(r) \/ (Faults /\ CommitUnknown(r))) /\ Insert(r) /\ Goto(r, "done") /\ UNCHANGED clock
       \/ Faults /\ Fail(r) /\ Goto(r, "done") /\ UNCHANGED <<clock, paypal>>
       \/ (Faults \/ Duplicate(r)) /\ Fail(r) /\ setPayPalError(r, seen[r][1].pay) /\ UNCHANGED paypal
    /\ UNCHANGED <<seen, executed>>

ExecuteNotify(r) ==
    /\ r \in Returner
    /\ CommitIntent(r)
    /\ UNCHANGED driverVars

----------------------------------------------------------------------------
CancelHandler(r) ==
    /\ r \in Canceller
    /\ \/ paypal # <<>> /\ ReadPayment(r)
       \/ IntentCancel(r) \/ CommitTx(r) \/ CommitIntent(r)
       \/ payment[r].status = "cancelled" /\ NoIntent(r)
       \/ pc[r] = "read" /\ payment[r].status \notin {"open", "cancelled"} /\ Fail(r)
       \/ Faults /\ CommitUnknown(r)
       \/ (Faults \/ Duplicate(r)) /\ Fail(r)
    /\ UNCHANGED driverVars

DriverCrash ==
    /\ Faults
    /\ Crash
    /\ step' = [r \in Request |-> IF Started(r) THEN "done" ELSE step[r]]
    /\ rows' = [r \in Request |-> <<>>]
    /\ UNCHANGED <<clock, paypal, seen, executed>>

PayerStep(r) == Open(r) \/ DriverInitPayment(r) \/ InitCommit(r) \/ doInit(r) \/ InitResponse(r)
ReturnStep(r) ==
    \/ ReturnRead(r) \/ ReturnSkip(r) \/ ReturnExecute(r) \/ ReturnCommit(r) \/ ReturnFail(r)
    \/ ExecuteIntent(r) \/ executePayment(r) \/ ExecuteCommit(r) \/ ExecuteNotify(r)
DriverStep(r) == PayerStep(r) \/ ReturnStep(r) \/ CancelHandler(r) \/ ErrorStep(r)

DriverNext == DriverCrash \/ \E r \in Request : DriverStep(r)

DriverSpec == DriverInit /\ [][DriverNext]_allVars

\* What has started goes on; nobody has to send a request.
DriverFairness == \A r \in Request : WF_allVars(Started(r) /\ DriverStep(r))
FairDriverSpec == DriverSpec /\ DriverFairness

----------------------------------------------------------------------------
DriverTypeOK ==
    /\ clock \in 0..MaxTime
    /\ paypal \in Seq(PayPalRow)
    /\ step \in [Request -> Step]
    /\ rows \in [Request -> Seq(PayPalRow)]
    /\ seen \in [Request -> Seq(PayPalRow)]
    /\ executed \subseteq Payer

Charged == {i \in DOMAIN ledger : ledger[i].status \in {"paid", "authorized"}}

\* Every paid or authorized row stands for money that moved: there are never
\* more of them than PayPal payments that were executed, whatever handlers
\* overlap, answers get lost or the server crashes.
PaidWasExecuted == Cardinality(Charged) <= Cardinality(executed)

\* The two tables agree: payment_transaction has a paid or authorized row for
\* every ExecutePaymentResponse of the driver and the other way round.
TablesAgree ==
    Cardinality(Charged) =
        Cardinality({i \in DOMAIN paypal : paypal[i].type = "ExecutePaymentResponse"})

\* The execute request of one PayPal payment is recorded twice only by
\* ReturnHandlers that overlap: the later did not see the earlier row.
ExecutesOnce ==
    \A i, j \in DOMAIN paypal :
        /\ i < j /\ paypal[i].pay = paypal[j].pay
        /\ paypal[i].type = "ExecutePayment" /\ paypal[j].type = "ExecutePayment"
        => paypal[j].base < i

\* A payment the customer cancelled before ReturnHandler read it is not
\* executed: money moves only for a payment that was open in the snapshot.
CancelledNotExecuted ==
    \A r \in Returner : step[r] \in {"post", "answered"} =>
        \A i \in 1..paymentTx[r].base : ledger[i].status = "cancelled" =>
            \E k \in 1..paymentTx[r].base : ledger[k].status = "open" /\ ledger[k].ts > ledger[i].ts

\* A payment has one PayPal payment for each PaymentHandler that found none, and
\* the answer to a create request may come after another of them was executed and
\* make the payment look executable again (driver.go:285, :582).  Even so money does
\* not move for a payment that was paid in the snapshot, unless opened again.
PaidNotExecuted ==
    \A r \in Returner : step[r] \in {"post", "answered"} =>
        \A i \in 1..paymentTx[r].base : ledger[i].status \in {"paid", "authorized"} =>
            \E k \in 1..paymentTx[r].base : ledger[k].status = "open" /\ ledger[k].ts > ledger[i].ts

\* The page that polls for the end of a create or execute request stops polling.
Polling == \E i \in Newest : paypal[i].type \in {"CreatePayment", "ExecutePayment"}
PollEnds == Polling ~> ~Polling

=============================================================================
