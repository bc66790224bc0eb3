--------------------------- MODULE PaymentLedger ---------------------------
(***************************************************************************)
(* The ledger of one payment (table payment_transaction) and the protocol  *)
(* every part of paymentd follows to change the payment's status: read the *)
(* payment in a database transaction, call one of the Intent* methods of   *)
(* the payment service, insert the transaction it returns, commit, call    *)
(* the returned CommitIntentFunc; a goroutine then notifies the merchant.  *)
(*                                                                         *)
(* A Request is one HTTP request together with the goroutine it may leave  *)
(* behind (web.Handler.PaymentHandler, paypal_rest.Driver.CancelHandler,   *)
(* ReturnHandler with executePayment).  Requests run concurrently, hold    *)
(* their own snapshot of the payment, may be refused, fail, be retried on  *)
(* a lock error, and are lost when the server crashes.                     *)
(***************************************************************************)
EXTENDS Integers, Sequences, FiniteSets

CONSTANTS Request,                \* requests that touch the payment
          TransactionMaxRetries,  \* cfg.Database.TransactionMaxRetries
          MaxTime,                \* bound on the clock
          Replicated,             \* is a ReadOnly payment database configured?
          Providers               \* drivers of the payment methods in use

ASSUME LedgerAssumption ==
    /\ TransactionMaxRetries \in Nat \ {0}   \* with 0 no payment is ever opened
    /\ MaxTime \in Nat
    /\ Replicated \in BOOLEAN
    /\ Providers \subseteq {"paypal_rest", "fritzpay"}

VARIABLES
    now,        \* the last value time.Now() gave to a transaction
    ledger,     \* committed rows of payment_transaction, in commit order
    applied,    \* how many of them the read-only replica has applied
    pc,         \* pc[r]: where request r is
    retries,    \* retries[r]: lock errors met since the last good transaction
    payment,    \* payment[r]: the *payment.Payment r works with
    paymentTx,  \* paymentTx[r]: the row r is about to insert
    work,       \* work[r]: the commit goroutine handleIntent started for r
    notified    \* callback notifications posted, in order

vars == <<now, ledger, applied, pc, retries, payment, paymentTx, work, notified>>

Status == {"uninitialized", "open", "pending", "paid", "authorized", "cancelled"}

\* Statuses a payment reaches through IntentCancel, IntentPaid, IntentAuthorized.
Ending == {"paid", "authorized", "cancelled"}

\* A row.  "base" is history: how many rows the snapshot it rests on held.
Row == [ts : Nat, status : Status, base : Nat]
NoRow == [ts |-> 0, status |-> "uninitialized", base |-> 0]

Payment == [status : Status, base : Nat]
NoPayment == [status |-> "uninitialized", base |-> 0]

\* The commit goroutine: gone, waiting for its CommitIntentFunc, running the
\* commit workers, holding a notification ready to be posted, or timed out.
Work == [at : {"none", "waiting", "running", "built", "expired"},
         tx : Row, status : Status]
NoWork == [at |-> "none", tx |-> NoRow, status |-> "uninitialized"]

\* A posted notification: the transaction it is about, the status it reports
\* and the rows its balance totals.
Notification == [tx : Row, status : Status, rows : SUBSET Row]

PC == {"begin", "read", "intent", "committed", "served", "initBegin", "init",
       "pending", "ended", "failed"}

----------------------------------------------------------------------------
(* Reading the ledger.                                                     *)

\* Row i carries the payment's status: it has the largest timestamp.
IsCurrent(i) == \A j \in DOMAIN ledger : ledger[j].ts <= ledger[i].ts

\* The payment as PaymentByIDTx scans it; without a row the status is NULL.
CurrentPayment ==
    IF ledger = <<>> THEN {NoPayment}
    ELSE {[status |-> ledger[i].status, base |-> Len(ledger)] :
             i \in {i \in DOMAIN ledger : IsCurrent(i)}}

\* Rows a query on PaymentDB(ReadOnly) sees: the replica's, if there is one.
ReadOnlyRows == LET n == IF Replicated THEN applied ELSE Len(ledger)
                IN  {ledger[i] : i \in 1..n}

\* PaymentTransactionsBeforeDB
TransactionsBefore(tx) == {row \in ReadOnlyRows : row.ts <= tx.ts}

\* The primary key (project_id, payment_id, timestamp) is free.
TimestampFree(ts) == \A i \in DOMAIN ledger : ledger[i].ts # ts

----------------------------------------------------------------------------
Init ==
    /\ now = 0
    /\ ledger = <<>>
    /\ applied = 0
    /\ pc = [r \in Request |-> "begin"]
    /\ retries = [r \in Request |-> 0]
    /\ payment = [r \in Request |-> NoPayment]
    /\ paymentTx = [r \in Request |-> NoRow]
    /\ work = [r \in Request |-> NoWork]
    /\ notified = <<>>

Replicate == /\ Replicated
             /\ applied < Len(ledger)
             /\ applied' = applied + 1
             /\ UNCHANGED <<now, ledger, pc, retries, payment, paymentTx, work, notified>>

\* Mutant: beginTx without the check of the retries.
ReadPaymentUnlimited(r) ==
    /\ pc[r] = "begin"
    /\ \E p \in CurrentPayment : payment' = [payment EXCEPT ![r] = p]
    /\ pc' = [pc EXCEPT ![r] = "read"]
    /\ UNCHANGED <<now, ledger, applied, retries, paymentTx, work, notified>>
\* beginTx: begin a database transaction and read the payment in it.
ReadPayment(r) ==
    /\ pc[r] = "begin"
    /\ retries[r] < TransactionMaxRetries   \* always so for the PayPal handlers
    /\ \E p \in CurrentPayment : payment' = [payment EXCEPT ![r] = p]
    /\ pc' = [pc EXCEPT ![r] = "read"]
    /\ UNCHANGED <<now, ledger, applied, retries, paymentTx, work, notified>>

\* Payment.NewTransaction: stamps the row and overwrites the payment's status.
\* The clock never runs backwards, but it may still read what it read before.
NewTransaction(r, s) ==
    /\ now' \in now..(now + 1)
    /\ now' \in 1..MaxTime
    /\ paymentTx' = [paymentTx EXCEPT ![r] =
                        [ts |-> now', status |-> s, base |-> payment[r].base]]
    /\ payment' = [payment EXCEPT ![r].status = s]

\* An intent that was let through; its commit goroutine waits for the
\* CommitIntentFunc.  A goroutine of an earlier, retried attempt is forgotten
\* here: nobody holds its CommitIntentFunc, it can only time out.
handleIntent(r, s) ==
    /\ pc[r] = "read"
    /\ NewTransaction(r, s)
    /\ work' = [work EXCEPT ![r] =
                   [at |-> "waiting", tx |-> paymentTx'[r], status |-> "uninitialized"]]
    /\ pc' = [pc EXCEPT ![r] = "intent"]
    /\ UNCHANGED <<ledger, applied, retries, notified>>

\* PaymentHandler opens a payment that is not initialized.
IntentOpen(r) == payment[r].status = "uninitialized" /\ handleIntent(r, "open")

\* The intents of the PayPal driver's CancelHandler and executePayment.  They
\* check the status the request read, however long ago.  Neither has a retry
\* loop: a request that met a lock error is a PaymentHandler.
EndIntent(r, s) == /\ "paypal_rest" \in Providers
                   /\ retries[r] = 0
                   /\ handleIntent(r, s)

\* Mutant: the status check of IntentCancel only knows "cancelled".
IntentCancelUnlessCancelled(r) ==
    payment[r].status # "cancelled" /\ EndIntent(r, "cancelled")
IntentCancel(r) == payment[r].status = "open" /\ EndIntent(r, "cancelled")

\* Mutant: IntentPaid without its status check.
IntentPaidUnchecked(r) == EndIntent(r, "paid")
IntentPaid(r) == payment[r].status = "open" /\ EndIntent(r, "paid")

IntentAuthorized(r) == payment[r].status = "open" /\ EndIntent(r, "authorized")

\* The request is done with its row: inserted or rolled back.
DropRow(r) == paymentTx' = [paymentTx EXCEPT ![r] = NoRow]

\* Nothing to change: the payment is initialized already (PaymentHandler) or
\* cancelled already (CancelHandler).  The commit without a row succeeds.
NoIntent(r) ==
    /\ pc[r] = "read"
    /\ payment[r].status # "uninitialized"
    /\ pc' = [pc EXCEPT ![r] = "served"]
    /\ retries' = [retries EXCEPT ![r] = 0]
    /\ UNCHANGED <<now, ledger, applied, payment, paymentTx, work, notified>>

\* SetPaymentTransaction and tx.Commit: the row is in the ledger and no longer
\* the request's.
InsertRow(r) == /\ TimestampFree(paymentTx[r].ts)
                /\ ledger' = Append(ledger, paymentTx[r])
                /\ DropRow(r)

CommitTx(r) ==
    /\ pc[r] = "intent"
    /\ InsertRow(r)
    /\ pc' = [pc EXCEPT ![r] = "committed"]
    /\ UNCHANGED <<now, applied, retries, payment, work, notified>>

\* tx.Commit reports an error although the server had committed.
CommitUnknown(r) ==
    /\ pc[r] \in {"intent", "pending"}
    /\ InsertRow(r)
    /\ pc' = [pc EXCEPT ![r] = "failed"]
    /\ UNCHANGED <<now, applied, retries, payment, work, notified>>

\* Any other error: begin, read, a refused intent (ErrIntentNotAllowed, method
\* inactive or disabled, a PreIntentWorker's error, timeout), a duplicate
\* timestamp, a failed commit, retries exhausted.  The transaction is rolled back.
\* A customer who has to choose a method first leaves the ledger alone, too.
Fail(r) ==
    /\ pc[r] \in {"begin", "read", "intent", "initBegin", "init", "pending"}
    /\ pc' = [pc EXCEPT ![r] = "failed"]
    /\ DropRow(r)
    /\ UNCHANGED <<now, ledger, applied, retries, payment, work, notified>>

\* MySQL error 1213: PaymentHandler counts it and goes back to beginTx, from
\* saving configuration and metadata and from a commit without an intent ("read")
\* as well as from inserting and committing the row; so does the fritzpay
\* InitPayment, also when it has no row to add.  The PayPal handlers fail.
LockError(r) == \/ pc[r] = "read"
                \/ pc[r] = "intent" /\ paymentTx[r].status = "open"
                \/ pc[r] = "init" /\ payment[r].status = "pending"
                \/ pc[r] = "pending"
RetryCounting(r, n) ==
    /\ LockError(r)
    /\ pc' = [pc EXCEPT ![r] = IF @ \in {"read", "intent"} THEN "begin" ELSE "initBegin"]
    /\ retries' = [retries EXCEPT ![r] = @ + n]
    /\ DropRow(r)
    /\ UNCHANGED <<now, ledger, applied, payment, work, notified>>
\* Mutant: the lock error is not counted.
RetryUncounted(r) == RetryCounting(r, 0)
Retry(r) == RetryCounting(r, 1)

\* Mutant: the CommitIntentFunc is called before the commit.
CommitIntentEarly(r) ==
    /\ pc[r] = "intent"
    /\ work[r].at = "waiting"
    /\ work' = [work EXCEPT ![r].at = "running"]
    /\ UNCHANGED <<now, ledger, applied, pc, retries, payment, paymentTx, notified>>
\* The CommitIntentFunc closes the channel; a goroutine that still waits runs
\* the commit workers.  PaymentHandler then serves the payment (driver.InitPayment).
CommitIntent(r) ==
    /\ pc[r] = "committed"
    /\ pc' = [pc EXCEPT ![r] = IF payment[r].status = "open" THEN "served" ELSE "ended"]
    /\ retries' = [retries EXCEPT ![r] = 0]
    /\ work' = IF work[r].at = "waiting" THEN [work EXCEPT ![r].at = "running"] ELSE work
    /\ UNCHANGED <<now, ledger, applied, payment, paymentTx, notified>>

\* time.After(commitIntentTimeout): the goroutine ends without running them.
CommitIntentTimeout(r) ==
    /\ work[r].at = "waiting"
    /\ work' = [work EXCEPT ![r] = [NoWork EXCEPT !.at = "expired"]]
    /\ UNCHANGED <<now, ledger, applied, pc, retries, payment, paymentTx, notified>>

\* Mutant: the payment is read again.
NotifyBuildCurrent(r) ==
    /\ work[r].at = "running"
    /\ \E p \in CurrentPayment :
          work' = [work EXCEPT ![r].at = "built", ![r].status = p.status]
    /\ UNCHANGED <<now, ledger, applied, pc, retries, payment, paymentTx, notified>>
\* notify: the notification is built from the payment the request still shares.
NotifyBuild(r) ==
    /\ work[r].at = "running"
    /\ work' = [work EXCEPT ![r].at = "built", ![r].status = payment[r].status]
    /\ UNCHANGED <<now, ledger, applied, pc, retries, payment, paymentTx, notified>>

\* ... then its history is read and it is posted, once; without a row
\* (ErrPaymentTransactionNotFound) it is dropped.
Post(r, rows) == notified' = IF rows = {} THEN notified
                 ELSE Append(notified, [tx |-> work[r].tx, status |-> work[r].status,
                                        rows |-> rows])
\* Mutant: the goroutine posts again and again.
NotifySendAgain(r) ==
    /\ work[r].at = "built"
    /\ Len(notified) < 3
    /\ Post(r, TransactionsBefore(work[r].tx))
    /\ UNCHANGED <<now, ledger, applied, pc, retries, payment, paymentTx, work>>
NotifySend(r) ==
    /\ work[r].at = "built"
    /\ Post(r, TransactionsBefore(work[r].tx))
    /\ work' = [work EXCEPT ![r] = NoWork]
    /\ UNCHANGED <<now, ledger, applied, pc, retries, payment, paymentTx>>

\* No callback configured, invalid project key, a query or signing error.
NotifyFail(r) ==
    /\ work[r].at \in {"running", "built"}
    /\ work' = [work EXCEPT ![r] = NoWork]
    /\ UNCHANGED <<now, ledger, applied, pc, retries, payment, paymentTx, notified>>

----------------------------------------------------------------------------
(* A driver that changes the status without an intent: after the request   *)
(* was served, fritzpay.Driver.InitPayment re-reads the current row into   *)
(* the same Payment and adds a "pending" row.                              *)

InitPayment(r) ==
    /\ "fritzpay" \in Providers
    /\ pc[r] \in {"served", "initBegin"}
    /\ retries[r] < TransactionMaxRetries
    /\ \E p \in CurrentPayment : payment' = [payment EXCEPT ![r] = p]
    /\ pc' = [pc EXCEPT ![r] = "init"]
    /\ UNCHANGED <<now, ledger, applied, retries, paymentTx, work, notified>>

InitPending(r) ==
    /\ pc[r] = "init"
    /\ payment[r].status # "pending"
    /\ NewTransaction(r, "pending")
    /\ pc' = [pc EXCEPT ![r] = "pending"]
    /\ UNCHANGED <<ledger, applied, retries, work, notified>>

InitDone(r) ==
    /\ \/ pc[r] = "init" /\ payment[r].status = "pending" /\ UNCHANGED <<ledger, paymentTx>>
       \/ pc[r] = "pending" /\ InsertRow(r)
    /\ pc' = [pc EXCEPT ![r] = "ended"]
    /\ UNCHANGED <<now, applied, retries, payment, work, notified>>

\* Request r has reached the server.
Started(r) == pc[r] # "begin" \/ retries[r] > 0

\* The server dies: every request it is working on and every goroutine is
\* lost; requests that have not arrived yet find it restarted.
Crash ==
    /\ pc' = [r \in Request |-> IF pc[r] = "ended" \/ ~Started(r)
                               THEN pc[r] ELSE "failed"]
    /\ payment' = [r \in Request |-> NoPayment]
    /\ paymentTx' = [r \in Request |-> NoRow]
    /\ work' = [r \in Request |-> NoWork]
    /\ UNCHANGED <<now, ledger, applied, retries, notified>>

RequestStep(r) ==
    \/ ReadPayment(r) \/ IntentOpen(r) \/ IntentCancel(r) \/ IntentPaid(r)
    \/ IntentAuthorized(r) \/ NoIntent(r) \/ CommitTx(r) \/ CommitUnknown(r)
    \/ Fail(r) \/ Retry(r) \/ CommitIntent(r)
    \/ InitPayment(r) \/ InitPending(r) \/ InitDone(r)

WorkStep(r) == CommitIntentTimeout(r) \/ NotifyBuild(r) \/ NotifySend(r) \/ NotifyFail(r)

Next == \/ Replicate \/ Crash
        \/ \E r \in Request : RequestStep(r) \/ WorkStep(r)

Spec == Init /\ [][Next]_vars

\* A request that has arrived goes on: the database and the provider answer or
\* report an error.  Timers fire and goroutines are scheduled.  Nobody has to
\* send a request.
Fairness == \A r \in Request : /\ WF_vars(pc[r] # "served" /\ Started(r) /\ RequestStep(r))
                               /\ WF_vars(WorkStep(r))
FairSpec == Spec /\ Fairness

----------------------------------------------------------------------------
(* Properties.                                                             *)

TypeOK ==
    /\ now \in Nat
    /\ ledger \in Seq(Row)
    /\ applied \in 0..Len(ledger)
    /\ pc \in [Request -> PC]
    /\ retries \in [Request -> 0..TransactionMaxRetries]
    /\ payment \in [Request -> Payment]
    /\ paymentTx \in [Request -> Row]
    /\ work \in [Request -> Work]
    /\ notified \in Seq(Notification)

\* Whatever the interleaving, every row other than an open one was committed
\* after an open row that is also older by timestamp: no payment is paid,
\* authorized, cancelled or pending in its history without having been opened.
OpenFirst ==
    \A i \in DOMAIN ledger :
        ledger[i].status # "open" =>
            \E j \in 1..(i - 1) : /\ ledger[j].status = "open"
                                  /\ ledger[j].ts < ledger[i].ts

\* Two ending rows (paid, authorized, cancelled) of one payment can only come
\* from requests that overlapped (the later did not see the earlier in its
\* snapshot), or after the payment was opened again in between: the status
\* check of the Intent* methods excludes every other way to end a payment twice.
EndsOnce ==
    \A i, j \in DOMAIN ledger :
        /\ i < j
        /\ ledger[i].status \in Ending
        /\ ledger[j].status \in Ending
        => \/ ledger[j].base < i
           \/ \E k \in 1..ledger[j].base : /\ ledger[k].status = "open"
                                           /\ ledger[k].ts > ledger[i].ts

\* A notification is only posted for a transaction that is committed, and at
\* most once per transaction, across retries, timeouts and crashes.
NotifiedOnce ==
    /\ \A n \in DOMAIN notified : \E i \in DOMAIN ledger : notified[n].tx = ledger[i]
    /\ \A m, n \in DOMAIN notified : m # n => notified[m].tx.ts # notified[n].tx.ts

\* The history a notification totals includes the very transaction it is about
\* (PaymentTransactionsBeforeDB: "before and including the given payment
\* transaction").
NotificationHasTransaction ==
    \A n \in DOMAIN notified : notified[n].tx \in notified[n].rows

\* The status a notification reports is the one of its transaction, whatever
\* other requests have made of the payment since (callback.go:95).  It holds as
\* long as the driver leaves the Payment alone that the commit goroutine reads:
\* fritzpay's does not (fritzpay/init.go:93).
NotificationStatus ==
    \A n \in DOMAIN notified : notified[n].status = notified[n].tx.status

\* Nobody goes on for ever.  Lock errors cannot keep a request in the retry loop
\* of PaymentHandler (web/payment.go:269), wherever in it they are met, nor, once it
\* is served, in the one of fritzpay's InitPayment (fritzpay/init.go:47); and the
\* commit goroutine ends also when its request failed and never calls the
\* CommitIntentFunc (service.go:501).
RequestsTerminate ==
    \A r \in Request :
        /\ pc[r] = "read" ~> pc[r] \in {"served", "ended", "failed"}
        /\ pc[r] = "init" ~> pc[r] \in {"ended", "failed"}
        /\ work[r].at = "waiting" ~> work[r].at \in {"none", "expired"}

----------------------------------------------------------------------------
(* The inductive invariant behind OpenFirst, EndsOnce and NotifiedOnce.    *)

\* While a transaction is open the retry limit has not been reached.
RetriesInv == \A r \in Request : pc[r] \in {"read", "intent", "init", "pending"}
                                    => retries[r] < TransactionMaxRetries

\* tx rests on its snapshot: the newest of the rows it saw is an open row.
RestsOnOpen(rows, tx) ==
    \E k \in 1..tx.base : /\ rows[k].status = "open"
                          /\ rows[k].ts <= tx.ts
                          /\ \A i \in 1..tx.base : rows[i].ts <= rows[k].ts

\* Row i carries a timestamp the clock has handed out, a status an intent or a
\* driver sets, and rests on an earlier prefix of the ledger.
RowOK(i) == /\ ledger[i].ts <= now
            /\ ledger[i].base < i
            /\ ledger[i].status # "uninitialized"
            /\ ledger[i].status \in Ending => RestsOnOpen(ledger, ledger[i])

RowsInv == /\ \A i \in DOMAIN ledger : RowOK(i)
           /\ \A i, j \in DOMAIN ledger : i # j => ledger[i].ts # ledger[j].ts

\* What a request knows at each point of its way.
RequestOK(r) ==
    /\ payment[r].base <= Len(ledger)
    /\ paymentTx[r].base <= Len(ledger)
    /\ paymentTx[r].ts <= now
    /\ pc[r] = "read" /\ payment[r].status # "uninitialized" => ledger # <<>>
    /\ pc[r] = "read" /\ payment[r].status = "open" =>
           \E k \in 1..payment[r].base :
               /\ ledger[k].status = "open"
               /\ \A i \in 1..payment[r].base : ledger[i].ts <= ledger[k].ts
    /\ pc[r] \in {"committed", "served", "initBegin", "init", "pending"} => ledger # <<>>
    /\ pc[r] = "intent" => /\ paymentTx[r].status \in {"open"} \cup Ending
                           /\ paymentTx[r].status \in Ending => RestsOnOpen(ledger, paymentTx[r])
    /\ pc[r] = "pending" => /\ paymentTx[r].status = "pending"
                            /\ ledger[1].ts <= paymentTx[r].ts

RequestInv == \A r \in Request : RequestOK(r)

\* The commit goroutine of r will post a notification unless it times out.
Live(r) == \/ work[r].at \in {"running", "built"}
           \/ work[r].at = "waiting" /\ pc[r] = "committed"

\* A live goroutine holds a committed row, not yet notified about.
WorkOK(r) ==
    /\ pc[r] \in {"begin", "read", "intent", "committed"}
          => work[r].at \notin {"running", "built"}
    /\ pc[r] = "intent" /\ work[r].at = "waiting" => work[r].tx = paymentTx[r]
    /\ Live(r) => /\ \E i \in DOMAIN ledger : ledger[i] = work[r].tx
                  /\ \A n \in DOMAIN notified : notified[n].tx.ts # work[r].tx.ts

\* ... and no other goroutine holds the same row.
WorkInv ==
    /\ \A r \in Request : WorkOK(r)
    /\ \A r, q \in Request : Live(r) /\ Live(q) /\ r # q => work[r].tx.ts # work[q].tx.ts

LedgerInv == RetriesInv /\ RowsInv /\ RequestInv /\ WorkInv /\ OpenFirst /\ NotifiedOnce

=============================================================================
