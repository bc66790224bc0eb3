--------------------------- MODULE FritzpayDriver ---------------------------
(***************************************************************************)
(* The fritzpay demo driver on top of the ledger.  InitPayment registers   *)
(* the payment with the driver in the transaction that makes it pending;   *)
(* the handler it returns starts pspInit, which plays the payment service  *)
(* provider: in a transaction of its own it notes psp_init and, holding    *)
(* the transaction, calls paymentd's callback over HTTP.  Callback adds an *)
(* open row in yet another transaction.  The worker gives up when the HTTP *)
(* client reports an error (a timeout it has from go1.3 on only) or when   *)
(* its context ends; Callback goes on.                                     *)
(***************************************************************************)
EXTENDS PaymentLedger

VARIABLES
    fritzpayP,  \* is the payment in provider_fritzpay_payment?
    found,      \* found[r]: did r's InitPayment find it there?
    rows,       \* what was inserted into provider_fritzpay_transaction, by timestamp
    worker,     \* worker[r]: the goroutine pspInit started by request r
    sent,       \* sent[r]: the status in the query of the worker's call
    callback    \* callback[r]: Callback answering the worker of r

driverVars == <<fritzpayP, found, rows, worker, sent, callback>>
allVars == <<vars, driverVars>>

\* "in" is the transaction the row was inserted in, the worker's or Callback's, and
\* "tx" what became of that.  A row that was rolled back stays as history, and so
\* does "saw", the rows that were committed when Callback read the table.
FritzpayRow == [status : {"psp_init", "psp_error", "open"}, by : Request,
                in : {"worker", "callback"}, tx : {"open", "committed", "rolledback"},
                saw : SUBSET Nat]

FritzpayTypeOK ==
    /\ fritzpayP \in BOOLEAN
    /\ found \in [Request -> BOOLEAN]
    /\ rows \in Seq(FritzpayRow)
    /\ worker \in [Request -> {"none", "start", "calling", "done", "failed", "leaked"}]
    /\ sent \in [Request -> {"none", "psp_init", "psp_error"}]
    /\ callback \in [Request -> {"none", "arrived", "inserted", "ok", "ignored", "error"}]

FritzpayInit ==
    /\ Init
    /\ fritzpayP = FALSE
    /\ found = [r \in Request |-> FALSE]
    /\ rows = <<>>
    /\ worker = [r \in Request |-> "none"]
    /\ sent = [r \in Request |-> "none"]
    /\ callback = [r \in Request |-> "none"]

----------------------------------------------------------------------------
(* InitPayment.                                                            *)

\* The first read of its transaction; ErrConflict (another method key) is a
\* failure of the ledger's request.
FindPayment(r) ==
    /\ InitPayment(r)
    /\ found' = [found EXCEPT ![r] = fritzpayP]
    /\ UNCHANGED <<fritzpayP, rows, worker, sent, callback>>

\* A second insert of the payment waits for the first and fails.  After the
\* commit the handler starts the worker.
Register(r) ==
    /\ InitDone(r)
    /\ found[r] \/ ~fritzpayP
    /\ fritzpayP' = TRUE
    /\ worker' = [worker EXCEPT ![r] = "start"]
    /\ UNCHANGED <<found, rows, sent, callback>>

\* Mutant: the worker is started when the pending row is made.
LedgerStepEarly(r) ==
    /\ RequestStep(r)
    /\ pc'[r] # "init" /\ ~(pc[r] \in {"init", "pending"} /\ pc'[r] = "ended")
    /\ worker' = IF pc'[r] = "pending" THEN [worker EXCEPT ![r] = "start"] ELSE worker
    /\ UNCHANGED <<fritzpayP, found, rows, sent, callback>>
\* All other steps of the ledger's requests; the commit goroutines touch nothing
\* the driver reads or writes and are left at rest.  A commit that reports an error may have
\* stored the driver's payment too.
LedgerStep(r) ==
    /\ RequestStep(r)
    /\ pc'[r] # "init" /\ ~(pc[r] \in {"init", "pending"} /\ pc'[r] = "ended")
    /\ IF pc[r] = "pending" /\ ledger' # ledger
       THEN (found[r] \/ ~fritzpayP) /\ fritzpayP' = TRUE
       ELSE UNCHANGED fritzpayP
    /\ UNCHANGED <<found, rows, worker, sent, callback>>

----------------------------------------------------------------------------
(* pspInit.                                                                *)

Committed == {i \in DOMAIN rows : rows[i].tx = "committed"}
Newest(S) == {i \in S : \A j \in S : j <= i}

\* The end of a database transaction: commit or rollback.
Ends(r, in, tx) == [i \in DOMAIN rows |->
                       IF rows[i].by = r /\ rows[i].in = in /\ rows[i].tx = "open"
                       THEN [rows[i] EXCEPT !.tx = tx] ELSE rows[i]]
With(r, in) == Ends(r, in, "committed")
Without(r, in) == Ends(r, in, "rolledback")

NewRow(r, s, in) == [status |-> s, by |-> r, in |-> in, tx |-> "open", saw |-> {}]

\* PaymentTransactionCurrentByPaymentIDProviderTx: the newest psp_% row, or a
\* psp_init of its own; then the request is sent.
CallPSP(r) ==
    LET psp == {i \in Committed : rows[i].status # "open"}
    IN  /\ worker[r] = "start"
        /\ worker' = [worker EXCEPT ![r] = "calling"]
        /\ callback' = [callback EXCEPT ![r] = "arrived"]
        /\ IF psp = {}
           THEN /\ rows' = Append(rows, NewRow(r, "psp_init", "worker"))
                /\ sent' = [sent EXCEPT ![r] = "psp_init"]
           ELSE /\ \E i \in Newest(psp) : sent' = [sent EXCEPT ![r] = rows[i].status]
                /\ UNCHANGED rows
        /\ UNCHANGED <<vars, fritzpayP, found>>

\* Callback has answered: psp_error is noted unless with 200, tx.Commit, close(ok).
WorkerDone(r) ==
    /\ worker[r] = "calling"
    /\ worker' = [worker EXCEPT ![r] = "done"]
    /\ \/ callback[r] \in {"ok", "ignored"} /\ rows' = With(r, "worker")
       \/ callback[r] = "error"
          /\ rows' = Append(With(r, "worker"),
                            [NewRow(r, "psp_error", "worker") EXCEPT !.tx = "committed"])
    /\ UNCHANGED <<vars, fritzpayP, found, sent, callback>>

\* The request fails, by the client's timeout if it has one, or the database does:
\* an error is sent to pspInit, which rolls back.  Callback is not told.
WorkerFail(r) ==
    /\ worker[r] \in {"start", "calling"}
    /\ worker' = [worker EXCEPT ![r] = "failed"]
    /\ rows' = Without(r, "worker")
    /\ UNCHANGED <<vars, fritzpayP, found, sent, callback>>

\* ctx.Done first: pspInit rolls back under the goroutine's feet and returns;
\* whatever the goroutine does next ends in sending an error nobody receives.
ContextDone(r) ==
    /\ worker[r] \in {"start", "calling"}
    /\ worker' = [worker EXCEPT ![r] = "leaked"]
    /\ rows' = Without(r, "worker")
    /\ UNCHANGED <<vars, fritzpayP, found, sent, callback>>

----------------------------------------------------------------------------
(* Callback.                                                               *)

Answer(r, a) ==
    /\ callback' = [callback EXCEPT ![r] = a]
    /\ UNCHANGED <<vars, fritzpayP, found, worker, sent>>

\* The payment is not found (yet) in the read-only database, not configured, or
\* its method is unknown, disabled or another provider's: 200 all the same.
Ignore(r) == callback[r] = "arrived" /\ Answer(r, "ignored") /\ UNCHANGED rows

\* The newest row says the payment is open: one does that no other is newer than.
IsOpen == \E i \in Committed : /\ rows[i].status = "open"
                               /\ \A k \in Committed : rows[k].status # "open" => k < i

\* It is open already, or the status is not psp_init: 200.
Noop(r) ==
    /\ callback[r] = "arrived"
    /\ \/ sent[r] = "psp_init" /\ IsOpen /\ Answer(r, "ok")
       \/ sent[r] = "psp_error" /\ Answer(r, "ignored")
    /\ UNCHANGED rows

OpenRow(r) == [NewRow(r, "open", "callback") EXCEPT !.saw = Committed]

\* Mutant: the current status is not looked at.
InsertOpenUnchecked(r) ==
    /\ callback[r] = "arrived"
    /\ sent[r] = "psp_init"
    /\ Answer(r, "inserted")
    /\ rows' = Append(rows, OpenRow(r))
InsertOpen(r) ==
    /\ callback[r] = "arrived"
    /\ sent[r] = "psp_init"
    /\ ~IsOpen
    /\ Answer(r, "inserted")
    /\ rows' = Append(rows, OpenRow(r))

CommitOpen(r) == /\ callback[r] = "inserted"
                 /\ Answer(r, "ok")
                 /\ rows' = With(r, "callback")

\* Mutant: the error of the commit is only logged.
CallbackErrorAnsweredOk(r) ==
    /\ callback[r] \in {"arrived", "inserted"}
    /\ Answer(r, IF callback[r] = "inserted" THEN "ok" ELSE "error")
    /\ rows' = Without(r, "callback")
\* 500: any query fails; the row may be stored when it is the commit.
CallbackError(r) ==
    /\ callback[r] \in {"arrived", "inserted"}
    /\ Answer(r, "error")
    /\ rows' = Without(r, "callback") \/ (callback[r] = "inserted" /\ rows' = With(r, "callback"))

----------------------------------------------------------------------------
\* Requests, workers and callbacks are gone; the database rolls back.
FritzpayCrash ==
    /\ Crash
    /\ worker' = [r \in Request |-> IF worker[r] \in {"start", "calling"} THEN "failed" ELSE worker[r]]
    /\ callback' = [r \in Request |-> IF callback[r] \in {"arrived", "inserted"} THEN "none" ELSE callback[r]]
    /\ rows' = [i \in DOMAIN rows |-> IF rows[i].tx = "open"
                                      THEN [rows[i] EXCEPT !.tx = "rolledback"] ELSE rows[i]]
    /\ UNCHANGED <<fritzpayP, found, sent>>

PspStep(r) == CallPSP(r) \/ WorkerDone(r) \/ WorkerFail(r)
CallbackStep(r) == Noop(r) \/ InsertOpen(r) \/ CommitOpen(r) \/ CallbackError(r)

FritzpayNext ==
    \/ FritzpayCrash
    \/ \E r \in Request :
          \/ LedgerStep(r) \/ FindPayment(r) \/ Register(r)
          \/ PspStep(r) \/ ContextDone(r)
          \/ Ignore(r) \/ CallbackStep(r)

FritzpaySpec == FritzpayInit /\ [][FritzpayNext]_allVars

----------------------------------------------------------------------------
(* Properties.                                                             *)

\* The provider hears of a payment only after the ledger has made it pending,
\* in whichever request, and whatever was lost since (init.go:108, 146).
ProviderAfterPending ==
    rows # <<>> => \E i \in DOMAIN ledger : ledger[i].status = "pending"

\* A worker that ends well after Callback took its psp_init leaves an open row,
\* its own or another's, though the two transactions know nothing of each other
\* and overlap with those of other workers (psp.go:98, driver.go:202).
DoneMeansOpen ==
    \A r \in Request : worker[r] = "done" /\ callback[r] = "ok" =>
        \E i \in Committed : rows[i].status = "open"

\* A payment is opened twice only by Callbacks that overlap, the later of which
\* read the table before the earlier had committed, or after a worker has added a
\* row of its own in between (psp_error, or a psp_init that overlapped), which
\* hides the open row from the next call (driver.go:202, 216).
OpensOnce ==
    \A i, j \in Committed :
        /\ i < j
        /\ rows[i].status = "open" /\ rows[j].status = "open"
        => \/ i \notin rows[j].saw
           \/ \E k \in rows[j].saw : k > i /\ rows[k].status # "open"
=============================================================================
