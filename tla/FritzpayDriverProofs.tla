------------------------ MODULE FritzpayDriverProofs ------------------------
(***************************************************************************)
(* Proofs about the fritzpay driver, for any number of requests, workers   *)
(* and callbacks: it implements the payment ledger, the provider hears of  *)
(* pending payments only, a worker that ends well leaves an open row, and  *)
(* only callbacks that overlap leave two.                                  *)
(***************************************************************************)
EXTENDS FritzpayDriver, PaymentLedgerProofs

\* Every step of the driver is a step of the ledger or leaves it alone.
LEMMA FritzpayStepRefines == [FritzpayNext]_allVars => [Next]_vars
<1> SUFFICES ASSUME [FritzpayNext]_allVars PROVE [Next]_vars
  OBVIOUS
<1>1. CASE FritzpayCrash
  BY <1>1 DEF FritzpayCrash, Next
<1>2. ASSUME NEW r \in Request, LedgerStep(r) \/ FindPayment(r) \/ Register(r) PROVE RequestStep(r)
  BY <1>2 DEF LedgerStep, FindPayment, Register, RequestStep
<1>3. ASSUME NEW r \in Request, PspStep(r) \/ ContextDone(r) \/ Ignore(r) \/ CallbackStep(r) PROVE UNCHANGED vars
  BY <1>3 DEF PspStep, CallPSP, WorkerDone, WorkerFail, ContextDone, Ignore, CallbackStep, Noop, InsertOpen,
              CommitOpen, CallbackError, Answer
<1>4. CASE UNCHANGED allVars
  BY <1>4 DEF allVars
<1> QED
  BY <1>1, <1>2, <1>3, <1>4 DEF FritzpayNext, Next

\* The driver implements the ledger, with the workers and callbacks it starts.
THEOREM FritzpayImplementsLedger == FritzpaySpec => Spec
<1>1. FritzpayInit => Init
  BY DEF FritzpayInit
<1> QED
  BY <1>1, FritzpayStepRefines, PTL DEF FritzpaySpec, Spec

\* So no payment of the fritzpay driver is pending without an older open row.
THEOREM FritzpayOpensFirst == FritzpaySpec => []OpenFirst
  BY FritzpayImplementsLedger, OpensFirst, PTL

----------------------------------------------------------------------------
(* Frames.                                                                 *)

\* The end of a transaction only settles the rows it left open.
LEMMA EndsFacts ==
    ASSUME rows \in Seq(FritzpayRow), NEW r, NEW in, NEW tx \in {"committed", "rolledback"}
    PROVE  /\ Ends(r, in, tx) \in Seq(FritzpayRow)
           /\ Len(Ends(r, in, tx)) = Len(rows) /\ DOMAIN Ends(r, in, tx) = DOMAIN rows
           /\ \A i \in DOMAIN rows :
                  Ends(r, in, tx)[i] =
                     IF rows[i].by = r /\ rows[i].in = in /\ rows[i].tx = "open"
                     THEN [rows[i] EXCEPT !.tx = tx] ELSE rows[i]
<1>1. Len(rows) \in Nat /\ DOMAIN rows = 1..Len(rows) /\ \A i \in 1..Len(rows) : rows[i] \in FritzpayRow
  OBVIOUS
<1>2. \A i \in 1..Len(rows) : [rows[i] EXCEPT !.tx = tx] \in FritzpayRow
  BY <1>1 DEF FritzpayRow
<1>3. \A i \in 1..Len(rows) : Ends(r, in, tx)[i] \in FritzpayRow
  BY <1>1, <1>2 DEF Ends
<1>4. Ends(r, in, tx) = [i \in 1..Len(rows) |-> Ends(r, in, tx)[i]]
  BY <1>1 DEF Ends
<1>5. Ends(r, in, tx) \in [1..Len(rows) -> FritzpayRow]
  BY <1>3, <1>4
<1>6. Ends(r, in, tx) \in Seq(FritzpayRow) /\ Len(Ends(r, in, tx)) = Len(rows)
  BY <1>1, <1>5
<1> QED
  BY <1>1, <1>6 DEF Ends

\* Whatever is appended to the table, the rows in it stay.
LEMMA AddsFacts ==
    ASSUME rows \in Seq(FritzpayRow), NEW x \in FritzpayRow
    PROVE  /\ Append(rows, x) \in Seq(FritzpayRow) /\ Len(rows) \in Nat
           /\ DOMAIN rows = 1..Len(rows) /\ DOMAIN Append(rows, x) = 1..(Len(rows) + 1)
           /\ \A i \in 1..Len(rows) : Append(rows, x)[i] = rows[i]
           /\ Append(rows, x)[Len(rows) + 1] = x
  OBVIOUS

\* The open row Callback is about to insert.
LEMMA OpenRowFacts ==
    ASSUME rows \in Seq(FritzpayRow), NEW r \in Request
    PROVE  /\ OpenRow(r) \in FritzpayRow /\ OpenRow(r).by = r /\ OpenRow(r).tx = "open"
           /\ OpenRow(r).in = "callback" /\ OpenRow(r).status = "open" /\ OpenRow(r).saw = Committed
<1>1. Committed \in SUBSET Nat
  <2>1. DOMAIN rows = 1..Len(rows) /\ Len(rows) \in Nat
    OBVIOUS
  <2> QED
    BY <2>1 DEF Committed
<1> QED
  BY <1>1 DEF OpenRow, NewRow, FritzpayRow

\* Every step keeps the driver's variables in their types.
LEMMA FritzpayTypeStep == FritzpayTypeOK /\ [FritzpayNext]_allVars => FritzpayTypeOK'
<1> SUFFICES ASSUME FritzpayTypeOK, [FritzpayNext]_allVars PROVE FritzpayTypeOK'
  OBVIOUS
<1>0. rows \in Seq(FritzpayRow)
  BY DEF FritzpayTypeOK
<1>1. ASSUME NEW r \in Request PROVE With(r, "worker") \in Seq(FritzpayRow) /\ Without(r, "worker") \in Seq(FritzpayRow)
                                     /\ With(r, "callback") \in Seq(FritzpayRow) /\ Without(r, "callback") \in Seq(FritzpayRow)
  BY <1>0, EndsFacts DEF With, Without
<1>2. ASSUME NEW r \in Request, NEW s \in {"psp_init", "psp_error", "open"}, NEW in \in {"worker", "callback"}
      PROVE  NewRow(r, s, in) \in FritzpayRow /\ [NewRow(r, s, in) EXCEPT !.tx = "committed"] \in FritzpayRow
  BY DEF NewRow, FritzpayRow
<1>3. CASE UNCHANGED allVars
  BY <1>3 DEF allVars, driverVars, FritzpayTypeOK
<1>4. CASE FritzpayCrash
  <2>1. rows' \in Seq(FritzpayRow)
    <3>1. Len(rows) \in Nat /\ DOMAIN rows = 1..Len(rows) /\ \A i \in 1..Len(rows) : rows[i] \in FritzpayRow
      BY <1>0
    <3>2. \A i \in 1..Len(rows) : [rows[i] EXCEPT !.tx = "rolledback"] \in FritzpayRow
      BY <3>1 DEF FritzpayRow
    <3>3. rows' = [i \in 1..Len(rows) |-> IF rows[i].tx = "open" THEN [rows[i] EXCEPT !.tx = "rolledback"] ELSE rows[i]]
      BY <1>4, <3>1 DEF FritzpayCrash
    <3>4. rows' \in [1..Len(rows) -> FritzpayRow]
      BY <3>1, <3>2, <3>3
    <3> QED
      BY <3>1, <3>4
  <2> QED
    BY <1>4, <2>1 DEF FritzpayCrash, FritzpayTypeOK
<1>5. ASSUME NEW r \in Request, LedgerStep(r) \/ FindPayment(r) \/ Register(r) PROVE FritzpayTypeOK'
  BY <1>5 DEF LedgerStep, FindPayment, Register, FritzpayTypeOK
<1>6. ASSUME NEW r \in Request, CallPSP(r) PROVE FritzpayTypeOK'
  <2>1. ASSUME NEW i \in Newest({i \in Committed : rows[i].status # "open"})
        PROVE  rows[i].status \in {"psp_init", "psp_error"}
    <3>1. i \in DOMAIN rows /\ rows[i].status # "open"
      BY DEF Newest, Committed
    <3>2. rows[i] \in FritzpayRow
      BY <1>0, <3>1
    <3> QED
      BY <3>1, <3>2 DEF FritzpayRow
  <2>2. Append(rows, NewRow(r, "psp_init", "worker")) \in Seq(FritzpayRow)
    BY <1>0, <1>2, AddsFacts
  <2>3. rows' \in Seq(FritzpayRow)
    BY <1>0, <1>6, <2>2 DEF CallPSP
  <2>4. sent' \in [Request -> {"none", "psp_init", "psp_error"}]
    BY <1>6, <2>1 DEF CallPSP, FritzpayTypeOK
  <2> QED
    BY <1>6, <2>3, <2>4 DEF CallPSP, FritzpayTypeOK
<1>7. ASSUME NEW r \in Request, WorkerDone(r) PROVE FritzpayTypeOK'
  <2>1. Append(With(r, "worker"), [NewRow(r, "psp_error", "worker") EXCEPT !.tx = "committed"]) \in Seq(FritzpayRow)
    <3>1. \A T \in Seq(FritzpayRow), x \in FritzpayRow : Append(T, x) \in Seq(FritzpayRow)
      OBVIOUS
    <3> QED
      BY <1>1, <1>2, <3>1
  <2>2. rows' \in Seq(FritzpayRow)
    BY <1>1, <1>7, <2>1 DEF WorkerDone
  <2> QED
    BY <1>7, <2>2 DEF WorkerDone, FritzpayTypeOK
<1>8. ASSUME NEW r \in Request, WorkerFail(r) \/ ContextDone(r) PROVE FritzpayTypeOK'
  BY <1>1, <1>8 DEF WorkerFail, ContextDone, FritzpayTypeOK
<1>9. ASSUME NEW r \in Request, Ignore(r) \/ CallbackStep(r) PROVE FritzpayTypeOK'
  <2>1. Append(rows, OpenRow(r)) \in Seq(FritzpayRow)
    BY <1>0, OpenRowFacts, AddsFacts
  <2>2. rows' \in Seq(FritzpayRow)
    BY <1>0, <1>1, <1>9, <2>1 DEF Ignore, CallbackStep, Noop, InsertOpen, CommitOpen, CallbackError
  <2>3. \E a \in {"ok", "ignored", "inserted", "error"} : Answer(r, a)
    BY <1>9 DEF Ignore, CallbackStep, Noop, InsertOpen, CommitOpen, CallbackError
  <2> QED
    BY <2>2, <2>3 DEF Answer, FritzpayTypeOK
<1> QED
  BY <1>3, <1>4, <1>5, <1>6, <1>7, <1>8, <1>9 DEF FritzpayNext, PspStep

----------------------------------------------------------------------------
(* The inductive invariant.                                                *)

\* Some row of the ledger says that the payment is pending.
Pending == \E i \in DOMAIN ledger : ledger[i].status = "pending"

\* Whoever has, or can have, told the provider came after that row.
PendingOK(r) ==
    /\ pc[r] = "init" /\ payment[r].status = "pending" => Pending
    /\ worker[r] # "none" \/ callback[r] # "none" => Pending

\* A transaction that is open belongs to a worker or a Callback at work.
OpenRowOK(i) == rows[i].tx = "open" =>
    \/ rows[i].in = "worker" /\ worker[rows[i].by] = "calling"
    \/ rows[i].in = "callback" /\ callback[rows[i].by] = "inserted"

\* Row i is an open row of the payment, tx what became of its transaction.
OpensPayment(i, tx) == rows[i].status = "open" /\ rows[i].tx = tx

\* What Callback has inserted, and what it says it has committed.
CallbackOK(r) ==
    /\ callback[r] = "inserted" => \E i \in DOMAIN rows : OpensPayment(i, "open") /\ rows[i].by = r /\ rows[i].in = "callback"
    /\ callback[r] = "ok" => \E i \in DOMAIN rows : OpensPayment(i, "committed")

\* A request starts one worker, at its end, and the worker has one Callback.
OneWorkerOK(r) == /\ pc[r] # "ended" => worker[r] = "none"
                  /\ worker[r] \in {"none", "start"} => callback[r] = "none"

PendingInv == (rows # <<>> => Pending) /\ \A r \in Request : PendingOK(r)
OpenRowsInv == \A i \in DOMAIN rows : OpenRowOK(i)
CallbackInv == \A r \in Request : CallbackOK(r)
OneWorkerInv == \A r \in Request : OneWorkerOK(r)

\* An open row of Callback rests on a table whose newest row was not open: each
\* open row it saw is older than another row it saw.
SawOK(j) ==
    /\ rows[j].saw \subseteq DOMAIN rows
    /\ rows[j].status = "open" =>
           \A i \in rows[j].saw : rows[i].status = "open" =>
               \E k \in rows[j].saw : k > i /\ rows[k].status # "open"
SawInv == \A j \in DOMAIN rows : SawOK(j)

FritzpayInv == PendingInv /\ OpenRowsInv /\ CallbackInv /\ OneWorkerInv /\ SawInv

\* A step of the ledger's request leaves the other requests alone.
LEMMA OthersLedger ==
    ASSUME TypeOK, NEW r \in Request, RequestStep(r), NEW q \in Request, q # r
    PROVE  pc'[q] = pc[q] /\ payment'[q] = payment[q]
  BY OthersWork, OthersPayment

\* A request that has ended takes no step any more.
LEMMA EndedStays == ASSUME NEW r \in Request, RequestStep(r) PROVE pc[r] # "ended"
  BY DEF RequestStep, ReadPayment, IntentOpen, IntentCancel, IntentPaid, IntentAuthorized, EndIntent, handleIntent,
         NoIntent, CommitTx, CommitUnknown, Fail, Retry, RetryCounting, LockError, CommitIntent, InitPayment, InitPending, InitDone

\* The provider hears of pending payments only.
LEMMA PendingStep ==
    ASSUME TypeOK, TypeOK', LedgerInv, FritzpayTypeOK, PendingInv, [FritzpayNext]_allVars PROVE PendingInv'
<1>1. Pending => Pending'
  <2>1. Extends
    BY FritzpayStepRefines, StepExtends
  <2> QED
    BY <2>1 DEF Pending, Extends
<1>2. CASE UNCHANGED allVars
  BY <1>2 DEF allVars, vars, driverVars, PendingInv, PendingOK, Pending
<1>3. CASE FritzpayCrash
  <2>1. \A r \in Request : /\ pc'[r] # "init"
                           /\ worker'[r] # "none" => worker[r] # "none"
                           /\ callback'[r] # "none" => callback[r] # "none"
    BY <1>3 DEF FritzpayCrash, Crash, Started
  <2>2. rows' # <<>> => rows # <<>>
    BY <1>3 DEF FritzpayCrash
  <2> QED
    BY <1>1, <2>1, <2>2 DEF PendingInv, PendingOK
<1>4. ASSUME NEW r \in Request, RequestStep(r), UNCHANGED rows, \A q \in Request : q # r => worker'[q] = worker[q], UNCHANGED callback,
             pc'[r] = "init" /\ payment'[r].status = "pending" => Pending, worker'[r] = worker[r] \/ Pending'
      PROVE  PendingInv'
  <2>1. ASSUME NEW q \in Request PROVE PendingOK(q)'
    BY <1>1, <1>4, OthersLedger DEF PendingInv, PendingOK
  <2> QED
    BY <1>1, <1>4, <2>1 DEF PendingInv
<1>5. ASSUME NEW r \in Request, LedgerStep(r) PROVE PendingInv'
  BY <1>4, <1>5 DEF LedgerStep
<1>6. ASSUME NEW r \in Request, FindPayment(r) PROVE PendingInv'
  <2>1. PICK p \in CurrentPayment : payment' = [payment EXCEPT ![r] = p]
    BY <1>6 DEF FindPayment, InitPayment
  <2>2. p.status = "pending" => Pending
    BY CurrentPaymentType DEF Pending
  <2>3. payment'[r] = p
    BY <2>1 DEF TypeOK
  <2> QED
    BY <1>4, <1>6, <2>2, <2>3 DEF FindPayment, RequestStep
<1>7. ASSUME NEW r \in Request, Register(r) PROVE PendingInv'
  <2>1. Pending'
    <3>1. CASE pc[r] = "init" /\ payment[r].status = "pending"
      BY <1>1, <3>1 DEF PendingInv, PendingOK
    <3>2. CASE pc[r] = "pending" /\ InsertRow(r)
      <4>1. ledger' = Append(ledger, paymentTx[r]) /\ paymentTx[r] \in Row /\ paymentTx[r].status = "pending"
        BY <3>2 DEF InsertRow, LedgerInv, RequestInv, RequestOK, TypeOK
      <4> QED
        BY <4>1, AppendFacts DEF Pending
    <3> QED
      BY <1>7, <3>1, <3>2 DEF Register, InitDone
  <2>2. pc'[r] = "ended" /\ \A q \in Request : q # r => worker'[q] = worker[q]
    BY <1>7 DEF Register, InitDone, TypeOK, FritzpayTypeOK
  <2> QED
    BY <1>4, <1>7, <2>1, <2>2 DEF Register, RequestStep
<1>8. ASSUME NEW r \in Request, PspStep(r) \/ ContextDone(r) \/ Ignore(r) \/ CallbackStep(r) PROVE PendingInv'
  <2>1. Pending
    BY <1>8 DEF PspStep, CallPSP, WorkerDone, WorkerFail, ContextDone, Ignore, CallbackStep, Noop, InsertOpen,
                CommitOpen, CallbackError, PendingInv, PendingOK
  <2> QED
    BY <1>1, <2>1 DEF PendingInv, PendingOK
<1> QED
  BY <1>2, <1>3, <1>5, <1>6, <1>7, <1>8 DEF FritzpayNext

\* One worker for each request, one Callback for each worker.
LEMMA OneWorkerStep ==
    ASSUME TypeOK, FritzpayTypeOK, OneWorkerInv, [FritzpayNext]_allVars PROVE OneWorkerInv'
<1>1. CASE UNCHANGED allVars
  BY <1>1 DEF allVars, vars, driverVars, OneWorkerInv, OneWorkerOK
<1>2. CASE FritzpayCrash
  BY <1>2 DEF FritzpayCrash, Crash, OneWorkerInv, OneWorkerOK
<1>3. ASSUME NEW r \in Request, LedgerStep(r) \/ FindPayment(r) \/ Register(r) PROVE OneWorkerInv'
  <2>1. RequestStep(r)
    BY <1>3 DEF LedgerStep, FindPayment, Register, RequestStep
  <2>2. UNCHANGED callback /\ \A q \in Request : q # r => worker'[q] = worker[q]
    BY <1>3 DEF LedgerStep, FindPayment, Register, FritzpayTypeOK
  <2>3. worker[r] = "none" /\ callback[r] = "none"
    BY <2>1, EndedStays DEF OneWorkerInv, OneWorkerOK
  <2>4. worker'[r] = "none" \/ (worker'[r] = "start" /\ pc'[r] = "ended")
    BY <1>3, <2>3 DEF LedgerStep, FindPayment, Register, InitDone, FritzpayTypeOK, TypeOK
  <2> QED
    BY <2>1, <2>2, <2>3, <2>4, OthersLedger DEF OneWorkerInv, OneWorkerOK
<1>4. ASSUME NEW r \in Request, PspStep(r) \/ ContextDone(r) PROVE OneWorkerInv'
  <2>1. pc' = pc /\ worker[r] # "none"
    BY <1>4 DEF PspStep, CallPSP, WorkerDone, WorkerFail, ContextDone, vars
  <2>2. /\ \A q \in Request : q # r => worker'[q] = worker[q] /\ callback'[q] = callback[q]
        /\ worker'[r] \notin {"none", "start"}
    BY <1>4 DEF PspStep, CallPSP, WorkerDone, WorkerFail, ContextDone, FritzpayTypeOK
  <2> QED
    BY <2>1, <2>2 DEF OneWorkerInv, OneWorkerOK
<1>5. ASSUME NEW r \in Request, Ignore(r) \/ CallbackStep(r) PROVE OneWorkerInv'
  <2>1. pc' = pc /\ worker' = worker /\ callback[r] # "none"
    BY <1>5 DEF Ignore, CallbackStep, Noop, InsertOpen, CommitOpen, CallbackError, Answer, vars
  <2>2. \A q \in Request : q # r => callback'[q] = callback[q]
    BY <1>5 DEF Ignore, CallbackStep, Noop, InsertOpen, CommitOpen, CallbackError, Answer, FritzpayTypeOK
  <2> QED
    BY <2>1, <2>2 DEF OneWorkerInv, OneWorkerOK
<1> QED
  BY <1>1, <1>2, <1>3, <1>4, <1>5 DEF FritzpayNext

\* What the end of a transaction of r, the worker's or Callback's, makes of the
\* table: nothing it inserted is left open, and all other rows stay as they are.
Ended(r, in) ==
    /\ DOMAIN rows \subseteq DOMAIN rows'
    /\ \A i \in DOMAIN rows' : rows'[i].tx = "open" =>
           i \in DOMAIN rows /\ rows'[i] = rows[i] /\ ~(rows[i].by = r /\ rows[i].in = in)
    /\ \A i \in DOMAIN rows : \/ rows'[i] = rows[i]
                              \/ rows[i].by = r /\ rows[i].in = in /\ rows[i].tx = "open"

\* That is what Ends makes of it, also when a committed row is added at once.
LEMMA TransactionEnds ==
    ASSUME FritzpayTypeOK, NEW r \in Request, NEW in, NEW tx \in {"committed", "rolledback"},
           \/ rows' = Ends(r, in, tx)
           \/ \E x \in FritzpayRow : x.tx = "committed" /\ rows' = Append(Ends(r, in, tx), x)
    PROVE  Ended(r, in)
<1>1. rows \in Seq(FritzpayRow) /\ Len(rows) \in Nat /\ DOMAIN rows = 1..Len(rows)
  BY DEF FritzpayTypeOK
<1> DEFINE T == Ends(r, in, tx)
<1>2. /\ T \in Seq(FritzpayRow) /\ Len(T) = Len(rows) /\ DOMAIN T = DOMAIN rows
      /\ \A i \in DOMAIN rows :
             T[i] = IF rows[i].by = r /\ rows[i].in = in /\ rows[i].tx = "open" THEN [rows[i] EXCEPT !.tx = tx] ELSE rows[i]
  BY <1>1, EndsFacts
<1>3. ASSUME NEW i \in DOMAIN rows, rows[i].by = r, rows[i].in = in, rows[i].tx = "open" PROVE T[i].tx # "open"
  <2>1. rows[i] \in FritzpayRow
    BY <1>1
  <2> QED
    BY <1>2, <1>3, <2>1 DEF FritzpayRow
<1> HIDE DEF T
<1>4. CASE rows' = T
  BY <1>2, <1>3, <1>4 DEF Ended
<1>5. ASSUME NEW x \in FritzpayRow, x.tx = "committed", rows' = Append(T, x) PROVE Ended(r, in)
  <2>1. /\ DOMAIN rows' = 1..(Len(rows) + 1) /\ rows'[Len(rows) + 1] = x
        /\ \A i \in 1..Len(rows) : rows'[i] = T[i]
    BY <1>1, <1>2, <1>5
  <2> QED
    BY <1>1, <1>2, <1>3, <1>5, <2>1 DEF Ended
<1> QED
  BY <1>4, <1>5 DEF T

\* The transactions of workers and Callbacks: what is open belongs to one at work,
\* and what Callback has said it committed stays committed.
LEMMA TransactionsStep ==
    ASSUME TypeOK, FritzpayTypeOK, FritzpayInv, [FritzpayNext]_allVars PROVE OpenRowsInv' /\ CallbackInv'
<1>0. /\ rows \in Seq(FritzpayRow) /\ Len(rows) \in Nat /\ DOMAIN rows = 1..Len(rows)
      /\ \A i \in DOMAIN rows : rows[i] \in FritzpayRow /\ rows[i].by \in Request
  <2>1. rows \in Seq(FritzpayRow)
    BY DEF FritzpayTypeOK
  <2>2. ASSUME NEW i \in DOMAIN rows PROVE rows[i] \in FritzpayRow /\ rows[i].by \in Request
    <3>1. rows[i] \in FritzpayRow
      BY <2>1
    <3> QED
      BY <3>1 DEF FritzpayRow
  <2> QED
    BY <2>1, <2>2
<1>1. ASSUME UNCHANGED <<rows, worker, callback>> PROVE OpenRowsInv' /\ CallbackInv'
  BY <1>1 DEF FritzpayInv, OpenRowsInv, OpenRowOK, CallbackInv, CallbackOK, OpensPayment
<1>2. CASE UNCHANGED allVars
  BY <1>1, <1>2 DEF allVars, driverVars
<1>3. CASE FritzpayCrash
  <2>1. /\ DOMAIN rows' = DOMAIN rows
        /\ \A i \in DOMAIN rows : rows'[i].tx # "open" /\ (rows[i].tx # "open" => rows'[i] = rows[i])
    <3>1. rows' = [i \in DOMAIN rows |-> IF rows[i].tx = "open" THEN [rows[i] EXCEPT !.tx = "rolledback"] ELSE rows[i]]
      BY <1>3 DEF FritzpayCrash
    <3>2. ASSUME NEW i \in DOMAIN rows, rows[i].tx = "open" PROVE rows'[i].tx = "rolledback"
      <4>1. rows[i] \in FritzpayRow /\ rows'[i] = [rows[i] EXCEPT !.tx = "rolledback"]
        BY <1>0, <3>1, <3>2
      <4> QED
        BY <4>1 DEF FritzpayRow
    <3> QED
      BY <3>1, <3>2
  <2>2. \A r \in Request : callback'[r] # "inserted" /\ (callback'[r] = "ok" => callback[r] = "ok")
    BY <1>3 DEF FritzpayCrash
  <2> QED
    BY <2>1, <2>2 DEF FritzpayInv, OpenRowsInv, OpenRowOK, CallbackInv, CallbackOK, OpensPayment
<1>4. ASSUME NEW r \in Request, LedgerStep(r) \/ FindPayment(r) \/ Register(r) PROVE OpenRowsInv' /\ CallbackInv'
  <2>1. UNCHANGED <<rows, callback>> /\ \A q \in Request : worker'[q] = worker[q] \/ (q = r /\ worker[q] = "none")
    <3>1. worker[r] = "none"
      <4>1. RequestStep(r)
        BY <1>4 DEF LedgerStep, FindPayment, Register, RequestStep
      <4> QED
        BY <4>1, EndedStays DEF FritzpayInv, OneWorkerInv, OneWorkerOK
    <3> QED
      BY <1>4, <3>1 DEF LedgerStep, FindPayment, Register, FritzpayTypeOK
  <2> QED
    BY <1>0, <2>1 DEF FritzpayInv, OpenRowsInv, OpenRowOK, CallbackInv, CallbackOK, OpensPayment
\* one row more, of a transaction that is open now
<1>5. ASSUME NEW r \in Request, NEW x \in FritzpayRow, rows' = Append(rows, x), x.by = r, x.tx = "open",
             \A q \in Request : q # r => worker'[q] = worker[q] /\ callback'[q] = callback[q],
             \/ x.in = "worker" /\ worker'[r] = "calling" /\ callback[r] = "none" /\ callback'[r] = "arrived"
             \/ /\ x.in = "callback" /\ x.status = "open" /\ worker'[r] = worker[r]
                /\ callback[r] = "arrived" /\ callback'[r] = "inserted"
      PROVE  OpenRowsInv' /\ CallbackInv'
  <2>0. PICK n \in Nat : n = Len(rows)
    BY <1>0
  <2>1. /\ DOMAIN rows = 1..n /\ DOMAIN rows' = 1..(n + 1) /\ rows'[n + 1] = x
        /\ \A i \in 1..n : rows'[i] = rows[i]
    BY <1>0, <1>5, <2>0, AddsFacts
  <2>2. \A i \in DOMAIN rows : OpenRowOK(i) => OpenRowOK(i)'
    BY <1>0, <1>5, <2>1 DEF OpenRowOK
  <2>3. OpenRowOK(n + 1)'
    BY <1>0, <1>5, <2>1 DEF OpenRowOK
  <2>4. \A q \in Request : CallbackOK(q)'
    BY <1>0, <1>5, <2>1 DEF FritzpayInv, CallbackInv, CallbackOK, OpensPayment
  <2>5. \A i \in DOMAIN rows' : i \in DOMAIN rows \/ i = n + 1
    BY <2>1
  <2> QED
    BY <2>2, <2>3, <2>4, <2>5 DEF FritzpayInv, OpenRowsInv, CallbackInv
\* the worker's transaction ends
<1>6. ASSUME NEW r \in Request, Ended(r, "worker"), UNCHANGED callback, \A q \in Request : q # r => worker'[q] = worker[q]
      PROVE  OpenRowsInv' /\ CallbackInv'
  <2>1. OpenRowsInv'
    BY <1>0, <1>6 DEF Ended, FritzpayInv, OpenRowsInv, OpenRowOK
  <2>2. CallbackInv'
    BY <1>6 DEF Ended, FritzpayInv, CallbackInv, CallbackOK, OpensPayment
  <2> QED
    BY <2>1, <2>2
\* Callback's transaction ends
<1>7. ASSUME NEW r \in Request, Ended(r, "callback"), UNCHANGED worker, \A q \in Request : q # r => callback'[q] = callback[q],
             \/ callback'[r] = "error"
             \/ callback[r] = "inserted" /\ rows' = With(r, "callback") /\ callback'[r] = "ok"
      PROVE  OpenRowsInv' /\ CallbackInv'
  <2>1. OpenRowsInv'
    BY <1>0, <1>7 DEF Ended, FritzpayInv, OpenRowsInv, OpenRowOK
  <2>2. ASSUME NEW q \in Request, q # r PROVE CallbackOK(q)'
    BY <1>7, <2>2 DEF Ended, FritzpayInv, CallbackInv, CallbackOK, OpensPayment
  <2>3. CallbackOK(r)'
    <3>1. CASE callback'[r] = "error"
      BY <3>1 DEF CallbackOK
    <3>2. CASE callback[r] = "inserted" /\ rows' = With(r, "callback") /\ callback'[r] = "ok"
      <4>1. PICK i \in DOMAIN rows : rows[i].status = "open" /\ rows[i].tx = "open" /\ rows[i].by = r /\ rows[i].in = "callback"
        BY <3>2 DEF FritzpayInv, CallbackInv, CallbackOK, OpensPayment
      <4>2. i \in DOMAIN rows' /\ rows'[i] = [rows[i] EXCEPT !.tx = "committed"] /\ rows[i] \in FritzpayRow
        BY <1>0, <3>2, <4>1, EndsFacts DEF With
      <4>3. rows'[i].status = "open" /\ rows'[i].tx = "committed"
        BY <4>1, <4>2 DEF FritzpayRow
      <4> QED
        BY <3>2, <4>2, <4>3 DEF CallbackOK, OpensPayment
    <3> QED
      BY <1>7, <3>1, <3>2
  <2> QED
    BY <2>1, <2>2, <2>3 DEF CallbackInv
<1>8. ASSUME NEW r \in Request, CallPSP(r) PROVE OpenRowsInv' /\ CallbackInv'
  <2>1. callback[r] = "none" /\ worker[r] = "start"
    BY <1>8 DEF CallPSP, FritzpayInv, OneWorkerInv, OneWorkerOK
  <2>2. /\ worker'[r] = "calling" /\ callback'[r] = "arrived"
        /\ \A q \in Request : q # r => worker'[q] = worker[q] /\ callback'[q] = callback[q]
    BY <1>8 DEF CallPSP, FritzpayTypeOK
  <2>3. CASE rows' = Append(rows, NewRow(r, "psp_init", "worker"))
    <3> DEFINE x == NewRow(r, "psp_init", "worker")
    <3>1. x \in FritzpayRow /\ x.by = r /\ x.tx = "open" /\ x.in = "worker"
      BY DEF NewRow, FritzpayRow
    <3>2. rows' = Append(rows, x)
      BY <2>3
    <3> HIDE DEF x
    <3> QED
      BY <1>5, <2>1, <2>2, <3>1, <3>2
  <2>4. CASE UNCHANGED rows
    BY <1>0, <2>1, <2>2, <2>4 DEF FritzpayInv, OpenRowsInv, OpenRowOK, CallbackInv, CallbackOK, OpensPayment
  <2> QED
    BY <1>8, <2>3, <2>4 DEF CallPSP
<1>9. ASSUME NEW r \in Request, WorkerDone(r) \/ WorkerFail(r) \/ ContextDone(r) PROVE OpenRowsInv' /\ CallbackInv'
  <2>1. [NewRow(r, "psp_error", "worker") EXCEPT !.tx = "committed"] \in FritzpayRow
        /\ [NewRow(r, "psp_error", "worker") EXCEPT !.tx = "committed"].tx = "committed"
    BY DEF NewRow, FritzpayRow
  <2>2. Ended(r, "worker")
    BY <1>9, <2>1, TransactionEnds DEF WorkerDone, WorkerFail, ContextDone, With, Without
  <2>3. UNCHANGED callback /\ \A q \in Request : q # r => worker'[q] = worker[q]
    BY <1>9 DEF WorkerDone, WorkerFail, ContextDone, FritzpayTypeOK
  <2> QED
    BY <1>6, <2>2, <2>3
<1>10. ASSUME NEW r \in Request, Ignore(r) \/ Noop(r) PROVE OpenRowsInv' /\ CallbackInv'
  <2>1. callback[r] = "arrived" /\ UNCHANGED <<rows, worker>>
    BY <1>10 DEF Ignore, Noop, Answer
  <2>2. callback'[r] = "ignored" \/ (callback'[r] = "ok" /\ IsOpen)
    BY <1>10 DEF Ignore, Noop, Answer, FritzpayTypeOK
  <2>3. \A q \in Request : q # r => callback'[q] = callback[q]
    BY <1>10 DEF Ignore, Noop, Answer, FritzpayTypeOK
  <2>4. IsOpen => \E i \in DOMAIN rows : OpensPayment(i, "committed")
    BY DEF IsOpen, Committed, OpensPayment
  <2> QED
    BY <1>0, <2>1, <2>2, <2>3, <2>4 DEF FritzpayInv, OpenRowsInv, OpenRowOK, CallbackInv, CallbackOK, OpensPayment
<1>11. ASSUME NEW r \in Request, InsertOpen(r) PROVE OpenRowsInv' /\ CallbackInv'
  <2> DEFINE x == OpenRow(r)
  <2>1. x \in FritzpayRow /\ x.by = r /\ x.tx = "open" /\ x.in = "callback" /\ x.status = "open"
    BY <1>0, OpenRowFacts
  <2>2. rows' = Append(rows, x)
    BY <1>11 DEF InsertOpen
  <2> HIDE DEF x
  <2>3. /\ callback[r] = "arrived" /\ callback'[r] = "inserted" /\ UNCHANGED worker
        /\ \A q \in Request : q # r => callback'[q] = callback[q]
    BY <1>11 DEF InsertOpen, Answer, FritzpayTypeOK
  <2> QED
    BY <1>5, <2>1, <2>2, <2>3
<1>12. ASSUME NEW r \in Request, CommitOpen(r) \/ CallbackError(r) PROVE OpenRowsInv' /\ CallbackInv'
  <2>1. Ended(r, "callback")
    BY <1>12, TransactionEnds DEF CommitOpen, CallbackError, With, Without
  <2>2. UNCHANGED worker /\ \A q \in Request : q # r => callback'[q] = callback[q]
    BY <1>12 DEF CommitOpen, CallbackError, Answer, FritzpayTypeOK
  <2>3. \/ callback'[r] = "error"
        \/ callback[r] = "inserted" /\ rows' = With(r, "callback") /\ callback'[r] = "ok"
    BY <1>12 DEF CommitOpen, CallbackError, Answer, FritzpayTypeOK
  <2> QED
    BY <1>7, <2>1, <2>2, <2>3
<1> QED
  BY <1>2, <1>3, <1>4, <1>8, <1>9, <1>10, <1>11, <1>12 DEF FritzpayNext, PspStep, CallbackStep

\* What a row says, and what was seen when it was inserted, never changes.
RowsKept == /\ DOMAIN rows \subseteq DOMAIN rows'
            /\ \A i \in DOMAIN rows : rows'[i].status = rows[i].status /\ rows'[i].saw = rows[i].saw

\* A row that is new says something else than "open", or rests on what Callback saw.
NewRowOK(j) == \/ rows'[j].status # "open" /\ rows'[j].saw = {}
               \/ ~IsOpen /\ rows'[j].saw = Committed

\* No step changes rows; whatever is added is as it should be.
LEMMA RowsStayStep ==
    ASSUME FritzpayTypeOK, [FritzpayNext]_allVars
    PROVE  RowsKept /\ \A j \in DOMAIN rows' : j \in DOMAIN rows \/ NewRowOK(j)
<1> DEFINE Goal == RowsKept /\ \A j \in DOMAIN rows' : j \in DOMAIN rows \/ NewRowOK(j)
<1>0. /\ rows \in Seq(FritzpayRow) /\ Len(rows) \in Nat /\ DOMAIN rows = 1..Len(rows)
      /\ \A i \in DOMAIN rows : rows[i] \in FritzpayRow
  <2>1. rows \in Seq(FritzpayRow)
    BY DEF FritzpayTypeOK
  <2> QED
    BY <2>1
<1>1. ASSUME UNCHANGED rows PROVE Goal
  BY <1>1 DEF RowsKept
<1>2. ASSUME NEW x \in FritzpayRow, NEW t
      PROVE  [x EXCEPT !.tx = t].status = x.status /\ [x EXCEPT !.tx = t].saw = x.saw
  BY DEF FritzpayRow
<1>3. ASSUME NEW r, NEW in, NEW tx \in {"committed", "rolledback"}
      PROVE  /\ Ends(r, in, tx) \in Seq(FritzpayRow) /\ DOMAIN Ends(r, in, tx) = DOMAIN rows
             /\ Len(Ends(r, in, tx)) = Len(rows)
             /\ \A i \in DOMAIN rows : /\ Ends(r, in, tx)[i].status = rows[i].status
                                      /\ Ends(r, in, tx)[i].saw = rows[i].saw
  <2> DEFINE T == Ends(r, in, tx)
  <2>1. /\ T \in Seq(FritzpayRow) /\ DOMAIN T = DOMAIN rows /\ Len(T) = Len(rows)
        /\ \A i \in DOMAIN rows : T[i] = rows[i] \/ T[i] = [rows[i] EXCEPT !.tx = tx]
    BY <1>0, EndsFacts
  <2> HIDE DEF T
  <2>2. \A i \in DOMAIN rows : T[i].status = rows[i].status /\ T[i].saw = rows[i].saw
    <3>1. ASSUME NEW i \in DOMAIN rows PROVE T[i].status = rows[i].status /\ T[i].saw = rows[i].saw
      <4>1. rows[i] \in FritzpayRow /\ (T[i] = rows[i] \/ T[i] = [rows[i] EXCEPT !.tx = tx])
        BY <1>0, <2>1
      <4>2. [rows[i] EXCEPT !.tx = tx].status = rows[i].status /\ [rows[i] EXCEPT !.tx = tx].saw = rows[i].saw
        BY <4>1, <1>2
      <4> QED
        BY <4>1, <4>2
    <3> QED
      BY <3>1
  <2> QED
    BY <2>1, <2>2 DEF T
<1>4. ASSUME NEW r, NEW in, NEW tx \in {"committed", "rolledback"}, rows' = Ends(r, in, tx) PROVE Goal
  BY <1>3, <1>4 DEF RowsKept
<1>5. ASSUME NEW T \in Seq(FritzpayRow), Len(T) = Len(rows), NEW x \in FritzpayRow, rows' = Append(T, x),
             \A i \in DOMAIN rows : T[i].status = rows[i].status /\ T[i].saw = rows[i].saw,
             (x.status # "open" /\ x.saw = {}) \/ (~IsOpen /\ x.saw = Committed)
      PROVE  Goal
  <2>0. PICK n \in Nat : n = Len(rows)
    BY <1>0
  <2>1. /\ DOMAIN rows = 1..n /\ DOMAIN rows' = 1..(n + 1) /\ rows'[n + 1] = x
        /\ \A i \in 1..n : rows'[i] = T[i]
    BY <1>0, <1>5, <2>0
  <2>2. RowsKept
    BY <1>5, <2>1 DEF RowsKept
  <2>3. NewRowOK(n + 1)
    BY <1>5, <2>1 DEF NewRowOK
  <2> QED
    BY <2>1, <2>2, <2>3
<1>6. CASE FritzpayCrash
  <2>1. rows' = [i \in DOMAIN rows |-> IF rows[i].tx = "open" THEN [rows[i] EXCEPT !.tx = "rolledback"] ELSE rows[i]]
    BY <1>6 DEF FritzpayCrash
  <2> QED
    BY <1>0, <1>2, <2>1 DEF RowsKept
<1>7. ASSUME NEW r \in Request, CallPSP(r) PROVE Goal
  <2>1. /\ NewRow(r, "psp_init", "worker") \in FritzpayRow
        /\ NewRow(r, "psp_init", "worker").status # "open" /\ NewRow(r, "psp_init", "worker").saw = {}
    BY DEF NewRow, FritzpayRow
  <2>2. UNCHANGED rows \/ rows' = Append(rows, NewRow(r, "psp_init", "worker"))
    BY <1>7 DEF CallPSP
  <2> QED
    BY <1>0, <1>1, <1>5, <2>1, <2>2
<1>8. ASSUME NEW r \in Request, WorkerDone(r) PROVE Goal
  <2> DEFINE x == [NewRow(r, "psp_error", "worker") EXCEPT !.tx = "committed"]
  <2>1. x \in FritzpayRow /\ x.status # "open" /\ x.saw = {}
    BY DEF NewRow, FritzpayRow
  <2>2. rows' = Ends(r, "worker", "committed") \/ rows' = Append(Ends(r, "worker", "committed"), x)
    BY <1>8 DEF WorkerDone, With
  <2> HIDE DEF x
  <2> QED
    BY <1>3, <1>4, <1>5, <2>1, <2>2
<1>9. ASSUME NEW r \in Request, InsertOpen(r) PROVE Goal
  <2>1. rows' = Append(rows, OpenRow(r)) /\ ~IsOpen
    BY <1>9 DEF InsertOpen
  <2> QED
    BY <1>0, <1>5, <2>1, OpenRowFacts
<1>10. ASSUME NEW r \in Request,
              WorkerFail(r) \/ ContextDone(r) \/ CommitOpen(r) \/ CallbackError(r)
       PROVE  Goal
  BY <1>4, <1>10 DEF WorkerFail, ContextDone, CommitOpen, CallbackError, With, Without
<1>11. ASSUME NEW r \in Request,
              LedgerStep(r) \/ FindPayment(r) \/ Register(r) \/ Ignore(r) \/ Noop(r)
       PROVE  Goal
  BY <1>1, <1>11 DEF LedgerStep, FindPayment, Register, Ignore, Noop
<1>12. CASE UNCHANGED allVars
  BY <1>1, <1>12 DEF allVars, driverVars
<1> QED
  BY <1>6, <1>7, <1>8, <1>9, <1>10, <1>11, <1>12 DEF FritzpayNext, PspStep, CallbackStep

\* So what an open row rests on stays true: the row it is built on is old.
LEMMA SawStep == ASSUME FritzpayTypeOK, SawInv, [FritzpayNext]_allVars PROVE SawInv'
<1>0. Committed \subseteq DOMAIN rows /\ DOMAIN rows \subseteq Nat
  <2>1. rows \in Seq(FritzpayRow)
    BY DEF FritzpayTypeOK
  <2> QED
    BY <2>1 DEF Committed
<1>1. RowsKept /\ \A j \in DOMAIN rows' : j \in DOMAIN rows \/ NewRowOK(j)
  BY RowsStayStep
<1>2. ASSUME NEW j \in DOMAIN rows PROVE SawOK(j)'
  <2>1. SawOK(j) /\ rows'[j].saw = rows[j].saw /\ rows'[j].status = rows[j].status
    BY <1>1 DEF SawInv, RowsKept
  <2> QED
    BY <1>1, <2>1 DEF SawOK, RowsKept
<1>3. ASSUME NEW j \in DOMAIN rows', NewRowOK(j) PROVE SawOK(j)'
  <2>1. CASE rows'[j].status # "open" /\ rows'[j].saw = {}
    BY <2>1 DEF SawOK
  <2>2. CASE ~IsOpen /\ rows'[j].saw = Committed
    <3>1. ASSUME NEW i \in Committed, rows'[i].status = "open"
          PROVE  \E k \in Committed : k > i /\ rows'[k].status # "open"
      <4>1. rows[i].status = "open"
        BY <1>0, <1>1, <3>1 DEF RowsKept
      <4>2. PICK k \in Committed : rows[k].status # "open" /\ ~(k < i)
        BY <2>2, <4>1 DEF IsOpen
      <4>3. k # i /\ k \in Nat /\ i \in Nat
        BY <1>0, <4>1, <4>2
      <4> QED
        BY <1>0, <1>1, <4>2, <4>3 DEF RowsKept
    <3> QED
      BY <1>0, <1>1, <2>2, <3>1 DEF SawOK, RowsKept
  <2> QED
    BY <1>3, <2>1, <2>2 DEF NewRowOK
<1> QED
  BY <1>1, <1>2, <1>3 DEF SawInv

----------------------------------------------------------------------------
(* The theorems.                                                           *)

\* The invariant holds in every reachable state.
THEOREM FritzpayInvariance == FritzpaySpec => [](FritzpayTypeOK /\ FritzpayInv)
<1>1. FritzpayInit => FritzpayTypeOK /\ FritzpayInv
  <2> SUFFICES ASSUME FritzpayInit PROVE FritzpayTypeOK /\ FritzpayInv
    OBVIOUS
  <2>1. FritzpayTypeOK
    <3>1. rows = <<>> /\ <<>> \in Seq(FritzpayRow)
      BY DEF FritzpayInit
    <3>2. fritzpayP \in BOOLEAN /\ found \in [Request -> BOOLEAN]
      BY DEF FritzpayInit
    <3> QED
      BY <3>1, <3>2 DEF FritzpayInit, FritzpayTypeOK
  <2>2. PendingInv /\ OneWorkerInv
    BY DEF FritzpayInit, Init, PendingInv, PendingOK, OneWorkerInv, OneWorkerOK
  <2>3. OpenRowsInv /\ CallbackInv /\ SawInv
    BY DEF FritzpayInit, OpenRowsInv, CallbackInv, CallbackOK, SawInv
  <2> QED
    BY <2>1, <2>2, <2>3 DEF FritzpayInv
<1>2. ASSUME TypeOK, TypeOK', LedgerInv, FritzpayTypeOK, FritzpayInv, [FritzpayNext]_allVars
      PROVE  FritzpayTypeOK' /\ FritzpayInv'
  BY <1>2, FritzpayTypeStep, PendingStep, OneWorkerStep, TransactionsStep, SawStep DEF FritzpayInv
<1> QED
  BY <1>1, <1>2, FritzpayImplementsLedger, LedgerInvariant, PTL DEF FritzpaySpec

\* Every row and variable of the driver has its type.
THEOREM FritzpayTypeCorrect == FritzpaySpec => []FritzpayTypeOK
  BY FritzpayInvariance, PTL

\* The provider hears of a payment only after the ledger has made it pending, in
\* whichever request and whatever was lost since (init.go:108, 146).
THEOREM ProviderHearsAfterPending == FritzpaySpec => []ProviderAfterPending
<1>1. FritzpayInv => ProviderAfterPending
  BY DEF FritzpayInv, PendingInv, Pending, ProviderAfterPending
<1> QED
  BY <1>1, FritzpayInvariance, PTL

\* A worker that ends well after Callback took its psp_init leaves an open row
\* that is committed, its own or another's (psp.go:98, driver.go:202).
THEOREM DoneLeavesOpen == FritzpaySpec => []DoneMeansOpen
<1>1. FritzpayInv => DoneMeansOpen
  BY DEF FritzpayInv, CallbackInv, CallbackOK, OpensPayment, Committed, DoneMeansOpen
<1> QED
  BY <1>1, FritzpayInvariance, PTL

\* A payment is opened twice only by Callbacks of which the later read the table
\* before the earlier had committed, or after a worker has added a row in between
\* (driver.go:202, 216).
THEOREM OpensOnceOrOverlaps == FritzpaySpec => []OpensOnce
<1>1. FritzpayInv => OpensOnce
  BY DEF FritzpayInv, SawInv, SawOK, Committed, OpensOnce
<1> QED
  BY <1>1, FritzpayInvariance, PTL

\* No transaction of the driver is left open by a worker that gave up or whose
\* context ended, nor by a Callback that has answered.
THEOREM TransactionsEnded == FritzpaySpec => []OpenRowsInv
<1>1. FritzpayInv => OpenRowsInv
  BY DEF FritzpayInv
<1> QED
  BY <1>1, FritzpayInvariance, PTL

=============================================================================
