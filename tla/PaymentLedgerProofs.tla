------------------------ MODULE PaymentLedgerProofs ------------------------
(***************************************************************************)
(* Proofs about PaymentLedger, for any set of requests, any retry limit,   *)
(* with and without a replica and for either provider.                     *)
(***************************************************************************)
EXTENDS PaymentLedger, TLAPS

\* The payment a request reads is a payment; an "open" one was read off the
\* newest of the rows in its snapshot, and it is only uninitialized when there
\* is no row (PaymentByIDTx).
LEMMA CurrentPaymentType ==
    ASSUME TypeOK, NEW p \in CurrentPayment
    PROVE  /\ p \in Payment
           /\ p.base = Len(ledger)
           /\ ledger # <<>> => \E k \in DOMAIN ledger :
                                  IsCurrent(k) /\ p.status = ledger[k].status
           /\ ledger = <<>> => p.status = "uninitialized"
<1>1. CASE ledger = <<>>
  BY <1>1 DEF CurrentPayment, NoPayment, Payment, Status
<1>2. CASE ledger # <<>>
  <2>1. PICK k \in DOMAIN ledger :
            IsCurrent(k) /\ p = [status |-> ledger[k].status, base |-> Len(ledger)]
    BY <1>2 DEF CurrentPayment
  <2>2. ledger[k] \in Row /\ Len(ledger) \in Nat
    BY <2>1 DEF TypeOK
  <2> QED
    BY <1>2, <2>1, <2>2 DEF Payment, Row
<1> QED
  BY <1>1, <1>2

\* The rows a notification's history query returns are rows of the ledger with
\* no later timestamp (PaymentTransactionsBeforeDB).
LEMMA TransactionsBeforeType ==
    ASSUME TypeOK, NEW tx \in Row
    PROVE  TransactionsBefore(tx) \in SUBSET Row
<1> DEFINE n == IF Replicated THEN applied ELSE Len(ledger)
<1>1. n \in 0..Len(ledger)
  BY DEF TypeOK
<1>2. \A i \in 1..n : ledger[i] \in Row
  BY <1>1 DEF TypeOK
<1> QED
  BY <1>2 DEF TransactionsBefore, ReadOnlyRows

\* Every step keeps every variable in its type.
LEMMA TypeStep == TypeOK /\ RetriesInv /\ [Next]_vars => TypeOK'
<1> SUFFICES ASSUME TypeOK, RetriesInv, [Next]_vars PROVE TypeOK'
  OBVIOUS
<1> USE LedgerAssumption
<1>0. NoRow \in Row /\ NoWork \in Work /\ NoPayment \in Payment /\ Len(ledger) \in Nat
  BY DEF NoRow, NoWork, NoPayment, Row, Work, Payment, Status, TypeOK
<1>1. CASE Replicate
  BY <1>1 DEF Replicate, TypeOK
<1>2. CASE Crash
  BY <1>0, <1>2 DEF Crash, TypeOK, PC
<1>3. ASSUME NEW r \in Request, RequestStep(r) PROVE TypeOK'
  <2>1. CASE ReadPayment(r) \/ InitPayment(r)
    <3>1. PICK p \in CurrentPayment : payment' = [payment EXCEPT ![r] = p]
      BY <2>1 DEF ReadPayment, InitPayment
    <3>2. p \in Payment
      BY CurrentPaymentType
    <3> QED
      BY <2>1, <3>1, <3>2 DEF ReadPayment, InitPayment, TypeOK, PC
  <2>2. ASSUME NEW s \in Status, NewTransaction(r, s)
        PROVE  /\ now' \in Nat
               /\ paymentTx' \in [Request -> Row]
               /\ payment' \in [Request -> Payment]
    <3>1. now \in Nat /\ now' \in Nat
      BY <2>2 DEF NewTransaction, TypeOK
    <3>2. payment[r] \in Payment
      BY DEF TypeOK
    <3>3. [ts |-> now', status |-> s, base |-> payment[r].base] \in Row
      BY <3>1, <3>2 DEF Row, Payment
    <3>4. [payment[r] EXCEPT !.status = s] \in Payment
      BY <3>2 DEF Payment
    <3> QED
      BY <2>2, <3>1, <3>3, <3>4 DEF NewTransaction, TypeOK
  <2>3. ASSUME NEW s \in Status, handleIntent(r, s) PROVE TypeOK'
    <3>1. NewTransaction(r, s)
      BY <2>3 DEF handleIntent
    <3>2. /\ now' \in Nat
          /\ paymentTx' \in [Request -> Row]
          /\ payment' \in [Request -> Payment]
      BY <2>2, <3>1
    <3>3. [at |-> "waiting", tx |-> paymentTx'[r], status |-> "uninitialized"] \in Work
      BY <3>2 DEF Work, Status
    <3> QED
      BY <2>3, <3>2, <3>3 DEF handleIntent, TypeOK, PC
  <2>4. CASE IntentOpen(r) \/ IntentCancel(r) \/ IntentPaid(r) \/ IntentAuthorized(r)
    BY <2>3, <2>4 DEF IntentOpen, IntentCancel, IntentPaid, IntentAuthorized, EndIntent, Status
  <2>5. CASE NoIntent(r)
    BY <2>5 DEF NoIntent, TypeOK, PC
  <2>6. ASSUME InsertRow(r), UNCHANGED applied
        PROVE  /\ ledger' \in Seq(Row)
               /\ applied' \in 0..Len(ledger')
               /\ paymentTx' \in [Request -> Row]
    <3>1. ledger' = Append(ledger, paymentTx[r]) /\ paymentTx[r] \in Row
      BY <2>6 DEF InsertRow, TypeOK
    <3>2. Len(ledger') = Len(ledger) + 1 /\ ledger' \in Seq(Row)
      BY <3>1 DEF TypeOK
    <3> QED
      BY <1>0, <2>6, <3>2 DEF InsertRow, DropRow, TypeOK
  <2>7. CASE CommitTx(r)
    BY <2>6, <2>7 DEF CommitTx, TypeOK, PC
  <2>8. CASE CommitUnknown(r)
    BY <2>6, <2>8 DEF CommitUnknown, TypeOK, PC
  <2>9. CASE Fail(r)
    BY <1>0, <2>9 DEF Fail, DropRow, TypeOK, PC
  <2>10. CASE Retry(r)
    BY <1>0, <2>10 DEF Retry, RetryCounting, LockError, DropRow, TypeOK, RetriesInv, PC
  <2>11. CASE CommitIntent(r)
    <3>1. work[r] \in Work /\ [work[r] EXCEPT !.at = "running"] \in Work
      BY DEF TypeOK, Work
    <3>2. work' \in [Request -> Work]
      BY <2>11, <3>1 DEF CommitIntent, TypeOK
    <3> QED
      BY <2>11, <3>2 DEF CommitIntent, TypeOK, PC
  <2>12. CASE InitPending(r)
    BY <2>2, <2>12 DEF InitPending, TypeOK, PC, Status
  <2>13. CASE InitDone(r)
    BY <2>6, <2>13 DEF InitDone, TypeOK, PC
  <2> QED
    BY <1>3, <2>1, <2>4, <2>5, <2>7, <2>8, <2>9, <2>10, <2>11, <2>12, <2>13 DEF RequestStep
<1>4. ASSUME NEW r \in Request, WorkStep(r) PROVE TypeOK'
  <2>0. work[r] \in Work /\ payment[r] \in Payment
    BY DEF TypeOK
  <2>1. CASE CommitIntentTimeout(r)
    BY <1>0, <2>0, <2>1 DEF CommitIntentTimeout, TypeOK, Work
  <2>2. CASE NotifyBuild(r)
    BY <2>0, <2>2 DEF NotifyBuild, TypeOK, Work, Payment
  <2>3. CASE NotifySend(r)
    <3>1. TransactionsBefore(work[r].tx) \in SUBSET Row
      BY <2>0, TransactionsBeforeType DEF Work
    <3>2. [tx |-> work[r].tx, status |-> work[r].status,
           rows |-> TransactionsBefore(work[r].tx)] \in Notification
      BY <2>0, <3>1 DEF Work, Notification
    <3>3. notified' \in Seq(Notification)
      BY <2>3, <3>2 DEF NotifySend, Post, TypeOK
    <3> QED
      BY <1>0, <2>3, <3>3 DEF NotifySend, TypeOK
  <2>4. CASE NotifyFail(r)
    BY <1>0, <2>4 DEF NotifyFail, TypeOK
  <2> QED
    BY <1>4, <2>1, <2>2, <2>3, <2>4 DEF WorkStep
<1>5. CASE UNCHANGED vars
  BY <1>5 DEF vars, TypeOK
<1> QED
  BY <1>1, <1>2, <1>3, <1>4, <1>5 DEF Next

\* A transaction is only begun below the retry limit (the check at beginTx).
LEMMA RetriesStep == TypeOK /\ RetriesInv /\ [Next]_vars => RetriesInv'
<1> SUFFICES ASSUME TypeOK, RetriesInv, [Next]_vars, NEW q \in Request,
                    pc'[q] \in {"read", "intent", "init", "pending"}
             PROVE  retries'[q] < TransactionMaxRetries
  BY DEF RetriesInv
<1> USE LedgerAssumption DEF TypeOK, RetriesInv
<1>1. CASE Replicate \/ Crash \/ UNCHANGED vars
  BY <1>1 DEF Replicate, Crash, vars
<1>2. ASSUME NEW r \in Request, RequestStep(r) PROVE retries'[q] < TransactionMaxRetries
  <2>1. CASE ReadPayment(r) \/ InitPayment(r)
    BY <2>1 DEF ReadPayment, InitPayment
  <2>2. CASE IntentOpen(r) \/ IntentCancel(r) \/ IntentPaid(r) \/ IntentAuthorized(r)
    BY <2>2 DEF IntentOpen, IntentCancel, IntentPaid, IntentAuthorized, EndIntent, handleIntent
  <2>3. CASE NoIntent(r) \/ CommitIntent(r)
    BY <2>3 DEF NoIntent, CommitIntent
  <2>4. CASE CommitTx(r) \/ CommitUnknown(r) \/ Fail(r) \/ InitPending(r) \/ InitDone(r)
    BY <2>4 DEF CommitTx, CommitUnknown, Fail, InitPending, InitDone
  <2>5. CASE Retry(r)
    BY <2>5 DEF Retry, RetryCounting, LockError
  <2> QED
    BY <1>2, <2>1, <2>2, <2>3, <2>4, <2>5 DEF RequestStep
<1>3. ASSUME NEW r \in Request, WorkStep(r) PROVE retries'[q] < TransactionMaxRetries
  BY <1>3 DEF WorkStep, CommitIntentTimeout, NotifyBuild, NotifySend, NotifyFail
<1> QED
  BY <1>1, <1>2, <1>3 DEF Next

\* Type correctness of the ledger protocol: in particular no request counts
\* more lock errors than TransactionMaxRetries.
THEOREM TypeCorrect == Spec => []TypeOK
<1>1. Init => TypeOK /\ RetriesInv
  BY LedgerAssumption
  DEF Init, TypeOK, RetriesInv, PC, NoRow, NoWork, NoPayment, Row, Work, Payment, Status
<1>2. TypeOK /\ RetriesInv /\ [Next]_vars => (TypeOK /\ RetriesInv)'
  BY TypeStep, RetriesStep
<1> QED
  BY <1>1, <1>2, PTL DEF Spec

----------------------------------------------------------------------------
(* The inductive invariant.                                                *)

\* Rows are never changed or removed, only appended.
Extends == /\ Len(ledger) <= Len(ledger')
           /\ \A i \in DOMAIN ledger : i \in DOMAIN ledger' /\ ledger'[i] = ledger[i]

\* The ledger is a sequence of rows.
LEMMA LedgerType ==
    ASSUME TypeOK
    PROVE  /\ Len(ledger) \in Nat
           /\ DOMAIN ledger = 1..Len(ledger)
           /\ \A i \in DOMAIN ledger : ledger[i] \in Row
  BY DEF TypeOK

\* What Append does to the ledger.
LEMMA AppendFacts ==
    ASSUME TypeOK, NEW x \in Row
    PROVE  LET L == Append(ledger, x)
               n == Len(ledger)
           IN  /\ Len(L) = n + 1 /\ n \in Nat
               /\ DOMAIN ledger = 1..n /\ DOMAIN L = 1..(n + 1)
               /\ L[n + 1] = x
               /\ \A i \in 1..n : L[i] = ledger[i]
  BY DEF TypeOK

\* Every step leaves the committed rows alone and the clock does not run back.
LEMMA StepExtends == TypeOK /\ [Next]_vars => Extends /\ now <= now'
<1> SUFFICES ASSUME TypeOK, [Next]_vars PROVE Extends /\ now <= now'
  OBVIOUS
<1>0. ASSUME UNCHANGED ledger PROVE Extends
  BY <1>0 DEF Extends, TypeOK
<1>1. ASSUME UNCHANGED now PROVE now <= now'
  BY <1>1 DEF TypeOK
<1>2. ASSUME NEW r \in Request, InsertRow(r) PROVE Extends
  <2>1. ledger' = Append(ledger, paymentTx[r]) /\ paymentTx[r] \in Row
    BY <1>2 DEF InsertRow, TypeOK
  <2> QED
    BY <2>1, AppendFacts DEF Extends
<1>3. ASSUME NEW r \in Request, NEW s, NewTransaction(r, s) PROVE now <= now'
  BY <1>3 DEF NewTransaction, TypeOK
<1>4. ASSUME NEW r \in Request, RequestStep(r) PROVE Extends /\ now <= now'
  <2>1. CASE IntentOpen(r) \/ IntentCancel(r) \/ IntentPaid(r) \/ IntentAuthorized(r)
    BY <1>0, <1>3, <2>1 DEF IntentOpen, IntentCancel, IntentPaid, IntentAuthorized,
                            EndIntent, handleIntent
  <2>2. CASE InitPending(r)
    BY <1>0, <1>3, <2>2 DEF InitPending
  <2>3. CASE CommitTx(r) \/ CommitUnknown(r) \/ InitDone(r)
    BY <1>0, <1>1, <1>2, <2>3 DEF CommitTx, CommitUnknown, InitDone
  <2>4. CASE ReadPayment(r) \/ NoIntent(r) \/ Fail(r) \/ Retry(r) \/ CommitIntent(r) \/ InitPayment(r)
    BY <1>0, <1>1, <2>4 DEF ReadPayment, NoIntent, Fail, Retry, RetryCounting, LockError, CommitIntent, InitPayment
  <2> QED
    BY <1>4, <2>1, <2>2, <2>3, <2>4 DEF RequestStep
<1>5. ASSUME NEW r \in Request, WorkStep(r) PROVE Extends /\ now <= now'
  BY <1>0, <1>1, <1>5 DEF WorkStep, CommitIntentTimeout, NotifyBuild, NotifySend, NotifyFail
<1>6. CASE Replicate \/ Crash \/ UNCHANGED vars
  BY <1>0, <1>1, <1>6 DEF Replicate, Crash, vars
<1> QED
  BY <1>4, <1>5, <1>6 DEF Next

\* A row that rests on an open row keeps doing so when rows are appended.
LEMMA RestsKept ==
    ASSUME TypeOK, TypeOK', Extends, NEW tx \in Row, tx.base <= Len(ledger),
           RestsOnOpen(ledger, tx)
    PROVE  RestsOnOpen(ledger', tx)
<1>1. tx.base \in Nat
  BY DEF Row
<1>2. \A i \in 1..tx.base : i \in DOMAIN ledger
  BY <1>1, LedgerType
<1>3. \A i \in 1..tx.base : ledger'[i] = ledger[i]
  BY <1>2 DEF Extends
<1> QED
  BY <1>3 DEF RestsOnOpen

\* A non-empty ledger starts with an open row.
LEMMA FirstIsOpen ==
    ASSUME TypeOK, OpenFirst, ledger # <<>>
    PROVE  1 \in DOMAIN ledger /\ ledger[1].status = "open"
<1>1. 1 \in DOMAIN ledger
  BY DEF TypeOK
<1> QED
  BY <1>1 DEF OpenFirst

\* SetPaymentTransaction keeps the ledger in order: the row it inserts is newer
\* than the open row it rests on.
LEMMA InsertKeepsRows ==
    ASSUME TypeOK, TypeOK', LedgerInv, UNCHANGED now,
           NEW r \in Request, pc[r] \in {"intent", "pending"}, InsertRow(r)
    PROVE  RowsInv' /\ OpenFirst'
<1> DEFINE n == Len(ledger)
           tx == paymentTx[r]
<1>1. ledger' = Append(ledger, tx) /\ tx \in Row /\ TimestampFree(tx.ts)
  BY DEF InsertRow, TypeOK
<1>2. /\ n \in Nat
      /\ DOMAIN ledger = 1..n /\ DOMAIN ledger' = 1..(n + 1)
      /\ ledger'[n + 1] = tx
      /\ \A i \in 1..n : ledger'[i] = ledger[i]
  BY <1>1, AppendFacts
<1>3. Extends
  BY <1>1, <1>2, AppendFacts DEF Extends
<1>4. RequestOK(r)
  BY DEF LedgerInv, RequestInv
<1>5. \A i \in 1..n : ledger[i] \in Row /\ RowOK(i)
  BY <1>2, LedgerType DEF LedgerInv, RowsInv
<1>6. ASSUME NEW i \in 1..(n + 1) PROVE RowOK(i)'
  <2>1. CASE i \in 1..n
    <3>1. ledger'[i] = ledger[i] /\ ledger[i] \in Row /\ RowOK(i)
      BY <1>2, <1>5, <2>1
    <3>2. ledger[i].base <= n
      BY <1>2, <2>1, <3>1 DEF RowOK, Row
    <3>3. ledger[i].status \in Ending => RestsOnOpen(ledger', ledger[i])
      BY <1>3, <3>1, <3>2, RestsKept DEF RowOK
    <3> QED
      BY <3>1, <3>3 DEF RowOK
  <2>2. CASE i = n + 1
    <3>1. ledger'[i] = tx
      BY <1>2, <2>2
    <3>2. tx.base < i /\ tx.ts <= now'
      BY <1>1, <1>2, <1>4, <2>2 DEF RequestOK, Row
    <3>3. tx.status # "uninitialized"
      BY <1>4 DEF RequestOK, Ending
    <3>4. tx.status \in Ending => RestsOnOpen(ledger', tx)
      BY <1>1, <1>3, <1>4, RestsKept DEF RequestOK, Ending
    <3> QED
      BY <3>1, <3>2, <3>3, <3>4 DEF RowOK
  <2> QED
    BY <1>2, <2>1, <2>2
<1>7. ASSUME NEW i \in 1..(n + 1), NEW j \in 1..(n + 1), i # j
      PROVE  ledger'[i].ts # ledger'[j].ts
  BY <1>1, <1>2, <1>7 DEF TimestampFree, LedgerInv, RowsInv
<1>8. ASSUME NEW i \in 1..(n + 1), ledger'[i].status # "open"
      PROVE  \E j \in 1..(i - 1) : ledger'[j].status = "open" /\ ledger'[j].ts < ledger'[i].ts
  <2>1. CASE i \in 1..n
    <3>1. PICK j \in 1..(i - 1) : ledger[j].status = "open" /\ ledger[j].ts < ledger[i].ts
      BY <1>2, <1>8, <2>1 DEF LedgerInv, OpenFirst
    <3> QED
      BY <1>2, <2>1, <3>1
  <2>2. CASE i = n + 1
    <3>1. ledger'[i] = tx
      BY <1>2, <2>2
    <3>2. \E j \in 1..n : ledger[j].status = "open" /\ ledger[j].ts <= tx.ts
      <4>1. CASE pc[r] = "intent"
        BY <1>1, <1>2, <1>4, <1>8, <3>1, <4>1 DEF RequestOK, RestsOnOpen, Row
      <4>2. CASE pc[r] = "pending"
        <5>1. ledger # <<>> /\ ledger[1].ts <= tx.ts
          BY <1>4, <4>2 DEF RequestOK
        <5> QED
          BY <1>2, <5>1, FirstIsOpen DEF LedgerInv
      <4> QED
        BY <4>1, <4>2
    <3>3. PICK j \in 1..n : ledger[j].status = "open" /\ ledger[j].ts <= tx.ts
      BY <3>2
    <3>4. ledger[j].ts < tx.ts
      BY <1>1, <1>2, <1>5, <3>3 DEF TimestampFree, Row
    <3> QED
      BY <1>2, <2>2, <3>1, <3>3, <3>4
  <2> QED
    BY <1>2, <2>1, <2>2
<1> QED
  BY <1>2, <1>6, <1>7, <1>8 DEF RowsInv, OpenFirst

\* Every step keeps the rows in order, and every row but an open one after an
\* older open row.
LEMMA RowsStep == TypeOK /\ TypeOK' /\ LedgerInv /\ [Next]_vars => RowsInv' /\ OpenFirst'
<1> SUFFICES ASSUME TypeOK, TypeOK', LedgerInv, [Next]_vars PROVE RowsInv' /\ OpenFirst'
  OBVIOUS
<1>1. CASE UNCHANGED ledger
  <2>1. now \in Nat /\ now' \in Nat /\ now <= now'
    BY StepExtends DEF TypeOK
  <2>2. \A i \in DOMAIN ledger : ledger[i].ts \in Nat
    BY LedgerType DEF Row
  <2>3. \A i \in DOMAIN ledger : RowOK(i)'
    BY <1>1, <2>1, <2>2 DEF LedgerInv, RowsInv, RowOK
  <2>4. RowsInv'
    BY <1>1, <2>3 DEF LedgerInv, RowsInv
  <2>5. OpenFirst'
    BY <1>1 DEF LedgerInv, OpenFirst
  <2> QED
    BY <2>4, <2>5
<1>2. ASSUME NEW r \in Request, pc[r] \in {"intent", "pending"}, InsertRow(r), UNCHANGED now
      PROVE  RowsInv' /\ OpenFirst'
  BY <1>2, InsertKeepsRows
<1>3. ASSUME NEW r \in Request, RequestStep(r)
      PROVE  UNCHANGED ledger \/ (pc[r] \in {"intent", "pending"} /\ InsertRow(r) /\ UNCHANGED now)
  <2>1. CASE IntentOpen(r) \/ IntentCancel(r) \/ IntentPaid(r) \/ IntentAuthorized(r)
    BY <2>1 DEF IntentOpen, IntentCancel, IntentPaid, IntentAuthorized, EndIntent, handleIntent
  <2>2. CASE CommitTx(r) \/ CommitUnknown(r) \/ InitDone(r)
    BY <2>2 DEF CommitTx, CommitUnknown, InitDone
  <2>3. CASE ReadPayment(r) \/ NoIntent(r) \/ Fail(r) \/ Retry(r) \/ CommitIntent(r)
             \/ InitPayment(r) \/ InitPending(r)
    BY <2>3 DEF ReadPayment, NoIntent, Fail, Retry, RetryCounting, LockError, CommitIntent, InitPayment,
                InitPending
  <2> QED
    BY <1>3, <2>1, <2>2, <2>3 DEF RequestStep
<1>4. ASSUME NEW r \in Request, WorkStep(r) PROVE UNCHANGED ledger
  BY <1>4 DEF WorkStep, CommitIntentTimeout, NotifyBuild, NotifySend, NotifyFail
<1>5. CASE Replicate \/ Crash \/ UNCHANGED vars
  BY <1>1, <1>5 DEF Replicate, Crash, vars
<1> QED
  BY <1>1, <1>2, <1>3, <1>4, <1>5 DEF Next

\* A request that is not touched keeps what it knows while others append rows.
LEMMA RequestKept ==
    ASSUME TypeOK, TypeOK', Extends, now <= now', NEW q \in Request, RequestOK(q),
           pc'[q] = pc[q], payment'[q] = payment[q], paymentTx'[q] = paymentTx[q]
    PROVE  RequestOK(q)'
<1>1. /\ payment[q].base \in Nat /\ paymentTx[q].base \in Nat /\ paymentTx[q].ts \in Nat
      /\ paymentTx[q] \in Row /\ now \in Nat /\ now' \in Nat
      /\ Len(ledger) \in Nat /\ Len(ledger') \in Nat /\ Len(ledger) <= Len(ledger')
  <2>1. payment[q] \in Payment /\ paymentTx[q] \in Row
    BY DEF TypeOK
  <2> QED
    BY <2>1 DEF TypeOK, Payment, Row, Extends
<1>2. ledger # <<>> => ledger' # <<>> /\ ledger'[1] = ledger[1]
  BY <1>1 DEF Extends, TypeOK
<1>3. \A i \in 1..payment[q].base : ledger'[i] = ledger[i]
  BY <1>1, LedgerType DEF RequestOK, Extends
<1>4. RestsOnOpen(ledger, paymentTx[q]) => RestsOnOpen(ledger', paymentTx[q])
  BY <1>1, RestsKept DEF RequestOK
<1>5. payment'[q].base <= Len(ledger') /\ paymentTx'[q].base <= Len(ledger') /\ paymentTx'[q].ts <= now'
  BY <1>1 DEF RequestOK
<1>6. pc[q] = "read" /\ payment[q].status = "open" =>
           \E k \in 1..payment[q].base :
               /\ ledger'[k].status = "open"
               /\ \A i \in 1..payment[q].base : ledger'[i].ts <= ledger'[k].ts
  BY <1>3 DEF RequestOK
<1> QED
  BY <1>2, <1>4, <1>5, <1>6 DEF RequestOK

\* Every step keeps what the requests know.
LEMMA RequestsStep == TypeOK /\ TypeOK' /\ LedgerInv /\ [Next]_vars => RequestInv'
<1> SUFFICES ASSUME TypeOK, TypeOK', LedgerInv, [Next]_vars, NEW q \in Request PROVE RequestOK(q)'
  BY DEF RequestInv
<1>1. Extends /\ now <= now'
  BY StepExtends
<1>2. RequestOK(q)
  BY DEF LedgerInv, RequestInv
<1>3. CASE pc'[q] = pc[q] /\ payment'[q] = payment[q] /\ paymentTx'[q] = paymentTx[q]
  BY <1>1, <1>2, <1>3, RequestKept
<1>4. /\ payment[q] \in Payment /\ paymentTx[q] \in Row /\ now \in Nat /\ now' \in Nat
      /\ payment[q].base \in Nat /\ Len(ledger) \in Nat
  <2>1. payment[q] \in Payment /\ paymentTx[q] \in Row
    BY DEF TypeOK
  <2> QED
    BY <2>1 DEF TypeOK, Payment
<1>5. CASE Crash
  BY <1>4, <1>5 DEF Crash, RequestOK, NoPayment, NoRow, Started
<1>6. ASSUME NEW s \in Status, handleIntent(q, s), s \in {"open"} \cup Ending,
             s \in Ending => payment[q].status = "open"
      PROVE  RequestOK(q)'
  <2>1. /\ pc[q] = "read" /\ pc'[q] = "intent" /\ UNCHANGED ledger
        /\ paymentTx'[q] = [ts |-> now', status |-> s, base |-> payment[q].base]
        /\ payment'[q] = [payment[q] EXCEPT !.status = s]
    BY <1>6 DEF handleIntent, NewTransaction, TypeOK
  <2>2. payment'[q].base = payment[q].base
    BY <1>4, <2>1 DEF Payment
  <2>3. s \in Ending => RestsOnOpen(ledger, paymentTx'[q])
    <3>1. SUFFICES ASSUME s \in Ending PROVE RestsOnOpen(ledger, paymentTx'[q])
      OBVIOUS
    <3>2. PICK k \in 1..payment[q].base :
               /\ ledger[k].status = "open"
               /\ \A i \in 1..payment[q].base : ledger[i].ts <= ledger[k].ts
      BY <1>2, <1>6, <2>1, <3>1 DEF RequestOK
    <3>3. k \in DOMAIN ledger
      BY <1>2, <1>4, LedgerType DEF RequestOK
    <3>4. ledger[k] \in Row /\ ledger[k].ts <= now
      BY <3>3, LedgerType DEF LedgerInv, RowsInv, RowOK
    <3>5. ledger[k].ts <= now'
      BY <1>1, <1>4, <3>4 DEF Row
    <3> QED
      BY <2>1, <3>2, <3>5 DEF RestsOnOpen
  <2> QED
    BY <1>2, <1>4, <1>6, <2>1, <2>2, <2>3 DEF RequestOK
<1>7. CASE RequestStep(q)
  <2>1. ASSUME NEW p \in CurrentPayment, payment' = [payment EXCEPT ![q] = p],
               pc' \in {[pc EXCEPT ![q] = "read"], [pc EXCEPT ![q] = "init"]},
               pc'[q] = "init" => ledger # <<>>,
               UNCHANGED <<now, ledger, paymentTx>>
        PROVE  RequestOK(q)'
    <3>1. payment'[q] = p /\ pc'[q] \in {"read", "init"}
      BY <2>1 DEF TypeOK
    <3>2. /\ p.base = Len(ledger)
          /\ ledger = <<>> => p.status = "uninitialized"
          /\ ledger # <<>> => \E k \in DOMAIN ledger : IsCurrent(k) /\ p.status = ledger[k].status
      BY <2>1, CurrentPaymentType
    <3>3. DOMAIN ledger = 1..Len(ledger)
      BY LedgerType
    <3>4. p.status = "open" => \E k \in 1..p.base :
               /\ ledger[k].status = "open"
               /\ \A i \in 1..p.base : ledger[i].ts <= ledger[k].ts
      BY <3>2, <3>3 DEF IsCurrent
    <3> QED
      BY <1>2, <1>4, <2>1, <3>1, <3>2, <3>4 DEF RequestOK
  <2>2. CASE ReadPayment(q)
    <3>1. PICK p \in CurrentPayment : payment' = [payment EXCEPT ![q] = p]
      BY <2>2 DEF ReadPayment
    <3> QED
      BY <2>1, <2>2, <3>1 DEF ReadPayment, TypeOK
  <2>3. CASE InitPayment(q)
    <3>1. PICK p \in CurrentPayment : payment' = [payment EXCEPT ![q] = p]
      BY <2>3 DEF InitPayment
    <3>2. ledger # <<>>
      BY <1>2, <2>3 DEF InitPayment, RequestOK
    <3> QED
      BY <2>1, <2>3, <3>1, <3>2 DEF InitPayment
  <2>4. CASE IntentOpen(q) \/ IntentCancel(q) \/ IntentPaid(q) \/ IntentAuthorized(q)
    BY <1>6, <2>4 DEF IntentOpen, IntentCancel, IntentPaid, IntentAuthorized, EndIntent, Ending, Status
  <2>5. CASE NoIntent(q)
    BY <1>2, <2>5 DEF NoIntent, RequestOK, TypeOK
  <2>6. ASSUME InsertRow(q), UNCHANGED <<now, payment>>, pc'[q] \in {"committed", "failed", "ended"}
        PROVE  RequestOK(q)'
    <3>1. ledger' = Append(ledger, paymentTx[q]) /\ paymentTx'[q] = NoRow
      BY <2>6 DEF InsertRow, DropRow, TypeOK
    <3>2. Len(ledger') = Len(ledger) + 1
      BY <1>4, <3>1, AppendFacts
    <3>3. ledger' # <<>>
      BY <1>4, <3>2 DEF TypeOK
    <3> QED
      BY <1>2, <1>4, <2>6, <3>1, <3>2, <3>3 DEF RequestOK, NoRow
  <2>7. CASE CommitTx(q) \/ CommitUnknown(q)
    BY <2>6, <2>7 DEF CommitTx, CommitUnknown, TypeOK
  <2>8. CASE Fail(q)
    BY <1>2, <1>4, <2>8 DEF Fail, DropRow, RequestOK, NoRow, TypeOK
  <2>9. CASE Retry(q)
    BY <1>2, <1>4, <2>9 DEF Retry, RetryCounting, LockError, DropRow, RequestOK, NoRow, TypeOK
  <2>10. CASE CommitIntent(q)
    BY <1>2, <2>10 DEF CommitIntent, RequestOK, TypeOK
  <2>11. CASE InitPending(q)
    <3>1. /\ pc'[q] = "pending" /\ UNCHANGED ledger
          /\ paymentTx'[q] = [ts |-> now', status |-> "pending", base |-> payment[q].base]
          /\ payment'[q] = [payment[q] EXCEPT !.status = "pending"]
      BY <2>11 DEF InitPending, NewTransaction, TypeOK
    <3>2. payment'[q].base = payment[q].base
      BY <1>4, <3>1 DEF Payment
    <3>3. ledger # <<>>
      BY <1>2, <2>11 DEF InitPending, RequestOK
    <3>4. 1 \in DOMAIN ledger
      BY <3>3, FirstIsOpen DEF LedgerInv
    <3>5. ledger[1] \in Row /\ ledger[1].ts <= now
      BY <3>4, LedgerType DEF LedgerInv, RowsInv, RowOK
    <3>6. ledger[1].ts <= now'
      BY <1>1, <1>4, <3>5 DEF Row
    <3> QED
      BY <1>2, <1>4, <3>1, <3>2, <3>3, <3>6 DEF RequestOK
  <2>12. CASE InitDone(q)
    <3>1. CASE InsertRow(q)
      BY <2>6, <2>12, <3>1 DEF InitDone, TypeOK
    <3>2. CASE UNCHANGED <<ledger, paymentTx>>
      BY <1>2, <2>12, <3>2 DEF InitDone, RequestOK, TypeOK
    <3> QED
      BY <2>12, <3>1, <3>2 DEF InitDone
  <2> QED
    BY <1>7, <2>2, <2>3, <2>4, <2>5, <2>7, <2>8, <2>9, <2>10, <2>11, <2>12 DEF RequestStep
<1>8. ASSUME NEW r \in Request, r # q, RequestStep(r)
      PROVE  pc'[q] = pc[q] /\ payment'[q] = payment[q] /\ paymentTx'[q] = paymentTx[q]
  <2>1. CASE IntentOpen(r) \/ IntentCancel(r) \/ IntentPaid(r) \/ IntentAuthorized(r)
    BY <1>8, <2>1 DEF IntentOpen, IntentCancel, IntentPaid, IntentAuthorized, EndIntent,
                      handleIntent, NewTransaction, TypeOK
  <2>2. CASE CommitTx(r) \/ CommitUnknown(r) \/ InitDone(r) \/ Fail(r) \/ Retry(r)
    BY <1>8, <2>2 DEF CommitTx, CommitUnknown, InitDone, Fail, Retry, RetryCounting, LockError, InsertRow,
                      DropRow, TypeOK
  <2>3. CASE ReadPayment(r) \/ NoIntent(r) \/ CommitIntent(r) \/ InitPayment(r) \/ InitPending(r)
    BY <1>8, <2>3 DEF ReadPayment, NoIntent, CommitIntent, InitPayment, InitPending,
                      NewTransaction, TypeOK
  <2> QED
    BY <1>8, <2>1, <2>2, <2>3 DEF RequestStep
<1>9. ASSUME NEW r \in Request, WorkStep(r)
      PROVE  pc'[q] = pc[q] /\ payment'[q] = payment[q] /\ paymentTx'[q] = paymentTx[q]
  BY <1>9 DEF WorkStep, CommitIntentTimeout, NotifyBuild, NotifySend, NotifyFail
<1>10. CASE Replicate \/ UNCHANGED vars
  BY <1>3, <1>10 DEF Replicate, vars
<1> QED
  BY <1>3, <1>5, <1>7, <1>8, <1>9, <1>10 DEF Next

\* A goroutine that is not touched keeps its row while others append rows.
LEMMA WorkKept ==
    ASSUME TypeOK, TypeOK', Extends, NEW q \in Request, WorkOK(q),
           work'[q] = work[q], UNCHANGED notified, Live(q)' => Live(q),
           pc'[q] \in {"begin", "read", "intent", "committed"}
               => work[q].at \notin {"running", "built"},
           pc'[q] = "intent" => pc[q] = "intent" /\ paymentTx'[q] = paymentTx[q]
    PROVE  WorkOK(q)'
<1>1. (\E i \in DOMAIN ledger : ledger[i] = work[q].tx)
         => \E i \in DOMAIN ledger' : ledger'[i] = work[q].tx
  BY DEF Extends
<1> QED
  BY <1>1 DEF WorkOK

\* What a step of r does to the other requests' goroutines: nothing.
LEMMA OthersWork ==
    ASSUME TypeOK, NEW r \in Request, RequestStep(r) \/ WorkStep(r), NEW q \in Request, q # r
    PROVE  work'[q] = work[q] /\ pc'[q] = pc[q] /\ paymentTx'[q] = paymentTx[q]
<1> USE DEF TypeOK
<1>1. CASE IntentOpen(r) \/ IntentCancel(r) \/ IntentPaid(r) \/ IntentAuthorized(r)
  BY <1>1 DEF IntentOpen, IntentCancel, IntentPaid, IntentAuthorized, EndIntent,
              handleIntent, NewTransaction
<1>2. CASE CommitTx(r) \/ CommitUnknown(r) \/ InitDone(r) \/ Fail(r) \/ Retry(r)
  BY <1>2 DEF CommitTx, CommitUnknown, InitDone, Fail, Retry, RetryCounting, LockError, InsertRow, DropRow
<1>3. CASE ReadPayment(r) \/ NoIntent(r) \/ CommitIntent(r) \/ InitPayment(r) \/ InitPending(r)
  BY <1>3 DEF ReadPayment, NoIntent, CommitIntent, InitPayment, InitPending, NewTransaction
<1>4. CASE WorkStep(r)
  BY <1>4 DEF WorkStep, CommitIntentTimeout, NotifyBuild, NotifySend, NotifyFail
<1> QED
  BY <1>1, <1>2, <1>3, <1>4 DEF RequestStep

\* Every step of a request keeps the goroutines' rows committed, distinct and
\* not yet notified about, and posts nothing.
LEMMA RequestKeepsWork ==
    ASSUME TypeOK, TypeOK', LedgerInv, NEW r \in Request, RequestStep(r), Extends
    PROVE  WorkInv' /\ NotifiedOnce'
<1>1. WorkOK(r) /\ \A q \in Request : WorkOK(q)
  BY DEF LedgerInv, WorkInv
<1>2. UNCHANGED notified
  <2>1. CASE IntentOpen(r) \/ IntentCancel(r) \/ IntentPaid(r) \/ IntentAuthorized(r)
    BY <2>1 DEF IntentOpen, IntentCancel, IntentPaid, IntentAuthorized, EndIntent, handleIntent
  <2>2. CASE CommitTx(r) \/ CommitUnknown(r) \/ InitDone(r) \/ Fail(r) \/ Retry(r)
    BY <2>2 DEF CommitTx, CommitUnknown, InitDone, Fail, Retry, RetryCounting, LockError
  <2>3. CASE ReadPayment(r) \/ NoIntent(r) \/ CommitIntent(r) \/ InitPayment(r) \/ InitPending(r)
    BY <2>3 DEF ReadPayment, NoIntent, CommitIntent, InitPayment, InitPending
  <2> QED
    BY <2>1, <2>2, <2>3 DEF RequestStep
<1>3. NotifiedOnce'
  BY <1>2 DEF LedgerInv, NotifiedOnce, Extends
<1>4. \A q \in Request : q # r => /\ work'[q] = work[q] /\ pc'[q] = pc[q]
                                  /\ paymentTx'[q] = paymentTx[q] /\ (Live(q)' <=> Live(q))
  BY OthersWork DEF Live
<1>5. \A q \in Request : q # r => WorkOK(q)'
  <2> SUFFICES ASSUME NEW q \in Request, q # r PROVE WorkOK(q)'
    OBVIOUS
  <2>1. /\ work'[q] = work[q] /\ pc'[q] = pc[q] /\ paymentTx'[q] = paymentTx[q]
        /\ (Live(q)' => Live(q)) /\ WorkOK(q)
    BY <1>1, <1>4
  <2>2. pc'[q] \in {"begin", "read", "intent", "committed"} => work[q].at \notin {"running", "built"}
    BY <2>1 DEF WorkOK
  <2> QED
    BY <1>2, <2>1, <2>2, WorkKept
<1>6. ASSUME work'[r].tx = work[r].tx, Live(r)' => Live(r), WorkOK(r)' PROVE WorkInv'
  BY <1>4, <1>5, <1>6 DEF LedgerInv, WorkInv
<1>7. CASE IntentOpen(r) \/ IntentCancel(r) \/ IntentPaid(r) \/ IntentAuthorized(r)
  <2>1. PICK s : handleIntent(r, s)
    BY <1>7 DEF IntentOpen, IntentCancel, IntentPaid, IntentAuthorized, EndIntent
  <2>2. pc'[r] = "intent" /\ work'[r].at = "waiting" /\ work'[r].tx = paymentTx'[r]
    BY <2>1 DEF handleIntent, TypeOK
  <2>3. ~Live(r)' /\ WorkOK(r)'
    BY <2>2 DEF Live, WorkOK
  <2> QED
    BY <1>3, <1>4, <1>5, <2>3 DEF LedgerInv, WorkInv
<1>8. CASE CommitTx(r)
  <2>1. /\ pc[r] = "intent" /\ pc'[r] = "committed" /\ work'[r] = work[r]
        /\ ledger' = Append(ledger, paymentTx[r]) /\ paymentTx[r] \in Row
        /\ TimestampFree(paymentTx[r].ts)
    BY <1>8 DEF CommitTx, InsertRow, TypeOK
  <2>2. work[r].at \notin {"running", "built"}
    BY <1>1, <2>1 DEF WorkOK
  <2>3. CASE work[r].at = "waiting"
    <3>1. work[r].tx = paymentTx[r]
      BY <1>1, <2>1, <2>3 DEF WorkOK
    <3>2. \E i \in DOMAIN ledger' : ledger'[i] = work'[r].tx
      BY <2>1, <3>1, AppendFacts
    <3>3. \A n \in DOMAIN notified : notified[n].tx.ts # work[r].tx.ts
      BY <2>1, <3>1 DEF TimestampFree, LedgerInv, NotifiedOnce
    <3>4. WorkOK(r)'
      BY <1>2, <2>1, <2>2, <3>2, <3>3 DEF WorkOK
    <3>5. \A q \in Request : Live(q) => work[q].tx.ts # work[r].tx.ts
      BY <1>1, <2>1, <3>1 DEF TimestampFree, WorkOK
    <3> QED
      BY <1>3, <1>4, <1>5, <2>1, <3>4, <3>5 DEF LedgerInv, WorkInv
  <2>4. CASE work[r].at # "waiting"
    <3>1. ~Live(r)' /\ WorkOK(r)'
      BY <2>1, <2>2, <2>4 DEF Live, WorkOK
    <3> QED
      BY <1>3, <1>6, <2>1, <3>1
  <2> QED
    BY <2>3, <2>4
<1>9. CASE CommitIntent(r)
  <2>1. /\ pc[r] = "committed" /\ pc'[r] \in {"served", "ended"}
        /\ work'[r].tx = work[r].tx /\ UNCHANGED ledger
        /\ work[r].at # "waiting" => work'[r] = work[r]
    <3>1. work[r] \in Work
      BY DEF TypeOK
    <3> QED
      BY <1>9, <3>1 DEF CommitIntent, TypeOK, Work
  <2>2. Live(r)' => Live(r)
    BY <2>1 DEF Live
  <2>3. WorkOK(r)'
    BY <1>1, <1>2, <2>1, <2>2 DEF WorkOK
  <2> QED
    BY <1>3, <1>6, <2>1, <2>2, <2>3
<1>10. ASSUME work'[r] = work[r], pc'[r] # "committed", pc'[r] # "intent",
              pc'[r] \in {"begin", "read"} => pc[r] \in {"begin", "read", "intent"}
       PROVE  WorkInv' /\ NotifiedOnce'
  <2>1. Live(r)' => Live(r)
    BY <1>10 DEF Live
  <2>2. pc'[r] \in {"begin", "read", "intent", "committed"} => work[r].at \notin {"running", "built"}
    BY <1>1, <1>10 DEF WorkOK
  <2>3. WorkOK(r)'
    BY <1>1, <1>2, <1>10, <2>1, <2>2, WorkKept
  <2> QED
    BY <1>3, <1>6, <1>10, <2>1, <2>3
<1>11. CASE ReadPayment(r) \/ NoIntent(r) \/ CommitUnknown(r) \/ Fail(r) \/ Retry(r)
            \/ InitPayment(r) \/ InitPending(r) \/ InitDone(r)
  BY <1>10, <1>11 DEF ReadPayment, NoIntent, CommitUnknown, Fail, Retry, RetryCounting, LockError,
                      InitPayment, InitPending, InitDone, TypeOK
<1> QED
  BY <1>3, <1>7, <1>8, <1>9, <1>11 DEF RequestStep

\* So does every step of a commit goroutine; what it posts is new.
LEMMA WorkKeepsWork ==
    ASSUME TypeOK, TypeOK', LedgerInv, NEW r \in Request, WorkStep(r)
    PROVE  WorkInv' /\ NotifiedOnce'
<1>1. /\ \A q \in Request : WorkOK(q)
      /\ WorkOK(r) /\ UNCHANGED <<ledger, pc, paymentTx>>
      /\ work[r] \in Work
  BY DEF LedgerInv, WorkInv, WorkStep, CommitIntentTimeout, NotifyBuild, NotifySend, NotifyFail, TypeOK
<1>2. \A q \in Request : q # r => work'[q] = work[q] /\ (Live(q)' <=> Live(q))
  BY <1>1, OthersWork DEF Live
<1>3. CASE CommitIntentTimeout(r) \/ NotifyFail(r)
  <2>1. ~Live(r)' /\ WorkOK(r)' /\ UNCHANGED notified
    BY <1>3 DEF CommitIntentTimeout, NotifyFail, NoWork, Live, WorkOK, TypeOK
  <2>2. \A q \in Request : WorkOK(q)'
    BY <1>1, <1>2, <2>1 DEF WorkOK
  <2>3. NotifiedOnce'
    BY <1>1, <2>1 DEF LedgerInv, NotifiedOnce
  <2> QED
    BY <1>2, <2>1, <2>2, <2>3 DEF LedgerInv, WorkInv
<1>4. CASE NotifyBuild(r)
  <2>1. /\ work'[r].at = "built" /\ work'[r].tx = work[r].tx /\ work[r].at = "running"
        /\ UNCHANGED notified
    BY <1>1, <1>4 DEF NotifyBuild, TypeOK, Work
  <2>2. \A q \in Request : WorkOK(q)' /\ (Live(q)' <=> Live(q)) /\ work'[q].tx = work[q].tx
    BY <1>1, <1>2, <2>1 DEF WorkOK, Live
  <2>3. NotifiedOnce'
    BY <1>1, <2>1 DEF LedgerInv, NotifiedOnce
  <2> QED
    BY <2>2, <2>3 DEF LedgerInv, WorkInv
<1>5. CASE NotifySend(r)
  <2>1. /\ work[r].at = "built" /\ Live(r)
        /\ work'[r] = NoWork /\ ~Live(r)'
    BY <1>5 DEF NotifySend, Live, NoWork, TypeOK
  <2> DEFINE n == Len(notified)
             note == [tx |-> work[r].tx, status |-> work[r].status,
                      rows |-> TransactionsBefore(work[r].tx)]
  <2>2. CASE UNCHANGED notified
    <3>1. \A q \in Request : WorkOK(q)'
      BY <1>1, <1>2, <2>1, <2>2 DEF WorkOK, NoWork
    <3>2. NotifiedOnce'
      BY <1>1, <2>2 DEF LedgerInv, NotifiedOnce
    <3> QED
      BY <1>2, <2>1, <3>1, <3>2 DEF LedgerInv, WorkInv
  <2>3. CASE notified' = Append(notified, note)
    <3>1. note \in Notification
      <4>1. TransactionsBefore(work[r].tx) \in SUBSET Row
        BY <1>1, TransactionsBeforeType DEF Work
      <4> QED
        BY <1>1, <4>1 DEF Work, Notification
    <3>2. /\ DOMAIN notified' = 1..(n + 1) /\ DOMAIN notified = 1..n /\ n \in Nat
          /\ notified'[n + 1] = note
          /\ \A m \in 1..n : notified'[m] = notified[m]
      BY <2>3, <3>1 DEF TypeOK
    <3>3. \A q \in Request : q # r => WorkOK(q)'
      <4> SUFFICES ASSUME NEW q \in Request, q # r PROVE WorkOK(q)'
        OBVIOUS
      <4>1. Live(q) => work[q].tx.ts # note.tx.ts
        BY <2>1 DEF LedgerInv, WorkInv
      <4>2. Live(q) => \A m \in 1..(n + 1) : notified'[m].tx.ts # work[q].tx.ts
        BY <1>1, <3>2, <4>1 DEF WorkOK
      <4> QED
        BY <1>1, <1>2, <3>2, <4>2 DEF WorkOK
    <3>4. WorkOK(r)'
      BY <2>1 DEF WorkOK, NoWork
    <3>5. NotifiedOnce'
      <4>1. /\ \E i \in DOMAIN ledger : ledger[i] = note.tx
            /\ \A m \in 1..n : notified[m].tx.ts # note.tx.ts
        BY <1>1, <2>1, <3>2 DEF WorkOK
      <4>2. \A m \in 1..(n + 1) : \E i \in DOMAIN ledger : notified'[m].tx = ledger[i]
        BY <3>2, <4>1 DEF LedgerInv, NotifiedOnce
      <4>3. \A k, m \in 1..(n + 1) : k # m => notified'[k].tx.ts # notified'[m].tx.ts
        BY <3>2, <4>1 DEF LedgerInv, NotifiedOnce
      <4> QED
        BY <1>1, <3>2, <4>2, <4>3 DEF NotifiedOnce
    <3> QED
      BY <1>2, <2>1, <3>3, <3>4, <3>5 DEF LedgerInv, WorkInv
  <2> QED
    BY <1>5, <2>2, <2>3 DEF NotifySend, Post
<1> QED
  BY <1>3, <1>4, <1>5 DEF WorkStep

\* The inductive invariant holds initially and is preserved by every step.
LEMMA LedgerInvInit == Init => TypeOK /\ LedgerInv
<1> SUFFICES ASSUME Init PROVE TypeOK /\ LedgerInv
  OBVIOUS
<1>1. TypeOK
  BY LedgerAssumption DEF Init, TypeOK, PC, NoRow, NoWork, NoPayment, Row, Work, Payment, Status
<1>2. RetriesInv /\ RowsInv /\ OpenFirst /\ NotifiedOnce
  BY LedgerAssumption DEF Init, RetriesInv, RowsInv, OpenFirst, NotifiedOnce
<1>3. RequestInv
  BY DEF Init, RequestInv, RequestOK, NoPayment, NoRow
<1>4. WorkInv
  BY DEF Init, WorkInv, WorkOK, Live, NoWork
<1> QED
  BY <1>1, <1>2, <1>3, <1>4 DEF LedgerInv

\* ... and every step of Next preserves it.
LEMMA LedgerInvStep == TypeOK /\ LedgerInv /\ [Next]_vars => TypeOK' /\ LedgerInv'
<1> SUFFICES ASSUME TypeOK, LedgerInv, [Next]_vars PROVE TypeOK' /\ LedgerInv'
  OBVIOUS
<1>1. TypeOK' /\ RetriesInv' /\ Extends
  BY TypeStep, RetriesStep, StepExtends DEF LedgerInv
<1>2. RowsInv' /\ OpenFirst' /\ RequestInv'
  BY <1>1, RowsStep, RequestsStep
<1>3. WorkInv' /\ NotifiedOnce'
  <2>1. CASE Crash
    <3>1. \A r \in Request : ~Live(r)' /\ WorkOK(r)'
      BY <2>1 DEF Crash, Live, WorkOK, NoWork
    <3> QED
      BY <2>1, <3>1 DEF Crash, WorkInv, LedgerInv, NotifiedOnce
  <2>2. CASE Replicate \/ UNCHANGED vars
    BY <2>2 DEF Replicate, vars, LedgerInv, WorkInv, WorkOK, Live, NotifiedOnce
  <2> QED
    BY <1>1, <2>1, <2>2, RequestKeepsWork, WorkKeepsWork DEF Next
<1> QED
  BY <1>1, <1>2, <1>3 DEF LedgerInv

\* The inductive invariant holds in every reachable state, for any number of
\* concurrent requests.
THEOREM LedgerInvariant == Spec => [](TypeOK /\ LedgerInv)
  BY LedgerInvInit, LedgerInvStep, PTL DEF Spec

\* However requests, retries, lost commits and crashes interleave, no payment
\* is pending, paid, authorized or cancelled without an older open row.
THEOREM OpensFirst == Spec => []OpenFirst
<1>1. LedgerInv => OpenFirst
  BY DEF LedgerInv
<1> QED
  BY <1>1, LedgerInvariant, PTL

\* A notification is posted at most once per transaction, and only for a
\* committed one.
THEOREM NotifiesOnce == Spec => []NotifiedOnce
<1>1. LedgerInv => NotifiedOnce
  BY DEF LedgerInv
<1> QED
  BY <1>1, LedgerInvariant, PTL

\* A payment is ended twice only by overlapping requests or after it was opened
\* again: the snapshot a later ending row rests on either misses the earlier
\* ending row or has a newer open row.
THEOREM EndsAtMostOnce == Spec => []EndsOnce
<1>1. ASSUME TypeOK, LedgerInv PROVE EndsOnce
  <2> SUFFICES ASSUME NEW i \in DOMAIN ledger, NEW j \in DOMAIN ledger, i < j,
                      ledger[i].status \in Ending, ledger[j].status \in Ending,
                      ~(ledger[j].base < i)
               PROVE  \E k \in 1..ledger[j].base : /\ ledger[k].status = "open"
                                                   /\ ledger[k].ts > ledger[i].ts
    BY DEF EndsOnce
  <2>1. /\ DOMAIN ledger = 1..Len(ledger) /\ Len(ledger) \in Nat
        /\ \A k \in DOMAIN ledger : ledger[k] \in Row
    BY <1>1, LedgerType
  <2>2. RowOK(j) /\ ledger[j].base \in Nat
    BY <1>1, <2>1 DEF LedgerInv, RowsInv, Row
  <2>3. i \in 1..ledger[j].base
    BY <2>1, <2>2
  <2>4. PICK k \in 1..ledger[j].base : /\ ledger[k].status = "open"
                                       /\ ledger[i].ts <= ledger[k].ts
    BY <2>2, <2>3 DEF RowOK, RestsOnOpen
  <2>5. k \in DOMAIN ledger /\ k # i
    BY <2>1, <2>2, <2>4 DEF RowOK, Ending
  <2>6. ledger[i].ts # ledger[k].ts
    BY <1>1, <2>5 DEF LedgerInv, RowsInv
  <2>7. ledger[i].ts \in Nat /\ ledger[k].ts \in Nat
    BY <2>1, <2>5 DEF Row
  <2> QED
    BY <2>4, <2>6, <2>7
<1> QED
  BY <1>1, LedgerInvariant, PTL

\* Without a read-only replica the history a notification totals contains the
\* transaction it is about; with one this is refuted by model checking.
THEOREM NotificationsComplete ==
    ASSUME ~Replicated PROVE Spec => []NotificationHasTransaction
<1>1. Init => NotificationHasTransaction
  BY DEF Init, NotificationHasTransaction
<1>2. ASSUME TypeOK, LedgerInv, NotificationHasTransaction, [Next]_vars
      PROVE  NotificationHasTransaction'
  <2>1. CASE UNCHANGED notified
    BY <1>2, <2>1 DEF NotificationHasTransaction
  <2>2. ASSUME NEW r \in Request, NotifySend(r) PROVE NotificationHasTransaction'
    <3>1. Live(r) /\ WorkOK(r) /\ work[r] \in Work
      BY <1>2, <2>2 DEF NotifySend, Live, LedgerInv, WorkInv, TypeOK
    <3>2. PICK i \in DOMAIN ledger : ledger[i] = work[r].tx
      BY <3>1 DEF WorkOK
    <3>3. work[r].tx \in ReadOnlyRows
      BY <1>2, <3>2, LedgerType DEF ReadOnlyRows
    <3>4. work[r].tx \in TransactionsBefore(work[r].tx)
      BY <3>1, <3>3 DEF TransactionsBefore, Work, Row
    <3>5. notified' = Append(notified, [tx |-> work[r].tx, status |-> work[r].status,
                                        rows |-> TransactionsBefore(work[r].tx)])
      BY <2>2, <3>4 DEF NotifySend, Post
    <3>6. [tx |-> work[r].tx, status |-> work[r].status,
           rows |-> TransactionsBefore(work[r].tx)] \in Notification
      <4>1. TransactionsBefore(work[r].tx) \in SUBSET Row
        BY <1>2, <3>1, TransactionsBeforeType DEF Work
      <4> QED
        BY <3>1, <4>1 DEF Work, Notification
    <3>7. \A n \in DOMAIN notified' :
              \/ n \in DOMAIN notified /\ notified'[n] = notified[n]
              \/ notified'[n] = [tx |-> work[r].tx, status |-> work[r].status,
                                 rows |-> TransactionsBefore(work[r].tx)]
      BY <1>2, <3>5, <3>6 DEF TypeOK
    <3> QED
      BY <1>2, <3>4, <3>7 DEF NotificationHasTransaction
  <2>3. ASSUME NEW r \in Request, RequestStep(r) PROVE UNCHANGED notified
    BY <2>3 DEF RequestStep, IntentOpen, IntentCancel, IntentPaid, IntentAuthorized, EndIntent,
         handleIntent, CommitTx, CommitUnknown, InitDone, Fail, Retry, RetryCounting, LockError, ReadPayment,
         NoIntent, CommitIntent, InitPayment, InitPending
  <2>4. ASSUME NEW r \in Request, WorkStep(r) PROVE UNCHANGED notified \/ NotifySend(r)
    BY <2>4 DEF WorkStep, CommitIntentTimeout, NotifyBuild, NotifyFail
  <2>5. CASE Replicate \/ Crash \/ UNCHANGED vars
    BY <2>1, <2>5 DEF Replicate, Crash, vars
  <2> QED
    BY <1>2, <2>1, <2>2, <2>3, <2>4, <2>5 DEF Next
<1> QED
  BY <1>1, <1>2, LedgerInvariant, PTL DEF Spec

\* The commit goroutine and the Payment it shares with its request agree, as long
\* as no driver reads the payment again after the CommitIntentFunc was called.
StatusOK(r) ==
    /\ pc[r] \notin {"init", "pending"}
    /\ pc[r] \in {"intent", "committed"} /\ work[r].at = "waiting" =>
           payment[r].status = work[r].tx.status
    /\ work[r].at = "running" => /\ pc[r] \in {"served", "ended"}
                                 /\ payment[r].status = work[r].tx.status
    /\ work[r].at = "built" => work[r].status = work[r].tx.status
StatusInv == NotificationStatus /\ \A r \in Request : StatusOK(r)

\* A step of the request keeps them in agreement: only fritzpay's changes the
\* Payment after the CommitIntentFunc was called.
LEMMA RequestKeepsStatus ==
    ASSUME "fritzpay" \notin Providers, TypeOK, WorkInv, NEW r \in Request, StatusOK(r), RequestStep(r)
    PROVE  StatusOK(r)'
<1>0. work[r] \in Work /\ payment[r] \in Payment /\ WorkOK(r)
  BY DEF TypeOK, WorkInv
<1>1. CASE ReadPayment(r)
  BY <1>0, <1>1 DEF ReadPayment, StatusOK, WorkOK, TypeOK
<1>2. ASSUME NEW s \in Status, handleIntent(r, s) PROVE StatusOK(r)'
  <2>1. /\ pc'[r] = "intent" /\ payment'[r].status = s /\ paymentTx'[r].status = s
        /\ work'[r] = [at |-> "waiting", tx |-> paymentTx'[r], status |-> "uninitialized"]
    BY <1>0, <1>2 DEF handleIntent, NewTransaction, TypeOK, Payment
  <2> QED
    BY <2>1 DEF StatusOK
<1>3. CASE IntentOpen(r) \/ IntentCancel(r) \/ IntentPaid(r) \/ IntentAuthorized(r)
  BY <1>2, <1>3 DEF IntentOpen, IntentCancel, IntentPaid, IntentAuthorized, EndIntent, Status
<1>4. CASE NoIntent(r) \/ CommitTx(r) \/ CommitUnknown(r) \/ Fail(r) \/ Retry(r)
  BY <1>0, <1>4 DEF NoIntent, CommitTx, CommitUnknown, Fail, Retry, RetryCounting, LockError, StatusOK, WorkOK, TypeOK
<1>5. CASE CommitIntent(r)
  <2>1. /\ pc[r] = "committed" /\ pc'[r] \in {"served", "ended"} /\ UNCHANGED payment
        /\ IF work[r].at = "waiting" THEN work'[r].at = "running" /\ work'[r].tx = work[r].tx
                                     ELSE work'[r] = work[r]
    BY <1>0, <1>5 DEF CommitIntent, TypeOK, Work
  <2> QED
    BY <1>0, <2>1 DEF StatusOK, WorkOK
<1>6. CASE InitPayment(r) \/ InitPending(r) \/ InitDone(r)
  BY <1>6 DEF InitPayment, InitPending, InitDone, StatusOK
<1> QED
  BY <1>1, <1>3, <1>4, <1>5, <1>6 DEF RequestStep

\* So does a step of the goroutine.
LEMMA WorkKeepsStatus ==
    ASSUME TypeOK, NEW r \in Request, StatusOK(r), WorkStep(r)
    PROVE  StatusOK(r)'
<1>0. work[r] \in Work
  BY DEF TypeOK
<1>1. CASE CommitIntentTimeout(r) \/ NotifySend(r) \/ NotifyFail(r)
  BY <1>1 DEF CommitIntentTimeout, NotifySend, NotifyFail, NoWork, StatusOK, TypeOK
<1>2. CASE NotifyBuild(r)
  <2>1. /\ work[r].at = "running" /\ work'[r].at = "built" /\ work'[r].tx = work[r].tx
        /\ work'[r].status = payment[r].status /\ UNCHANGED <<pc, payment>>
    BY <1>0, <1>2 DEF NotifyBuild, TypeOK, Work
  <2> QED
    BY <2>1 DEF StatusOK
<1> QED
  BY <1>1, <1>2 DEF WorkStep

\* Another request's step leaves the Payment alone.
LEMMA OthersPayment ==
    ASSUME TypeOK, NEW r \in Request, RequestStep(r) \/ WorkStep(r), NEW q \in Request, q # r
    PROVE  payment'[q] = payment[q]
<1>1. WorkStep(r) => UNCHANGED payment
  BY DEF WorkStep, CommitIntentTimeout, NotifyBuild, NotifySend, NotifyFail
<1>2. RequestStep(r) => \/ UNCHANGED payment
                        \/ \E p : payment' = [payment EXCEPT ![r] = p]
                        \/ \E s : payment' = [payment EXCEPT ![r].status = s]
  <2>1. CASE IntentOpen(r) \/ IntentCancel(r) \/ IntentPaid(r) \/ IntentAuthorized(r) \/ InitPending(r)
    BY <2>1 DEF IntentOpen, IntentCancel, IntentPaid, IntentAuthorized, EndIntent, handleIntent,
                NewTransaction, InitPending
  <2>2. CASE ReadPayment(r) \/ InitPayment(r)
    BY <2>2 DEF ReadPayment, InitPayment
  <2>3. CASE CommitTx(r) \/ CommitUnknown(r) \/ InitDone(r) \/ Fail(r) \/ Retry(r) \/ NoIntent(r) \/ CommitIntent(r)
    BY <2>3 DEF CommitTx, CommitUnknown, InitDone, Fail, Retry, RetryCounting, LockError, NoIntent, CommitIntent
  <2> QED
    BY <2>1, <2>2, <2>3 DEF RequestStep
<1> QED
  BY <1>1, <1>2 DEF TypeOK

\* A notification carries the status of its transaction whatever other requests
\* have made of the payment since (callback.go:95); with fritzpay's driver, which
\* reads the payment again, this is refuted by model checking.
THEOREM NotificationsTellStatus ==
    ASSUME "fritzpay" \notin Providers PROVE Spec => []NotificationStatus
<1>1. Init => StatusInv
  BY DEF Init, StatusInv, StatusOK, NotificationStatus, NoWork
<1>2. TypeOK /\ LedgerInv /\ StatusInv /\ [Next]_vars => StatusInv'
  <2> SUFFICES ASSUME TypeOK, LedgerInv, StatusInv, [Next]_vars PROVE StatusInv'
    OBVIOUS
  <2>0. WorkInv /\ \A r \in Request : StatusOK(r)
    BY DEF LedgerInv, StatusInv
  <2>1. ASSUME NEW r \in Request, RequestStep(r) \/ WorkStep(r), NEW q \in Request
        PROVE  StatusOK(q)'
    <3>1. CASE q = r
      BY <2>0, <2>1, <3>1, RequestKeepsStatus, WorkKeepsStatus
    <3>2. CASE q # r
      BY <2>0, <2>1, <3>2, OthersWork, OthersPayment DEF StatusOK
    <3> QED
      BY <3>1, <3>2
  <2>2. ASSUME NEW q \in Request, Crash PROVE StatusOK(q)'
    <3>1. work'[q] = NoWork /\ pc'[q] \in {"ended", "failed", pc[q]}
      BY <2>2 DEF Crash
    <3> QED
      BY <2>0, <3>1 DEF StatusOK, NoWork
  <2>3. CASE Replicate \/ UNCHANGED vars
    BY <2>3 DEF Replicate, vars, StatusInv, StatusOK, NotificationStatus
  <2>4. ASSUME UNCHANGED notified PROVE NotificationStatus'
    BY <2>4 DEF StatusInv, NotificationStatus
  <2>5. ASSUME NEW r \in Request, NotifySend(r) PROVE NotificationStatus'
    <3> DEFINE note == [tx |-> work[r].tx, status |-> work[r].status,
                        rows |-> TransactionsBefore(work[r].tx)]
    <3>1. work[r].status = work[r].tx.status /\ work[r] \in Work
      BY <2>0, <2>5 DEF NotifySend, StatusOK, TypeOK
    <3>2. TransactionsBefore(work[r].tx) \in SUBSET Row
      BY <3>1, TransactionsBeforeType DEF Work
    <3>3. note \in Notification /\ note.status = note.tx.status
      BY <3>1, <3>2 DEF Work, Notification
    <3> HIDE DEF note
    <3>4. notified' = notified \/ notified' = Append(notified, note)
      BY <2>5 DEF NotifySend, Post, note
    <3>5. \A n \in DOMAIN notified' : notified'[n] = note \/ (n \in DOMAIN notified /\ notified'[n] = notified[n])
      <4>1. notified \in Seq(Notification)
        BY DEF TypeOK
      <4> QED
        BY <3>3, <3>4, <4>1
    <3> QED
      BY <3>3, <3>5 DEF StatusInv, NotificationStatus
  <2>6. ASSUME NEW r \in Request, RequestStep(r) \/ WorkStep(r) PROVE UNCHANGED notified \/ NotifySend(r)
    <3>1. CASE RequestStep(r)
      BY <3>1 DEF RequestStep, IntentOpen, IntentCancel, IntentPaid, IntentAuthorized, EndIntent,
           handleIntent, CommitTx, CommitUnknown, InitDone, Fail, Retry, RetryCounting, LockError, ReadPayment,
           NoIntent, CommitIntent, InitPayment, InitPending
    <3>2. CASE WorkStep(r)
      BY <3>2 DEF WorkStep, CommitIntentTimeout, NotifyBuild, NotifyFail
    <3> QED
      BY <2>6, <3>1, <3>2
  <2>7. NotificationStatus'
    BY <2>3, <2>4, <2>5, <2>6 DEF Next, Crash, StatusInv
  <2>8. (\A q \in Request : StatusOK(q)') \/ Replicate \/ UNCHANGED vars
    BY <2>1, <2>2 DEF Next
  <2> QED
    BY <2>3, <2>7, <2>8 DEF StatusInv
<1>3. StatusInv => NotificationStatus
  BY DEF StatusInv
<1> QED
  BY <1>1, <1>2, <1>3, LedgerInvariant, PTL DEF Spec

=============================================================================
