------------------------- MODULE PayPalDriverProofs -------------------------
(***************************************************************************)
(* The PayPal driver implements the payment ledger: whatever its handlers  *)
(* and goroutines do, the payment_transaction table changes as             *)
(* PaymentLedger says, so what is proved there holds for the driver.       *)
(***************************************************************************)
EXTENDS PayPalDriver, PaymentLedgerProofs, FiniteSetTheorems

\* A step of a driver's request is a step of the request of the ledger or leaves
\* the ledger alone.
LEMMA DriverMoves ==
    ASSUME NEW r \in Request, DriverStep(r) PROVE RequestStep(r) \/ UNCHANGED vars
<1>1. CASE Open(r)
  BY <1>1 DEF Open, RequestStep
<1>2. CASE DriverInitPayment(r) \/ InitCommit(r) \/ doInit(r) \/ InitResponse(r) \/ ErrorStep(r) \/ ReturnExecute(r)
  BY <1>2 DEF DriverInitPayment, InitCommit, doInit, InitResponse, ErrorStep, ReturnExecute
<1>3. CASE ReturnRead(r) \/ ReturnSkip(r) \/ ReturnFail(r) \/ ExecuteNotify(r)
  BY <1>3 DEF ReturnRead, ReturnSkip, ReturnFail, ExecuteNotify, RequestStep
<1>4. CASE ReturnCommit(r) \/ executePayment(r)
  BY <1>4 DEF ReturnCommit, executePayment, RequestStep
<1>5. CASE ExecuteIntent(r)
  BY <1>5 DEF ExecuteIntent, RequestStep
<1>6. CASE ExecuteCommit(r)
  BY <1>6 DEF ExecuteCommit, RequestStep
<1>7. CASE CancelHandler(r)
  BY <1>7 DEF CancelHandler, RequestStep
<1> QED
  BY <1>1, <1>2, <1>3, <1>4, <1>5, <1>6, <1>7 DEF DriverStep, PayerStep, ReturnStep

\* Every step of the driver is a step of the ledger or leaves it alone.
LEMMA DriverStepRefines == [DriverNext]_allVars => [Next]_vars
<1> SUFFICES ASSUME [DriverNext]_allVars PROVE [Next]_vars
  OBVIOUS
<1>1. CASE DriverCrash
  BY <1>1 DEF DriverCrash, Next
<1>2. ASSUME NEW r \in Request, DriverStep(r) PROVE [Next]_vars
  BY <1>2, DriverMoves DEF Next
<1>3. CASE UNCHANGED allVars
  BY <1>3 DEF allVars
<1> QED
  BY <1>1, <1>2, <1>3 DEF DriverNext

\* The driver implements the ledger.
THEOREM DriverImplementsLedger == DriverSpec => Spec
<1>1. DriverInit => Init
  BY DEF DriverInit
<1> QED
  BY <1>1, DriverStepRefines, PTL DEF DriverSpec, Spec

\* So with the PayPal driver a payment is ended twice only by overlapping
\* requests or after it was opened again.
THEOREM DriverEndsOnce == DriverSpec => []EndsOnce
  BY DriverImplementsLedger, EndsAtMostOnce, PTL

----------------------------------------------------------------------------
(* The inductive invariant of the driver's own table.                      *)

\* Where a request can be, and what its payment transaction says.
PlaceOK(r) ==
    /\ pc[r] \notin {"init", "pending"}
    /\ step[r] # "idle" => pc[r] # "begin"
    /\ step[r] \in {"create", "doInit", "created"} => r \in Payer
    /\ step[r] \in {"execute", "intent", "post", "answered"} => r \in Returner
    /\ step[r] \in {"post", "answered"} => pc[r] = "intent"
    /\ pc[r] = "intent" => \/ r \in Payer /\ paymentTx[r].status = "open"
                           \/ r \in Canceller /\ paymentTx[r].status = "cancelled"
                           \/ r \in Returner /\ paymentTx[r].status \in {"paid", "authorized"}

\* A row of the driver is stamped by the clock and about a PayPal payment that
\* some PaymentHandler created.
Stamped(x) == x.ts <= clock /\ x.pay \in Payer

\* The rows a request is about to insert, at each step.
RowsOf(s) == CASE s = "create"   -> {"CreatePayment"}
               [] s = "created"  -> {"CreatePaymentResponse", "Error"}
               [] s = "execute"  -> {"ExecutePayment"}
               [] s = "answered" -> {"ExecutePaymentResponse"}
               [] s = "error"    -> {"Error"}
               [] OTHER          -> {}
PendingOK(r) ==
    /\ \A n \in DOMAIN rows[r] : /\ Stamped(rows[r][n]) /\ rows[r][n].type \in RowsOf(step[r])
                                 /\ rows[r][n].type = "CreatePaymentResponse" => n = 1 /\ rows[r][n].pay = r
                                 /\ \A m \in DOMAIN rows[r] : m # n => rows[r][m].ts # rows[r][n].ts
    /\ step[r] = "execute" => /\ seen[r][1].type = "CreatePaymentResponse"
                              /\ \A n \in DOMAIN rows[r] : rows[r][n].pay = seen[r][1].pay
                                                           /\ rows[r][n].base = seen[r][1].base
                                                           /\ seen[r][1].ts <= rows[r][n].ts
    /\ step[r] = "answered" => Len(rows[r]) = 1 /\ rows[r][1].pay = seen[r][1].pay

\* The newest of the first n rows of a table: type t, PayPal payment p, timestamp ts.
NewestOf(table, n, t, p, ts) ==
    \E k \in 1..n : /\ table[k].type = t /\ table[k].pay = p /\ table[k].ts = ts
                    /\ \A m \in 1..n : table[m].ts <= ts

\* What ReturnHandler read was the newest row of its snapshot.
SeenOK(r) ==
    /\ r \in Returner /\ (pc[r] = "read" \/ step[r] \in {"execute", "intent", "post", "answered"}) =>
           seen[r] # <<>>
    /\ seen[r] # <<>> => /\ Stamped(seen[r][1]) /\ seen[r][1].base <= Len(paypal)
                         /\ NewestOf(paypal, seen[r][1].base, seen[r][1].type, seen[r][1].pay, seen[r][1].ts)

\* PayPal has executed a payment it answered for, and answered once.
AnsweredOK(r) ==
    step[r] = "answered" =>
        /\ seen[r][1].pay \in executed
        /\ \A i \in DOMAIN paypal : paypal[i].type = "ExecutePaymentResponse" => paypal[i].pay # seen[r][1].pay
        /\ \A q \in Request : step[q] = "answered" /\ q # r => seen[q][1].pay # seen[r][1].pay

\* The rows of the table.  An execute request rests on a snapshot whose newest
\* row was the answer to the create request.
TableRowOK(i) ==
    /\ Stamped(paypal[i])
    /\ paypal[i].type = "CreatePaymentResponse" => step[paypal[i].pay] \in {"error", "done"}
    /\ paypal[i].type = "ExecutePayment" =>
           /\ paypal[i].base <= Len(paypal)
           /\ \E ts \in 0..paypal[i].ts : NewestOf(paypal, paypal[i].base, "CreatePaymentResponse", paypal[i].pay, ts)
    /\ paypal[i].type = "ExecutePaymentResponse" => paypal[i].pay \in executed
TableInv ==
    /\ \A i \in DOMAIN paypal : TableRowOK(i)
    /\ \A i, j \in DOMAIN paypal : i # j =>
           /\ paypal[i].ts # paypal[j].ts
           /\ paypal[i].type = paypal[j].type /\ paypal[i].type \in {"CreatePaymentResponse", "ExecutePaymentResponse"}
                  => paypal[i].pay # paypal[j].pay

PlaceInv == \A r \in Request : PlaceOK(r)
PendingInv == \A r \in Request : PendingOK(r)
SeenInv == \A r \in Request : SeenOK(r)
AnsweredInv == \A r \in Request : AnsweredOK(r)

\* The responses of the driver's table, which TablesAgree counts.
Responses == {i \in DOMAIN paypal : paypal[i].type = "ExecutePaymentResponse"}
CountInv == IsFiniteSet(executed) /\ Cardinality(Charged) = Cardinality(Responses)

DriverInv == PlaceInv /\ PendingInv /\ SeenInv /\ AnsweredInv /\ TableInv /\ CountInv

----------------------------------------------------------------------------
(* Types and frames.                                                       *)

\* What an insert does to the table.
LEMMA InsertFacts ==
    ASSUME DriverTypeOK, NEW r \in Request, Insert(r)
    PROVE  LET n == Len(paypal)
               m == Len(rows[r])
           IN  /\ n \in Nat /\ m \in Nat /\ paypal' \in Seq(PayPalRow)
               /\ Len(paypal') = n + m /\ DOMAIN paypal' = 1..(n + m)
               /\ DOMAIN paypal = 1..n /\ DOMAIN rows[r] = 1..m
               /\ \A i \in 1..n : paypal'[i] = paypal[i]
               /\ \A i \in 1..m : paypal'[n + i] = rows[r][i]
<1>1. paypal \in Seq(PayPalRow) /\ rows[r] \in Seq(PayPalRow) /\ paypal' = paypal \o rows[r]
  BY DEF DriverTypeOK, Insert
<1> QED
  BY <1>1

\* A stamp does not turn the clock back.
LEMMA StampFacts ==
    ASSUME DriverTypeOK, Stamp PROVE clock' \in 0..MaxTime /\ clock <= clock' /\ clock' \in Nat
  BY LedgerAssumption DEF Stamp, DriverTypeOK

\* A new row has its type.
LEMMA NewRowType ==
    ASSUME DriverTypeOK, Stamp, NEW t \in Type, NEW pay \in Request
    PROVE  NewRow(t, pay) \in PayPalRow /\ NewRow(t, pay).ts = clock' /\ NewRow(t, pay).type = t
           /\ NewRow(t, pay).pay = pay
  BY StampFacts DEF NewRow, PayPalRow

\* What ReturnHandler read is a row.
LEMMA SeenType ==
    ASSUME DriverTypeOK, SeenInv, NEW r \in Request, seen[r] # <<>>
    PROVE  seen[r][1] \in PayPalRow /\ seen[r][1].pay \in Payer
  BY DEF DriverTypeOK, SeenInv, SeenOK, Stamped

\* The steps that leave the driver's variables alone.
Quiet(r) == Open(r) \/ ReturnFail(r) \/ ExecuteNotify(r) \/ CancelHandler(r)

\* They do leave them alone.
LEMMA QuietStep ==
    ASSUME NEW r \in Request, Quiet(r) PROVE UNCHANGED driverVars
  BY DEF Quiet, Open, ReturnFail, ExecuteNotify, CancelHandler

\* Every step keeps the driver's variables in their types.
LEMMA DriverTypeStep ==
    ASSUME TypeOK, DriverTypeOK, PlaceInv, SeenInv, [DriverNext]_allVars PROVE DriverTypeOK'
<1> USE PayPalAssumption
<1>0. /\ clock \in 0..MaxTime /\ clock \in Nat
      /\ \A s \in Type : s \in Type
      /\ {"CreatePayment", "CreatePaymentResponse", "ExecutePayment", "ExecutePaymentResponse", "Error"} \subseteq Type
  BY LedgerAssumption DEF DriverTypeOK, Type
<1>1. ASSUME UNCHANGED <<clock, step, rows, executed>>, paypal' \in Seq(PayPalRow),
             seen' \in [Request -> Seq(PayPalRow)]
      PROVE  DriverTypeOK'
  BY <1>1 DEF DriverTypeOK
<1>2. ASSUME NEW r \in Request, NEW s \in Step, Goto(r, s), clock' \in 0..MaxTime,
             paypal' \in Seq(PayPalRow), executed' \subseteq Payer, UNCHANGED seen
      PROVE  DriverTypeOK'
  BY <1>2 DEF Goto, DriverTypeOK
<1>3. ASSUME NEW r \in Request, NEW s \in Step, NEW new \in Seq(PayPalRow), Prepare(r, s, new), clock' \in 0..MaxTime,
             paypal' \in Seq(PayPalRow), executed' \subseteq Payer, UNCHANGED seen
      PROVE  DriverTypeOK'
  BY <1>3 DEF Prepare, DriverTypeOK
<1>4. ASSUME NEW r \in Request PROVE Insert(r) \/ UNCHANGED paypal => paypal' \in Seq(PayPalRow)
  BY InsertFacts DEF DriverTypeOK
<1>5. UNCHANGED executed => executed' \subseteq Payer
  BY DEF DriverTypeOK
<1>6. ASSUME NEW r \in Request, NEW pay \in Request, setPayPalError(r, pay),
             paypal' \in Seq(PayPalRow), executed' \subseteq Payer, UNCHANGED seen
      PROVE  DriverTypeOK'
  <2>1. Stamp /\ Prepare(r, "error", <<NewRow("Error", pay)>>)
    BY <1>6 DEF setPayPalError
  <2>2. <<NewRow("Error", pay)>> \in Seq(PayPalRow)
    BY <1>0, <2>1, NewRowType
  <2> QED
    BY <1>3, <1>6, <2>1, <2>2, StampFacts DEF Step
<1>7. ASSUME UNCHANGED driverVars PROVE DriverTypeOK'
  BY <1>7 DEF driverVars, DriverTypeOK
<1>8. ASSUME NEW r \in Request, DriverInitPayment(r) PROVE DriverTypeOK'
  <2>1. CASE Goto(r, "done") /\ UNCHANGED clock
    BY <1>0, <1>2, <1>4, <1>5, <1>8, <2>1 DEF DriverInitPayment, Step
  <2>2. CASE Stamp /\ Prepare(r, "create", <<NewRow("CreatePayment", r)>>)
    <3>1. <<NewRow("CreatePayment", r)>> \in Seq(PayPalRow)
      BY <1>0, <2>2, NewRowType
    <3> QED
      BY <1>3, <1>4, <1>5, <1>8, <2>2, <3>1, StampFacts DEF DriverInitPayment, Step
  <2> QED
    BY <1>8, <2>1, <2>2 DEF DriverInitPayment
<1>9. ASSUME NEW r \in Request, InitCommit(r) PROVE DriverTypeOK'
  BY <1>0, <1>2, <1>4, <1>5, <1>9 DEF InitCommit, Step
<1>10. ASSUME NEW r \in Request, doInit(r) PROVE DriverTypeOK'
  <2>0. paypal' \in Seq(PayPalRow) /\ executed' \subseteq Payer /\ UNCHANGED seen
    BY <1>4, <1>5, <1>10 DEF doInit
  <2>1. CASE Stamp /\ Prepare(r, "created", <<NewRow("CreatePaymentResponse", r)>>)
    <3>1. <<NewRow("CreatePaymentResponse", r)>> \in Seq(PayPalRow)
      BY <1>0, <2>1, NewRowType
    <3> QED
      BY <1>3, <2>0, <2>1, <3>1, StampFacts DEF Step
  <2>2. CASE /\ clock' = clock + 2 /\ clock' <= MaxTime
             /\ Prepare(r, "created", <<[NewRow("CreatePaymentResponse", r) EXCEPT !.ts = clock + 1],
                                        NewRow("Error", r)>>)
    <3>1. clock' \in 0..MaxTime /\ clock' \in Nat
      BY <1>0, <2>2, LedgerAssumption
    <3>2. /\ [NewRow("CreatePaymentResponse", r) EXCEPT !.ts = clock + 1] \in PayPalRow
          /\ NewRow("Error", r) \in PayPalRow
      BY <1>0, <3>1 DEF NewRow, PayPalRow
    <3>3. <<[NewRow("CreatePaymentResponse", r) EXCEPT !.ts = clock + 1], NewRow("Error", r)>> \in Seq(PayPalRow)
      BY <3>2
    <3> QED
      BY <1>3, <2>0, <2>2, <3>1, <3>3 DEF Step
  <2>3. CASE setPayPalError(r, r)
    BY <1>6, <2>0, <2>3
  <2>4. CASE Goto(r, "done") /\ UNCHANGED clock
    BY <1>0, <1>2, <2>0, <2>4 DEF Step
  <2> QED
    BY <1>10, <2>1, <2>2, <2>3, <2>4 DEF doInit
<1>11. ASSUME NEW r \in Request, InitResponse(r) PROVE DriverTypeOK'
  BY <1>0, <1>2, <1>4, <1>5, <1>6, <1>11 DEF InitResponse, Step
<1>12. ASSUME NEW r \in Request, ReturnRead(r) PROVE DriverTypeOK'
  <2>1. PICK i \in Newest : seen' = [seen EXCEPT ![r] = <<[paypal[i] EXCEPT !.base = Len(paypal)]>>]
    BY <1>12 DEF ReturnRead
  <2>2. paypal[i] \in PayPalRow /\ Len(paypal) \in Nat
    BY DEF Newest, DriverTypeOK
  <2>3. [paypal[i] EXCEPT !.base = Len(paypal)] \in PayPalRow
    BY <2>2 DEF PayPalRow
  <2>4. seen' \in [Request -> Seq(PayPalRow)]
    BY <2>1, <2>3 DEF DriverTypeOK
  <2> QED
    BY <1>1, <1>12, <2>4 DEF ReturnRead, DriverTypeOK
<1>13. ASSUME NEW r \in Request, ReturnSkip(r) PROVE DriverTypeOK'
  BY <1>0, <1>2, <1>4, <1>5, <1>13 DEF ReturnSkip, Step
<1>14. ASSUME NEW r \in Request, ReturnExecute(r) PROVE DriverTypeOK'
  <2>1. seen[r] # <<>>
    BY <1>14 DEF ReturnExecute, SeenInv, SeenOK
  <2>2. seen[r][1] \in PayPalRow /\ seen[r][1].pay \in Request /\ seen[r][1].base \in Nat
    BY <2>1, SeenType DEF PayPalRow
  <2>3. Stamp
    BY <1>14 DEF ReturnExecute
  <2>4. NewRow("ExecutePayment", seen[r][1].pay) \in PayPalRow
    BY <1>0, <2>2, <2>3, NewRowType
  <2>5. [NewRow("ExecutePayment", seen[r][1].pay) EXCEPT !.base = seen[r][1].base] \in PayPalRow
    BY <2>2, <2>4 DEF PayPalRow
  <2>6. <<[NewRow("ExecutePayment", seen[r][1].pay) EXCEPT !.base = seen[r][1].base]>> \in Seq(PayPalRow)
    BY <2>5
  <2> QED
    BY <1>3, <1>4, <1>5, <1>14, <2>3, <2>6, StampFacts DEF ReturnExecute, Step
<1>15. ASSUME NEW r \in Request, ReturnCommit(r) PROVE DriverTypeOK'
  BY <1>0, <1>2, <1>4, <1>5, <1>15 DEF ReturnCommit, Step
<1>16. ASSUME NEW r \in Request, step[r] \in {"intent", "post", "answered"}
       PROVE  seen[r][1] \in PayPalRow /\ seen[r][1].pay \in Payer /\ seen[r][1].pay \in Request
  <2>1. seen[r] # <<>>
    BY <1>16 DEF SeenInv, SeenOK, PlaceInv, PlaceOK
  <2> QED
    BY <2>1, SeenType
<1>17. ASSUME NEW r \in Request, ExecuteIntent(r) PROVE DriverTypeOK'
  BY <1>0, <1>2, <1>4, <1>5, <1>6, <1>16, <1>17 DEF ExecuteIntent, Step
<1>18. ASSUME NEW r \in Request, executePayment(r) PROVE DriverTypeOK'
  <2>1. seen[r][1].pay \in Payer /\ seen[r][1].pay \in Request
    BY <1>16, <1>18 DEF executePayment
  <2>2. executed' \subseteq Payer /\ UNCHANGED <<paypal, seen>>
    BY <1>18, <2>1 DEF executePayment, PayPalExecutes, DriverTypeOK
  <2>3. CASE Stamp /\ Prepare(r, "answered", <<NewRow("ExecutePaymentResponse", seen[r][1].pay)>>)
    <3>1. <<NewRow("ExecutePaymentResponse", seen[r][1].pay)>> \in Seq(PayPalRow)
      BY <1>0, <2>1, <2>3, NewRowType
    <3> QED
      BY <1>3, <1>4, <2>2, <2>3, <3>1, StampFacts DEF Step
  <2>4. CASE setPayPalError(r, seen[r][1].pay)
    BY <1>4, <1>6, <2>1, <2>2, <2>4
  <2>5. CASE Goto(r, "done") /\ UNCHANGED clock
    BY <1>0, <1>2, <1>4, <2>2, <2>5 DEF Step
  <2> QED
    BY <1>18, <2>3, <2>4, <2>5 DEF executePayment
<1>19. ASSUME NEW r \in Request, ExecuteCommit(r) PROVE DriverTypeOK'
  BY <1>0, <1>2, <1>4, <1>5, <1>6, <1>16, <1>19 DEF ExecuteCommit, Step
<1>20. ASSUME NEW r \in Request, ErrorStep(r) PROVE DriverTypeOK'
  BY <1>0, <1>2, <1>4, <1>5, <1>20 DEF ErrorStep, Step
<1>21. CASE DriverCrash
  BY <1>21 DEF DriverCrash, DriverTypeOK, Step
<1>22. UNCHANGED allVars => UNCHANGED driverVars
  BY DEF allVars
<1> QED
  BY <1>7, <1>22, QuietStep, <1>8, <1>9, <1>10, <1>11, <1>12, <1>13, <1>14, <1>15, <1>17, <1>18, <1>19, <1>20, <1>21
     DEF DriverNext, DriverStep, PayerStep, ReturnStep, Quiet

\* A step of one request leaves the others alone; the table only grows, by the
\* rows the request had prepared.
LEMMA DriverFrame ==
    ASSUME TypeOK, DriverTypeOK, NEW r \in Request, DriverStep(r)
    PROVE  /\ \A q \in Request : q # r => /\ step'[q] = step[q] /\ rows'[q] = rows[q] /\ seen'[q] = seen[q]
                                          /\ pc'[q] = pc[q] /\ paymentTx'[q] = paymentTx[q]
           /\ Insert(r) \/ UNCHANGED paypal
           /\ clock <= clock'
           /\ executed \subseteq executed'
<1>1. ASSUME NEW q \in Request, q # r PROVE pc'[q] = pc[q] /\ paymentTx'[q] = paymentTx[q]
  BY <1>1, DriverMoves, OthersWork DEF vars
<1> DEFINE Others == \A q \in Request : q # r => step'[q] = step[q] /\ rows'[q] = rows[q] /\ seen'[q] = seen[q]
<1>2. ASSUME UNCHANGED seen, \/ UNCHANGED <<step, rows>>
                             \/ \E s : Goto(r, s)
                             \/ \E s, new : Prepare(r, s, new)
      PROVE  Others
  BY <1>2 DEF Goto, Prepare, DriverTypeOK
<1>3. clock \in Nat
  BY LedgerAssumption DEF DriverTypeOK
<1>4. UNCHANGED clock \/ Stamp \/ clock' = clock + 2 => clock <= clock'
  BY <1>3, StampFacts
<1> HIDE DEF Others
<1> DEFINE Goal == Others /\ (Insert(r) \/ UNCHANGED paypal) /\ clock <= clock' /\ executed \subseteq executed'
<1>5. ASSUME Quiet(r) PROVE Goal
  BY <1>2, <1>4, <1>5, QuietStep DEF driverVars
<1>6. ASSUME DriverInitPayment(r) \/ InitCommit(r) \/ ErrorStep(r) \/ ReturnSkip(r) \/ ReturnExecute(r) \/ ReturnCommit(r) PROVE Goal
  BY <1>2, <1>4, <1>6 DEF DriverInitPayment, InitCommit, ErrorStep, ReturnSkip, ReturnExecute, ReturnCommit
<1>7. ASSUME doInit(r) \/ InitResponse(r) PROVE Goal
  BY <1>2, <1>4, <1>7 DEF doInit, InitResponse, setPayPalError
<1>8. ASSUME ReturnRead(r) PROVE Goal
  BY <1>4, <1>8 DEF ReturnRead, Others, DriverTypeOK
<1>9. ASSUME ExecuteIntent(r) \/ executePayment(r) \/ ExecuteCommit(r) PROVE Goal
  BY <1>2, <1>4, <1>9 DEF ExecuteIntent, executePayment, ExecuteCommit, setPayPalError, PayPalExecutes
<1> QED
  BY <1>1, <1>5, <1>6, <1>7, <1>8, <1>9 DEF DriverStep, PayerStep, ReturnStep, Quiet, Others

\* A crash forgets what the requests had prepared.
LEMMA CrashFrame ==
    ASSUME TypeOK, DriverCrash
    PROVE  /\ UNCHANGED <<clock, paypal, seen, executed, ledger>>
           /\ \A r \in Request : /\ rows'[r] = <<>> /\ pc'[r] \in {"begin", "ended", "failed"}
                                 /\ step'[r] = IF pc[r] = "begin" /\ retries[r] = 0 THEN step[r] ELSE "done"
                                 /\ pc'[r] = "begin" => pc[r] = "begin" /\ retries[r] = 0
<1>1. \A r \in Request : retries[r] \in Nat
  BY LedgerAssumption DEF TypeOK
<1> QED
  BY <1>1 DEF DriverCrash, Crash, Started

\* A request is where the handlers put it.
LEMMA PlaceStep ==
    ASSUME TypeOK, DriverTypeOK, PlaceInv, [DriverNext]_allVars PROVE PlaceInv'
<1> USE PayPalAssumption
<1>1. CASE UNCHANGED allVars
  BY <1>1 DEF allVars, driverVars, vars, PlaceInv, PlaceOK
<1>2. CASE DriverCrash
  BY <1>2, CrashFrame DEF PlaceInv, PlaceOK
<1>3. ASSUME NEW r \in Request, DriverStep(r), PlaceOK(r)' PROVE PlaceInv'
  BY <1>3, DriverFrame DEF PlaceInv, PlaceOK
<1>4. ASSUME NEW r \in Request, DriverStep(r) PROVE PlaceOK(r)'
  <2>0. PlaceOK(r)
    BY DEF PlaceInv
  <2>1. \A s : /\ Goto(r, s) => step'[r] = s
               /\ \A new : Prepare(r, s, new) => step'[r] = s
    BY DEF Goto, Prepare, DriverTypeOK
  <2>2. \A s : handleIntent(r, s) => pc'[r] = "intent" /\ paymentTx'[r].status = s
    BY DEF handleIntent, NewTransaction, TypeOK
  <2>3. /\ ReadPayment(r) => pc'[r] = "read" /\ paymentTx'[r] = paymentTx[r]
        /\ NoIntent(r) \/ CommitTx(r) \/ CommitUnknown(r) \/ Fail(r) \/ CommitIntent(r) =>
               pc'[r] \in {"served", "committed", "failed", "ended"}
        /\ Retry(r) => pc'[r] \in {"begin", "initBegin"}
    BY DEF ReadPayment, NoIntent, CommitTx, CommitUnknown, Fail, CommitIntent, Retry, RetryCounting, LockError, TypeOK
  <2>4. UNCHANGED vars => pc'[r] = pc[r] /\ paymentTx'[r] = paymentTx[r]
    BY DEF vars
  <2>5. CASE Open(r)
    BY <2>0, <2>2, <2>3, <2>5 DEF Open, IntentOpen, driverVars, PlaceOK
  <2>6. CASE CancelHandler(r)
    <3>1. step'[r] = step[r]
      BY <2>6 DEF CancelHandler, driverVars
    <3>2. step[r] \notin {"create", "doInit", "created", "execute", "intent", "post", "answered"}
      BY <2>0, <2>6 DEF CancelHandler, PlaceOK
    <3>3. pc'[r] # "begin"
      BY <2>2, <2>3, <2>6 DEF CancelHandler, IntentCancel, EndIntent
    <3>4. pc'[r] \notin {"init", "pending"}
      BY <2>2, <2>3, <2>6 DEF CancelHandler, IntentCancel, EndIntent
    <3>5. pc'[r] = "intent" => r \in Canceller /\ paymentTx'[r].status = "cancelled"
      BY <2>2, <2>3, <2>6 DEF CancelHandler, IntentCancel, EndIntent
    <3> QED
      BY <3>1, <3>2, <3>3, <3>4, <3>5 DEF PlaceOK
  <2>7. CASE ReturnFail(r) \/ ExecuteNotify(r)
    <3>1. step'[r] = step[r] /\ pc'[r] \in {"served", "committed", "failed", "ended"}
      BY <2>3, <2>7 DEF ReturnFail, ExecuteNotify, driverVars
    <3>2. step[r] \notin {"post", "answered"}
      BY <2>0, <2>7 DEF ReturnFail, ExecuteNotify, CommitIntent, PlaceOK
    <3> QED
      BY <2>0, <3>1, <3>2 DEF PlaceOK
  <2>8. CASE DriverInitPayment(r)
    BY <2>0, <2>1, <2>4, <2>8 DEF DriverInitPayment, PlaceOK
  <2>9. CASE InitCommit(r) \/ doInit(r) \/ InitResponse(r)
    <3>1. r \in Payer /\ pc'[r] = pc[r] /\ paymentTx'[r] = paymentTx[r] /\ pc[r] # "begin"
      BY <2>0, <2>4, <2>9 DEF InitCommit, doInit, InitResponse, PlaceOK
    <3>2. step'[r] \in {"doInit", "done", "created", "error"}
      BY <2>1, <2>9 DEF InitCommit, doInit, InitResponse, setPayPalError
    <3> QED
      BY <2>0, <3>1, <3>2 DEF PlaceOK
  <2>10. CASE ErrorStep(r)
    BY <2>0, <2>1, <2>4, <2>10 DEF ErrorStep, PlaceOK
  <2>11. CASE ReturnRead(r)
    BY <2>0, <2>3, <2>11 DEF ReturnRead, PlaceOK
  <2>12. CASE ReturnSkip(r) \/ ReturnExecute(r)
    BY <2>0, <2>1, <2>3, <2>4, <2>12 DEF ReturnSkip, ReturnExecute, PlaceOK
  <2>13. CASE ReturnCommit(r)
    BY <2>0, <2>1, <2>3, <2>4, <2>13 DEF ReturnCommit, PlaceOK
  <2>14. CASE ExecuteIntent(r)
    <3>1. r \in Returner
      BY <2>0, <2>14 DEF ExecuteIntent, PlaceOK
    <3>2. CASE IntentPaid(r) \/ IntentAuthorized(r)
      BY <2>1, <2>2, <2>14, <3>1, <3>2 DEF ExecuteIntent, IntentPaid, IntentAuthorized, EndIntent, Fail, setPayPalError, PlaceOK
    <3>3. CASE Fail(r)
      BY <2>1, <2>3, <2>14, <3>1, <3>3 DEF ExecuteIntent, IntentPaid, IntentAuthorized, EndIntent, handleIntent,
         Fail, setPayPalError, PlaceOK
    <3> QED
      BY <2>14, <3>2, <3>3 DEF ExecuteIntent
  <2>15. CASE executePayment(r)
    BY <2>0, <2>1, <2>3, <2>4, <2>15 DEF executePayment, setPayPalError, PlaceOK
  <2>16. CASE ExecuteCommit(r)
    BY <2>0, <2>1, <2>3, <2>16 DEF ExecuteCommit, setPayPalError, PlaceOK
  <2> QED
    BY <1>4, <2>5, <2>6, <2>7, <2>8, <2>9, <2>10, <2>11, <2>12, <2>13, <2>14, <2>15, <2>16
       DEF DriverStep, PayerStep, ReturnStep
<1> QED
  BY <1>1, <1>2, <1>3, <1>4 DEF DriverNext

\* A request that prepares nothing has nothing to insert.
LEMMA GotoPends ==
    ASSUME DriverTypeOK, NEW r \in Request, NEW s, Goto(r, s), s \notin {"execute", "answered"}
    PROVE  PendingOK(r)'
  BY DEF Goto, DriverTypeOK, PendingOK

\* One prepared row, stamped now.
LEMMA RowPends ==
    ASSUME DriverTypeOK, NEW r \in Request, NEW s \in {"create", "created", "error"},
           NEW x \in PayPalRow, Prepare(r, s, <<x>>), x.ts <= clock', x.pay \in Payer, x.type \in RowsOf(s),
           x.type = "CreatePaymentResponse" => x.pay = r
    PROVE  PendingOK(r)'
<1>1. rows'[r] = <<x>> /\ step'[r] = s
  BY DEF Prepare, DriverTypeOK
<1>2. DOMAIN rows'[r] = {1} /\ rows'[r][1] = x
  BY <1>1
<1> QED
  BY <1>1, <1>2 DEF PendingOK, Stamped

\* The error row of setPayPalError.
LEMMA ErrorPends ==
    ASSUME DriverTypeOK, NEW r \in Request, NEW pay \in Payer, setPayPalError(r, pay)
    PROVE  PendingOK(r)'
<1>1. Stamp /\ Prepare(r, "error", <<NewRow("Error", pay)>>) /\ clock' \in Nat /\ pay \in Request
  BY StampFacts, PayPalAssumption DEF setPayPalError
<1>2. NewRow("Error", pay) \in PayPalRow /\ NewRow("Error", pay).ts = clock'
      /\ NewRow("Error", pay).type = "Error" /\ NewRow("Error", pay).pay = pay
  BY <1>1, NewRowType DEF Type
<1> DEFINE x == NewRow("Error", pay)
<1> HIDE DEF x
<1>3. x \in PayPalRow /\ x.ts <= clock' /\ x.type = "Error" /\ x.pay = pay /\ Prepare(r, "error", <<x>>)
  BY <1>1, <1>2 DEF x
<1> QED
  BY <1>3, RowPends DEF RowsOf

\* What the requests are about to insert.
LEMMA PendingStep ==
    ASSUME TypeOK, DriverTypeOK, PlaceInv, PendingInv, SeenInv, [DriverNext]_allVars PROVE PendingInv'
<1> USE PayPalAssumption
<1>0. ASSUME NEW r \in Request, NEW n \in DOMAIN rows[r] PROVE rows[r][n].ts \in Nat
  <2>1. rows[r] \in Seq(PayPalRow)
    BY DEF DriverTypeOK
  <2>2. rows[r][n] \in PayPalRow
    BY <2>1
  <2> QED
    BY <2>2 DEF PayPalRow
<1>1. CASE UNCHANGED allVars
  BY <1>1 DEF allVars, driverVars, PendingInv, PendingOK, Stamped
<1>2. CASE DriverCrash
  BY <1>2, CrashFrame DEF PendingInv, PendingOK, PlaceInv, PlaceOK
<1>3. clock \in Nat
  BY LedgerAssumption DEF DriverTypeOK
<1>4. ASSUME NEW q \in Request, UNCHANGED <<rows[q], step[q]>>, UNCHANGED seen[q] \/ step[q] = "idle",
             clock <= clock', clock' \in Nat
      PROVE  PendingOK(q)'
  <2>1. PendingOK(q)
    BY DEF PendingInv
  <2>2. \A n \in DOMAIN rows[q] : Stamped(rows[q][n]) => Stamped(rows[q][n])'
    BY <1>0, <1>3, <1>4 DEF Stamped
  <2> QED
    BY <1>4, <2>1, <2>2 DEF PendingOK
<1>5. ASSUME NEW r \in Request, DriverStep(r) PROVE clock' \in Nat
  BY <1>5, DriverTypeStep, LedgerAssumption DEF DriverNext, DriverTypeOK
<1>6. ASSUME NEW r \in Request, DriverStep(r), PendingOK(r)' PROVE PendingInv'
  BY <1>4, <1>5, <1>6, DriverFrame DEF PendingInv
<1>7. ASSUME NEW r \in Request, step[r] \in {"intent", "post", "answered"} PROVE seen[r][1].pay \in Payer
  BY <1>7, SeenType DEF SeenInv, SeenOK, PlaceInv, PlaceOK
<1>8. ASSUME NEW r \in Request, DriverStep(r) PROVE PendingOK(r)'
  <2>1. CASE Quiet(r)
    BY <1>3, <1>4, <2>1, QuietStep DEF driverVars
  <2>2. CASE DriverInitPayment(r)
    <3>1. CASE Goto(r, "done")
      BY <3>1, GotoPends
    <3>2. CASE Stamp /\ Prepare(r, "create", <<NewRow("CreatePayment", r)>>)
      <4> DEFINE x == NewRow("CreatePayment", r)
      <4>1. x \in PayPalRow /\ x.ts = clock' /\ x.type = "CreatePayment" /\ x.pay = r
        BY <3>2, NewRowType DEF Type
      <4>2. Prepare(r, "create", <<x>>) /\ x.ts <= clock' /\ x.pay \in Payer
        BY <2>2, <3>2, <4>1, StampFacts DEF DriverInitPayment
      <4> HIDE DEF x
      <4> QED
        BY <4>1, <4>2, RowPends DEF RowsOf
    <3> QED
      BY <2>2, <3>1, <3>2 DEF DriverInitPayment
  <2>3. CASE InitCommit(r) \/ ErrorStep(r) \/ ReturnSkip(r) \/ ReturnCommit(r)
    BY <2>3, GotoPends DEF InitCommit, ErrorStep, ReturnSkip, ReturnCommit
  <2>4. CASE doInit(r)
    <3>0. r \in Payer
      BY <2>4 DEF doInit, PlaceInv, PlaceOK
    <3>1. CASE Stamp /\ Prepare(r, "created", <<NewRow("CreatePaymentResponse", r)>>)
      <4> DEFINE x == NewRow("CreatePaymentResponse", r)
      <4>1. x \in PayPalRow /\ x.ts = clock' /\ x.type = "CreatePaymentResponse" /\ x.pay = r
        BY <3>1, NewRowType DEF Type
      <4>2. Prepare(r, "created", <<x>>) /\ x.ts <= clock' /\ x.pay \in Payer
        BY <3>0, <3>1, <4>1, StampFacts
      <4> HIDE DEF x
      <4> QED
        BY <4>1, <4>2, RowPends DEF RowsOf
    <3>2. CASE /\ clock' = clock + 2
               /\ Prepare(r, "created", <<[NewRow("CreatePaymentResponse", r) EXCEPT !.ts = clock + 1],
                                          NewRow("Error", r)>>)
      <4> DEFINE x == [NewRow("CreatePaymentResponse", r) EXCEPT !.ts = clock + 1]
                 y == NewRow("Error", r)
      <4>1. /\ x.ts = clock + 1 /\ x.type = "CreatePaymentResponse" /\ x.pay = r
            /\ y.ts = clock + 2 /\ y.type = "Error" /\ y.pay = r
        BY <3>2 DEF NewRow
      <4>2. rows'[r] = <<x, y>> /\ step'[r] = "created"
        BY <3>2 DEF Prepare, DriverTypeOK
      <4> HIDE DEF x, y
      <4>3. DOMAIN rows'[r] = {1, 2} /\ rows'[r][1] = x /\ rows'[r][2] = y
        BY <4>2
      <4> QED
        BY <1>3, <3>0, <3>2, <4>1, <4>2, <4>3 DEF PendingOK, Stamped, RowsOf
    <3>3. CASE setPayPalError(r, r)
      BY <3>0, <3>3, ErrorPends
    <3>4. CASE Goto(r, "done")
      BY <3>4, GotoPends
    <3> QED
      BY <2>4, <3>1, <3>2, <3>3, <3>4 DEF doInit
  <2>5. CASE InitResponse(r)
    <3>0. r \in Payer
      BY <2>5 DEF InitResponse, PlaceInv, PlaceOK
    <3> QED
      BY <2>5, <3>0, GotoPends, ErrorPends DEF InitResponse
  <2>6. CASE ReturnRead(r)
    BY <1>3, <1>4, <2>6 DEF ReturnRead
  <2>7. CASE ReturnExecute(r)
    <3>1. seen[r] # <<>> /\ seen[r][1].type = "CreatePaymentResponse"
      BY <2>7 DEF ReturnExecute, NeedsExecute, SeenInv, SeenOK
    <3>2. seen[r][1] \in PayPalRow /\ Stamped(seen[r][1]) /\ seen[r][1].pay \in Request
      BY <3>1, SeenType DEF SeenInv, SeenOK
    <3>3. clock' \in Nat /\ clock <= clock' /\ seen[r][1].ts <= clock'
      BY <1>3, <2>7, <3>2, StampFacts DEF ReturnExecute, Stamped, PayPalRow
    <3> DEFINE x == [NewRow("ExecutePayment", seen[r][1].pay) EXCEPT !.base = seen[r][1].base]
    <3>4. x.ts = clock' /\ x.type = "ExecutePayment" /\ x.pay = seen[r][1].pay /\ x.base = seen[r][1].base
      BY DEF NewRow
    <3>5. rows'[r] = <<x>> /\ step'[r] = "execute" /\ seen'[r] = seen[r]
      BY <2>7 DEF ReturnExecute, Prepare, DriverTypeOK
    <3> HIDE DEF x
    <3>6. DOMAIN rows'[r] = {1} /\ rows'[r][1] = x
      BY <3>5
    <3> QED
      BY <3>1, <3>2, <3>3, <3>4, <3>5, <3>6 DEF PendingOK, Stamped, RowsOf
  <2>8. CASE ExecuteIntent(r)
    BY <1>7, <2>8, GotoPends, ErrorPends DEF ExecuteIntent
  <2>9. CASE executePayment(r)
    <3>1. seen[r][1].pay \in Payer /\ seen'[r] = seen[r]
      BY <1>7, <2>9 DEF executePayment
    <3>2. CASE Stamp /\ Prepare(r, "answered", <<NewRow("ExecutePaymentResponse", seen[r][1].pay)>>)
      <4> DEFINE x == NewRow("ExecutePaymentResponse", seen[r][1].pay)
      <4>1. x.ts = clock' /\ x.type = "ExecutePaymentResponse" /\ x.pay = seen[r][1].pay
        BY DEF NewRow
      <4>2. rows'[r] = <<x>> /\ step'[r] = "answered" /\ clock' \in Nat
        BY <3>2, StampFacts DEF Prepare, DriverTypeOK
      <4> HIDE DEF x
      <4>3. DOMAIN rows'[r] = {1} /\ rows'[r][1] = x /\ Len(rows'[r]) = 1
        BY <4>2
      <4> QED
        BY <3>1, <4>1, <4>2, <4>3 DEF PendingOK, Stamped, RowsOf
    <3> QED
      BY <2>9, <3>1, <3>2, GotoPends, ErrorPends DEF executePayment
  <2>10. CASE ExecuteCommit(r)
    BY <1>7, <2>10, GotoPends, ErrorPends DEF ExecuteCommit
  <2> QED
    BY <1>8, <2>1, <2>2, <2>3, <2>4, <2>5, <2>6, <2>7, <2>8, <2>9, <2>10 DEF DriverStep, PayerStep, ReturnStep, Quiet
<1> QED
  BY <1>1, <1>2, <1>6, <1>8 DEF DriverNext

\* A snapshot's newest row stays its newest row in a table that agrees with it.
LEMMA NewestKept ==
    ASSUME NEW T, NEW U, NEW n, \A i \in 1..n : U[i] = T[i],
           NEW t, NEW p, NEW ts, NewestOf(T, n, t, p, ts)
    PROVE  NewestOf(U, n, t, p, ts)
  BY DEF NewestOf

\* Rows stay where they are.
LEMMA TableKept ==
    ASSUME TypeOK, DriverTypeOK, NEW r \in Request, DriverStep(r)
    PROVE  /\ Len(paypal) \in Nat /\ Len(paypal') \in Nat /\ Len(paypal) <= Len(paypal')
           /\ \A i \in 1..Len(paypal) : paypal'[i] = paypal[i]
<1>1. Insert(r) \/ UNCHANGED paypal
  BY DriverFrame
<1>2. Len(paypal) \in Nat
  BY DEF DriverTypeOK
<1>3. CASE Insert(r)
  BY <1>3, InsertFacts
<1> QED
  BY <1>1, <1>2, <1>3

\* What ReturnHandler read stays the newest row of its snapshot.
LEMMA SeenStep ==
    ASSUME TypeOK, DriverTypeOK, PlaceInv, SeenInv, TableInv, [DriverNext]_allVars PROVE SeenInv'
<1> USE PayPalAssumption
<1> DEFINE Reads(q) == q \in Returner /\ (pc[q] = "read" \/ step[q] \in {"execute", "intent", "post", "answered"})
<1>0. clock \in Nat /\ Len(paypal) \in Nat
  BY LedgerAssumption DEF DriverTypeOK
<1>1. CASE UNCHANGED allVars
  BY <1>1 DEF allVars, driverVars, vars, SeenInv, SeenOK, Stamped
<1>2. CASE DriverCrash
  BY <1>2, CrashFrame DEF SeenInv, SeenOK, Stamped, PlaceInv, PlaceOK
<1>3. ASSUME NEW r \in Request, DriverStep(r), NEW q \in Request, seen'[q] = seen[q], Reads(q)' => Reads(q)
      PROVE  SeenOK(q)'
  <2>1. SeenOK(q)
    BY DEF SeenInv
  <2>2. clock <= clock' /\ clock' \in Nat
    BY <1>3, DriverFrame, DriverTypeStep, LedgerAssumption DEF DriverNext, DriverTypeOK
  <2>3. ASSUME seen[q] # <<>>
        PROVE  (/\ Stamped(seen[q][1]) /\ seen[q][1].base <= Len(paypal)
                /\ NewestOf(paypal, seen[q][1].base, seen[q][1].type, seen[q][1].pay, seen[q][1].ts))'
    <3>1. seen[q][1] \in PayPalRow
      BY <2>3, SeenType
    <3>2. seen[q][1].base \in 0..Len(paypal) /\ seen[q][1].ts \in Nat
      BY <1>0, <2>1, <2>3, <3>1 DEF SeenOK, PayPalRow
    <3>3. \A i \in 1..seen[q][1].base : paypal'[i] = paypal[i]
      BY <1>0, <1>3, <3>2, TableKept
    <3>4. NewestOf(paypal', seen[q][1].base, seen[q][1].type, seen[q][1].pay, seen[q][1].ts)
      BY <2>1, <2>3, <3>3, NewestKept DEF SeenOK
    <3>5. Stamped(seen[q][1])'
      BY <1>0, <1>3, <2>1, <2>2, <2>3, <3>2 DEF SeenOK, Stamped
    <3>6. seen[q][1].base <= Len(paypal')
      BY <1>0, <1>3, <3>2, TableKept
    <3> QED
      BY <1>3, <3>4, <3>5, <3>6
  <2> QED
    BY <1>3, <2>1, <2>3 DEF SeenOK
<1>4. ASSUME NEW r \in Request, DriverStep(r), SeenOK(r)' PROVE SeenInv'
  BY <1>3, <1>4, DriverFrame DEF SeenInv
<1>5. ASSUME NEW r \in Request, ReturnRead(r) PROVE SeenOK(r)'
  <2>1. PICK i \in Newest : seen' = [seen EXCEPT ![r] = <<[paypal[i] EXCEPT !.base = Len(paypal)]>>]
    BY <1>5 DEF ReturnRead
  <2> DEFINE x == [paypal[i] EXCEPT !.base = Len(paypal)]
  <2>2. i \in 1..Len(paypal) /\ paypal[i] \in PayPalRow /\ \A j \in 1..Len(paypal) : paypal[j].ts <= paypal[i].ts
    BY DEF Newest, DriverTypeOK
  <2>3. x.base = Len(paypal) /\ x.ts = paypal[i].ts /\ x.type = paypal[i].type /\ x.pay = paypal[i].pay
    BY <2>2 DEF PayPalRow
  <2>4. seen'[r] = <<x>>
    BY <2>1 DEF DriverTypeOK
  <2> HIDE DEF x
  <2>5. seen'[r] # <<>> /\ seen'[r][1] = x /\ UNCHANGED <<paypal, clock>>
    BY <1>5, <2>4 DEF ReturnRead
  <2>6. Stamped(paypal[i])
    BY <2>2 DEF TableInv, TableRowOK
  <2> QED
    BY <1>0, <2>2, <2>3, <2>5, <2>6 DEF SeenOK, Stamped, NewestOf
<1>6. ASSUME NEW r \in Request, DriverStep(r), ~ReturnRead(r) PROVE seen'[r] = seen[r] /\ (Reads(r)' => Reads(r))
  <2>1. \A s : /\ Goto(r, s) => step'[r] = s
               /\ \A new : Prepare(r, s, new) => step'[r] = s
    BY DEF Goto, Prepare, DriverTypeOK
  <2>2. /\ UNCHANGED vars => pc'[r] = pc[r]
        /\ NoIntent(r) => pc'[r] = "served"
        /\ CommitIntent(r) => pc'[r] # "read"
        /\ Fail(r) => pc'[r] = "failed"
    BY DEF vars, NoIntent, CommitIntent, Fail, TypeOK
  <2>3. PlaceOK(r)
    BY DEF PlaceInv
  <2>4. CASE Open(r) \/ CancelHandler(r) \/ DriverInitPayment(r)
    BY <2>4 DEF Open, CancelHandler, DriverInitPayment, driverVars
  <2>5. CASE InitCommit(r) \/ doInit(r) \/ InitResponse(r)
    BY <2>3, <2>5 DEF InitCommit, doInit, InitResponse, PlaceOK
  <2>6. CASE ErrorStep(r)
    BY <2>1, <2>2, <2>6 DEF ErrorStep
  <2>7. CASE ReturnSkip(r) \/ ReturnExecute(r) \/ ReturnFail(r) \/ ExecuteNotify(r)
    BY <2>1, <2>2, <2>7 DEF ReturnSkip, ReturnExecute, ReturnFail, ExecuteNotify, driverVars
  <2>8. CASE ReturnCommit(r) \/ ExecuteIntent(r) \/ executePayment(r) \/ ExecuteCommit(r)
    BY <2>3, <2>8 DEF ReturnCommit, ExecuteIntent, executePayment, ExecuteCommit, PlaceOK
  <2> QED
    BY <1>6, <2>4, <2>5, <2>6, <2>7, <2>8 DEF DriverStep, PayerStep, ReturnStep
<1> QED
  BY <1>1, <1>2, <1>3, <1>4, <1>5, <1>6 DEF DriverNext

\* What becomes of the two tables in a step of a request: nothing is added to the
\* driver's and no paid or authorized row to the ledger; or rows are added to the
\* driver's alone; or ExecuteCommit adds the response and the request's row.
Records(r) == Insert(r) /\ step[r] \in {"create", "created", "execute", "error"} /\ UNCHANGED ledger
Pays(r) == /\ Insert(r) /\ ledger' = Append(ledger, paymentTx[r])
           /\ r \in Returner /\ step[r] = "answered" /\ pc[r] = "intent" /\ step'[r] = "done"
Leaves(r) == /\ UNCHANGED paypal
             /\ \/ UNCHANGED ledger
                \/ pc[r] = "intent" /\ r \notin Returner /\ ledger' = Append(ledger, paymentTx[r])

\* Every step of a request is one of these.
LEMMA TablesMove ==
    ASSUME TypeOK, DriverTypeOK, PlaceInv, NEW r \in Request, DriverStep(r)
    PROVE  Records(r) \/ Pays(r) \/ Leaves(r)
<1> USE PayPalAssumption
<1>0. PlaceOK(r)
  BY DEF PlaceInv
<1>1. /\ UNCHANGED vars \/ ReadPayment(r) \/ IntentOpen(r) \/ IntentCancel(r) \/ IntentPaid(r) \/ IntentAuthorized(r)
           \/ NoIntent(r) \/ Fail(r) \/ Retry(r) \/ CommitIntent(r) => UNCHANGED ledger
      /\ CommitTx(r) \/ CommitUnknown(r) => pc[r] = "intent" /\ ledger' = Append(ledger, paymentTx[r])
  BY <1>0 DEF vars, ReadPayment, IntentOpen, IntentCancel, IntentPaid, IntentAuthorized, EndIntent, handleIntent, NoIntent,
              Fail, Retry, RetryCounting, LockError, CommitIntent, CommitTx, CommitUnknown, InsertRow, PlaceOK
<1>2. ASSUME Open(r) \/ CancelHandler(r) PROVE Leaves(r)
  BY <1>1, <1>2 DEF Open, CancelHandler, driverVars, Leaves
<1>3. ASSUME DriverInitPayment(r) \/ doInit(r) \/ ReturnRead(r) \/ ReturnSkip(r) \/ ReturnExecute(r) \/ ReturnFail(r)
             \/ ExecuteIntent(r) \/ executePayment(r) \/ ExecuteNotify(r)
      PROVE  Leaves(r)
  BY <1>1, <1>3 DEF DriverInitPayment, doInit, ReturnRead, ReturnSkip, ReturnExecute, ReturnFail, ExecuteIntent,
                    executePayment, ExecuteNotify, driverVars, Leaves
<1>4. ASSUME InitCommit(r) \/ InitResponse(r) \/ ErrorStep(r) \/ ReturnCommit(r) PROVE Leaves(r) \/ Records(r)
  BY <1>1, <1>4 DEF InitCommit, InitResponse, ErrorStep, ReturnCommit, Leaves, Records
<1>5. ASSUME ExecuteCommit(r) PROVE Leaves(r) \/ Pays(r)
  <2>1. r \in Returner /\ step[r] = "answered"
    BY <1>0, <1>5 DEF ExecuteCommit, PlaceOK
  <2>2. Goto(r, "done") => step'[r] = "done"
    BY DEF Goto, DriverTypeOK
  <2> QED
    BY <1>1, <1>5, <2>1, <2>2 DEF ExecuteCommit, Leaves, Pays
<1> QED
  BY <1>2, <1>3, <1>4, <1>5 DEF DriverStep, PayerStep, ReturnStep

\* A request answers by executing a PayPal payment that was not executed before.
LEMMA AnswersOnce ==
    ASSUME DriverTypeOK, NEW r \in Request, DriverStep(r), step[r] # "answered", step'[r] = "answered"
    PROVE  seen[r][1].pay \notin executed /\ executed' = executed \cup {seen[r][1].pay} /\ UNCHANGED <<paypal, seen>>
<1>1. \A s : /\ Goto(r, s) => step'[r] = s
             /\ \A new : Prepare(r, s, new) => step'[r] = s
  BY DEF Goto, Prepare, DriverTypeOK
<1>2. ~Open(r) /\ ~CancelHandler(r) /\ ~ReturnRead(r) /\ ~ReturnFail(r) /\ ~ExecuteNotify(r)
  BY DEF Open, CancelHandler, ReturnRead, ReturnFail, ExecuteNotify, driverVars
<1>3. ~DriverInitPayment(r) /\ ~InitCommit(r) /\ ~doInit(r) /\ ~InitResponse(r) /\ ~ErrorStep(r)
  BY <1>1 DEF DriverInitPayment, InitCommit, doInit, InitResponse, ErrorStep, setPayPalError
<1>4. ~ReturnSkip(r) /\ ~ReturnExecute(r) /\ ~ReturnCommit(r) /\ ~ExecuteIntent(r) /\ ~ExecuteCommit(r)
  BY <1>1 DEF ReturnSkip, ReturnExecute, ReturnCommit, ExecuteIntent, ExecuteCommit, setPayPalError
<1>5. executePayment(r)
  BY <1>2, <1>3, <1>4 DEF DriverStep, PayerStep, ReturnStep
<1> QED
  BY <1>1, <1>5 DEF executePayment, setPayPalError, PayPalExecutes

\* A request that answers, or is done, does not go back.
LEMMA StaysDone ==
    ASSUME DriverTypeOK, PlaceInv, NEW r \in Request, DriverStep(r)
    PROVE  /\ step[r] \in {"error", "done"} => step'[r] \in {"error", "done"}
           /\ step[r] = "created" => UNCHANGED paypal \/ step'[r] \in {"error", "done"}
           /\ step[r] = "answered" => UNCHANGED seen
<1>1. \A s : /\ Goto(r, s) => step'[r] = s
             /\ \A new : Prepare(r, s, new) => step'[r] = s
  BY DEF Goto, Prepare, DriverTypeOK
<1>2. CASE Quiet(r)
  BY <1>2, QuietStep DEF driverVars
<1>3. CASE DriverInitPayment(r) \/ InitCommit(r) \/ doInit(r) \/ InitResponse(r) \/ ErrorStep(r)
  BY <1>1, <1>3 DEF DriverInitPayment, InitCommit, doInit, InitResponse, ErrorStep, setPayPalError
<1>4. CASE ReturnRead(r) \/ ReturnSkip(r) \/ ReturnExecute(r) \/ ReturnCommit(r)
  BY <1>4 DEF ReturnRead, ReturnSkip, ReturnExecute, ReturnCommit
<1>5. CASE ExecuteIntent(r) \/ executePayment(r) \/ ExecuteCommit(r)
  BY <1>5 DEF ExecuteIntent, executePayment, ExecuteCommit
<1> QED
  BY <1>2, <1>3, <1>4, <1>5 DEF DriverStep, PayerStep, ReturnStep, Quiet

\* The row at a place of the new table is an old row or one the request prepared.
LEMMA RowsBySource ==
    ASSUME TypeOK, DriverTypeOK, PlaceInv, NEW r \in Request, DriverStep(r), NEW i \in DOMAIN paypal'
    PROVE  \/ i \in DOMAIN paypal /\ paypal'[i] = paypal[i]
           \/ /\ Insert(r) /\ (Records(r) \/ Pays(r)) /\ i \notin DOMAIN paypal
              /\ \E k \in DOMAIN rows[r] : i = Len(paypal) + k /\ paypal'[i] = rows[r][k]
<1>1. CASE Leaves(r)
  BY <1>1 DEF Leaves
<1>2. CASE Records(r) \/ Pays(r)
  <2>1. Insert(r)
    BY <1>2 DEF Records, Pays
  <2> DEFINE n == Len(paypal)
             m == Len(rows[r])
  <2>2. /\ n \in Nat /\ m \in Nat /\ DOMAIN paypal' = 1..(n + m) /\ DOMAIN paypal = 1..n /\ DOMAIN rows[r] = 1..m
        /\ \A k \in 1..n : paypal'[k] = paypal[k]
        /\ \A k \in 1..m : paypal'[n + k] = rows[r][k]
    BY <2>1, InsertFacts
  <2> HIDE DEF n, m
  <2>3. CASE i \in 1..n
    BY <2>2, <2>3
  <2>4. CASE i \notin 1..n
    <3>1. i - n \in 1..m /\ i = n + (i - n)
      BY <2>2, <2>4
    <3>2. paypal'[i] = rows[r][i - n]
      BY <2>2, <3>1
    <3> QED
      BY <1>2, <2>1, <2>2, <2>4, <3>1, <3>2 DEF n
  <2> QED
    BY <2>3, <2>4
<1> QED
  BY <1>1, <1>2, TablesMove

\* PayPal's answers.
LEMMA AnsweredStep ==
    ASSUME TypeOK, DriverTypeOK, PlaceInv, PendingInv, AnsweredInv, TableInv, [DriverNext]_allVars PROVE AnsweredInv'
<1>1. CASE UNCHANGED allVars
  BY <1>1 DEF allVars, driverVars, AnsweredInv, AnsweredOK
<1>2. CASE DriverCrash
  BY <1>2, CrashFrame DEF AnsweredInv, AnsweredOK, PlaceInv, PlaceOK
<1>3. ASSUME NEW r \in Request, DriverStep(r), NEW q \in Request, step'[q] = "answered" PROVE AnsweredOK(q)'
  <2>1. \A p \in Request : p # r => step'[p] = step[p] /\ seen'[p] = seen[p]
    BY <1>3, DriverFrame
  <2>2. executed \subseteq executed'
    BY <1>3, DriverFrame
  <2>3. CASE step[q] = "answered"
    <3>1. AnsweredOK(q)
      BY DEF AnsweredInv
    <3>2. seen'[q] = seen[q]
      BY <1>3, <2>1, <2>3, StaysDone
    <3>3. seen'[q][1].pay \in executed'
      BY <2>2, <2>3, <3>1, <3>2 DEF AnsweredOK
    <3>4. ASSUME NEW i \in DOMAIN paypal', paypal'[i].type = "ExecutePaymentResponse"
          PROVE  paypal'[i].pay # seen[q][1].pay
      <4>1. CASE i \in DOMAIN paypal /\ paypal'[i] = paypal[i]
        BY <2>3, <3>1, <3>4, <4>1 DEF AnsweredOK
      <4>2. ASSUME NEW k \in DOMAIN rows[r], Records(r) \/ Pays(r), paypal'[i] = rows[r][k]
            PROVE  paypal'[i].pay # seen[q][1].pay
        <5>1. rows[r][k].type \in RowsOf(step[r])
          BY DEF PendingInv, PendingOK
        <5>2. Pays(r)
          BY <3>4, <4>2, <5>1 DEF Records, RowsOf
        <5>3. step[r] = "answered" /\ rows[r][k].pay = seen[r][1].pay /\ r # q
          <6>1. step[r] = "answered" /\ Len(rows[r]) = 1 /\ rows[r][1].pay = seen[r][1].pay
            BY <5>2 DEF Pays, PendingInv, PendingOK
          <6>2. k = 1
            BY <6>1 DEF DriverTypeOK
          <6> QED
            BY <1>3, <5>2, <6>1, <6>2 DEF Pays
        <5> QED
          BY <2>3, <3>1, <4>2, <5>3 DEF AnsweredOK
      <4> QED
        BY <1>3, <4>1, <4>2, RowsBySource
    <3>5. ASSUME NEW p \in Request, step'[p] = "answered", p # q PROVE seen'[p][1].pay # seen[q][1].pay
      <4>1. CASE step[p] = "answered"
        <5>1. seen'[p] = seen[p]
          BY <1>3, <2>1, <4>1, StaysDone
        <5> QED
          BY <2>3, <3>1, <3>5, <4>1, <5>1 DEF AnsweredOK
      <4>2. CASE step[p] # "answered"
        <5>1. p = r
          BY <2>1, <3>5, <4>2
        <5>2. seen[p][1].pay \notin executed /\ seen'[p] = seen[p]
          BY <1>3, <3>5, <4>2, <5>1, AnswersOnce
        <5> QED
          BY <2>3, <3>1, <5>2 DEF AnsweredOK
      <4> QED
        BY <4>1, <4>2
    <3> QED
      BY <3>2, <3>3, <3>4, <3>5 DEF AnsweredOK
  <2>4. CASE step[q] # "answered"
    <3>1. q = r
      BY <1>3, <2>1, <2>4
    <3>2. seen[r][1].pay \notin executed /\ executed' = executed \cup {seen[r][1].pay} /\ UNCHANGED <<paypal, seen>>
      BY <1>3, <2>4, <3>1, AnswersOnce
    <3>3. \A i \in DOMAIN paypal : paypal[i].type = "ExecutePaymentResponse" => paypal[i].pay \in executed
      BY DEF TableInv, TableRowOK
    <3>4. \A p \in Request : step'[p] = "answered" /\ p # r => seen[p][1].pay \in executed
      BY <2>1 DEF AnsweredInv, AnsweredOK
    <3> QED
      BY <3>1, <3>2, <3>3, <3>4 DEF AnsweredOK
  <2> QED
    BY <2>3, <2>4
<1>4. ASSUME NEW r \in Request, DriverStep(r) PROVE AnsweredInv'
  BY <1>3, <1>4 DEF AnsweredInv, AnsweredOK
<1> QED
  BY <1>1, <1>2, <1>4 DEF DriverNext

\* The rows of the driver's table.
LEMMA TableStep ==
    ASSUME TypeOK, DriverTypeOK, PlaceInv, PendingInv, SeenInv, AnsweredInv, TableInv, [DriverNext]_allVars
    PROVE  TableInv'
<1> USE PayPalAssumption
<1>1. CASE UNCHANGED allVars
  BY <1>1 DEF allVars, driverVars, TableInv, TableRowOK, Stamped
<1>0. ASSUME NEW i \in DOMAIN paypal
      PROVE  paypal[i] \in PayPalRow /\ paypal[i].pay \in Request /\ paypal[i].ts \in Nat /\ paypal[i].base \in Nat
  <2>1. paypal[i] \in PayPalRow
    BY DEF DriverTypeOK
  <2> QED
    BY <2>1 DEF PayPalRow
<1>2. CASE DriverCrash
  <2>1. UNCHANGED <<clock, paypal, executed>> /\ \A r \in Request : step'[r] \in {step[r], "done"}
    BY <1>2, CrashFrame
  <2> QED
    BY <1>0, <2>1 DEF TableInv, TableRowOK, Stamped
<1>3. ASSUME NEW r \in Request, DriverStep(r) PROVE TableInv'
  <2>0. /\ clock \in Nat /\ clock' \in Nat /\ clock <= clock' /\ executed \subseteq executed'
        /\ Len(paypal) \in Nat /\ Len(paypal') \in Nat /\ Len(paypal) <= Len(paypal')
        /\ DOMAIN paypal = 1..Len(paypal)
        /\ \A k \in 1..Len(paypal) : paypal'[k] = paypal[k]
    BY <1>3, DriverFrame, DriverTypeStep, TableKept, LedgerAssumption DEF DriverNext, DriverTypeOK
  <2>1. \A q \in Request : step[q] \in {"error", "done"} => step'[q] \in {"error", "done"}
    BY <1>3, DriverFrame, StaysDone
  \* the rows that were there
  <2>2. ASSUME NEW n \in 0..Len(paypal), NEW t, NEW p, NEW ts, NewestOf(paypal, n, t, p, ts)
        PROVE  NewestOf(paypal', n, t, p, ts)
    BY <2>0, <2>2, NewestKept
  <2>3. ASSUME NEW i \in DOMAIN paypal PROVE TableRowOK(i)'
    <3>1. TableRowOK(i) /\ paypal'[i] = paypal[i]
      BY <2>0 DEF TableInv
    <3>2. paypal[i].pay \in Request /\ paypal[i].ts \in Nat /\ paypal[i].base \in Nat
      BY <1>0
    <3>3. Stamped(paypal[i])'
      BY <2>0, <3>1, <3>2 DEF TableRowOK, Stamped
    <3>4. paypal[i].type = "CreatePaymentResponse" => step'[paypal[i].pay] \in {"error", "done"}
      BY <2>1, <3>1, <3>2 DEF TableRowOK
    <3>5. paypal[i].type = "ExecutePayment" =>
              /\ paypal[i].base <= Len(paypal')
              /\ \E ts \in 0..paypal[i].ts : NewestOf(paypal', paypal[i].base, "CreatePaymentResponse", paypal[i].pay, ts)
      <4>1. ASSUME paypal[i].type = "ExecutePayment"
            PROVE  /\ paypal[i].base <= Len(paypal')
                   /\ \E ts \in 0..paypal[i].ts : NewestOf(paypal', paypal[i].base, "CreatePaymentResponse", paypal[i].pay, ts)
        <5>1. paypal[i].base \in 0..Len(paypal)
          BY <2>0, <3>1, <3>2, <4>1 DEF TableRowOK
        <5>2. PICK ts \in 0..paypal[i].ts : NewestOf(paypal, paypal[i].base, "CreatePaymentResponse", paypal[i].pay, ts)
          BY <3>1, <4>1 DEF TableRowOK
        <5>3. NewestOf(paypal', paypal[i].base, "CreatePaymentResponse", paypal[i].pay, ts)
          BY <2>2, <5>1, <5>2
        <5> QED
          BY <2>0, <5>1, <5>3
      <4> QED
        BY <4>1
    <3>6. paypal[i].type = "ExecutePaymentResponse" => paypal[i].pay \in executed'
      BY <2>0, <3>1 DEF TableRowOK
    <3> QED
      BY <3>1, <3>3, <3>4, <3>5, <3>6 DEF TableRowOK
  \* the rows that are new
  <2>4. ASSUME NEW k \in DOMAIN rows[r], Insert(r), Records(r) \/ Pays(r)
        PROVE  /\ rows[r][k] \in PayPalRow /\ Stamped(rows[r][k]) /\ rows[r][k].type \in RowsOf(step[r])
               /\ rows[r][k].type = "CreatePaymentResponse" =>
                      k = 1 /\ rows[r][k].pay = r /\ step[r] = "created" /\ step'[r] \in {"error", "done"}
               /\ rows[r][k].type = "ExecutePayment" =>
                      step[r] = "execute" /\ rows[r][k].pay = seen[r][1].pay /\ rows[r][k].base = seen[r][1].base
                      /\ seen[r][1].ts <= rows[r][k].ts
                      /\ seen[r][1].type = "CreatePaymentResponse" /\ r \in Returner
               /\ rows[r][k].type = "ExecutePaymentResponse" =>
                      k = 1 /\ step[r] = "answered" /\ rows[r][k].pay = seen[r][1].pay
    <3>1. PendingOK(r) /\ PlaceOK(r)
      BY DEF PendingInv, PlaceInv
    <3>2. rows[r] \in Seq(PayPalRow)
      BY DEF DriverTypeOK
    <3>3. rows[r][k] \in PayPalRow /\ Len(rows[r]) \in Nat /\ DOMAIN rows[r] = 1..Len(rows[r])
      BY <3>2
    <3>4. Stamped(rows[r][k]) /\ rows[r][k].type \in RowsOf(step[r])
          /\ (rows[r][k].type = "CreatePaymentResponse" => k = 1 /\ rows[r][k].pay = r)
      BY <3>1 DEF PendingOK
    <3>5. step[r] \in {"create", "created", "execute", "error", "answered"}
      BY <2>4 DEF Records, Pays
    <3>6. rows[r][k].type = "CreatePaymentResponse" => step[r] = "created"
      BY <3>4, <3>5 DEF RowsOf
    <3>7. step[r] = "created" => step'[r] \in {"error", "done"}
      <4>1. paypal' # paypal
        BY <2>0, <2>4, <3>3, InsertFacts
      <4> QED
        BY <1>3, <4>1, StaysDone
    <3>8. rows[r][k].type = "ExecutePayment" => step[r] = "execute"
      BY <3>4, <3>5 DEF RowsOf
    <3>9. rows[r][k].type = "ExecutePaymentResponse" => step[r] = "answered"
      BY <3>4, <3>5 DEF RowsOf
    <3>10. step[r] = "execute" => rows[r][k].pay = seen[r][1].pay /\ rows[r][k].base = seen[r][1].base
               /\ seen[r][1].ts <= rows[r][k].ts /\ seen[r][1].type = "CreatePaymentResponse" /\ r \in Returner
      BY <3>1 DEF PendingOK, PlaceOK
    <3>11. step[r] = "answered" => k = 1 /\ rows[r][k].pay = seen[r][1].pay
      BY <3>1, <3>3 DEF PendingOK
    <3> QED
      BY <3>3, <3>4, <3>6, <3>7, <3>8, <3>9, <3>10, <3>11
  <2>5. ASSUME NEW i \in DOMAIN paypal', NEW k \in DOMAIN rows[r], Insert(r), Records(r) \/ Pays(r), paypal'[i] = rows[r][k]
        PROVE  TableRowOK(i)'
    <3> DEFINE x == rows[r][k]
    <3>1. /\ x \in PayPalRow /\ Stamped(x)
          /\ x.type = "CreatePaymentResponse" => x.pay = r /\ step'[r] \in {"error", "done"}
          /\ x.type = "ExecutePayment" => /\ step[r] = "execute" /\ x.pay = seen[r][1].pay /\ x.base = seen[r][1].base
                                          /\ seen[r][1].ts <= x.ts
                                          /\ seen[r][1].type = "CreatePaymentResponse" /\ r \in Returner
          /\ x.type = "ExecutePaymentResponse" => step[r] = "answered" /\ x.pay = seen[r][1].pay
      BY <2>4, <2>5
    <3>2. Stamped(paypal[i])'
      BY <2>0, <2>5, <3>1 DEF Stamped, PayPalRow
    <3>3. x.type = "ExecutePayment" =>
              x.base <= Len(paypal') /\ \E ts \in 0..x.ts : NewestOf(paypal', x.base, "CreatePaymentResponse", x.pay, ts)
      <4>1. ASSUME x.type = "ExecutePayment"
            PROVE  x.base <= Len(paypal') /\ \E ts \in 0..x.ts : NewestOf(paypal', x.base, "CreatePaymentResponse", x.pay, ts)
        <5>1. seen[r] # <<>> /\ SeenOK(r)
          BY <3>1, <4>1 DEF SeenInv, SeenOK
        <5>2. seen[r][1] \in PayPalRow
          BY <5>1, SeenType
        <5>3. seen[r][1].base \in 0..Len(paypal) /\ seen[r][1].ts \in 0..x.ts
          BY <2>0, <3>1, <4>1, <5>1, <5>2 DEF SeenOK, PayPalRow
        <5>4. NewestOf(paypal', seen[r][1].base, seen[r][1].type, seen[r][1].pay, seen[r][1].ts)
          BY <2>2, <5>1, <5>3 DEF SeenOK
        <5> QED
          BY <2>0, <3>1, <4>1, <5>3, <5>4
      <4> QED
        BY <4>1
    <3>4. x.type = "ExecutePaymentResponse" => x.pay \in executed'
      BY <2>0, <3>1 DEF AnsweredInv, AnsweredOK
    <3> QED
      BY <2>5, <3>1, <3>2, <3>3, <3>4 DEF TableRowOK
  <2>6. \A i \in DOMAIN paypal' : TableRowOK(i)'
    BY <1>3, <2>3, <2>5, RowsBySource
  \* a new row against an old one, and two new rows
  <2> DEFINE Apart(x, y) == /\ x.ts # y.ts
                            /\ x.type = y.type /\ x.type \in {"CreatePaymentResponse", "ExecutePaymentResponse"}
                                   => x.pay # y.pay
  <2>7. ASSUME NEW k \in DOMAIN rows[r], NEW j \in DOMAIN paypal, Insert(r), Records(r) \/ Pays(r)
        PROVE  Apart(rows[r][k], paypal[j])
    <3>1. rows[r][k].ts # paypal[j].ts
      BY <2>7 DEF Insert
    <3>2. paypal[j].type = "CreatePaymentResponse" => step[paypal[j].pay] \in {"error", "done"}
      BY DEF TableInv, TableRowOK
    <3>3. step[r] = "answered" => (paypal[j].type = "ExecutePaymentResponse" => paypal[j].pay # seen[r][1].pay)
      BY DEF AnsweredInv, AnsweredOK
    <3> QED
      BY <2>4, <2>7, <3>1, <3>2, <3>3
  <2>8. ASSUME NEW k \in DOMAIN rows[r], NEW l \in DOMAIN rows[r], k # l, Insert(r), Records(r) \/ Pays(r)
        PROVE  Apart(rows[r][k], rows[r][l])
    <3>1. rows[r][k].ts # rows[r][l].ts
      BY <2>8 DEF PendingInv, PendingOK
    <3> QED
      BY <2>4, <2>8, <3>1
  <2>9. ASSUME NEW i \in DOMAIN paypal', NEW j \in DOMAIN paypal', i # j PROVE Apart(paypal'[i], paypal'[j])
    <3>1. CASE i \in DOMAIN paypal /\ j \in DOMAIN paypal
      BY <2>0, <2>9, <3>1 DEF TableInv
    <3>2. CASE i \notin DOMAIN paypal /\ j \in DOMAIN paypal
      BY <1>3, <2>0, <2>7, <3>2, RowsBySource
    <3>3. CASE i \in DOMAIN paypal /\ j \notin DOMAIN paypal
      <4>1. Apart(paypal'[j], paypal'[i])
        BY <1>3, <2>0, <2>7, <3>3, RowsBySource
      <4> QED
        BY <4>1
    <3>4. CASE i \notin DOMAIN paypal /\ j \notin DOMAIN paypal
      <4>1. Insert(r) /\ (Records(r) \/ Pays(r))
        BY <1>3, <3>4, RowsBySource
      <4>2. PICK k \in DOMAIN rows[r] : i = Len(paypal) + k /\ paypal'[i] = rows[r][k]
        BY <1>3, <3>4, RowsBySource
      <4>3. PICK l \in DOMAIN rows[r] : j = Len(paypal) + l /\ paypal'[j] = rows[r][l]
        BY <1>3, <3>4, RowsBySource
      <4> QED
        BY <2>8, <2>9, <4>1, <4>2, <4>3
    <3> QED
      BY <3>1, <3>2, <3>3, <3>4
  <2> QED
    BY <2>6, <2>9 DEF TableInv
<1> QED
  BY <1>1, <1>2, <1>3 DEF DriverNext

----------------------------------------------------------------------------
(* The two tables.                                                         *)

\* The counted sets are finite, and a place past the end is in neither.
LEMMA CountedFinite ==
    ASSUME TypeOK, DriverTypeOK
    PROVE  /\ IsFiniteSet(Charged) /\ IsFiniteSet(Responses)
           /\ Len(ledger) + 1 \notin Charged /\ Len(paypal) + 1 \notin Responses
<1>1. Len(ledger) \in Nat /\ Len(paypal) \in Nat /\ DOMAIN ledger = 1..Len(ledger) /\ DOMAIN paypal = 1..Len(paypal)
  BY DEF TypeOK, DriverTypeOK
<1>2. IsFiniteSet(1..Len(ledger)) /\ IsFiniteSet(1..Len(paypal))
  BY <1>1, FS_Interval
<1>3. Charged \in SUBSET (1..Len(ledger)) /\ Responses \in SUBSET (1..Len(paypal))
  BY <1>1 DEF Charged, Responses
<1>4. IsFiniteSet(Charged) /\ IsFiniteSet(Responses)
  BY <1>2, <1>3, FS_Subset
<1> QED
  BY <1>1, <1>3, <1>4

\* A row more in the ledger.
LEMMA ChargedAppend ==
    ASSUME TypeOK, NEW x \in Row, ledger' = Append(ledger, x)
    PROVE  Charged' = Charged \cup (IF x.status \in {"paid", "authorized"} THEN {Len(ledger) + 1} ELSE {})
<1>1. /\ Len(ledger) \in Nat /\ DOMAIN ledger = 1..Len(ledger) /\ DOMAIN ledger' = 1..(Len(ledger) + 1)
      /\ \A i \in 1..Len(ledger) : ledger'[i] = ledger[i]
      /\ ledger'[Len(ledger) + 1] = x
  BY DEF TypeOK
<1> QED
  BY <1>1 DEF Charged

\* Every step adds as many paid or authorized rows to the ledger as responses to
\* the driver's table.
LEMMA CountStep ==
    ASSUME TypeOK, DriverTypeOK, DriverInv, [DriverNext]_allVars PROVE CountInv'
<1> USE PayPalAssumption
<1> DEFINE Same == UNCHANGED <<Charged, Responses>>
<1>1. ASSUME UNCHANGED <<ledger, paypal>> PROVE Same
  BY <1>1 DEF Charged, Responses
<1>2. ASSUME NEW r \in Request, DriverStep(r), Leaves(r) PROVE Same
  <2>1. CASE UNCHANGED ledger
    BY <1>1, <1>2, <2>1 DEF Leaves
  <2>2. CASE pc[r] = "intent" /\ r \notin Returner /\ ledger' = Append(ledger, paymentTx[r])
    <3>1. paymentTx[r] \in Row /\ paymentTx[r].status \notin {"paid", "authorized"}
      BY <2>2 DEF TypeOK, DriverInv, PlaceInv, PlaceOK
    <3>2. Charged' = Charged
      BY <2>2, <3>1, ChargedAppend
    <3> QED
      BY <1>2, <3>2 DEF Leaves, Responses
  <2> QED
    BY <1>2, <2>1, <2>2 DEF Leaves
<1>3. ASSUME NEW r \in Request, DriverStep(r), Records(r) PROVE Same
  <2>1. \A k \in DOMAIN rows[r] : rows[r][k].type # "ExecutePaymentResponse"
    BY <1>3 DEF Records, RowsOf, DriverInv, PendingInv, PendingOK
  <2>2. \A i \in DOMAIN paypal' : \/ i \in DOMAIN paypal /\ paypal'[i] = paypal[i]
                                  \/ i \notin DOMAIN paypal /\ paypal'[i].type # "ExecutePaymentResponse"
    BY <1>3, <2>1, RowsBySource DEF DriverInv
  <2>3. DOMAIN paypal \subseteq DOMAIN paypal'
    BY <1>3, InsertFacts DEF Records
  <2>4. Responses' = Responses
    BY <2>2, <2>3 DEF Responses
  <2> QED
    BY <1>3, <2>4 DEF Records, Charged
<1>4. ASSUME NEW r \in Request, DriverStep(r), Pays(r)
      PROVE  Charged' = Charged \cup {Len(ledger) + 1} /\ Responses' = Responses \cup {Len(paypal) + 1}
  <2>1. paymentTx[r] \in Row /\ paymentTx[r].status \in {"paid", "authorized"}
    BY <1>4 DEF Pays, TypeOK, DriverInv, PlaceInv, PlaceOK
  <2>2. Charged' = Charged \cup {Len(ledger) + 1}
    BY <1>4, <2>1, ChargedAppend DEF Pays
  <2>3. Len(rows[r]) = 1 /\ 1 \in DOMAIN rows[r] /\ rows[r][1].type = "ExecutePaymentResponse"
    <3>1. Len(rows[r]) = 1 /\ 1 \in DOMAIN rows[r]
      BY <1>4 DEF Pays, DriverInv, PendingInv, PendingOK, DriverTypeOK
    <3> QED
      BY <1>4, <3>1 DEF Pays, DriverInv, PendingInv, PendingOK, RowsOf
  <2>4. /\ Len(paypal) \in Nat /\ DOMAIN paypal' = 1..(Len(paypal) + 1) /\ DOMAIN paypal = 1..Len(paypal)
        /\ \A i \in 1..Len(paypal) : paypal'[i] = paypal[i]
        /\ paypal'[Len(paypal) + 1] = rows[r][1]
    BY <1>4, <2>3, InsertFacts DEF Pays
  <2>5. Responses' = Responses \cup {Len(paypal) + 1}
    BY <2>3, <2>4 DEF Responses
  <2> QED
    BY <2>2, <2>5
<1>5. Same \/ (Charged' = Charged \cup {Len(ledger) + 1} /\ Responses' = Responses \cup {Len(paypal) + 1})
  <2>1. UNCHANGED allVars \/ DriverCrash => UNCHANGED <<ledger, paypal>>
    BY CrashFrame DEF allVars, vars, driverVars
  <2> HIDE DEF Same
  <2> QED
    BY <1>1, <1>2, <1>3, <1>4, <2>1, TablesMove DEF DriverNext, DriverInv
<1>6. Cardinality(Charged) = Cardinality(Responses)
  BY DEF DriverInv, CountInv
<1>7. Cardinality(Charged') = Cardinality(Responses')
  <2>1. CASE Same
    BY <1>6, <2>1
  <2>2. CASE Charged' = Charged \cup {Len(ledger) + 1} /\ Responses' = Responses \cup {Len(paypal) + 1}
    <3>1. Cardinality(Charged \cup {Len(ledger) + 1}) = Cardinality(Charged) + 1
      BY CountedFinite, FS_AddElement
    <3>2. Cardinality(Responses \cup {Len(paypal) + 1}) = Cardinality(Responses) + 1
      BY CountedFinite, FS_AddElement
    <3> QED
      BY <1>6, <2>2, <3>1, <3>2
  <2> QED
    BY <1>5, <2>1, <2>2
<1>8. IsFiniteSet(executed')
  <2>1. executed' = executed \/ \E pay : executed' = executed \cup {pay}
    <3>1. UNCHANGED driverVars \/ DriverCrash => UNCHANGED executed
      BY CrashFrame DEF driverVars
    <3>2. ASSUME NEW r \in Request, DriverStep(r), ~Quiet(r) PROVE executed' = executed \/ \E pay : executed' = executed \cup {pay}
      BY <3>2 DEF Quiet, DriverStep, PayerStep, ReturnStep, DriverInitPayment, InitCommit, doInit, InitResponse, ReturnRead,
         ReturnSkip, ReturnExecute, ReturnCommit, ExecuteIntent, executePayment, PayPalExecutes, ExecuteCommit, ErrorStep
    <3> QED
      BY <3>1, <3>2, QuietStep DEF DriverNext, allVars
  <2>2. IsFiniteSet(executed)
    BY DEF DriverInv, CountInv
  <2> QED
    BY <2>1, <2>2, FS_AddElement
<1> QED
  BY <1>7, <1>8 DEF CountInv

\* The initial state has the invariant.
LEMMA DriverInvInit == DriverInit => DriverTypeOK /\ DriverInv
<1> SUFFICES ASSUME DriverInit PROVE DriverTypeOK /\ DriverInv
  OBVIOUS
<1> USE DEF DriverInit, Init
<1>1. DriverTypeOK
  BY LedgerAssumption DEF DriverTypeOK, Step
<1>2. PlaceInv /\ PendingInv /\ SeenInv /\ AnsweredInv /\ TableInv
  BY DEF PlaceInv, PlaceOK, PendingInv, PendingOK, SeenInv, SeenOK, AnsweredInv, AnsweredOK, TableInv
<1>3. Charged = {} /\ Responses = {}
  BY DEF Charged, Responses
<1>4. CountInv
  BY <1>3, FS_EmptySet DEF CountInv
<1> QED
  BY <1>1, <1>2, <1>4 DEF DriverInv

\* What the driver keeps true, whatever its handlers and goroutines do: the state
\* of every request fits where it is, and the driver's table fits PayPal's answers
\* and the ledger.
THEOREM DriverInvariance == DriverSpec => [](DriverTypeOK /\ DriverInv)
<1>1. DriverInit => DriverTypeOK /\ DriverInv
  BY DriverInvInit
<1>2. ASSUME TypeOK, DriverTypeOK, DriverInv, [DriverNext]_allVars PROVE DriverTypeOK' /\ DriverInv'
  BY <1>2, DriverTypeStep, PlaceStep, PendingStep, SeenStep, AnsweredStep, TableStep, CountStep DEF DriverInv
<1>3. Spec => []TypeOK
  BY TypeCorrect
<1> QED
  BY <1>1, <1>2, <1>3, DriverImplementsLedger, PTL DEF DriverSpec

\* Every row and variable of the driver has its type, for any number of requests.
THEOREM DriverTypeCorrect == DriverSpec => []DriverTypeOK
  BY DriverInvariance, PTL

\* The two tables agree, however requests overlap, fail or are lost: the response
\* and the payment transaction are committed together (paypal_rest/payment.go).
THEOREM TablesAlwaysAgree == DriverSpec => []TablesAgree
<1>1. DriverInv => TablesAgree
  BY DEF DriverInv, CountInv, TablesAgree, Responses
<1> QED
  BY <1>1, DriverInvariance, PTL

\* There are never more paid and authorized rows than PayPal payments executed:
\* the responses stand for payments that were executed, each for another one.
THEOREM PaidRowsWereExecuted == DriverSpec => []PaidWasExecuted
<1>1. ASSUME DriverInv PROVE PaidWasExecuted
  <2> DEFINE f == [i \in Responses |-> paypal[i].pay]
  <2>1. \A i \in Responses : paypal[i].pay \in executed
    BY <1>1 DEF Responses, DriverInv, TableInv, TableRowOK
  <2>2. \A i, j \in Responses : i # j => paypal[i].pay # paypal[j].pay
    BY <1>1 DEF Responses, DriverInv, TableInv
  <2>3. f \in Injection(Responses, executed)
    BY <2>1, <2>2 DEF Injection, IsInjective
  <2>4. IsFiniteSet(executed) /\ Cardinality(Charged) = Cardinality(Responses)
    BY <1>1 DEF DriverInv, CountInv
  <2>5. Cardinality(Responses) <= Cardinality(executed)
    BY <2>3, <2>4, FS_Injection
  <2> QED
    BY <2>4, <2>5 DEF PaidWasExecuted
<1> QED
  BY <1>1, DriverInvariance, PTL

\* The execute request of a PayPal payment is recorded twice only by ReturnHandlers
\* that overlap: each rests on a snapshot whose newest row was the one answer to
\* the create request, and a snapshot with an earlier execute row has a newer one.
THEOREM ExecutesOnceOrOverlaps == DriverSpec => []ExecutesOnce
<1>1. ASSUME DriverTypeOK, DriverInv PROVE ExecutesOnce
  <2> SUFFICES ASSUME NEW i \in DOMAIN paypal, NEW j \in DOMAIN paypal, i < j, paypal[i].pay = paypal[j].pay,
                      paypal[i].type = "ExecutePayment", paypal[j].type = "ExecutePayment"
               PROVE  paypal[j].base < i
    BY DEF ExecutesOnce
  <2>1. /\ TableRowOK(i) /\ TableRowOK(j)
        /\ \A k, l \in DOMAIN paypal : k # l =>
               /\ paypal[k].ts # paypal[l].ts
               /\ paypal[k].type = "CreatePaymentResponse" /\ paypal[l].type = "CreatePaymentResponse"
                      => paypal[k].pay # paypal[l].pay
    BY <1>1 DEF DriverInv, TableInv
  <2>2. /\ Len(paypal) \in Nat /\ DOMAIN paypal = 1..Len(paypal) /\ \A k \in 1..Len(paypal) : paypal[k] \in PayPalRow
    BY <1>1 DEF DriverTypeOK
  <2>3. paypal[i].base \in Nat /\ paypal[j].base \in Nat /\ paypal[i].base <= Len(paypal) /\ paypal[j].base <= Len(paypal)
    BY <2>1, <2>2 DEF TableRowOK, PayPalRow
  <2>4. PICK k \in 1..paypal[i].base : /\ paypal[k].type = "CreatePaymentResponse" /\ paypal[k].pay = paypal[i].pay
                                       /\ paypal[k].ts <= paypal[i].ts
    BY <2>1, <2>2 DEF TableRowOK, NewestOf, PayPalRow
  <2>5. PICK l \in 1..paypal[j].base : /\ paypal[l].type = "CreatePaymentResponse" /\ paypal[l].pay = paypal[j].pay
                                       /\ \A m \in 1..paypal[j].base : paypal[m].ts <= paypal[l].ts
    BY <2>1 DEF TableRowOK, NewestOf
  <2>6. k \in DOMAIN paypal /\ l \in DOMAIN paypal
    BY <2>2, <2>3
  <2>7. k = l
    BY <2>1, <2>4, <2>5, <2>6
  <2>8. ASSUME i <= paypal[j].base PROVE FALSE
    <3>1. paypal[i].ts <= paypal[l].ts
      BY <2>2, <2>3, <2>5, <2>8
    <3>2. paypal[i].ts = paypal[k].ts
      BY <2>2, <2>4, <2>6, <2>7, <3>1 DEF PayPalRow
    <3>3. i # k
      BY <2>4
    <3> QED
      BY <2>1, <2>6, <3>2, <3>3
  <2> QED
    BY <2>2, <2>3, <2>8
<1> QED
  BY <1>1, DriverInvariance, PTL

\* Money moves only for a payment that was open in the snapshot ReturnHandler
\* read: a cancellation in it was followed by a newer open row.
THEOREM CancelledIsNotExecuted == DriverSpec => []CancelledNotExecuted
<1>1. ASSUME TypeOK, LedgerInv, DriverTypeOK, DriverInv PROVE CancelledNotExecuted
  <2> SUFFICES ASSUME NEW r \in Returner, step[r] \in {"post", "answered"},
                      NEW i \in 1..paymentTx[r].base, ledger[i].status = "cancelled"
               PROVE  \E k \in 1..paymentTx[r].base : ledger[k].status = "open" /\ ledger[k].ts > ledger[i].ts
    BY DEF CancelledNotExecuted
  <2>0. r \in Request /\ r \notin Payer /\ r \notin Canceller
    BY PayPalAssumption
  <2>1. pc[r] = "intent" /\ paymentTx[r].status \in Ending
    BY <1>1, <2>0 DEF DriverInv, PlaceInv, PlaceOK, Ending
  <2>2. RestsOnOpen(ledger, paymentTx[r]) /\ paymentTx[r].base <= Len(ledger)
    BY <1>1, <2>0, <2>1 DEF LedgerInv, RequestInv, RequestOK
  <2>3. PICK k \in 1..paymentTx[r].base : /\ ledger[k].status = "open"
                                          /\ \A m \in 1..paymentTx[r].base : ledger[m].ts <= ledger[k].ts
    BY <2>2 DEF RestsOnOpen
  <2>4. paymentTx[r].base \in Nat /\ Len(ledger) \in Nat /\ DOMAIN ledger = 1..Len(ledger)
    BY <1>1, <2>0 DEF TypeOK, Row
  <2>5. i \in DOMAIN ledger /\ k \in DOMAIN ledger
    BY <2>2, <2>4
  <2>6. ledger[i] \in Row /\ ledger[k] \in Row
    BY <1>1, <2>5 DEF TypeOK
  <2>7. ledger[i].ts # ledger[k].ts
    BY <1>1, <2>3, <2>5 DEF LedgerInv, RowsInv
  <2>8. ledger[k].ts > ledger[i].ts
    BY <2>3, <2>6, <2>7 DEF Row
  <2> QED
    BY <2>3, <2>8
<1> QED
  BY <1>1, DriverInvariance, DriverImplementsLedger, LedgerInvariant, PTL

\* Money does not move for a payment that was paid in the snapshot ReturnHandler
\* read and not opened again, whatever another PayPal payment of it makes it look
\* like in between (driver.go:285, :582).
THEOREM PaidIsNotExecuted == DriverSpec => []PaidNotExecuted
<1>1. ASSUME TypeOK, LedgerInv, DriverTypeOK, DriverInv PROVE PaidNotExecuted
  <2> SUFFICES ASSUME NEW r \in Returner, step[r] \in {"post", "answered"},
                      NEW i \in 1..paymentTx[r].base, ledger[i].status \in {"paid", "authorized"}
               PROVE  \E k \in 1..paymentTx[r].base : ledger[k].status = "open" /\ ledger[k].ts > ledger[i].ts
    BY DEF PaidNotExecuted
  <2>0. r \in Request /\ r \notin Payer /\ r \notin Canceller
    BY PayPalAssumption
  <2>1. pc[r] = "intent" /\ paymentTx[r].status \in Ending
    BY <1>1, <2>0 DEF DriverInv, PlaceInv, PlaceOK, Ending
  <2>2. RestsOnOpen(ledger, paymentTx[r]) /\ paymentTx[r].base <= Len(ledger)
    BY <1>1, <2>0, <2>1 DEF LedgerInv, RequestInv, RequestOK
  <2>3. PICK k \in 1..paymentTx[r].base : /\ ledger[k].status = "open"
                                          /\ \A m \in 1..paymentTx[r].base : ledger[m].ts <= ledger[k].ts
    BY <2>2 DEF RestsOnOpen
  <2>4. paymentTx[r].base \in Nat /\ Len(ledger) \in Nat /\ DOMAIN ledger = 1..Len(ledger)
    BY <1>1, <2>0 DEF TypeOK, Row
  <2>5. i \in DOMAIN ledger /\ k \in DOMAIN ledger
    BY <2>2, <2>4
  <2>6. ledger[i] \in Row /\ ledger[k] \in Row
    BY <1>1, <2>5 DEF TypeOK
  <2>7. ledger[i].ts # ledger[k].ts
    BY <1>1, <2>3, <2>5 DEF LedgerInv, RowsInv
  <2>8. ledger[k].ts > ledger[i].ts
    BY <2>3, <2>6, <2>7 DEF Row
  <2> QED
    BY <2>3, <2>8
<1> QED
  BY <1>1, DriverInvariance, DriverImplementsLedger, LedgerInvariant, PTL

=============================================================================
