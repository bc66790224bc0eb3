# TLA+ models of paymentd

paymentd is a payment server: merchants create payments through an API, customers
are sent to a web handler that opens the payment and hands it to the driver of a
payment method (PayPal, the fritzpay demo provider, Stripe); drivers change the
payment's status, and the merchant is notified of every change. All state lives
in two MySQL databases (principal, payment), mostly as append-only rows of which
the newest counts. Everything runs in goroutines of one process: one per HTTP
request, and the ones drivers and the payment service leave behind.

## Inventory

| Part | State | Operations | Interacts with | Hard part | What makes it correct |
|---|---|---|---|---|---|
| payment ledger (`pkg/service/payment`, `pkg/paymentd/payment`) | rows of `payment_transaction`; per request a `*Payment` | `IntentOpen/Cancel/Paid/Authorized`, `SetPaymentTransaction`, commit, `CommitIntentFunc` | web handler, drivers, notification | status is read, checked and written in separate steps by concurrent requests; timestamps order rows, not commits | a history that begins with open, no second ending except by overlap |
| intent procedure (`handleIntent`) | worker lists under `mIntent`, channels, goroutines | register workers, pre-, post- and commit-intent | every intent | timeouts racing late answers, lock on every path | nobody but the collector of answers is left waiting; registered workers are run |
| notification (`callback.go`) | none of its own | `notify`, `doNotify` | reads ledger (read-only DB), posts to the merchant | reads a `Payment` others still change, and a replica that lags | once per committed row, with its status and history |
| PayPal driver | rows of `provider_paypal_transaction`; goroutines `doInit`, `executePayment` | `InitPayment`, `ReturnHandler`, `CancelHandler`, status pages | ledger, PayPal | answers lost between two systems, repeated returns, crash between commit and goroutine | a paid row means money moved; both tables agree |
| pools and rate limit (`context.go`, `paymentd.go`) | tokens, connections | `RateLimitHandler`, `PaymentDB`, transactions | every handler | a second connection while holding one; leaked transactions | every admitted request is answered, all is given back |
| web handler (`pkg/service/web`) | cookies, payment configuration and metadata | `PaymentHandler`, token redemption, method choice | ledger, drivers | concurrent handlers, retry loop | one method per payment, a token is used once |
| fritzpay driver | `fritzpay_payment`, its transactions | `InitPayment`, psp worker, `Callback` | ledger, itself over HTTP | worker waits for a callback inside a transaction | asked only for a pending payment; a good answer leaves an open row, and only overlap a second one |
| Stripe driver | configuration | charge | Stripe | charge without a ledger row | a charge is recorded |
| tokens, configuration, metadata | append-only rows | insert, newest row | web handler, API | same timestamps, concurrent writers | newest wins consistently |
| InitPayment and GetPayment API | payment, configuration, token | create and read payments | ledger tables | retries, lost commits, unique ident | a payment appears whole, once per ident; answers are true |
| keychain, authorization | keys, newest first | rotate, match | API, cookies | rotation while containers are in use | a container made with a kept key is accepted |
| administration API and entities | principals, projects, methods | create, change | API | check then insert by concurrent requests, errors not looked at | an entity is complete and created once; what was answered is kept |
| graceful server | listeners, wait group, signal channels | serve, hand over, shut down | all services | signals racing registration, two goroutines per signal | somebody always accepts; nothing is cut; the old process ends |
| ID encoder, balance | - | `Hide`/`Show`, `Balance` | API | 63-bit arithmetic with a sign, scales | inverse, also through the displayed string; sum by currency |

`PROJECT.json` lists every part with its sources and status, and under `hazards`
what in this code is hard to test, at its line.

## Modules

### PaymentLedger

One payment, any number of requests. A request is an HTTP request with the
goroutine it may leave behind. `pc` is its place: *begin* (`beginTx`), *read* (the
payment was read), *intent* (an intent was granted), *committed*, *served* (the
driver has it), *initBegin*/*init*/*pending* (fritzpay's `InitPayment`: back at its
own `beginTx`, status read, pending row ready), *ended*, *failed*. `payment[r]` is the `*Payment` it holds, `paymentTx[r]` the row to insert,
`work[r]` the commit goroutine. `ledger` is the table in commit order; a row's
`base`, the number of rows in the snapshot it rests on, is a history variable.
`now` may stand still between two readings, so equal timestamps occur and meet
the primary key.

| Action | Code |
|---|---|
| `ReadPayment`, `NoIntent`, `CommitTx`, `CommitUnknown`, `Fail`, `Retry`, `CommitIntent` | `web/payment.go` `PaymentHandler` and the like-built PayPal handlers |
| `IntentOpen`, `IntentCancel`, `IntentPaid`, `IntentAuthorized` | the methods of `service.go`; `handleIntent` is one step here |
| `CommitIntentTimeout`, `NotifyBuild`, `NotifySend`, `NotifyFail` | the goroutine of `handleIntent`, `notify`, `doNotify` |
| `InitPayment`, `InitPending`, `InitDone` | `fritzpay/init.go` |
| `Replicate`, `Crash` | external: MySQL replication; the process dies and is restarted |

Both handlers have a `beginTx` they go back to after a lock error, each with its own
counter. `LockError` is where one may be met: in `PaymentHandler` when configuration and
metadata are saved or a commit without an intent is made (*read*), and when the row is
inserted or committed; in fritzpay's `InitPayment` when its row is, or when it commits
without one. The PayPal handlers have no such loop.

Left out: amounts, configuration, metadata, and what the notification encodes.
The inactive and disabled payment methods are among the reasons for `Fail`.

### PayPalDriver

Extends PaymentLedger. Each action is a ledger action joined with what the driver
does, or the driver alone: `Open` is `PaymentHandler`; `DriverInitPayment`,
`InitCommit`, `doInit`, `InitResponse` create the PayPal payment; `ReturnRead`,
`ReturnSkip`, `ReturnExecute`, `ReturnCommit`, `ReturnFail` are `ReturnHandler`;
`ExecuteIntent`, `executePayment`, `ExecuteCommit`, `ExecuteNotify` its goroutine;
`CancelHandler`; `ErrorStep` the insert of `setPayPalError`. `executed` is PayPal's
side: the payments whose money moved. That PayPal's answer 200 to an execute request
means that it did is an assumption: the driver does not look at the answer's state
(`driver.go:679-705`), as it does after the create request (`driver.go:442`).
`Faults` switches lost answers, failing
inserts, ambiguous commits, a standing clock and crashes on. The steps of the
commit goroutines are not taken here; nothing in the driver reads them.
`getPayment` has no caller in the repository and is left out. The authorization
`executePayment` saves for the intent "authorize" is part of the transaction of
`ExecuteCommit`.

### IntentProcedure

`handleIntent` seen from inside, for concurrent calls: workers, the result channel
of capacity one, timer, context, `mIntent` as a writer-preferring lock, the commit
goroutine, and the one it starts to collect its workers' answers (`collecting`). The
latter receives from a channel nobody closes (`service.go:485-499`): no step ends it.
Post-intent workers only log and are part of `Grant`. Its `IntentInit`, `IntentNext`
and the like carry the prefix because ProcessProofs extends it next to GracefulServer.

### ConnectionPool

Tokens of the rate limit and connections of the two payment pools. Requests hold a
connection from `Begin` to `Commit` or `Rollback`; `IntentRead` takes the second one.
`lost` counts the transactions a request went away from with `goto beginTx`.
Driver goroutines use the write pool without a token.

### PaymentSetup, PaymentRegistry, IDEncoder

From the merchant's call to the customer's cookie. A call of `InitPayment`
(`api/v1/init_payment.go`) goes *start*, *begun* (`beginTx`), *created*
(`CreatePayment`), *token* (`CreatePaymentToken`), *respond* (committed or refused), *done*; what it has
inserted is in `tx[r]` until the commit. Two calls with one ident, or two equal
random tokens, wait for each other at the unique index (`IdentUnlocked`,
`TokenUnlocked`: MySQL's row locks); the loser gets a conflict or, after a rollback,
goes on. `resp` is the answer being prepared, `answer` what the merchant has got: a
deferred function writes it (`WriteResponse`), after the rollback. The customer's
half is `authenticatePaymentToken`: `Arrive`, `FindPayment`, `DeletePaymentToken`
(which sets the cookie), `Redirect`. `TokenTooOld` and `Crash` may come at any time.
`late[c]` and `spent` are history: payments whose token was used or too old
before `c` arrived. `GetPayment` only reads and is the operators `GetPaymentByID` and
`GetPaymentByIdent`.

PaymentRegistry is what this is for: payments with configuration and token come into
being at once, one per ident; a confirmation names an existing payment and a token
that is not another's; a conflict an existing one. PaymentSetup implements it
(`ImplementsRegistry`): the mapping shows the committed rows, drops stale tokens and
decodes the displayed ids in answers.

IDEncoder is `Hide`, `Show` and `ParsePaymentIDStr` with `Width` bits and a sign instead of
63 (`pow2` and `xor` are recursive functions; a negative number has the bits of its
complement flipped). Its `Key` is every pair `NewIDEncoder` accepts, negative ones
included. `GetPaymentByID` parses the displayed id before it decodes it, as the code does
with the string in the URL. PaymentSetup uses one key, `IdsRoundTrip` quantifies over
all of them. Where two calls of `time.Now` or two random numbers matter, the model
chooses. Two equal draws may happen while the first is in use; a token that was handed
out is not drawn again after its row is deleted (`TokenFree`: it has 32 random bytes).

### PaymentConfiguration

One payment with its versions of configuration and metadata. `PaymentHandler` reads
the newest of both (`Read`), fills in locale, browser data and method in memory
(`Determined`), inserts a whole new version of each (`SetPaymentConfig`,
`SetPaymentMetadata`, each with its own timestamp and primary key), commits and
hands over (`Serve`). `ChangeStatus` is the administration API switching a method.
Initially the payment is as `InitPayment` left it, with or without method, locale and
metadata. `stored`, the maps of metadata that were committed, as their writers had
them in memory, and the `old` of a payment are history.

### FritzpayDriver

Extends PaymentLedger like PayPalDriver does. `FindPayment` and `Register` are
`InitPayment` joined with the ledger's steps; `CallPSP`, `WorkerDone`, `WorkerFail`,
`ContextDone` the psp worker, whose transaction stays open while it calls the server
itself; `Answer`, `Ignore`, `Noop`, `InsertOpen`, `CommitOpen`, `CallbackError` are
`Callback`. `rows` is every row that was inserted, with what became of its transaction:
open, committed or rolled back. Only committed ones are read; a row that was rolled back
stays as history, so that the place of a row never changes. `saw` is history too: the
committed rows an open row was inserted in view of.

### GracefulServer

The daemon's processes. `main[p]` is where `main`/`Serve` is, `grace[p]` the goroutine in
`grace.Wait`, `shut[p]` the one in `Shutdown`, `acc[p]` the accept loop, `background[p]` the
payment service's background task. Signals are put into the channels registered at
that moment (`Notified`), which is how a TERM can reach one goroutine and not the
other. All processes share one socket, and with it the queue of connections.
`SendTerm` and `SendUsr2` are the operator. `undisturbed` is history: no TERM of an
operator, no failing listener. The vendored package grace is modelled with it, as
the code of `pkg/server` is nothing without it. A process has one listener; sockets
handed over by init (closed with a deadline) and `TermTimeout`, which nobody sets,
are left out.

### Keychain, AdminAPI

Keychain is the order of keys: pushed at the front, signed with the first, matched
with any. AdminAPI composes it with the handlers that create a principal, a project
or a payment method and change a method: they share the shape *begin*, *check*, *row*,
*rest*, *commit*, and the model keeps where they differ (who looks first, who answers
before the commit, who ignores which error). `wrote[r]` are the rows of a
transaction, `RowFree` the unique index. Processes come one after the other, each
with the keychain of the configuration it read, and old ones still serve. `fault`
and `leaked` mark requests that met an error the handler does not look at.

The `MC` modules add symmetry sets and a small key, and nothing else.

## Runs

| Run | Question | Bounds |
|---|---|---|
| `Ledger` | history, endings, notifications under every interleaving with crashes, retries, ambiguous commits | 3 requests, clock to 4, 2 retries: an open payment, two racing endings, one re-opening |
| `LedgerMixed` | with fritzpay's pending rows and a lagging replica, the retry loops of both handlers and commit goroutines end | 2 requests, clock to 2, 2 retries, so that each loop goes round once and then gives up |
| `PayPal` | money and tables agree with lost answers and crashes | payer, two returns, one cancel, clock to 6: create, response, two executes and their answers or errors |
| `PayPalTwoPayments` | two payers create two PayPal payments, intent "authorize"; both pages stop polling | two payers, a return, a cancel, clock to 8 (as many rows as they can write), no faults |
| `Intent` | late commit workers are run, nobody but the collectors of answers is left waiting | 2 calls, 1 pre-intent worker, 1 late registration |
| `Pool` | with a read-only pool of its own all that is not lost is given back, and requests are answered | 4 requests for 2 connections, 1 goroutine, 2 retries |
| `PoolShared` | the same without a read-only database: violated, see below | 2 requests for 2 connections |
| `Setup` | payments appear whole, once per ident, answers are true; a token is redeemed once; calls are answered; ids round-trip for every key, or lead nowhere with a negative xor | 2 calls, 2 idents, 2 tokens (so that two draws are equal), 2 customers, 2 retries, 4 bits |
| `Config` | what the merchant set is kept, the metadata in force is one writer's and complete, the method stays | 2 requests, 2 methods, clock to 4 (one version before, one by each, one gap), 2 retries |
| `Fritzpay` | provider after pending, open row after a good answer, a second one only by overlap | 2 requests with worker and callback each, clock to 3 |
| `Server` | a listener is always open, connections are not cut, TERM ends a process, queued connections are served | 1 connection at a time, 2 signals or failures, so up to 3 processes |
| `Admin` | entities complete and created once, changes kept, transactions end, sessions outlive restarts, requests are answered | 3 requests, 2 processes, 2 keys |

The runs check what could go wrong and not the types: of the type invariants only the
ledger's is in a run, and all of them are proved. The inductive invariants are
proved and need no run.

Symmetry is used in safety runs only. Requests may all end, so deadlock is not
checked; that they end where they should is what the liveness properties say.
`RequestsReturn` excepts the states in which lost connections have used up a pool
(`Starved`): a request that gives up after lock errors has left its transactions open
(`web/payment.go:271`, "no need to roll back"), and `PoolRestored` accounts for them.

`PoolShared` expects a violation: the handbook makes the read-only database
optional, and without it `IntentOpen` asks the pool of the open transaction for a
second connection, so all admitted requests wait for each other.

What the code does not do is said in the properties by what they except, and under
`hazards`: a notification by fritzpay may report the later status; a replica may lag
behind a notification's history; commit workers of a slow request are never invoked;
a refused second execute leaves an error as the newest PayPal row; overlapping
customers may share a token; a failed restart ends without draining; a failed
provider lookup leaks a transaction; overlapping callbacks both open a fritzpay payment.
Three more, with nothing to check:

* Every committed intent leaves a goroutine behind for good: the one that collects the
  commit workers' answers receives from `errC`, which nobody closes. `OnlyCollectorsLeft`
  says that it is the only one.
* A method switched off between `determinePaymentMethodID` and the driver still gets the
  payment (`web/payment.go:489`), and a fritzpay worker whose context ends leaves its inner
  goroutine blocked on `errors` (`psp.go:106`). Both happen in the model, as in the code.
* The handbook calls the encoder's xor "an arbitrary ``int64``" (`config.rst:36`), and
  `payment_id.go:55` calls `String` "the inverse of the ParsePaymentIDStr". With a negative
  xor displayed ids are negative, "7--5" splits into three parts, and the merchant, the
  customer's PayPal return and fritzpay's callback cannot be matched to a payment
  (`NegativeNotLookedUp`). The repository's test uses positive keys only.

Some hazards lie outside the bounds: two PayPal payments of one payment being executed
needs two payers and two returns with faults, which no run has. That neither is executed
by a request that has seen the other's paid row is proved (`PaidIsNotExecuted`).

### Fairness

Weak fairness only, and only for what has begun: nobody has to send a request.
A request that arrived goes on, because database and provider answer or report an
error (an error is a step too); timers fire; runnable goroutines are scheduled; a
select with a ready case proceeds. A pre-intent worker owes nothing until the done
channel is closed. In ConnectionPool whoever does not wait for a connection goes
on, and database/sql hands a free connection to whoever waits. In PaymentSetup calls
and customers go on, waiting at an index ends with the other transaction.
FritzpayDriver assumes no fairness: built with go1.2, which `.travis.yml` lists, its HTTP
client has no timeout (`http_client_no_timeout.go`), so a worker may call for ever. In
GracefulServer a connection must end only once its process has switched keep-alives off,
since then read and write timeouts end it; before, a client may hold it for ever. That,
and so `TermEnds`, is about builds with go1.3 and later: before, nothing switches
keep-alives off (`server_shutdown_nokeepalives.go` does nothing). In AdminAPI handlers
go on.

## Proofs

A proof module stands beside the module it is about; ProcessProofs is about the two that
model goroutines of one process. Each states the inductive invariant,
shows that `Init` has it and that every action keeps it, and derives the properties of
the runs: they then hold for any number of requests, any retry limit and any clock, not
only within the bounds above. The assumptions on the constants are the named `ASSUME`s
of the models, which the runs evaluate; a theorem that needs more says so in its
statement. `TypeCorrect` (`DriverTypeCorrect`, `FritzpayTypeCorrect`, `ServerTypeCorrect`,
`IntentTypeCorrect`) is proved everywhere. Every invariant and every action property a
passing run checks is also a theorem.

Types alone are seldom inductive: that a retry counter stays within its limit needs the
fact that a transaction is only begun below it (`RetriesInv`, `RetryInv`).

### PaymentLedgerProofs

`LedgerInv` says what a request carries between its steps:

* `RowsInv`: timestamps are distinct and not in the future, and an ending row rests
  on a snapshot whose newest row is open;
* `RequestInv`: the same for the row a request is about to insert, and for the
  payment it has read. A snapshot is a prefix of the ledger, which only grows, so
  other requests' steps keep it (`StepExtends`, `RestsKept`);
* `WorkInv`: a goroutine that may still post holds a committed row no other such
  goroutine holds and no notification is about. It fails without the fact that a
  retry forgets its old goroutine.

`OpensFirst` and `NotifiesOnce` are parts of it. `EndsAtMostOnce` follows from `RowsInv`: if the
later of two endings saw the earlier one, the open row it rests on is newer than that.
`NotificationsComplete` assumes that there is no replica, as the property does.
`NotificationsTellStatus` assumes that fritzpay is not among the providers: its
`InitPayment` sets the status of the `*Payment` the notification goroutine still reads
(`init.go:93`), and then the property is false. Without it a request's payment
and the row of its goroutine keep one status until the notification is built (`StatusInv`).

### PayPalDriverProofs

Every step of the driver is a step of the ledger or leaves it alone
(`DriverImplementsLedger`, by the identity), so the ledger's theorems hold of it:
`DriverEndsOnce`. Notifications are left to the ledger's own theorems, as the driver's
model takes no step of the commit goroutines. About its own table, `DriverInv` says

* `PlaceInv`, `PendingInv`: where a request can be with which payment transaction, and
  which rows it is about to insert;
* `SeenInv`: what `ReturnHandler` read was the newest row of its snapshot;
* `AnsweredInv`: PayPal has executed a payment it answered for, and has answered once
  for each;
* `TableInv`: an execute row rests on a snapshot whose newest row was the answer to the
  create request; timestamps are distinct, and a PayPal payment has one response;
* `CountInv`: there are as many paid and authorized rows as responses.

`TablesAlwaysAgree` is `CountInv`: both rows are inserted by one transaction. `PaidRowsWereExecuted`
maps the responses one to one to executed payments. `ExecutesOnceOrOverlaps`: had the
later execute request seen the earlier, the newest row of its snapshot would have been
no answer to a create request. `CancelledIsNotExecuted` and `PaidIsNotExecuted` are the
ledger's `RequestInv` applied to the row a `ReturnHandler` is about to insert. The latter is about
two PayPal payments of one payment, for any number of payers; no run checks it.

### FritzpayDriverProofs

Again each step is one of the ledger (`FritzpayImplementsLedger`), which gives
`FritzpayOpensFirst`. `FritzpayInv` says that whoever can have told the provider came after
a pending row in the ledger, that a row is uncommitted only while its worker or callback
is at work, what each state of `Callback` stands for, that a request starts one
worker, at its end, and that an open row's author saw no open row, or a newer one of a
worker behind it (`SawInv`). `ProviderHearsAfterPending`, `DoneLeavesOpen` and
`OpensOnceOrOverlaps` follow, and
`TransactionsEnded`, which no run checks: neither worker nor callback leaves an open row
behind, whichever of them fails first. Two workers' transactions overlap freely in
this argument; it needs that rows of one transaction end together and rows never go away.

### PaymentSetupProofs

First the arithmetic: `pow2` and `xor` are what their equations say (`RecursionDefined`),
xor is an involution on words and, with the bits of the complement, on negative numbers
(`XorTwice`); a number with an inverse modulo the power of two undoes the product; hence
`HideAndShow` for every width, 63 included, every key `NewIDEncoder` takes and every id. The
displayed id is negative exactly if the key's xor is. `SetupInv` follows the rows through the transactions:

* `TxInv`: what a call has inserted at each point;
* `IdInv`, `TokenInv`: ids, idents and tokens are unique over committed and uncommitted rows
  together (the unique indexes and their locks), a committed payment has its
  configuration and one token;
* `AnswerInv`: a confirmation, written or still being prepared, is about a committed payment
  with the call's ident, and no other call is told of that payment or that token. It
  needs that the answer names the token that was inserted, however many were drawn;
* `CustomerInv`, `SpentInv`: who holds a payment brought a token of it; what was spent has no
  valid token any more.

`RefinesRegistry` shows the refinement of PaymentRegistry: `Commit` and `CommitUnknown` are its
creation, `WriteResponse` its answers, `TokenTooOld` and the customer's steps the end of a token,
everything else stutters. `RedeemedOnce` and `IdsDecodable` follow as well; `AnswersLookUp` for keys whose xor is not
negative, and for the others `NegativeNotLookedUp`.

### PaymentConfigurationProofs

`ConfigurationInv`: a handler's uncommitted rows are what it has in memory (`InsertedInv`);
timestamps are keys over committed and uncommitted rows (`ConfigKeyInv`, `MetaKeyInv`);
there is a newest version and the first stays (`VersionsInv`); every version, stored
or in a handler's memory, has what the merchant set (`MerchantInv`, `OrderInv`); no
handler changes a method it has read (`MethodInv`); every timestamp of the metadata has a
whole map of one writer (`WholeInv`), since two maps with an entry name in common cannot
share one: all have the merchant's entry, or each a remote address. `MerchantDataIsKept`
and `MetadataIsWhole` follow. `MethodIsKept` is an action property: the
version a commit brings into force was derived from a configuration with the method in
force, because every handler at work has read it.

### AdminAPIProofs

`HandlerInv`: when a transaction is open (`OpenInv`), what it has inserted at each point
(`WroteInv`), one row per entity over committed and uncommitted ones (`OneRow`), a parent
that was looked up stays (`ParentInv`), what an answer stands for (`AnswerInv`). From it
`EntitiesComplete`, `OneCreator`, `ChangesAreKept` and `TransactionsAreEnded`. `KeyInv` is about the
keychains: with configured keys a later process knows all keys of an earlier one, and a
session's key is in the keychain of the process that signed it; hence `SessionsAreKept`.

### ProcessProofs

Of the daemon's processes, whatever the number of restarts and failures. `AlwaysServing`
says that somebody accepts, and is not inductive: it does not say why the one that
accepts will not be the next to stop. `ServerInv` does:

* `PlaceInv`, `FirstInv`: no signal has reached a process before it waits for signals, and the
  first process has init for its parent, so it is never the child that tells another
  to stop;
* `ServingInv`: as long as nobody disturbs, the first process is still starting up or some
  process is `Untold`: it accepts, has been through the hand-over and has no SIGTERM in
  any of its two channels. An `Untold` process becomes another only by the step of a
  child that closes its parent, and then the child is one (`UntoldStays`, `NewlyUntold`):
  it is past its own hand-over, and has no child yet that could tell it;
* `BeforeInv`: before the first process serves there is no connection and no other process;
* `ConnInv`, `DrainedInv`: the accept loop holds one connection at most; a process whose
  WaitGroup reached zero with its socket closed has none and takes none. That the sets
  the WaitGroup counts are finite is proved, and `Conns` may be infinite;
* `BackgroundInv`: the wait of `Shutdown` ended without a counted task or by its timeout.

`AlwaysServes` and `NothingIsLeft` follow, and `QueueIsKept`, which no run checks: no restart
resets a connection that waits in the socket's queue, because the `Untold` process holds
the socket whoever closes it (`NotLast`).


Of the intents, `IntentInv`: the notification worker is always registered, a goroutine that runs has been
called and runs all that was registered then, and a call holds `mIntent` for reading
exactly between `Start` and its decision. `RegisteredWorkersRun` and, with no run of its own,
`LockIsReleased` follow.

### ConnectionPoolProofs

`PoolInv` counts: of each pool as many connections are out as are held first or second plus
the lost ones (`HeldInv`), and tokens left and requests admitted add up (`TokenInv`). That
the sets counted are finite is part of it and not assumed. `PoolIsRestored` follows.
`AdmittedNeverWaits` assumes a read-only database of its own: without one the run
`PoolShared` shows what goes wrong.

### Only model-checked

* Liveness: `RequestsTerminate`, `PollEnds`, `OnlyCollectorsLeft`, `RequestsReturn`, `InitAnswered`,
  `TermEnds`, `QueuedIsServed`, `RequestAnswered`. Fairness and ENABLED are beyond the
  proof system.

## Not modelled

Encoding, signing and encryption, templates, logging, configuration files,
paymentdctl, and of the vendored libraries (most of the lines in the repository)
all but grace: they are third-party code the daemon uses through narrow interfaces,
and appear as external steps. MySQL is taken as a store with snapshot reads, primary
keys and unique indexes; deadlock errors may come at any insert or commit.

The Stripe driver writes no row and changes no payment: there is no state whose
consistency could be checked. The OAuth store is a cache of one value per method.
`Balance` adds decimals; no other part reads it. In the administration API the changes
of principals and projects, the system password, logout and the reading endpoints
are left out, in the server several listeners and init's sockets. The deletion of
tokens on a read-only server is refused by MySQL; the model has one database there.

`SetPaymentTransaction` is documented to send a callback (`service.go:375`); it does
not, the notification is the commit worker's. So fritzpay's pending rows, written
without an intent, are never notified. The model follows the code.

## Plan

1. Changes of principals and projects, with the one-second key of `project_config`.
2. OAuth transports and the request context map; `Balance` against a reference sum.
3. Abstract specifications: a payment as one status that moves from open to an
   ending, implemented by the ledger when requests do not overlap; the pool as a
   counting semaphore.
