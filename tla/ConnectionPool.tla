--------------------------- MODULE ConnectionPool ---------------------------
(***************************************************************************)
(* Connections and rate limit.  A request enters through RateLimitHandler, *)
(* which hands out as many tokens as a pool has connections, works in a    *)
(* database transaction that holds a connection until Commit or Rollback,  *)
(* and may need a second connection meanwhile: the Intent* methods read    *)
(* the payment method from PaymentDB(ReadOnly), which is the write pool    *)
(* when no read-only database is configured.  Goroutines a driver leaves   *)
(* behind use the write pool without a token.  database/sql makes whoever  *)
(* finds the pool empty wait, without a timeout.                           *)
(***************************************************************************)
EXTENDS Integers, FiniteSets

CONSTANTS PaymentRequest,         \* requests to PaymentHandler with a cookie
          TokenRequest,           \* requests to PaymentHandler with a token
          Background,             \* goroutines of drivers: doInit, executePayment
          MaxOpenConns,           \* cfg.Database.MaxOpenConns
          TransactionMaxRetries,  \* cfg.Database.TransactionMaxRetries
          ReadOnlyDB,             \* is a ReadOnly payment database configured?
          LockErrors              \* does MySQL report lock errors (1213)?

Request == PaymentRequest \cup TokenRequest
Actor == Request \cup Background

ASSUME PoolAssumption ==
    /\ MaxOpenConns \in Nat \ {0}   \* NewContext insists
    /\ TransactionMaxRetries \in Nat
    /\ ReadOnlyDB \in BOOLEAN /\ LockErrors \in BOOLEAN
    /\ PaymentRequest \cap TokenRequest = {} /\ Request \cap Background = {}

VARIABLES
    rateLimit,  \* tokens left in the channel
    used,       \* used[d]: connections of pool d that are checked out
    at,         \* at[a]: where a is
    retries,    \* retries[r]
    lost        \* lost[d]: those held by transactions nobody refers to any more

vars == <<rateLimit, used, at, retries, lost>>

Pool == {"write", "readonly"}

\* Context.PaymentDB(ReadOnly)
ReadOnly == IF ReadOnlyDB THEN "readonly" ELSE "write"

\* The pool a works in: the token handler begins its transaction on ReadOnly.
TxPool(a) == IF a \in TokenRequest THEN ReadOnly ELSE "write"

Init ==
    /\ rateLimit = MaxOpenConns
    /\ used = [d \in Pool |-> 0]
    /\ at = [a \in Actor |-> "arrived"]
    /\ retries = [r \in Request |-> 0]
    /\ lost = [d \in Pool |-> 0]

----------------------------------------------------------------------------
(* sql.DB: a connection is taken from the pool or opened, up to the limit. *)

Acquire(d) == used[d] < MaxOpenConns /\ used' = [used EXCEPT ![d] = @ + 1]
Release(d) == used' = [used EXCEPT ![d] = @ - 1]
Move(a, from, to) == at[a] = from /\ at' = [at EXCEPT ![a] = to]

----------------------------------------------------------------------------
(* Requests.                                                               *)

\* Mutant: requests are counted, not held back.
EnterUnlimited(r) == /\ Move(r, "arrived", "begin")
                     /\ rateLimit' = rateLimit - 1
                     /\ UNCHANGED <<used, retries, lost>>
\* RateLimitHandler
Enter(r) == /\ Move(r, "arrived", "begin")
            /\ rateLimit > 0
            /\ rateLimit' = rateLimit - 1
            /\ UNCHANGED <<used, retries, lost>>

Leave(r) == /\ Move(r, "return", "done")
            /\ rateLimit' = rateLimit + 1
            /\ UNCHANGED <<used, retries, lost>>

\* beginTx: waits for a connection.
Begin(r) == /\ retries[r] < TransactionMaxRetries
            /\ Move(r, "begin", "tx")
            /\ Acquire(TxPool(r))
            /\ UNCHANGED <<rateLimit, retries, lost>>

\* Too many retries: "no need to roll back".
GiveUp(r) == /\ retries[r] >= TransactionMaxRetries
             /\ Move(r, "begin", "return")
             /\ UNCHANGED <<rateLimit, used, retries, lost>>

\* An insert or delete is refused with ErrDBLockTimeout: goto beginTx, where tx
\* is overwritten; nobody rolls it back.
LockError(r) ==
    /\ LockErrors
    /\ at[r] \in {"tx", "ready"}
    /\ at' = [at EXCEPT ![r] = "begin"]
    /\ retries' = [retries EXCEPT ![r] = @ + 1]
    /\ lost' = [lost EXCEPT ![TxPool(r)] = @ + 1]
    /\ UNCHANGED <<rateLimit, used>>

\* Mutant: the retry is not counted.
CommitLockErrorUncounted(r) ==
    /\ LockErrors
    /\ Move(r, "ready", "begin")
    /\ Release(TxPool(r))
    /\ UNCHANGED <<rateLimit, retries, lost>>
\* tx.Commit is refused: the connection is back in the pool anyway.
CommitLockError(r) ==
    /\ LockErrors
    /\ Move(r, "ready", "begin")
    /\ Release(TxPool(r))
    /\ retries' = [retries EXCEPT ![r] = @ + 1]
    /\ UNCHANGED <<rateLimit, lost>>

\* The payment has to be opened: IntentOpen reads the payment method on a
\* second connection, for which it waits.
Intent(r) == /\ r \in PaymentRequest
             /\ Move(r, "tx", "intent")
             /\ UNCHANGED <<rateLimit, used, retries, lost>>
IntentRead(r) == /\ Move(r, "intent", "reading")
                 /\ Acquire(ReadOnly)
                 /\ UNCHANGED <<rateLimit, retries, lost>>
IntentGranted(r) == /\ Move(r, "reading", "ready")
                    /\ Release(ReadOnly)
                    /\ UNCHANGED <<rateLimit, retries, lost>>

\* The payment is initialized already, or the request is about a token.
NoIntent(r) == /\ Move(r, "tx", "ready")
               /\ UNCHANGED <<rateLimit, used, retries, lost>>

\* Mutant: an error return without the deferred rollback.
RollbackForgotten(r) == /\ Move(r, "ready", "return")
                        /\ UNCHANGED <<rateLimit, used, retries, lost>>
\* An error, before or after the intent, or a refused intent: the deferred
\* function rolls the transaction back.
Rollback(r) == /\ at[r] \in {"tx", "ready"}
               /\ at' = [at EXCEPT ![r] = "return"]
               /\ Release(TxPool(r))
               /\ UNCHANGED <<rateLimit, retries, lost>>

\* tx.Commit; the payment is then served by its driver, a token request redirected.
Commit(r) == /\ Move(r, "ready", IF r \in PaymentRequest THEN "serve" ELSE "return")
             /\ Release(TxPool(r))
             /\ UNCHANGED <<rateLimit, retries, lost>>

\* paypal_rest.Driver.InitPayment: one transaction, no other connection.
Serve(r) == \/ /\ Move(r, "serve", "serving")
               /\ Acquire("write")
               /\ UNCHANGED <<rateLimit, retries, lost>>
            \/ /\ Move(r, "serving", "return")
               /\ Release("write")
               /\ UNCHANGED <<rateLimit, retries, lost>>

----------------------------------------------------------------------------
(* doInit and executePayment, once the provider has answered: a            *)
(* transaction, and on an error setPayPalError on another connection while *)
(* the deferred rollback has not run yet.                                  *)

GoroutineBegin(b) == /\ Move(b, "arrived", "tx")
                     /\ Acquire("write")
                     /\ UNCHANGED <<rateLimit, retries, lost>>
GoroutineError(b) == /\ Move(b, "tx", "failed")
                     /\ UNCHANGED <<rateLimit, used, retries, lost>>
setPayPalError(b) == \/ /\ Move(b, "failed", "error")
                        /\ Acquire("write")
                        /\ UNCHANGED <<rateLimit, retries, lost>>
                     \/ /\ Move(b, "error", "rollback")
                        /\ Release("write")
                        /\ UNCHANGED <<rateLimit, retries, lost>>
GoroutineEnd(b) == /\ at[b] \in {"tx", "rollback"}
                   /\ at' = [at EXCEPT ![b] = "done"]
                   /\ Release("write")
                   /\ UNCHANGED <<rateLimit, retries, lost>>

----------------------------------------------------------------------------
RequestStep(r) ==
    \/ Begin(r) \/ GiveUp(r) \/ LockError(r) \/ CommitLockError(r)
    \/ Intent(r) \/ IntentRead(r) \/ IntentGranted(r) \/ NoIntent(r)
    \/ Rollback(r) \/ Commit(r) \/ Serve(r) \/ Leave(r)

GoroutineStep(b) == \/ GoroutineBegin(b) \/ GoroutineError(b)
                    \/ setPayPalError(b) \/ GoroutineEnd(b)

Next == \/ \E r \in Request : Enter(r) \/ RequestStep(r)
        \/ \E b \in Background : GoroutineStep(b)

Spec == Init /\ [][Next]_vars

\* Who is not waiting for a connection goes on: queries are answered or fail.
\* database/sql gives a connection that becomes free to whoever waits for it.
Fairness == /\ \A r \in Request : WF_vars(RequestStep(r))
            /\ \A b \in Background : WF_vars(GoroutineStep(b))
FairSpec == Spec /\ Fairness

----------------------------------------------------------------------------
(* Properties.                                                             *)

Place == {"arrived", "begin", "tx", "intent", "reading", "ready", "serve",
          "serving", "return", "done", "failed", "error", "rollback"}

TypeOK ==
    /\ rateLimit \in 0..MaxOpenConns
    /\ used \in [Pool -> 0..MaxOpenConns]
    /\ at \in [Actor -> Place]
    /\ retries \in [Request -> 0..TransactionMaxRetries]
    /\ lost \in [Pool -> 0..MaxOpenConns]

Away(a) == at[a] \in {"arrived", "done"}

\* What was taken is given back, but for the transactions lost to lock errors:
\* whenever no request and no goroutine is at work, every other connection is in
\* its pool and every token in the channel.
PoolRestored == (\A a \in Actor : Away(a)) => used = lost /\ rateLimit = MaxOpenConns

\* The rate limit serves its purpose: a request that was let in never waits for
\* its transaction behind other requests, only behind goroutines and connections
\* that were lost.
AdmittedCanBegin ==
    \A r \in PaymentRequest : at[r] = "begin" /\ (\A b \in Background : Away(b))
        => used["write"] - lost["write"] < MaxOpenConns

\* So many connections were lost that the goroutines can hold all the others.
Starved == \/ lost["write"] + Cardinality(Background) >= MaxOpenConns
           \/ lost["readonly"] >= MaxOpenConns

\* Every request that was let in is answered, also after retries: no request
\* waits forever for a connection that is held by a request that waits.
RequestsReturn == \A r \in Request : at[r] = "begin" ~> (at[r] = "done" \/ Starved)
=============================================================================
