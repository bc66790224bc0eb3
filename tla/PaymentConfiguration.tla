------------------------ MODULE PaymentConfiguration ------------------------
(***************************************************************************)
(* The configuration and the metadata of one payment while the customer's  *)
(* requests complete them.  Both are kept as versions: PaymentHandler      *)
(* reads the newest configuration row and the newest metadata map, fills   *)
(* in locale, browser data and payment method, and inserts the whole       *)
(* configuration and the whole map again under a new timestamp.  Requests  *)
(* overlap, and an administrator switches payment methods on and off.      *)
(***************************************************************************)
EXTENDS Naturals

CONSTANTS Handler,                \* requests to PaymentHandler
          Method,                 \* payment methods of the payment's project
          NoMethod,               \* PaymentMethodID is NULL, or not asked for
          MaxTime,                \* bound on the clock
          TransactionMaxRetries   \* cfg.Database.TransactionMaxRetries

ASSUME ConfigurationAssumption ==
    /\ NoMethod \notin Method
    /\ MaxTime \in Nat \ {0}
    /\ TransactionMaxRetries \in Nat

VARIABLES
    now,         \* the last value time.Now() gave to a row
    configs,     \* committed rows of payment_config
    metas,       \* committed rows of payment_metadata
    active,      \* methods whose newest status is active
    request,     \* request[h]: what the customer's browser sends
    pc,          \* pc[h]: where h is
    retries,     \* retries[h]
    p,           \* p[h]: the payment h works with, and what it changed
    tx,          \* tx[h]: the rows h has inserted and not committed
    stored       \* history: the metadata maps committed, as their writers had them

vars == <<now, configs, metas, active, request, pc, retries, p, tx, stored>>

NoLocale == "null"
Locale == {NoLocale, "merchant", "browser", "default"}

\* The fields only the merchant sets (country, callback, return URL, expiry) are
\* copied together and stand as one.
Config == [method : Method \cup {NoMethod}, locale : Locale, merchant : BOOLEAN]
ConfigRow == [ts : 1..MaxTime, config : Config]

\* A map of names to values, as the set of its entries.
Name == {"order", "acceptLanguage", "browserLocale", "remoteAddress"}
Entry == [name : Name, value : {"merchant"} \cup Handler]
MetaRow == [ts : 1..MaxTime, entry : Entry]

\* The Accept-Language header is missing, unreadable or names a language.
Request == [method : Method \cup {NoMethod}, language : {"none", "unreadable", "named"}]
NoRequest == [method |-> NoMethod, language |-> "none"]

\* The payment in memory; "old" is history, the method it was read with.
Payment == [config : Config, meta : SUBSET Entry, configChanged : BOOLEAN,
            metaChanged : BOOLEAN, old : Method \cup {NoMethod}]
NoConfig == [method |-> NoMethod, locale |-> NoLocale, merchant |-> FALSE]
NoPayment == [config |-> NoConfig, meta |-> {}, configChanged |-> FALSE,
              metaChanged |-> FALSE, old |-> NoMethod]
NoRows == [config |-> {}, meta |-> {}]

PC == {"new", "begin", "read", "configured", "saved", "committed", "served", "failed"}

TypeOK ==
    /\ now \in 1..MaxTime
    /\ configs \subseteq ConfigRow
    /\ metas \subseteq MetaRow
    /\ active \subseteq Method
    /\ request \in [Handler -> Request]
    /\ pc \in [Handler -> PC]
    /\ retries \in [Handler -> 0..TransactionMaxRetries]
    /\ p \in [Handler -> Payment]
    /\ tx \in [Handler -> [config : SUBSET ConfigRow, meta : SUBSET MetaRow]]
    /\ stored \subseteq SUBSET Entry

Newest(rows) == {r \in rows : \A q \in rows : q.ts <= r.ts}

CurrentConfig == CHOOSE c \in Config : \E r \in Newest(configs) : r.config = c
CurrentMetadata == {r.entry : r \in Newest(metas)}

MerchantEntry == [name |-> "order", value |-> "merchant"]

\* InitPayment has stored what the merchant asked for.
Init ==
    /\ now = 1
    /\ \E m \in Method \cup {NoMethod}, l \in {NoLocale, "merchant"} :
          configs = {[ts |-> 1, config |-> [method |-> m, locale |-> l, merchant |-> TRUE]]}
    /\ metas \in {{}, {[ts |-> 1, entry |-> MerchantEntry]}}
    /\ active = Method
    /\ request = [h \in Handler |-> NoRequest]
    /\ pc = [h \in Handler |-> "new"]
    /\ retries = [h \in Handler |-> 0]
    /\ p = [h \in Handler |-> NoPayment]
    /\ tx = [h \in Handler |-> NoRows]
    /\ stored = {CurrentMetadata}

Arrive(h) ==
    /\ pc[h] = "new"
    /\ pc' = [pc EXCEPT ![h] = "begin"]
    /\ \E q \in Request : request' = [request EXCEPT ![h] = q]
    /\ UNCHANGED <<now, configs, metas, active, retries, p, tx, stored>>

----------------------------------------------------------------------------
(* PaymentHandler between the read of the payment and the first insert     *)
(* works on its own copy.                                                  *)

Has(meta, n) == \E e \in meta : e.name = n
Put(meta, n, v) == {e \in meta : e.name # n} \cup {[name |-> n, value |-> v]}

determineLocale(pay, h) ==
    LET lang == request[h].language
        accepted == IF ~Has(pay.meta, "acceptLanguage") /\ lang # "none"
                    THEN Put(pay.meta, "acceptLanguage", h) ELSE pay.meta
        meta == IF lang = "named" THEN Put(accepted, "browserLocale", h) ELSE accepted
    IN  IF pay.config.locale # NoLocale THEN pay
        ELSE [pay EXCEPT !.meta = meta,
                         !.metaChanged = (meta # pay.meta) \/ (lang = "named"),
                         !.config.locale = IF lang = "named" THEN "browser" ELSE "default",
                         !.configChanged = TRUE]

determineEnv(pay, h) ==
    IF Has(pay.meta, "remoteAddress") THEN pay
    ELSE [pay EXCEPT !.meta = Put(pay.meta, "remoteAddress", h), !.metaChanged = TRUE]

\* The configured method, or else the one the request asks for; NoMethod is
\* looked up as id 0, which no method has.
methodAskedFor(pay, h) ==
    IF pay.config.method # NoMethod THEN pay.config.method ELSE request[h].method

\* Mutant: the request has the last word.
determineRequestedMethodID(pay, h) ==
    IF request[h].method = NoMethod THEN pay
    ELSE [pay EXCEPT !.config.method = request[h].method, !.configChanged = TRUE]
determinePaymentMethodID(pay, h) ==
    IF pay.config.method # NoMethod THEN pay
    ELSE [pay EXCEPT !.config.method = request[h].method, !.configChanged = TRUE]

Determined(h) ==
    LET read == [config |-> CurrentConfig, meta |-> CurrentMetadata,
                 configChanged |-> FALSE, metaChanged |-> FALSE, old |-> CurrentConfig.method]
    IN  determinePaymentMethodID(determineEnv(determineLocale(read, h), h), h)

\* The method is found and active.  All reads of the transaction see what its
\* first read saw, the second look in SetPaymentConfig too.
MethodUsable(h) == methodAskedFor([config |-> CurrentConfig], h) \in active

\* beginTx to determinePaymentMethodID
Read(h) ==
    /\ pc[h] = "begin"
    /\ retries[h] < TransactionMaxRetries
    /\ MethodUsable(h)
    /\ p' = [p EXCEPT ![h] = Determined(h)]
    /\ pc' = [pc EXCEPT ![h] = "read"]
    /\ UNCHANGED <<now, configs, metas, active, request, retries, tx, stored>>

\* The handler returns; its locals go and the transaction with what it holds.
Done(h, at) ==
    /\ pc' = [pc EXCEPT ![h] = at]
    /\ p' = [p EXCEPT ![h] = NoPayment]
    /\ tx' = [tx EXCEPT ![h] = NoRows]
    /\ retries' = [retries EXCEPT ![h] = 0]
    /\ request' = [request EXCEPT ![h] = NoRequest]
    /\ UNCHANGED <<now, active>>

\* A return with an error: the deferred function rolls back.
Return(h) == Done(h, "failed") /\ UNCHANGED <<configs, metas, stored>>

\* No method (id 0), or one that is not active, or too many lock errors.
Refuse(h) == /\ pc[h] = "begin"
             /\ ~MethodUsable(h) \/ retries[h] >= TransactionMaxRetries
             /\ Return(h)

\* Any other error.
Fail(h) == pc[h] \in {"read", "configured", "saved"} /\ Return(h)

Retry(h) ==
    /\ pc[h] \in {"read", "configured", "saved"}
    /\ retries' = [retries EXCEPT ![h] = @ + 1]
    /\ pc' = [pc EXCEPT ![h] = "begin"]
    /\ p' = [p EXCEPT ![h] = NoPayment]
    /\ tx' = [tx EXCEPT ![h] = NoRows]
    /\ UNCHANGED <<now, configs, metas, active, request, stored>>

----------------------------------------------------------------------------
Tick == now' \in now..(now + 1) /\ now' <= MaxTime

\* The primary key refuses a second row with the timestamp.  A clash with a row
\* another request has not committed counts as one: were that row rolled back
\* instead, it could as well never have been inserted.
ConfigKeyFree(h, ts) == \A r \in configs \cup UNION {tx[o].config : o \in Handler \ {h}} : r.ts # ts

\* SetPaymentConfig; skipped when nothing changed.
SetPaymentConfig(h) ==
    /\ pc[h] = "read"
    /\ IF p[h].configChanged
       THEN /\ Tick
            /\ ConfigKeyFree(h, now')
            /\ tx' = [tx EXCEPT ![h].config = {[ts |-> now', config |-> p[h].config]}]
       ELSE UNCHANGED <<now, tx>>
    /\ pc' = [pc EXCEPT ![h] = "configured"]
    /\ UNCHANGED <<configs, metas, active, request, retries, p, stored>>

\* Mutant: the table has no primary key.
MetaKeyNone(h, ts) == TRUE
\* One row for each name, so that the key holds the name too.
MetaKeyFree(h, ts) ==
    \A r \in metas \cup UNION {tx[o].meta : o \in Handler \ {h}} :
        ~(r.ts = ts /\ Has(p[h].meta, r.entry.name))

\* Mutant: only the entries that are new are inserted.
InsertedEntriesNew(h) == p[h].meta \ CurrentMetadata
\* InsertPaymentMetadataTx inserts the whole map.
InsertedEntries(h) == p[h].meta

\* SetPaymentMetadata; skipped when nothing changed.
SetPaymentMetadata(h) ==
    /\ pc[h] = "configured"
    /\ IF p[h].metaChanged
       THEN /\ Tick
            /\ MetaKeyFree(h, now')
            /\ tx' = [tx EXCEPT ![h].meta = {[ts |-> now', entry |-> e] : e \in InsertedEntries(h)}]
       ELSE UNCHANGED <<now, tx>>
    /\ pc' = [pc EXCEPT ![h] = "saved"]
    /\ UNCHANGED <<configs, metas, active, request, retries, p, stored>>

CommitRows(h) ==
    /\ pc[h] = "saved"
    /\ configs' = configs \cup tx[h].config
    /\ metas' = metas \cup tx[h].meta
    /\ stored' = IF p[h].metaChanged THEN stored \cup {p[h].meta} ELSE stored

Commit(h) ==
    /\ CommitRows(h)
    /\ tx' = [tx EXCEPT ![h] = NoRows]
    /\ pc' = [pc EXCEPT ![h] = "committed"]
    /\ UNCHANGED <<now, active, request, retries, p>>

\* tx.Commit returns an error, and yet the rows are stored.
CommitUnknown(h) == CommitRows(h) /\ Done(h, "failed")

\* servePaymentHandler hands the payment to the driver of the method.
Serve(h) ==
    /\ pc[h] = "committed"
    /\ Done(h, "served")
    /\ UNCHANGED <<configs, metas, stored>>

\* postChangePaymentMethod: a new status becomes the newest one.
ChangeStatus(m) ==
    /\ active' = IF m \in active THEN active \ {m} ELSE active \cup {m}
    /\ UNCHANGED <<now, configs, metas, request, pc, retries, p, tx, stored>>

Next ==
    \/ \E h \in Handler :
          \/ Arrive(h) \/ Read(h) \/ Refuse(h) \/ Fail(h) \/ Retry(h)
          \/ SetPaymentConfig(h) \/ SetPaymentMetadata(h) \/ Commit(h) \/ CommitUnknown(h) \/ Serve(h)
    \/ \E m \in Method : ChangeStatus(m)

Spec == Init /\ [][Next]_vars

----------------------------------------------------------------------------
(* Properties.                                                             *)

AtWork == {h \in Handler : pc[h] \in {"read", "configured", "saved"}}

\* What the merchant configured and attached is never lost, however the
\* requests' versions overtake each other: every version is the whole thing
\* (payment_sql.go:172, 255).
MerchantDataKept ==
    /\ CurrentConfig.merchant
    /\ \A r \in configs : r.ts = 1 =>
          /\ r.config.method # NoMethod => CurrentConfig.method = r.config.method
          /\ r.config.locale # NoLocale => CurrentConfig.locale = r.config.locale
    /\ \A r \in metas : r.entry = MerchantEntry => MerchantEntry \in CurrentMetadata

\* The metadata in force is a whole map as one request, or the merchant, stored it:
\* not the entries of two, which requests that read the same version and insert
\* under the same timestamp would leave, and none of its entries missing
\* (payment_sql.go:255, 264, web/payment.go:332).
MetadataWhole == CurrentMetadata \in stored

\* The payment method changes hands only between requests that overlap: once a
\* method is in force and every request at work has read it, it stays
\* (web/payment.go:466, 493).
MethodStays ==
    [][ /\ CurrentConfig.method # NoMethod
        /\ \A h \in AtWork : p[h].old = CurrentConfig.method
        => CurrentConfig'.method = CurrentConfig.method ]_vars
=============================================================================
