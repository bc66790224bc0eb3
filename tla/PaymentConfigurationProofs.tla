--------------------- MODULE PaymentConfigurationProofs ---------------------
(***************************************************************************)
(* Proofs about PaymentConfiguration, for any number of requests, payment  *)
(* methods and retries and any clock, which may stand still.               *)
(***************************************************************************)
EXTENDS PaymentConfiguration, TLAPS

\* Requests with a copy of the payment in memory.
Copies == {h \in Handler : pc[h] \in {"read", "configured", "saved", "committed"}}

\* What the merchant set in the first version, a later one has too.
Kept(first, c) == /\ first.method # NoMethod => c.method = first.method
                  /\ first.locale # NoLocale => c.locale = first.locale

\* A map has one value for a name.
OneValue(meta) == \A e, f \in meta : e.name = f.name => e = f

\* The entries committed under a timestamp.
VersionAt(ts) == {r.entry : r \in {q \in metas : q.ts = ts}}

\* Did the merchant attach metadata?
OrderStored == \E r \in metas : r.entry = MerchantEntry

----------------------------------------------------------------------------
(* The inductive invariant.                                                *)

\* What a request has inserted is what it has in memory: at most one row of
\* configuration, and a row for every entry of the map, under one timestamp.
InsertedInv == \A h \in Handler :
    /\ pc[h] \notin {"configured", "saved"} => tx[h] = NoRows
    /\ pc[h] = "configured" => tx[h].meta = {}
    /\ \A r \in tx[h].config : r.config = p[h].config
    /\ \A r, q \in tx[h].config : r = q
    /\ \A r \in tx[h].meta : r.entry \in p[h].meta
    /\ \A r, q \in tx[h].meta : r.ts = q.ts
    /\ \A r \in tx[h].meta, e \in p[h].meta : [ts |-> r.ts, entry |-> e] \in tx[h].meta

\* The primary keys, over committed rows and those of open transactions.
ConfigKeyInv ==
    /\ \A r, q \in configs : r.ts = q.ts => r = q
    /\ \A h \in Handler : \A r \in tx[h].config, q \in configs : r.ts # q.ts
    /\ \A h, o \in Handler : h # o => \A r \in tx[h].config, q \in tx[o].config : r.ts # q.ts
SameKey(r, q) == r.ts = q.ts /\ r.entry.name = q.entry.name
MetaKeyInv ==
    /\ \A r, q \in metas : SameKey(r, q) => r = q
    /\ \A h \in Handler : \A r \in tx[h].meta, q \in metas : ~SameKey(r, q)
    /\ \A h, o \in Handler : h # o => \A r \in tx[h].meta, q \in tx[o].meta : ~SameKey(r, q)

\* There is a newest version, and the first one is never removed.
VersionsInv ==
    /\ Newest(configs) # {}
    /\ metas # {} => Newest(metas) # {}
    /\ \E r \in configs : r.ts = 1

\* Every version, stored or in memory, has what the merchant configured ...
MerchantInv ==
    /\ \A r \in configs : r.config.merchant
    /\ \A h \in Copies : p[h].config.merchant
    /\ \A first \in configs : first.ts = 1 =>
          /\ \A r \in configs : Kept(first.config, r.config)
          /\ \A h \in Copies : Kept(first.config, p[h].config)

\* ... and what the merchant attached, if anything, in a map of one value a name.
OrderInv ==
    /\ OrderStored => \A r \in metas : [ts |-> r.ts, entry |-> MerchantEntry] \in metas
    /\ \A h \in Copies : (MerchantEntry \in p[h].meta <=> OrderStored) /\ OneValue(p[h].meta)

\* Every timestamp has a whole map of one writer: each of them has the merchant's
\* entry, or each a remote address, so that no two agree on a timestamp.
WholeInv ==
    /\ metas = {} => {} \in stored
    /\ \A r \in metas : VersionAt(r.ts) \in stored
    /\ OrderStored \/ \A r \in metas : \E q \in metas : q.ts = r.ts /\ q.entry.name = "remoteAddress"
    /\ \A h \in Copies : Has(p[h].meta, "remoteAddress")
    /\ \A h \in Handler : tx[h].meta # {} => p[h].metaChanged

\* A request does not change a method it has read, and it began with a retry left.
MethodInv ==
    /\ \A h \in Copies : retries[h] < TransactionMaxRetries
    /\ \A h \in Copies : p[h].old # NoMethod => p[h].config.method = p[h].old

ConfigurationInv == /\ InsertedInv /\ ConfigKeyInv /\ MetaKeyInv /\ VersionsInv
                    /\ MerchantInv /\ OrderInv /\ WholeInv /\ MethodInv

----------------------------------------------------------------------------
(* Operators.                                                              *)

\* The newest row is the configuration in force: there is one of a timestamp.
LEMMA NewestInForce ==
  ASSUME TypeOK, ConfigKeyInv, NEW r \in Newest(configs)
  PROVE  CurrentConfig = r.config
<1>1. r.config \in Config
  BY DEF TypeOK, ConfigRow, Newest
<1>2. ASSUME NEW q \in Newest(configs) PROVE q = r
  <2>1. q \in configs /\ r \in configs /\ q.ts <= r.ts /\ r.ts <= q.ts
    BY DEF Newest
  <2>2. q.ts \in Nat /\ r.ts \in Nat
    BY <2>1, ConfigurationAssumption DEF TypeOK, ConfigRow
  <2> QED
    BY <2>1, <2>2 DEF ConfigKeyInv
<1> QED
  BY <1>1, <1>2 DEF CurrentConfig

\* Versions added to versions leave a newest one.
LEMMA NewestOfBoth ==
  ASSUME NEW S, NEW T, \A r \in S \cup T : r.ts \in Nat,
         S # {} => Newest(S) # {}, \A r, q \in T : r.ts = q.ts
  PROVE  S \cup T # {} => Newest(S \cup T) # {}
<1>1. CASE T = {}
  BY <1>1
<1>2. ASSUME NEW t \in T, S = {} PROVE Newest(S \cup T) # {}
  <2>1. t \in Newest(S \cup T)
    BY <1>2 DEF Newest
  <2> QED
    BY <2>1
<1>3. ASSUME NEW t \in T, S # {} PROVE Newest(S \cup T) # {}
  <2>1. PICK s \in Newest(S) : TRUE
    BY <1>3
  <2>2. s \in S /\ \A q \in S : q.ts <= s.ts
    BY <2>1 DEF Newest
  <2>3. CASE s.ts <= t.ts
    <3>1. t \in Newest(S \cup T)
      BY <2>2, <2>3 DEF Newest
    <3> QED
      BY <3>1
  <2>4. CASE t.ts < s.ts
    <3>1. s \in Newest(S \cup T)
      BY <2>2, <2>4 DEF Newest
    <3> QED
      BY <3>1
  <2>5. s.ts <= t.ts \/ t.ts < s.ts
    <3>1. \A i, j \in Nat : i <= j \/ j < i
      OBVIOUS
    <3>2. s.ts \in Nat /\ t.ts \in Nat
      BY <2>2
    <3> QED
      BY <3>1, <3>2
  <2> QED
    BY <2>3, <2>4, <2>5
<1> QED
  BY <1>1, <1>2, <1>3

\* Put gives a map again, and leaves the merchant's entry alone.
LEMMA PutsInMap ==
  ASSUME NEW meta \in SUBSET Entry, OneValue(meta), NEW n \in Name \ {"order"}, NEW h \in Handler
  PROVE  /\ Put(meta, n, h) \in SUBSET Entry /\ OneValue(Put(meta, n, h))
         /\ MerchantEntry \in Put(meta, n, h) <=> MerchantEntry \in meta
<1>1. [name |-> n, value |-> h] \in Entry
  BY DEF Entry
<1>2. MerchantEntry.name = "order" /\ [name |-> n, value |-> h].name = n
  BY DEF MerchantEntry
<1> QED
  BY <1>1, <1>2 DEF Put, OneValue

\* What PaymentHandler makes of a payment it has read: the method is the one
\* configured or else asked for, and what was set before stays.
Completes(pay, read, h) ==
    /\ pay \in Payment /\ OneValue(pay.meta)
    /\ MerchantEntry \in pay.meta <=> MerchantEntry \in read.meta
    /\ pay.old = read.old /\ pay.config.merchant = read.config.merchant
    /\ read.config.locale # NoLocale => pay.config.locale = read.config.locale

\* determineLocale does not touch the method either.
LEMMA LocaleCompletes ==
  ASSUME NEW h \in Handler, request[h] \in Request, NEW read \in Payment, OneValue(read.meta)
  PROVE  Completes(determineLocale(read, h), read, h) /\ determineLocale(read, h).config.method = read.config.method
<1> DEFINE lang == request[h].language
           accepted == IF ~Has(read.meta, "acceptLanguage") /\ lang # "none"
                       THEN Put(read.meta, "acceptLanguage", h) ELSE read.meta
           meta == IF lang = "named" THEN Put(accepted, "browserLocale", h) ELSE accepted
           locale == IF lang = "named" THEN "browser" ELSE "default"
           changed == (meta # read.meta) \/ (lang = "named")
           result == [read EXCEPT !.meta = meta, !.metaChanged = changed,
                                  !.config.locale = locale, !.configChanged = TRUE]
<1>1. read.meta \in SUBSET Entry /\ read.config \in Config
  BY DEF Payment
<1>2. /\ accepted \in SUBSET Entry /\ OneValue(accepted)
      /\ MerchantEntry \in accepted <=> MerchantEntry \in read.meta
  BY <1>1, PutsInMap DEF Name
<1>3. /\ meta \in SUBSET Entry /\ OneValue(meta)
      /\ MerchantEntry \in meta <=> MerchantEntry \in read.meta
  <2> HIDE DEF accepted
  <2> QED
    BY <1>2, PutsInMap DEF Name
<1>4. determineLocale(read, h) = IF read.config.locale # NoLocale THEN read ELSE result
  BY DEF determineLocale
<1>5. CASE read.config.locale # NoLocale
  BY <1>4, <1>5 DEF Completes
<1>6. CASE read.config.locale = NoLocale
  <2>1. changed \in BOOLEAN /\ locale \in Locale
    BY DEF Locale
  <2> HIDE DEF meta, changed, locale
  <2>2. result.config = [read.config EXCEPT !.locale = locale] /\ result.meta = meta /\ result.old = read.old
    BY DEF Payment
  <2>3. result.config \in Config /\ result.config.method = read.config.method
        /\ result.config.merchant = read.config.merchant
    BY <1>1, <2>1, <2>2 DEF Config
  <2>4. result \in Payment
    BY <1>3, <2>1, <2>3 DEF Payment
  <2> HIDE DEF result
  <2> QED
    BY <1>3, <1>4, <1>6, <2>2, <2>3, <2>4 DEF Completes
<1> QED
  BY <1>5, <1>6

\* All three together, applied to the payment in force.
LEMMA DeterminedCompletes ==
  ASSUME NEW h \in Handler, request[h] \in Request, CurrentConfig \in Config,
         CurrentMetadata \in SUBSET Entry, OneValue(CurrentMetadata)
  PROVE  /\ Determined(h) \in Payment /\ OneValue(Determined(h).meta)
         /\ MerchantEntry \in Determined(h).meta <=> MerchantEntry \in CurrentMetadata
         /\ Determined(h).old = CurrentConfig.method
         /\ Determined(h).config.method = methodAskedFor([config |-> CurrentConfig], h)
         /\ Determined(h).config.merchant = CurrentConfig.merchant
         /\ CurrentConfig.locale # NoLocale => Determined(h).config.locale = CurrentConfig.locale
         /\ Has(Determined(h).meta, "remoteAddress")
<1> DEFINE read == [config |-> CurrentConfig, meta |-> CurrentMetadata,
                    configChanged |-> FALSE, metaChanged |-> FALSE, old |-> CurrentConfig.method]
           withLocale == determineLocale(read, h)
           withEnv == determineEnv(withLocale, h)
           withMethod == determinePaymentMethodID(withEnv, h)
<1>1. read \in Payment
  BY DEF Payment, Config
<1>2. Completes(withLocale, read, h) /\ withLocale.config.method = CurrentConfig.method
  <2>1. OneValue(read.meta) /\ read.config.method = CurrentConfig.method
    OBVIOUS
  <2> HIDE DEF read
  <2> QED
    BY <1>1, <2>1, LocaleCompletes
<1>3. /\ Completes(withEnv, read, h) /\ withEnv.config.method = CurrentConfig.method
      /\ Has(withEnv.meta, "remoteAddress")
  <2> HIDE DEF read, withLocale
  <2>1. CASE Has(withLocale.meta, "remoteAddress")
    BY <1>2, <2>1 DEF determineEnv
  <2>2. CASE ~Has(withLocale.meta, "remoteAddress")
    <3> DEFINE meta == Put(withLocale.meta, "remoteAddress", h)
    <3>1. withLocale \in Payment /\ withLocale.meta \in SUBSET Entry /\ OneValue(withLocale.meta)
      BY <1>2 DEF Completes, Payment
    <3>2. /\ meta \in SUBSET Entry /\ OneValue(meta)
          /\ MerchantEntry \in meta <=> MerchantEntry \in withLocale.meta
      BY <3>1, PutsInMap DEF Name
    <3>3. withEnv = [withLocale EXCEPT !.meta = meta, !.metaChanged = TRUE]
      BY <2>2 DEF determineEnv
    <3>5. Has(meta, "remoteAddress")
      <4>1. [name |-> "remoteAddress", value |-> h] \in meta
        BY DEF Put
      <4> QED
        BY <4>1 DEF Has
    <3> HIDE DEF meta, withEnv
    <3>4. withEnv \in Payment /\ withEnv.meta = meta /\ withEnv.config = withLocale.config /\ withEnv.old = withLocale.old
      BY <3>1, <3>2, <3>3 DEF Payment
    <3> QED
      BY <1>2, <3>2, <3>4, <3>5 DEF Completes
  <2> QED
    BY <2>1, <2>2
<1>4. /\ Completes(withMethod, read, h) /\ withMethod.config.method = methodAskedFor([config |-> CurrentConfig], h)
      /\ Has(withMethod.meta, "remoteAddress")
  <2> HIDE DEF read, withEnv
  <2>1. CASE withEnv.config.method # NoMethod
    BY <1>3, <2>1 DEF determinePaymentMethodID, methodAskedFor
  <2>2. CASE withEnv.config.method = NoMethod
    <3>1. withEnv \in Payment /\ withEnv.config \in Config /\ request[h].method \in Method \cup {NoMethod}
      BY <1>3 DEF Completes, Payment, Request
    <3>2. withMethod = [withEnv EXCEPT !.config.method = request[h].method, !.configChanged = TRUE]
      BY <2>2 DEF determinePaymentMethodID
    <3> HIDE DEF withMethod
    <3>3. /\ withMethod.config = [withEnv.config EXCEPT !.method = request[h].method]
          /\ withMethod.meta = withEnv.meta /\ withMethod.old = withEnv.old
      BY <3>1, <3>2 DEF Payment
    <3>4. /\ withMethod.config \in Config /\ withMethod.config.method = request[h].method
          /\ withMethod.config.locale = withEnv.config.locale
          /\ withMethod.config.merchant = withEnv.config.merchant
      BY <3>1, <3>3 DEF Config
    <3>5. withMethod \in Payment
      BY <3>1, <3>2, <3>4 DEF Payment
    <3> QED
      BY <1>3, <2>2, <3>3, <3>4, <3>5 DEF Completes, methodAskedFor
  <2> QED
    BY <2>1, <2>2
<1>5. Determined(h) = withMethod
  BY DEF Determined
<1> HIDE DEF withMethod
<1> QED
  BY <1>4, <1>5 DEF Completes

\* What is in force.
LEMMA InForce ==
  ASSUME TypeOK, ConfigurationInv
  PROVE  /\ \E r \in configs : r.config = CurrentConfig
         /\ CurrentConfig \in Config
         /\ CurrentMetadata \in SUBSET Entry /\ OneValue(CurrentMetadata)
         /\ MerchantEntry \in CurrentMetadata <=> OrderStored
<1>1. PICK r \in Newest(configs) : TRUE
  BY DEF ConfigurationInv, VersionsInv
<1>2. r \in configs /\ CurrentConfig = r.config
  BY <1>1, NewestInForce DEF ConfigurationInv, Newest
<1>3. CurrentConfig \in Config
  BY <1>2 DEF TypeOK, ConfigRow
<1>4. Newest(metas) \subseteq metas /\ \A m \in metas : m.entry \in Entry /\ m.ts \in Nat
  BY ConfigurationAssumption DEF Newest, TypeOK, MetaRow
<1>5. ASSUME NEW m \in Newest(metas), NEW n \in Newest(metas), m.entry.name = n.entry.name
      PROVE  m.entry = n.entry
  <2>1. m.ts = n.ts
    BY <1>4 DEF Newest
  <2> QED
    BY <1>4, <1>5, <2>1 DEF ConfigurationInv, MetaKeyInv, SameKey
<1>6. CurrentMetadata \in SUBSET Entry /\ OneValue(CurrentMetadata)
  BY <1>4, <1>5 DEF CurrentMetadata, OneValue
<1>7. ASSUME OrderStored PROVE MerchantEntry \in CurrentMetadata
  <2>1. PICK m \in Newest(metas) : TRUE
    BY <1>7 DEF OrderStored, ConfigurationInv, VersionsInv
  <2> DEFINE order == [ts |-> m.ts, entry |-> MerchantEntry]
  <2>2. order \in metas
    BY <1>4, <1>7, <2>1 DEF ConfigurationInv, OrderInv
  <2>3. order \in Newest(metas)
    BY <2>1, <2>2 DEF Newest
  <2> QED
    BY <2>3 DEF CurrentMetadata
<1>8. ASSUME MerchantEntry \in CurrentMetadata PROVE OrderStored
  BY <1>4, <1>8 DEF CurrentMetadata, OrderStored
<1> QED
  BY <1>2, <1>3, <1>6, <1>7, <1>8

----------------------------------------------------------------------------
(* The types.                                                              *)

LEMMA TypeInit == Init => TypeOK
<1> SUFFICES ASSUME Init PROVE TypeOK
  OBVIOUS
<1>1. configs \subseteq ConfigRow
  BY ConfigurationAssumption DEF Init, ConfigRow, Config, Locale, NoLocale
<1>2. metas \subseteq MetaRow
  BY ConfigurationAssumption DEF Init, MetaRow, Entry, Name, MerchantEntry
<1>3. NoRequest \in Request /\ NoPayment \in Payment
  BY DEF NoRequest, Request, NoPayment, Payment, NoConfig, Config, NoLocale, Locale
<1>4. NoRows \in [config : SUBSET ConfigRow, meta : SUBSET MetaRow]
  BY DEF NoRows
<1>5. stored \subseteq SUBSET Entry
  BY <1>2 DEF Init, CurrentMetadata, Newest, MetaRow
<1>6. /\ request \in [Handler -> Request] /\ p \in [Handler -> Payment]
      /\ tx \in [Handler -> [config : SUBSET ConfigRow, meta : SUBSET MetaRow]]
  BY <1>3, <1>4 DEF Init
<1> QED
  BY <1>1, <1>2, <1>5, <1>6, ConfigurationAssumption DEF Init, TypeOK, PC

\* A request returns or starts again, and what it held goes.
LEMMA DropType ==
  ASSUME TypeOK, NEW h \in Handler, NEW at \in PC, UNCHANGED <<now, active, configs, metas>>,
         pc' = [pc EXCEPT ![h] = at], p' = [p EXCEPT ![h] = NoPayment], tx' = [tx EXCEPT ![h] = NoRows],
         retries' \in [Handler -> 0..TransactionMaxRetries], request' \in [Handler -> Request],
         UNCHANGED stored
  PROVE  TypeOK'
<1>1. NoPayment \in Payment /\ NoRows \in [config : SUBSET ConfigRow, meta : SUBSET MetaRow]
  BY DEF NoPayment, Payment, NoConfig, Config, NoLocale, Locale, NoRows
<1> QED
  BY <1>1 DEF TypeOK

\* A row of configuration or the rows of a map are inserted, under a time the
\* clock can show.
LEMMA InsertType ==
  ASSUME TypeOK, NEW h \in Handler, NEW rows \in [config : SUBSET ConfigRow, meta : SUBSET MetaRow],
         now' \in 1..MaxTime, tx' = [tx EXCEPT ![h] = rows], NEW at \in PC, pc' = [pc EXCEPT ![h] = at],
         UNCHANGED <<configs, metas, active, request, retries, p, stored>>
  PROVE  TypeOK'
  BY DEF TypeOK

\* Every step keeps the types.
LEMMA TypeStep == TypeOK /\ ConfigurationInv /\ [Next]_vars => TypeOK'
<1> SUFFICES ASSUME TypeOK, ConfigurationInv, [Next]_vars PROVE TypeOK'
  OBVIOUS
<1> USE DEF PC
<1>1. CASE UNCHANGED vars
  BY <1>1 DEF vars, TypeOK
<1>2. ASSUME NEW h \in Handler, Arrive(h) PROVE TypeOK'
  BY <1>2 DEF Arrive, TypeOK
<1>3. ASSUME NEW h \in Handler, Read(h) PROVE TypeOK'
  <2>1. Determined(h) \in Payment
    BY InForce, DeterminedCompletes DEF TypeOK
  <2>2. p' \in [Handler -> Payment] /\ pc' \in [Handler -> PC]
    BY <1>3, <2>1 DEF Read, TypeOK
  <2> QED
    BY <1>3, <2>2 DEF Read, TypeOK
<1>4. ASSUME NEW h \in Handler, Refuse(h) \/ Fail(h) PROVE TypeOK'
  <2>1. Done(h, "failed") /\ UNCHANGED <<configs, metas, stored>>
    BY <1>4 DEF Refuse, Fail, Return
  <2>2. NoRequest \in Request
    BY DEF NoRequest, Request
  <2>3. retries' \in [Handler -> 0..TransactionMaxRetries] /\ request' \in [Handler -> Request]
    BY <2>1, <2>2, ConfigurationAssumption DEF Done, TypeOK
  <2> QED
    BY <2>1, <2>3, DropType DEF Done
<1>5. ASSUME NEW h \in Handler, Retry(h) PROVE TypeOK'
  <2>1. retries[h] < TransactionMaxRetries
    BY <1>5 DEF Retry, ConfigurationInv, MethodInv, Copies
  <2>2. retries' \in [Handler -> 0..TransactionMaxRetries]
    BY <1>5, <2>1, ConfigurationAssumption DEF Retry, TypeOK
  <2>3. request' \in [Handler -> Request]
    BY <1>5 DEF Retry, TypeOK
  <2> QED
    BY <1>5, <2>2, <2>3, DropType DEF Retry
<1>6. ASSUME NEW h \in Handler, SetPaymentConfig(h) PROVE TypeOK'
  <2>1. CASE p[h].configChanged
    <3> DEFINE row == [ts |-> now', config |-> p[h].config]
    <3>1. now' \in 1..MaxTime
      BY <1>6, <2>1, ConfigurationAssumption DEF SetPaymentConfig, Tick, TypeOK
    <3>2. row \in ConfigRow
      BY <3>1 DEF ConfigRow, TypeOK, Payment
    <3>3. [tx[h] EXCEPT !.config = {row}] \in [config : SUBSET ConfigRow, meta : SUBSET MetaRow]
      BY <3>2 DEF TypeOK
    <3>4. tx' = [tx EXCEPT ![h] = [tx[h] EXCEPT !.config = {row}]]
      BY <1>6, <2>1 DEF SetPaymentConfig, TypeOK
    <3> QED
      BY <1>6, <3>1, <3>3, <3>4, InsertType DEF SetPaymentConfig
  <2>2. CASE ~p[h].configChanged
    BY <1>6, <2>2 DEF SetPaymentConfig, TypeOK
  <2> QED
    BY <2>1, <2>2
<1>7. ASSUME NEW h \in Handler, SetPaymentMetadata(h) PROVE TypeOK'
  <2>1. CASE p[h].metaChanged
    <3> DEFINE rows == {[ts |-> now', entry |-> e] : e \in p[h].meta}
    <3>1. now' \in 1..MaxTime
      BY <1>7, <2>1, ConfigurationAssumption DEF SetPaymentMetadata, Tick, TypeOK
    <3>2. rows \in SUBSET MetaRow
      BY <3>1 DEF MetaRow, TypeOK, Payment
    <3>3. [tx[h] EXCEPT !.meta = rows] \in [config : SUBSET ConfigRow, meta : SUBSET MetaRow]
      BY <3>2 DEF TypeOK
    <3>4. tx' = [tx EXCEPT ![h] = [tx[h] EXCEPT !.meta = rows]]
      BY <1>7, <2>1 DEF SetPaymentMetadata, InsertedEntries, TypeOK
    <3> QED
      BY <1>7, <3>1, <3>3, <3>4, InsertType DEF SetPaymentMetadata
  <2>2. CASE ~p[h].metaChanged
    BY <1>7, <2>2 DEF SetPaymentMetadata, TypeOK
  <2> QED
    BY <2>1, <2>2
<1>8. ASSUME NEW h \in Handler, CommitRows(h)
      PROVE  configs' \subseteq ConfigRow /\ metas' \subseteq MetaRow /\ stored' \subseteq SUBSET Entry
  <2>1. p[h].meta \in SUBSET Entry
    BY DEF TypeOK, Payment
  <2>2. stored' \subseteq SUBSET Entry
    BY <1>8, <2>1 DEF CommitRows, TypeOK
  <2> QED
    BY <1>8, <2>2 DEF CommitRows, TypeOK
<1>9. ASSUME NEW h \in Handler, Commit(h) PROVE TypeOK'
  <2>1. NoRows \in [config : SUBSET ConfigRow, meta : SUBSET MetaRow]
    BY DEF NoRows
  <2> QED
    BY <1>8, <1>9, <2>1 DEF Commit, TypeOK
<1>10. ASSUME NEW h \in Handler, CommitUnknown(h) \/ Serve(h) PROVE TypeOK'
  <2>1. configs' \subseteq ConfigRow /\ metas' \subseteq MetaRow /\ stored' \subseteq SUBSET Entry
    BY <1>8, <1>10 DEF CommitUnknown, Serve, TypeOK
  <2>2. /\ NoPayment \in Payment /\ NoRows \in [config : SUBSET ConfigRow, meta : SUBSET MetaRow]
        /\ NoRequest \in Request
    BY DEF NoPayment, Payment, NoConfig, Config, NoLocale, Locale, NoRows, NoRequest, Request
  <2>3. PICK at \in {"failed", "served"} : Done(h, at)
    BY <1>10 DEF CommitUnknown, Serve
  <2> QED
    BY <2>1, <2>2, <2>3, ConfigurationAssumption DEF Done, TypeOK
<1>11. ASSUME NEW m \in Method, ChangeStatus(m) PROVE TypeOK'
  <2>1. active' \subseteq Method
    BY <1>11 DEF ChangeStatus, TypeOK
  <2> QED
    BY <1>11, <2>1 DEF ChangeStatus, TypeOK
<1> QED
  BY <1>1, <1>2, <1>3, <1>4, <1>5, <1>6, <1>7, <1>9, <1>10, <1>11 DEF Next

----------------------------------------------------------------------------
(* The invariant, step by step.                                            *)

LEMMA ConfigurationInit == Init => ConfigurationInv
<1> SUFFICES ASSUME Init PROVE ConfigurationInv
  OBVIOUS
<1>1. PICK m \in Method \cup {NoMethod}, l \in {NoLocale, "merchant"} :
        configs = {[ts |-> 1, config |-> [method |-> m, locale |-> l, merchant |-> TRUE]]}
  BY DEF Init
<1> DEFINE first == [ts |-> 1, config |-> [method |-> m, locale |-> l, merchant |-> TRUE]]
           order == [ts |-> 1, entry |-> MerchantEntry]
<1>2. metas = {} \/ metas = {order}
  BY DEF Init
<1>3. \A h \in Handler : tx[h] = NoRows /\ NoRows.config = {} /\ NoRows.meta = {}
  BY DEF Init, NoRows
<1>4. Copies = {}
  BY DEF Init, Copies
<1>5. InsertedInv
  BY <1>3 DEF InsertedInv
<1>6. ConfigKeyInv /\ MetaKeyInv
  BY <1>1, <1>2, <1>3 DEF ConfigKeyInv, MetaKeyInv
<1>7. first \in Newest(configs)
  BY <1>1 DEF Newest
<1>8. metas # {} => order \in Newest(metas)
  BY <1>2 DEF Newest
<1>9. VersionsInv
  BY <1>1, <1>7, <1>8 DEF VersionsInv
<1>10. MerchantInv
  BY <1>1, <1>4 DEF MerchantInv, Kept
<1>11. OrderInv
  BY <1>2, <1>4 DEF OrderInv
<1>12. MethodInv
  BY <1>4 DEF MethodInv, Init
<1>13. WholeInv
  <2>1. CurrentMetadata = {q.entry : q \in metas} /\ stored = {CurrentMetadata}
    BY <1>2 DEF Init, CurrentMetadata, Newest
  <2>2. \A r \in metas : VersionAt(r.ts) = CurrentMetadata
    BY <1>2, <2>1 DEF VersionAt
  <2>3. metas # {} => OrderStored
    BY <1>2 DEF OrderStored
  <2> QED
    BY <1>3, <1>4, <2>1, <2>2, <2>3 DEF WholeInv
<1> QED
  BY <1>5, <1>6, <1>9, <1>10, <1>11, <1>12, <1>13 DEF ConfigurationInv

\* Only a commit, a read and an insert touch what WholeInv is about.
LEMMA WholeFrame ==
  ASSUME ConfigurationInv, UNCHANGED <<metas, stored>>, OrderStored' = OrderStored,
         \A o \in Copies' : (o \in Copies /\ p'[o] = p[o]) \/ Has(p'[o].meta, "remoteAddress"),
         \A o \in Handler : tx'[o].meta # {} => (tx[o].meta # {} /\ p'[o] = p[o]) \/ p'[o].metaChanged
  PROVE  WholeInv'
<1>1. \A ts : VersionAt(ts)' = VersionAt(ts)
  BY DEF VersionAt
<1>2. WholeInv
  BY DEF ConfigurationInv
<1>3. \A o \in Copies' : Has(p'[o].meta, "remoteAddress")
  BY <1>2 DEF WholeInv
<1>4. \A o \in Handler : tx'[o].meta # {} => p'[o].metaChanged
  BY <1>2 DEF WholeInv
<1> QED
  BY <1>1, <1>2, <1>3, <1>4 DEF WholeInv, Has

\* A request that keeps nothing leaves the rest as it was.
LEMMA DropKeeps ==
  ASSUME TypeOK, ConfigurationInv, NEW h \in Handler, UNCHANGED <<configs, metas, stored>>,
         NEW at \in PC \ {"read", "configured", "saved", "committed"}, pc' = [pc EXCEPT ![h] = at],
         p' = [p EXCEPT ![h] = NoPayment], tx' = [tx EXCEPT ![h] = NoRows],
         \A o \in Handler : o # h => retries'[o] = retries[o]
  PROVE  ConfigurationInv'
<1>1. \A o \in Handler : o # h => pc'[o] = pc[o] /\ p'[o] = p[o] /\ tx'[o] = tx[o]
  BY DEF TypeOK
<1>2. tx'[h] = NoRows /\ NoRows.config = {} /\ NoRows.meta = {} /\ pc'[h] = at
  BY DEF TypeOK, NoRows
<1>3. Copies' = Copies \ {h}
  BY <1>1, <1>2 DEF Copies
<1>4. InsertedInv'
  BY <1>1, <1>2 DEF ConfigurationInv, InsertedInv
<1>5. ConfigKeyInv' /\ MetaKeyInv'
  BY <1>1, <1>2 DEF ConfigurationInv, ConfigKeyInv, MetaKeyInv
<1>6. VersionsInv' /\ OrderStored' = OrderStored
  BY DEF ConfigurationInv, VersionsInv, Newest, OrderStored
<1>7. MerchantInv' /\ MethodInv'
  BY <1>1, <1>3 DEF ConfigurationInv, MerchantInv, MethodInv, Copies
<1>8. OrderInv'
  BY <1>1, <1>3, <1>6 DEF ConfigurationInv, OrderInv, Copies
<1>9. WholeInv'
  BY <1>1, <1>2, <1>3, <1>6, WholeFrame DEF Copies
<1> QED
  BY <1>4, <1>5, <1>6, <1>7, <1>8, <1>9 DEF ConfigurationInv

\* A request reads the payment and completes its copy.
LEMMA ReadKeeps ==
  ASSUME TypeOK, ConfigurationInv, NEW h \in Handler, Read(h)
  PROVE  ConfigurationInv'
<1> DEFINE pay == Determined(h)
<1>1. /\ OneValue(pay.meta) /\ (MerchantEntry \in pay.meta <=> OrderStored)
      /\ pay.old = CurrentConfig.method
      /\ pay.config.method = methodAskedFor([config |-> CurrentConfig], h)
      /\ pay.config.merchant = CurrentConfig.merchant
      /\ CurrentConfig.locale # NoLocale => pay.config.locale = CurrentConfig.locale
      /\ Has(pay.meta, "remoteAddress")
  BY InForce, DeterminedCompletes DEF TypeOK
<1>2. CurrentConfig.method # NoMethod => pay.config.method = CurrentConfig.method
  <2>1. CurrentConfig.method # NoMethod => methodAskedFor([config |-> CurrentConfig], h) = CurrentConfig.method
    BY DEF methodAskedFor
  <2> QED
    BY <1>1, <2>1
<1> HIDE DEF pay
<1>3. /\ pc[h] = "begin" /\ pc'[h] = "read" /\ p'[h] = pay /\ retries[h] < TransactionMaxRetries
      /\ \A o \in Handler : o # h => pc'[o] = pc[o] /\ p'[o] = p[o]
      /\ UNCHANGED <<configs, metas, tx, retries, stored>>
  BY DEF Read, TypeOK, pay
<1>4. tx[h].meta = {}
  BY <1>3 DEF ConfigurationInv, InsertedInv, NoRows
<1>5. Copies' = Copies \cup {h} /\ h \notin Copies
  BY <1>3 DEF Copies
<1>6. InsertedInv'
  <2>1. tx[h] = NoRows /\ NoRows.config = {} /\ NoRows.meta = {}
    BY <1>3 DEF ConfigurationInv, InsertedInv, NoRows
  <2> QED
    BY <1>3, <2>1 DEF ConfigurationInv, InsertedInv
<1>7. ConfigKeyInv' /\ MetaKeyInv' /\ VersionsInv' /\ OrderStored' = OrderStored
  BY <1>3 DEF ConfigurationInv, ConfigKeyInv, MetaKeyInv, VersionsInv, Newest, OrderStored
<1>8. MerchantInv'
  <2>1. PICK r \in configs : r.config = CurrentConfig
    BY InForce
  <2>2. pay.config.merchant /\ \A first \in configs : first.ts = 1 => Kept(first.config, pay.config)
    BY <1>1, <1>2, <2>1 DEF ConfigurationInv, MerchantInv, Kept
  <2> QED
    BY <1>3, <1>5, <2>2 DEF ConfigurationInv, MerchantInv, Copies
<1>9. OrderInv'
  BY <1>1, <1>3, <1>5, <1>7 DEF ConfigurationInv, OrderInv, Copies
<1>10. MethodInv'
  BY <1>1, <1>2, <1>3, <1>5 DEF ConfigurationInv, MethodInv, Copies
<1>11. WholeInv'
  BY <1>1, <1>3, <1>4, <1>5, <1>7, WholeFrame DEF Copies
<1> QED
  BY <1>6, <1>7, <1>8, <1>9, <1>10, <1>11 DEF ConfigurationInv

\* A row of configuration is inserted, under a time no other row has.
LEMMA ConfigKeeps ==
  ASSUME TypeOK, ConfigurationInv, NEW h \in Handler, SetPaymentConfig(h)
  PROVE  ConfigurationInv'
<1> DEFINE row == [ts |-> now', config |-> p[h].config]
<1>1. /\ pc[h] = "read" /\ pc'[h] = "configured" /\ UNCHANGED <<configs, metas, p, retries, stored>>
      /\ \A o \in Handler : o # h => pc'[o] = pc[o] /\ tx'[o] = tx[o]
  BY DEF SetPaymentConfig, TypeOK
<1>2. tx[h].config = {} /\ tx[h].meta = {}
  BY <1>1 DEF ConfigurationInv, InsertedInv, NoRows
<1>3. /\ tx'[h].meta = {}
      /\ \/ tx'[h].config = {}
         \/ tx'[h].config = {row} /\ ConfigKeyFree(h, now')
  BY <1>2 DEF SetPaymentConfig, TypeOK
<1>4. Copies' = Copies
  BY <1>1 DEF Copies
<1>5. InsertedInv'
  BY <1>1, <1>3 DEF ConfigurationInv, InsertedInv
<1>6. ASSUME NEW r \in tx'[h].config
      PROVE  /\ \A q \in configs : r.ts # q.ts
             /\ \A o \in Handler : o # h => \A q \in tx[o].config : r.ts # q.ts
  <2>1. r.ts = now' /\ ConfigKeyFree(h, now')
    BY <1>3
  <2> QED
    BY <2>1 DEF ConfigKeyFree
<1>7. ConfigKeyInv'
  <2>1. \A r, q \in configs : r.ts = q.ts => r = q
    BY DEF ConfigurationInv, ConfigKeyInv
  <2>2. ASSUME NEW o \in Handler, NEW r \in tx'[o].config, NEW q \in configs PROVE r.ts # q.ts
    BY <1>1, <1>6 DEF ConfigurationInv, ConfigKeyInv
  <2>3. ASSUME NEW a \in Handler, NEW o \in Handler, a # o, NEW r \in tx'[a].config, NEW q \in tx'[o].config
        PROVE  r.ts # q.ts
    <3>1. CASE a = h
      BY <1>1, <1>6, <2>3, <3>1
    <3>2. CASE o = h
      BY <1>1, <1>6, <2>3, <3>2
    <3>3. CASE a # h /\ o # h
      BY <1>1, <2>3, <3>3 DEF ConfigurationInv, ConfigKeyInv
    <3> QED
      BY <3>1, <3>2, <3>3
  <2> QED
    BY <1>1, <2>1, <2>2, <2>3 DEF ConfigKeyInv
<1>8. MetaKeyInv'
  BY <1>1, <1>3 DEF ConfigurationInv, MetaKeyInv
<1>9. VersionsInv' /\ MerchantInv' /\ OrderInv' /\ MethodInv'
  BY <1>1, <1>4 DEF ConfigurationInv, VersionsInv, Newest, MerchantInv, OrderInv, OrderStored, MethodInv
<1>10. WholeInv'
  BY <1>1, <1>3, <1>4, WholeFrame DEF OrderStored
<1> QED
  BY <1>5, <1>7, <1>8, <1>9, <1>10 DEF ConfigurationInv

\* The rows of a map are inserted, under a time none of its names has.
LEMMA MetadataKeeps ==
  ASSUME TypeOK, ConfigurationInv, NEW h \in Handler, SetPaymentMetadata(h)
  PROVE  ConfigurationInv'
<1> DEFINE rows == {[ts |-> now', entry |-> e] : e \in p[h].meta}
<1>1. /\ pc[h] = "configured" /\ pc'[h] = "saved" /\ UNCHANGED <<configs, metas, p, retries, stored>>
      /\ \A o \in Handler : o # h => pc'[o] = pc[o] /\ tx'[o] = tx[o]
  BY DEF SetPaymentMetadata, TypeOK
<1>2. tx[h].meta = {}
  BY <1>1 DEF ConfigurationInv, InsertedInv
<1>3. /\ tx'[h].config = tx[h].config
      /\ \/ tx'[h].meta = {}
         \/ tx'[h].meta = rows /\ MetaKeyFree(h, now') /\ p[h].metaChanged
  BY <1>2 DEF SetPaymentMetadata, InsertedEntries, TypeOK
<1>4. Copies' = Copies /\ h \in Copies
  BY <1>1 DEF Copies
<1>5. InsertedInv'
  <2>1. /\ \A r \in tx'[h].meta : r.entry \in p[h].meta
        /\ \A r, q \in tx'[h].meta : r.ts = q.ts
        /\ \A r \in tx'[h].meta, e \in p[h].meta : [ts |-> r.ts, entry |-> e] \in tx'[h].meta
    BY <1>3
  <2> QED
    BY <1>1, <1>3, <2>1 DEF ConfigurationInv, InsertedInv
<1>6. ASSUME NEW r \in tx'[h].meta
      PROVE  /\ \A q \in metas : ~SameKey(r, q)
             /\ \A o \in Handler : o # h => \A q \in tx[o].meta : ~SameKey(r, q)
  <2>1. r.ts = now' /\ r.entry \in p[h].meta /\ MetaKeyFree(h, now')
    BY <1>3
  <2>2. Has(p[h].meta, r.entry.name)
    BY <2>1 DEF Has
  <2>3. ASSUME NEW q, SameKey(r, q) PROVE q.ts = now' /\ Has(p[h].meta, q.entry.name)
    BY <2>1, <2>2, <2>3 DEF SameKey
  <2> QED
    BY <2>1, <2>3 DEF MetaKeyFree
<1>7. MetaKeyInv'
  <2>1. \A r, q \in metas : SameKey(r, q) => r = q
    BY DEF ConfigurationInv, MetaKeyInv
  <2>2. ASSUME NEW o \in Handler, NEW r \in tx'[o].meta, NEW q \in metas PROVE ~SameKey(r, q)
    BY <1>1, <1>6 DEF ConfigurationInv, MetaKeyInv
  <2>3. ASSUME NEW a \in Handler, NEW o \in Handler, a # o, NEW r \in tx'[a].meta, NEW q \in tx'[o].meta
        PROVE  ~SameKey(r, q)
    <3>1. CASE a = h
      BY <1>1, <1>6, <2>3, <3>1
    <3>2. CASE o = h
      BY <1>1, <1>6, <2>3, <3>2 DEF SameKey
    <3>3. CASE a # h /\ o # h
      BY <1>1, <2>3, <3>3 DEF ConfigurationInv, MetaKeyInv
    <3> QED
      BY <3>1, <3>2, <3>3
  <2> QED
    BY <1>1, <2>1, <2>2, <2>3 DEF MetaKeyInv, SameKey
<1>8. ConfigKeyInv'
  BY <1>1, <1>3 DEF ConfigurationInv, ConfigKeyInv
<1>9. VersionsInv' /\ MerchantInv' /\ OrderInv' /\ MethodInv'
  BY <1>1, <1>4 DEF ConfigurationInv, VersionsInv, Newest, MerchantInv, OrderInv, OrderStored, MethodInv
<1>10. WholeInv'
  BY <1>1, <1>3, <1>4, WholeFrame DEF OrderStored
<1> QED
  BY <1>5, <1>7, <1>8, <1>9, <1>10 DEF ConfigurationInv

\* What a request has inserted becomes visible: every key is still the key of one
\* row, and a version carries on what the merchant set.
LEMMA RowsKeep ==
  ASSUME TypeOK, ConfigurationInv, NEW h \in Handler, CommitRows(h)
  PROVE  /\ \A r, q \in configs' : r.ts = q.ts => r = q
         /\ \A r, q \in metas' : SameKey(r, q) => r = q
         /\ VersionsInv' /\ OrderStored' = OrderStored
         /\ \A r \in configs' : r.config.merchant
         /\ \A first \in configs' : first.ts = 1 => first \in configs /\ \A r \in configs' : Kept(first.config, r.config)
         /\ OrderStored => \A r \in metas' : [ts |-> r.ts, entry |-> MerchantEntry] \in metas'
<1>1. configs' = configs \cup tx[h].config /\ metas' = metas \cup tx[h].meta /\ pc[h] = "saved" /\ h \in Copies
  BY DEF CommitRows, Copies
<1>2. \A r, q \in configs' : r.ts = q.ts => r = q
  BY <1>1 DEF ConfigurationInv, ConfigKeyInv, InsertedInv
<1>3. \A r, q \in tx[h].meta : SameKey(r, q) => r = q
  <2> SUFFICES ASSUME NEW r \in tx[h].meta, NEW q \in tx[h].meta, SameKey(r, q) PROVE r = q
    OBVIOUS
  <2>1. r.entry \in p[h].meta /\ q.entry \in p[h].meta /\ OneValue(p[h].meta)
    BY <1>1 DEF ConfigurationInv, InsertedInv, OrderInv
  <2>2. r.entry = q.entry /\ r.ts = q.ts
    BY <2>1 DEF SameKey, OneValue
  <2>3. r \in MetaRow /\ q \in MetaRow
    BY DEF TypeOK
  <2> QED
    BY <2>2, <2>3 DEF MetaRow
<1>4. \A r, q \in metas' : SameKey(r, q) => r = q
  <2>1. \A r \in tx[h].meta, q \in metas : ~SameKey(r, q) /\ ~SameKey(q, r)
    BY DEF ConfigurationInv, MetaKeyInv, SameKey
  <2>2. \A r, q \in metas : SameKey(r, q) => r = q
    BY DEF ConfigurationInv, MetaKeyInv
  <2> QED
    BY <1>1, <1>3, <2>1, <2>2
<1>5. /\ \A r \in configs \cup tx[h].config : r.ts \in Nat
      /\ \A r \in metas \cup tx[h].meta : r.ts \in Nat
  BY ConfigurationAssumption DEF TypeOK, ConfigRow, MetaRow
<1>6. VersionsInv'
  <2>1. \E r \in configs' : r.ts = 1
    BY <1>1 DEF ConfigurationInv, VersionsInv
  <2>2. configs' # {} => Newest(configs') # {}
    <3>1. (configs # {} => Newest(configs) # {}) /\ \A r, q \in tx[h].config : r.ts = q.ts
      BY DEF ConfigurationInv, VersionsInv, InsertedInv
    <3> QED
      BY <1>1, <1>5, <3>1, NewestOfBoth
  <2>3. metas' # {} => Newest(metas') # {}
    <3>1. (metas # {} => Newest(metas) # {}) /\ \A r, q \in tx[h].meta : r.ts = q.ts
      BY DEF ConfigurationInv, VersionsInv, InsertedInv
    <3> QED
      BY <1>1, <1>5, <3>1, NewestOfBoth
  <2> QED
    BY <2>1, <2>2, <2>3 DEF VersionsInv, Newest
<1>7. OrderStored' = OrderStored
  <2>1. ASSUME NEW r \in tx[h].meta, r.entry = MerchantEntry PROVE OrderStored
    BY <1>1, <2>1 DEF ConfigurationInv, InsertedInv, OrderInv
  <2> QED
    BY <1>1, <2>1 DEF OrderStored
<1>8. \A r \in tx[h].config : r.config = p[h].config
  BY DEF ConfigurationInv, InsertedInv
<1>9. \A r \in configs' : r.config.merchant
  BY <1>1, <1>8 DEF ConfigurationInv, MerchantInv
<1>10. ASSUME NEW first \in configs', first.ts = 1
       PROVE  first \in configs /\ \A r \in configs' : Kept(first.config, r.config)
  <2>1. first \in configs
    BY <1>1, <1>10 DEF ConfigurationInv, ConfigKeyInv, VersionsInv
  <2> QED
    BY <1>1, <1>8, <1>10, <2>1 DEF ConfigurationInv, MerchantInv
<1>11. ASSUME OrderStored, NEW r \in metas' PROVE [ts |-> r.ts, entry |-> MerchantEntry] \in metas'
  <2>1. CASE r \in metas
    BY <1>1, <1>11, <2>1 DEF ConfigurationInv, OrderInv
  <2>2. CASE r \in tx[h].meta
    <3>1. MerchantEntry \in p[h].meta
      BY <1>1, <1>11 DEF ConfigurationInv, OrderInv
    <3>2. [ts |-> r.ts, entry |-> MerchantEntry] \in tx[h].meta
      BY <2>2, <3>1 DEF ConfigurationInv, InsertedInv
    <3> QED
      BY <1>1, <3>2
  <2> QED
    BY <1>1, <2>1, <2>2
<1> QED
  BY <1>2, <1>4, <1>6, <1>7, <1>9, <1>10, <1>11

\* Nobody else has rows under the timestamp of a map that is committed.
LEMMA TimeOfOneWriter ==
  ASSUME ConfigurationInv, NEW h \in Copies, NEW r \in tx[h].meta, NEW q \in metas
  PROVE  q.ts # r.ts
<1> SUFFICES ASSUME q.ts = r.ts PROVE FALSE
  OBVIOUS
<1>1. h \in Handler
  BY DEF Copies
<1>2. \A e \in p[h].meta : [ts |-> r.ts, entry |-> e] \in tx[h].meta
  BY <1>1 DEF ConfigurationInv, InsertedInv
<1>3. \A e \in p[h].meta, m \in metas : m.ts # r.ts \/ m.entry.name # e.name
  <2> SUFFICES ASSUME NEW e \in p[h].meta, NEW m \in metas, m.ts = r.ts, m.entry.name = e.name PROVE FALSE
    OBVIOUS
  <2>1. SameKey([ts |-> r.ts, entry |-> e], m)
    BY DEF SameKey
  <2> QED
    BY <1>1, <1>2, <2>1 DEF ConfigurationInv, MetaKeyInv
<1>4. CASE OrderStored
  <2>1. [ts |-> q.ts, entry |-> MerchantEntry] \in metas /\ MerchantEntry \in p[h].meta
    BY <1>4 DEF ConfigurationInv, OrderInv
  <2> QED
    BY <1>3, <2>1
<1>5. CASE ~OrderStored
  <2>1. PICK m \in metas : m.ts = q.ts /\ m.entry.name = "remoteAddress"
    BY <1>5 DEF ConfigurationInv, WholeInv
  <2>2. PICK e \in p[h].meta : e.name = "remoteAddress"
    BY DEF ConfigurationInv, WholeInv, Has
  <2> QED
    BY <1>3, <2>1, <2>2
<1> QED
  BY <1>4, <1>5

\* A committed map is a version of its own, and whole.
LEMMA CommitWhole ==
  ASSUME TypeOK, ConfigurationInv, NEW h \in Handler, CommitRows(h), OrderStored' = OrderStored
  PROVE  /\ metas' = {} => {} \in stored'
         /\ \A r \in metas' : VersionAt(r.ts)' \in stored'
         /\ OrderStored' \/ \A r \in metas' : \E q \in metas' : q.ts = r.ts /\ q.entry.name = "remoteAddress"
<1>1. /\ metas' = metas \cup tx[h].meta /\ h \in Copies /\ stored \subseteq stored'
      /\ p[h].metaChanged => p[h].meta \in stored'
  BY DEF CommitRows, Copies
<1>2. WholeInv /\ InsertedInv
  BY DEF ConfigurationInv
<1>3. CASE tx[h].meta = {}
  <2>1. metas' = metas
    BY <1>1, <1>3
  <2>2. \A ts : VersionAt(ts)' = VersionAt(ts)
    BY <2>1 DEF VersionAt
  <2> QED
    BY <1>1, <1>2, <2>1, <2>2 DEF WholeInv
<1>4. CASE tx[h].meta # {}
  <2>1. p[h].meta \in stored'
    BY <1>1, <1>2, <1>4 DEF WholeInv
  <2>2. ASSUME NEW r \in metas PROVE VersionAt(r.ts)' \in stored'
    <3>1. \A q \in metas' : q.ts = r.ts => q \in metas
      BY <1>1, TimeOfOneWriter
    <3>2. {q \in metas' : q.ts = r.ts} = {q \in metas : q.ts = r.ts}
      BY <1>1, <3>1
    <3>3. VersionAt(r.ts)' = VersionAt(r.ts)
      BY <3>2 DEF VersionAt
    <3> QED
      BY <1>1, <1>2, <3>3 DEF WholeInv
  <2>3. ASSUME NEW r \in tx[h].meta PROVE VersionAt(r.ts)' \in stored'
    <3>1. {q \in metas' : q.ts = r.ts} = tx[h].meta
      <4>1. \A q \in metas : q.ts # r.ts
        BY <1>1, TimeOfOneWriter
      <4>2. \A q \in tx[h].meta : q.ts = r.ts
        BY <1>2 DEF InsertedInv
      <4> QED
        BY <1>1, <4>1, <4>2
    <3>2. {q.entry : q \in tx[h].meta} = p[h].meta
      <4>1. \A q \in tx[h].meta : q.entry \in p[h].meta
        BY <1>2 DEF InsertedInv
      <4>2. \A e \in p[h].meta : [ts |-> r.ts, entry |-> e] \in tx[h].meta
        BY <1>2 DEF InsertedInv
      <4>3. ASSUME NEW e \in p[h].meta PROVE e \in {q.entry : q \in tx[h].meta}
        <5>1. [ts |-> r.ts, entry |-> e].entry = e
          OBVIOUS
        <5> QED
          BY <4>2, <5>1
      <4> QED
        BY <4>1, <4>3
    <3>3. VersionAt(r.ts)' = p[h].meta
      BY <3>1, <3>2 DEF VersionAt
    <3> QED
      BY <2>1, <3>3
  <2>4. ASSUME ~OrderStored, NEW r \in metas' PROVE \E q \in metas' : q.ts = r.ts /\ q.entry.name = "remoteAddress"
    <3>1. CASE r \in metas
      BY <1>1, <1>2, <2>4, <3>1 DEF WholeInv
    <3>2. CASE r \in tx[h].meta
      <4>1. PICK e \in p[h].meta : e.name = "remoteAddress"
        BY <1>1, <1>2 DEF WholeInv, Has
      <4>2. [ts |-> r.ts, entry |-> e] \in metas'
        BY <1>1, <1>2, <3>2 DEF InsertedInv
      <4> QED
        BY <4>1, <4>2
    <3> QED
      BY <1>1, <3>1, <3>2
  <2>5. metas' # {}
    BY <1>1, <1>4
  <2> QED
    BY <1>1, <2>2, <2>3, <2>4, <2>5
<1> QED
  BY <1>3, <1>4

\* The transaction is committed, and the handler goes on or is told of an error.
LEMMA CommitKeeps ==
  ASSUME TypeOK, ConfigurationInv, NEW h \in Handler, Commit(h) \/ CommitUnknown(h)
  PROVE  ConfigurationInv'
<1>1. CommitRows(h) /\ configs' = configs \cup tx[h].config /\ metas' = metas \cup tx[h].meta
  BY DEF Commit, CommitUnknown, CommitRows
<1>2. /\ \A o \in Handler : o # h => pc'[o] = pc[o] /\ p'[o] = p[o] /\ tx'[o] = tx[o] /\ retries'[o] = retries[o]
      /\ tx'[h] = NoRows /\ NoRows.config = {} /\ NoRows.meta = {}
      /\ \/ pc'[h] = "committed" /\ UNCHANGED <<p, retries>>
         \/ pc'[h] = "failed"
  BY DEF Commit, CommitUnknown, Done, TypeOK, NoRows
<1>3. /\ h \in Copies /\ Copies' \subseteq Copies
      /\ \A o \in Copies' : o \in Handler /\ p'[o] = p[o] /\ retries'[o] = retries[o]
  BY <1>1, <1>2 DEF Copies, CommitRows
<1>4. InsertedInv'
  BY <1>2 DEF ConfigurationInv, InsertedInv
<1>5. ConfigKeyInv'
  <2>1. \A r, q \in configs' : r.ts = q.ts => r = q
    BY <1>1, RowsKeep
  <2> QED
    BY <1>1, <1>2, <2>1 DEF ConfigurationInv, ConfigKeyInv
<1>6. MetaKeyInv'
  <2>1. \A r, q \in metas' : SameKey(r, q) => r = q
    BY <1>1, RowsKeep
  <2>2. ASSUME NEW o \in Handler, NEW r \in tx'[o].meta, NEW q \in metas' PROVE ~SameKey(r, q)
    BY <1>1, <1>2 DEF ConfigurationInv, MetaKeyInv
  <2>3. \A a, o \in Handler : a # o => \A r \in tx'[a].meta, q \in tx'[o].meta : ~SameKey(r, q)
    BY <1>2 DEF ConfigurationInv, MetaKeyInv
  <2> QED
    BY <2>1, <2>2, <2>3 DEF MetaKeyInv, SameKey
<1>7. VersionsInv'
  BY <1>1, RowsKeep
<1>8. MerchantInv'
  <2>1. /\ \A r \in configs' : r.config.merchant
        /\ \A first \in configs' : first.ts = 1 =>
              first \in configs /\ \A r \in configs' : Kept(first.config, r.config)
    BY <1>1, RowsKeep
  <2> QED
    BY <1>3, <2>1 DEF ConfigurationInv, MerchantInv
<1>9. OrderInv'
  <2>1. OrderStored' = OrderStored
    BY <1>1, RowsKeep
  <2>2. OrderStored => \A r \in metas' : [ts |-> r.ts, entry |-> MerchantEntry] \in metas'
    BY <1>1, RowsKeep
  <2> QED
    BY <1>3, <2>1, <2>2 DEF ConfigurationInv, OrderInv
<1>10. MethodInv'
  BY <1>2, <1>3 DEF ConfigurationInv, MethodInv
<1>11. WholeInv'
  <2>1. OrderStored' = OrderStored
    BY <1>1, RowsKeep
  <2>2. WholeInv
    BY DEF ConfigurationInv
  <2>3. \A o \in Copies' : Has(p'[o].meta, "remoteAddress")
    BY <1>3, <2>2 DEF WholeInv
  <2>4. \A o \in Handler : tx'[o].meta # {} => p'[o].metaChanged
    BY <1>2, <2>2 DEF WholeInv
  <2> QED
    BY <1>1, <2>1, <2>3, <2>4, CommitWhole DEF WholeInv, Has
<1> QED
  BY <1>4, <1>5, <1>6, <1>7, <1>8, <1>9, <1>10, <1>11 DEF ConfigurationInv

\* Every step keeps the invariant.
LEMMA ConfigurationStep == TypeOK /\ ConfigurationInv /\ [Next]_vars => ConfigurationInv'
<1> SUFFICES ASSUME TypeOK, ConfigurationInv, [Next]_vars PROVE ConfigurationInv'
  OBVIOUS
<1>1. ASSUME UNCHANGED <<configs, metas, p, tx, retries, stored>>, Copies' = Copies,
             \A o \in Handler : pc'[o] = pc[o] \/ (pc[o] = "new" /\ pc'[o] = "begin")
      PROVE  ConfigurationInv'
  <2>1. WholeInv'
    BY <1>1, WholeFrame DEF OrderStored
  <2> QED
    BY <1>1, <2>1 DEF ConfigurationInv, InsertedInv, ConfigKeyInv, MetaKeyInv, VersionsInv, Newest,
                      MerchantInv, OrderInv, OrderStored, MethodInv
<1>2. CASE UNCHANGED vars
  BY <1>1, <1>2 DEF vars, Copies
<1>3. ASSUME NEW h \in Handler, Arrive(h) PROVE ConfigurationInv'
  <2>1. \A o \in Handler : pc'[o] = pc[o] \/ (pc[o] = "new" /\ pc'[o] = "begin")
    BY <1>3 DEF Arrive, TypeOK
  <2> QED
    BY <1>1, <1>3, <2>1 DEF Arrive, Copies
<1>4. ASSUME NEW h \in Handler, Refuse(h) \/ Fail(h) \/ Serve(h) PROVE ConfigurationInv'
  <2>1. PICK at \in {"failed", "served"} : Done(h, at)
    BY <1>4 DEF Refuse, Fail, Return, Serve
  <2>2. UNCHANGED <<configs, metas, stored>>
    BY <1>4 DEF Refuse, Fail, Return, Serve
  <2>3. \A o \in Handler : o # h => retries'[o] = retries[o]
    BY <2>1 DEF Done, TypeOK
  <2> QED
    BY <2>1, <2>2, <2>3, DropKeeps DEF Done, PC
<1>5. ASSUME NEW h \in Handler, Retry(h) PROVE ConfigurationInv'
  <2>1. \A o \in Handler : o # h => retries'[o] = retries[o]
    BY <1>5 DEF Retry, TypeOK
  <2> QED
    BY <1>5, <2>1, DropKeeps DEF Retry, PC
<1>6. ASSUME NEW m \in Method, ChangeStatus(m) PROVE ConfigurationInv'
  BY <1>1, <1>6 DEF ChangeStatus, Copies
<1> QED
  BY <1>2, <1>3, <1>4, <1>5, <1>6, ReadKeeps, ConfigKeeps, MetadataKeeps, CommitKeeps DEF Next

----------------------------------------------------------------------------
(* The results.                                                            *)

\* Types and invariant hold in every reachable state: the keys of both tables
\* are unique over open transactions too, and there always is a newest version.
THEOREM ConfigurationInvariance == Spec => [](TypeOK /\ ConfigurationInv)
  BY TypeInit, ConfigurationInit, TypeStep, ConfigurationStep, PTL DEF Spec

\* Every variable has its type in every reachable state.
THEOREM TypeCorrect == Spec => []TypeOK
  BY ConfigurationInvariance, PTL

\* No version of the configuration or the metadata that a customer's request
\* stores loses what the merchant set, whatever requests overlap.
THEOREM MerchantDataIsKept == Spec => []MerchantDataKept
<1>1. TypeOK /\ ConfigurationInv => MerchantDataKept
  <2> SUFFICES ASSUME TypeOK, ConfigurationInv PROVE MerchantDataKept
    OBVIOUS
  <2>1. PICK r \in configs : r.config = CurrentConfig
    BY InForce
  <2>2. r.config.merchant /\ \A first \in configs : first.ts = 1 => Kept(first.config, r.config)
    BY DEF ConfigurationInv, MerchantInv
  <2>3. OrderStored => MerchantEntry \in CurrentMetadata
    BY InForce
  <2> QED
    BY <2>1, <2>2, <2>3 DEF MerchantDataKept, Kept, OrderStored
<1> QED
  BY <1>1, ConfigurationInvariance, PTL

\* The metadata in force is one writer's map, complete, though requests that read
\* the same version may insert theirs under the same time.
THEOREM MetadataIsWhole == Spec => []MetadataWhole
<1>1. TypeOK /\ ConfigurationInv => MetadataWhole
  <2> SUFFICES ASSUME TypeOK, ConfigurationInv PROVE MetadataWhole
    OBVIOUS
  <2>1. CASE metas = {}
    <3>1. CurrentMetadata = {}
      BY <2>1 DEF CurrentMetadata, Newest
    <3> QED
      BY <2>1, <3>1 DEF ConfigurationInv, WholeInv, MetadataWhole
  <2>2. CASE metas # {}
    <3>1. PICK m \in Newest(metas) : TRUE
      BY <2>2 DEF ConfigurationInv, VersionsInv
    <3>2. m \in metas /\ \A q \in metas : q.ts <= m.ts
      BY <3>1 DEF Newest
    <3>3. \A q \in metas : q.ts \in Nat
      BY ConfigurationAssumption DEF TypeOK, MetaRow
    <3>4. Newest(metas) = {q \in metas : q.ts = m.ts}
      BY <3>2, <3>3 DEF Newest
    <3>5. CurrentMetadata = VersionAt(m.ts)
      BY <3>4 DEF CurrentMetadata, VersionAt
    <3> QED
      BY <3>2, <3>5 DEF ConfigurationInv, WholeInv, MetadataWhole
  <2> QED
    BY <2>1, <2>2
<1> QED
  BY <1>1, ConfigurationInvariance, PTL

\* A stored version is in force.
StoredInForce == \E r \in Newest(configs) : r.config = CurrentConfig

\* The newest version is.
LEMMA StoredIsInForce == TypeOK /\ ConfigurationInv => StoredInForce
  BY NewestInForce DEF ConfigurationInv, VersionsInv, StoredInForce

\* The method in force is replaced only by a request that read another one, or
\* none: requests that do not overlap agree about it.
THEOREM MethodIsKept == Spec => MethodStays
<1> DEFINE AllRead == CurrentConfig.method # NoMethod /\ \A h \in AtWork : p[h].old = CurrentConfig.method
           Same == CurrentConfig'.method = CurrentConfig.method
<1>1. TypeOK /\ ConfigurationInv /\ StoredInForce' /\ [Next]_vars => [AllRead => Same]_vars
  <2> SUFFICES ASSUME TypeOK, ConfigurationInv, StoredInForce', [Next]_vars, AllRead PROVE Same
    OBVIOUS
  <2>1. CASE configs' = configs
    BY <2>1 DEF CurrentConfig, Newest
  <2>2. ASSUME NEW h \in Handler, CommitRows(h) PROVE Same
    <3>1. PICK r \in configs' : (\A q \in configs' : q.ts <= r.ts) /\ r.config = CurrentConfig'
      BY DEF StoredInForce, Newest
    <3>2. configs' = configs \cup tx[h].config /\ h \in AtWork /\ h \in Copies
      BY <2>2 DEF CommitRows, AtWork, Copies
    <3>3. CASE r \in configs
      <4>1. r \in Newest(configs)
        BY <3>1, <3>2, <3>3 DEF Newest
      <4> QED
        BY <3>1, <4>1, NewestInForce DEF ConfigurationInv
    <3>4. CASE r \in tx[h].config
      <4>1. r.config.method = p[h].config.method /\ p[h].old = CurrentConfig.method
        BY <3>2, <3>4 DEF ConfigurationInv, InsertedInv
      <4>2. p[h].config.method = CurrentConfig.method
        BY <3>2, <4>1 DEF ConfigurationInv, MethodInv
      <4> QED
        BY <3>1, <4>1, <4>2
    <3> QED
      BY <3>1, <3>2, <3>3, <3>4
  <2>3. CASE \E h \in Handler : Commit(h) \/ CommitUnknown(h)
    BY <2>2, <2>3 DEF Commit, CommitUnknown
  <2>4. CASE UNCHANGED vars
    BY <2>1, <2>4 DEF vars
  <2>5. CASE \/ \E h \in Handler : \/ Arrive(h) \/ Read(h) \/ Refuse(h) \/ Fail(h) \/ Retry(h)
                                  \/ SetPaymentConfig(h) \/ SetPaymentMetadata(h) \/ Serve(h)
             \/ \E m \in Method : ChangeStatus(m)
    <3>1. configs' = configs
      BY <2>5 DEF Arrive, Read, Refuse, Fail, Return, Retry, SetPaymentConfig, SetPaymentMetadata, Serve, ChangeStatus
    <3> QED
      BY <2>1, <3>1
  <2> QED
    BY <2>3, <2>4, <2>5 DEF Next
<1> QED
  BY <1>1, StoredIsInForce, ConfigurationInvariance, PTL DEF Spec, MethodStays

=============================================================================
