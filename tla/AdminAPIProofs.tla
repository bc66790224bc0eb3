--------------------------- MODULE AdminAPIProofs ---------------------------
(***************************************************************************)
(* Proofs about AdminAPI, for any set of concurrent requests, any number   *)
(* of processes and configured keys, with and without keys in the          *)
(* configuration.                                                          *)
(***************************************************************************)
EXTENDS AdminAPI, TLAPS

----------------------------------------------------------------------------
(* The inductive invariant of the handlers.                                *)

\* The transaction of a handler is open from Begin until the handler returns;
\* only a failed lookup of the provider leaves it open.
OpenInv ==
    \A r \in Requests :
        /\ pc[r] # "idle" => op[r] \in Ops
        /\ pc[r] \in {"check", "row", "rest", "commit"} => r \in open
        /\ r \in open => \/ pc[r] \in {"check", "row", "rest", "commit"}
                         \/ pc[r] = "done" /\ r \in leaked

\* What a transaction has inserted at each point of its handler.
WroteInv ==
    \A r \in Requests :
        /\ pc[r] \notin {"rest", "commit"} => wrote[r] = {}
        /\ pc[r] = "row" => op[r] \in Entities
        /\ pc[r] = "rest" => wrote[r] = IF op[r] = "change" THEN {} ELSE {Row(op[r], r)}
        /\ pc[r] = "commit" /\ op[r] # "change" =>
               wrote[r] = {Row(op[r], r), Meta(op[r], r)} \cup
                          (IF op[r] \in HasStatus THEN {Status(op[r], r)} ELSE {})
        /\ pc[r] = "commit" /\ op[r] = "change" =>
               /\ Meta("method", r) \in wrote[r]
               /\ wrote[r] \subseteq {Meta("method", r), Status("method", r)}

\* The unique index: one row of a table at most, committed or about to be.
AllRows == db \cup UNION {wrote[q] : q \in Requests}
OneRow(rows) ==
    \A t, u \in rows : t.part = "row" /\ u.part = "row" /\ t.table = u.table => t = u

\* What a handler has looked up stays there.
ParentInv ==
    \A r \in Requests :
        /\ op[r] = "project" /\ pc[r] \in {"row", "rest", "commit"} => Visible("principal", db)
        /\ op[r] = "method" /\ pc[r] \in {"check", "row", "rest", "commit"} =>
               Visible("project", db)

\* What an answer says.
AnswerInv ==
    \A r \in Requests :
        /\ pc[r] \in {"idle", "begin", "check", "row", "rest"} => answer[r] = None
        /\ pc[r] = "commit" => answer[r] = IF op[r] = "change" THEN "changed" ELSE None
        /\ answer[r] = "created" => op[r] \in Entities /\ Row(op[r], r) \in db
        /\ answer[r] = "changed" /\ pc[r] = "done" => r \in fault \/ Meta("method", r) \in db

HandlerInv == OpenInv /\ WroteInv /\ OneRow(AllRows) /\ ParentInv /\ AnswerInv /\ CompleteEntities

----------------------------------------------------------------------------
(* The inductive invariant of the keychains.                               *)

\* A later process knows the keys of an earlier one when they come from the
\* configuration, which is only added to; a container was signed with a key of
\* the process that made it.
KeyInv ==
    /\ \A p \in 1..newest : keychain[p] # << >>
    /\ Configured =>
        /\ authKeys # << >>
        /\ \A p, q \in 1..newest : p <= q => Range(keychain[p]) \subseteq Range(keychain[q])
        /\ Range(keychain[newest]) \subseteq Range(authKeys)
    /\ \/ session \in {NoSession, ExpiredSession}
       \/ session.by >= 1 /\ session.key \in Range(keychain[session.by])

----------------------------------------------------------------------------
(* Types.                                                                  *)

\* The keys of a sequence that is turned around, and of one that grew in front
\* or at the end.
LEMMA RangeOfReverse ==
    ASSUME NEW S, NEW keys \in Seq(S)
    PROVE  /\ Reverse(keys) \in Seq(S)
           /\ Len(Reverse(keys)) = Len(keys)
           /\ Range(Reverse(keys)) = Range(keys)
<1> DEFINE n == Len(keys)
           rev == Reverse(keys)
<1>1. n \in Nat /\ rev = [i \in 1..n |-> keys[(n - i) + 1]]
  BY DEF Reverse
<1>2. \A i \in 1..n : (n - i) + 1 \in 1..n /\ (n - ((n - i) + 1)) + 1 = i
  BY <1>1
<1>3. rev \in Seq(S) /\ Len(rev) = n
  BY <1>1, <1>2
<1>4. DOMAIN keys = 1..n /\ DOMAIN rev = 1..n
  BY <1>1
<1>5. \A i \in 1..n : rev[i] = keys[(n - i) + 1] /\ keys[i] = rev[(n - i) + 1]
  BY <1>1, <1>2
<1>6. \A x : (\E i \in 1..n : x = keys[i]) <=> (\E i \in 1..n : x = rev[i])
  BY <1>2, <1>5
<1> HIDE DEF rev, n
<1>7. Range(rev) = Range(keys)
  BY <1>4, <1>6 DEF Range
<1> QED
  BY <1>3, <1>7 DEF n, rev

\* The keychain of a new process is not empty, and holds the configured keys
\* and no others when there are any.
LEMMA NewKeychainKeys ==
    ASSUME authKeys \in Seq(Nat), NEW p \in Procs
    PROVE  /\ NewKeychain(p) \in Seq(Int)
           /\ NewKeychain(p) # << >>
           /\ authKeys # << >> => Range(NewKeychain(p)) = Range(authKeys)
<1>1. /\ Reverse(authKeys) \in Seq(Nat) /\ Len(Reverse(authKeys)) = Len(authKeys)
      /\ Range(Reverse(authKeys)) = Range(authKeys)
  BY RangeOfReverse
<1>2. CASE Reverse(authKeys) = << >>
  <2>1. NewKeychain(p) = <<-p>> \o << >>
    BY <1>2 DEF NewKeychain, registerKeychain, pushKey
  <2>2. NewKeychain(p) = <<-p>> /\ -p \in Int
    BY <2>1, AdminAssumption DEF Procs
  <2>3. authKeys = << >>
    BY <1>1, <1>2
  <2> QED
    BY <2>2, <2>3
<1>3. CASE Reverse(authKeys) # << >>
  BY <1>1, <1>3 DEF NewKeychain, registerKeychain
<1> QED
  BY <1>2, <1>3

\* The handlers and the keychains share no variable.
LEMMA Frames ==
    ASSUME [Next]_vars
    PROVE  \/ UNCHANGED vars
           \/ UNCHANGED authVars /\ \E r \in Requests :
                HandlerStep(r) \/ StatementFail(r) \/ \E p \in Procs : Arrive(r, p)
           \/ UNCHANGED handlerVars /\ ( \/ \E p \in Procs : Login(p) \/ Refresh(p)
                                         \/ Expire \/ AddKey \/ NewProcess )
<1>1. ASSUME NEW r \in Requests, HandlerStep(r) \/ StatementFail(r) \/ \E p \in Procs : Arrive(r, p)
      PROVE  UNCHANGED authVars
  BY <1>1 DEF HandlerStep, Begin, BeginFail, Check, ProviderFail, InsertRow, InsertDuplicate,
              InsertStatus, StatusUnchanged, StatusLost, InsertRest, Commit, CommitFail,
              StatementFail, Arrive
<1>2. ASSUME NEW p \in Procs, Login(p) \/ Refresh(p) PROVE UNCHANGED handlerVars
  BY <1>2 DEF Login, Refresh
<1>3. ASSUME Expire \/ AddKey \/ NewProcess PROVE UNCHANGED handlerVars
  BY <1>3 DEF Expire, AddKey, NewProcess
<1> QED
  BY <1>1, <1>2, <1>3 DEF Next

\* Every step keeps every variable in its type.
LEMMA HandlerTypeStep ==
    ASSUME HandlerTypeOK, OpenInv, WroteInv, NEW r \in Requests,
           HandlerStep(r) \/ StatementFail(r) \/ \E p \in Procs : Arrive(r, p)
    PROVE  HandlerTypeOK'
<1> USE AdminAssumption
<1>2. ASSUME op[r] \in Ops PROVE Entity(r) \in Entities
  BY <1>2 DEF Entity, Ops, Entities
<1>3. ASSUME NEW e \in Entities
      PROVE  Row(e, r) \in Tables /\ Status(e, r) \in Tables /\ Meta(e, r) \in Tables
  BY DEF Row, Status, Meta, Tables
<1>4. ASSUME NEW a \in {None, "created", "changed", "notfound", "conflict", "error", "cut"},
             Return(r, a)
      PROVE  /\ open' \subseteq Requests
             /\ pc' \in [Requests -> {"idle", "begin", "check", "row", "rest", "commit", "done"}]
             /\ wrote' \in [Requests -> SUBSET Tables]
             /\ answer' \in [Requests -> {None, "created", "changed", "notfound", "conflict",
                                          "error", "cut"}]
  BY <1>4 DEF Return, Goto, HandlerTypeOK
<1>5. CASE Begin(r)
  <2>1. CASE Return(r, "notfound")
    BY <1>4, <1>5, <2>1 DEF Begin, HandlerTypeOK
  <2>2. CASE ~Return(r, "notfound")
    BY <1>5, <2>2 DEF Begin, Goto, HandlerTypeOK
  <2> QED
    BY <2>1, <2>2
<1>6. CASE BeginFail(r) \/ InsertDuplicate(r) \/ StatementFail(r)
  BY <1>4, <1>6 DEF BeginFail, InsertDuplicate, StatementFail, HandlerTypeOK
<1>7. CASE Check(r)
  <2>1. CASE Return(r, "notfound") \/ Return(r, "conflict")
    BY <1>4, <1>7, <2>1 DEF Check, HandlerTypeOK
  <2>2. CASE Goto(r, IF op[r] = "change" THEN "rest" ELSE "row") /\ UNCHANGED <<open, wrote, answer>>
    BY <1>7, <2>2 DEF Check, Goto, HandlerTypeOK
  <2> QED
    BY <1>7, <2>1, <2>2 DEF Check
<1>8. CASE ProviderFail(r)
  BY <1>8 DEF ProviderFail, Goto, HandlerTypeOK
<1>9. CASE InsertRow(r)
  <2>1. op[r] \in Entities /\ Row(op[r], r) \in Tables
    BY <1>3, <1>9 DEF InsertRow, WroteInv
  <2> QED
    BY <1>9, <2>1 DEF InsertRow, Goto, HandlerTypeOK
<1>10. CASE InsertStatus(r) \/ StatusUnchanged(r) \/ StatusLost(r)
  <2>1. Entity(r) \in Entities /\ "method" \in Entities
    BY <1>2, <1>10 DEF InsertStatus, StatusUnchanged, StatusLost, InsertRest, OpenInv, Entities
  <2>2. PICK rest \in SUBSET Tables : InsertRest(r, rest)
    <3>1. CASE InsertStatus(r)
      BY <1>3, <2>1, <3>1 DEF InsertStatus
    <3>2. CASE StatusUnchanged(r) \/ StatusLost(r)
      BY <1>3, <2>1, <3>2 DEF StatusUnchanged, StatusLost
    <3> QED
      BY <1>10, <3>1, <3>2
  <2>3. fault' \subseteq Requests
    BY <1>10 DEF InsertStatus, StatusUnchanged, StatusLost, HandlerTypeOK
  <2> QED
    BY <2>2, <2>3 DEF InsertRest, Goto, HandlerTypeOK
<1>11. CASE Commit(r) \/ CommitFail(r)
  <2>1. PICK a \in {None, "created", "changed", "notfound", "conflict", "error", "cut"} : Return(r, a)
    BY <1>11 DEF Commit, CommitFail, HandlerTypeOK
  <2>2. db' \subseteq Tables /\ fault' \subseteq Requests /\ UNCHANGED <<op, leaked>>
    BY <1>11 DEF Commit, CommitFail, HandlerTypeOK
  <2> QED
    BY <1>4, <2>1, <2>2 DEF HandlerTypeOK
<1>12. CASE \E p \in Procs : Arrive(r, p)
  BY <1>12 DEF Arrive, HandlerTypeOK
<1> QED
  BY <1>5, <1>6, <1>7, <1>8, <1>9, <1>10, <1>11, <1>12 DEF HandlerStep

\* The variables of the authorization keep their types.
LEMMA AuthTypeStep ==
    ASSUME AuthTypeOK, KeyInv,
           \/ \E p \in Procs : Login(p) \/ Refresh(p)
           \/ Expire \/ AddKey \/ NewProcess
    PROVE  AuthTypeOK'
<1> USE AdminAssumption
<1>0. NoSession \in [key : Int, by : 0..newest, expired : BOOLEAN]
      /\ ExpiredSession \in [key : Int, by : 0..newest, expired : BOOLEAN]
  BY DEF NoSession, ExpiredSession, AuthTypeOK, Procs
<1>1. ASSUME NEW p \in Procs, Login(p) \/ Refresh(p) PROVE AuthTypeOK'
  <2>1. ASSUME respondWithAuthorization(p), p \in 1..newest
        PROVE  session' \in [key : Int, by : 0..newest, expired : BOOLEAN]
    <3>1. keychain[p] \in Seq(Int) /\ keychain[p] # << >>
      BY <2>1 DEF AuthTypeOK, KeyInv
    <3>2. Head(keychain[p]) \in Int
      BY <3>1
    <3> QED
      BY <2>1, <3>2 DEF respondWithAuthorization, BinKey, AuthTypeOK, Procs
  <2> QED
    BY <1>0, <1>1, <2>1 DEF Login, Refresh, AuthTypeOK
<1>2. CASE Expire
  BY <1>0, <1>2 DEF Expire, AuthTypeOK
<1>3. CASE AddKey
  BY <1>3 DEF AddKey, AuthTypeOK
<1>4. CASE NewProcess
  <2>1. newest + 1 \in Procs /\ NewKeychain(newest + 1) \in Seq(Int)
    BY <1>4, NewKeychainKeys DEF NewProcess, AuthTypeOK, Procs
  <2> QED
    BY <1>4, <2>1 DEF NewProcess, AuthTypeOK, Procs
<1> QED
  BY <1>1, <1>2, <1>3, <1>4

----------------------------------------------------------------------------
(* The steps of a handler.                                                 *)

\* A handler's transaction is open until the handler returns.
LEMMA OpenStep ==
    ASSUME HandlerTypeOK, OpenInv, NEW r \in Requests,
           HandlerStep(r) \/ StatementFail(r) \/ \E p \in Procs : Arrive(r, p)
    PROVE  OpenInv'
<1> USE DEF HandlerTypeOK, OpenInv, Goto, Return
<1>1. CASE Begin(r)
  BY <1>1 DEF Begin
<1>2. CASE BeginFail(r) \/ InsertDuplicate(r) \/ StatementFail(r) \/ ProviderFail(r)
  BY <1>2 DEF BeginFail, InsertDuplicate, StatementFail, ProviderFail
<1>3. CASE Check(r)
  BY <1>3 DEF Check
<1>4. CASE InsertRow(r)
  BY <1>4 DEF InsertRow
<1>5. CASE InsertStatus(r) \/ StatusUnchanged(r) \/ StatusLost(r)
  BY <1>5 DEF InsertStatus, StatusUnchanged, StatusLost, InsertRest
<1>6. CASE Commit(r) \/ CommitFail(r)
  BY <1>6 DEF Commit, CommitFail
<1>7. CASE \E p \in Procs : Arrive(r, p)
  BY <1>7 DEF Arrive
<1> QED
  BY <1>1, <1>2, <1>3, <1>4, <1>5, <1>6, <1>7 DEF HandlerStep

\* A handler inserts its row first, then what belongs to it.
LEMMA WroteStep ==
    ASSUME HandlerTypeOK, OpenInv, WroteInv, NEW r \in Requests,
           HandlerStep(r) \/ StatementFail(r) \/ \E p \in Procs : Arrive(r, p)
    PROVE  WroteInv'
<1> USE DEF HandlerTypeOK, WroteInv, Goto, Return
<1> DEFINE Empty(l) == /\ UNCHANGED op /\ pc' = [pc EXCEPT ![r] = l]
                       /\ \A q \in Requests : wrote'[q] = IF q = r THEN {} ELSE wrote[q]
<1>0. ASSUME NEW l, Empty(l), l \in {"done", "check"} \/ (l = "row" /\ op[r] \in Entities)
                             \/ (l = "rest" /\ op[r] = "change")
      PROVE  WroteInv'
  <2> SUFFICES ASSUME NEW q \in Requests PROVE
        /\ pc'[q] \notin {"rest", "commit"} => wrote'[q] = {}
        /\ pc'[q] = "row" => op[q] \in Entities
        /\ pc'[q] = "rest" => wrote'[q] = IF op[q] = "change" THEN {} ELSE {Row(op[q], q)}
        /\ pc'[q] = "commit" /\ op[q] # "change" =>
               wrote'[q] = {Row(op[q], q), Meta(op[q], q)} \cup
                           (IF op[q] \in HasStatus THEN {Status(op[q], q)} ELSE {})
        /\ pc'[q] = "commit" /\ op[q] = "change" =>
               /\ Meta("method", q) \in wrote'[q]
               /\ wrote'[q] \subseteq {Meta("method", q), Status("method", q)}
    BY <1>0
  <2>1. CASE q = r
    BY <1>0, <2>1
  <2>2. CASE q # r
    BY <1>0, <2>2
  <2> QED
    BY <2>1, <2>2
<1>1. CASE Begin(r) \/ BeginFail(r)
  <2>1. Empty("done") \/ Empty("check")
    BY <1>1 DEF Begin, BeginFail
  <2> QED
    BY <1>0, <2>1
<1>2. CASE InsertDuplicate(r) \/ StatementFail(r) \/ ProviderFail(r)
  <2>1. Empty("done")
    BY <1>2 DEF InsertDuplicate, StatementFail, ProviderFail
  <2> QED
    BY <1>0, <2>1
<1>3. CASE Check(r)
  <2>1. \/ Empty("done") \/ (Empty("row") /\ op[r] # "change")
        \/ (Empty("rest") /\ op[r] = "change")
    BY <1>3 DEF Check
  <2>2. op[r] \in Entities \cup {"change"}
    BY <1>3 DEF Check, OpenInv, Ops
  <2> QED
    BY <1>0, <2>1, <2>2
<1>4. CASE InsertRow(r)
  BY <1>4 DEF InsertRow, Entities
<1>5. CASE InsertStatus(r) \/ StatusUnchanged(r) \/ StatusLost(r)
  <2>1. PICK rest : /\ InsertRest(r, rest)
                    /\ op[r] # "change" =>
                         rest = {Meta(op[r], r)} \cup
                                (IF op[r] \in HasStatus THEN {Status(op[r], r)} ELSE {})
                    /\ op[r] = "change" =>
                         /\ Meta("method", r) \in rest
                         /\ rest \subseteq {Meta("method", r), Status("method", r)}
    BY <1>5 DEF InsertStatus, StatusUnchanged, StatusLost, Entity, HasStatus
  <2>2. op[r] # "change" => wrote[r] \cup rest =
            {Row(op[r], r), Meta(op[r], r)} \cup
            (IF op[r] \in HasStatus THEN {Status(op[r], r)} ELSE {})
    BY <2>1 DEF InsertRest
  <2>3. op[r] = "change" => wrote[r] = {}
    BY <2>1 DEF InsertRest
  <2>4. UNCHANGED op /\ pc' = [pc EXCEPT ![r] = "commit"]
        /\ wrote' = [wrote EXCEPT ![r] = wrote[r] \cup rest]
    BY <2>1 DEF InsertRest
  <2> QED
    BY <2>1, <2>2, <2>3, <2>4
<1>6. CASE Commit(r) \/ CommitFail(r)
  <2>1. Empty("done")
    BY <1>6 DEF Commit, CommitFail
  <2> QED
    BY <1>0, <2>1
<1>7. CASE \E p \in Procs : Arrive(r, p)
  BY <1>7 DEF Arrive
<1> QED
  BY <1>1, <1>2, <1>3, <1>4, <1>5, <1>6, <1>7 DEF HandlerStep

\* A set of rows in which no table has two entities keeps that property when it
\* shrinks or gains rows of another part.
LEMMA OneRowGrows ==
    ASSUME NEW rows, NEW more, OneRow(rows),
           \A t \in more : t \in rows \/ t.part # "row"
    PROVE  OneRow(more)
  BY DEF OneRow

\* Of the rows of a table that are committed or about to be, there is one.
LEMMA OneRowStep ==
    ASSUME HandlerTypeOK, WroteInv, OneRow(AllRows), NEW r \in Requests,
           HandlerStep(r) \/ StatementFail(r) \/ \E p \in Procs : Arrive(r, p)
    PROVE  OneRow(AllRows)'
<1>1. ASSUME \A t \in db' : t \in AllRows,
             \A q \in Requests : \A t \in wrote'[q] : t \in AllRows \/ t.part # "row"
      PROVE  OneRow(AllRows)'
  <2>1. \A t \in AllRows' : t \in AllRows \/ t.part # "row"
    BY <1>1 DEF AllRows
  <2>2. OneRow(AllRows')
    BY <2>1, OneRowGrows
  <2> QED
    BY <2>2 DEF OneRow, AllRows
<1>2. ASSUME NEW a, Return(r, a), db' \subseteq db \cup wrote[r] PROVE OneRow(AllRows)'
  BY <1>1, <1>2 DEF Return, AllRows, HandlerTypeOK
<1>3. CASE Begin(r) \/ BeginFail(r) \/ InsertDuplicate(r) \/ StatementFail(r) \/ ProviderFail(r)
           \/ Check(r) \/ \E p \in Procs : Arrive(r, p)
  <2>1. CASE \E a : Return(r, a)
    BY <1>2, <1>3, <2>1 DEF Begin, BeginFail, InsertDuplicate, StatementFail, ProviderFail, Check, Arrive
  <2>2. CASE UNCHANGED <<db, wrote>>
    BY <1>1, <2>2 DEF AllRows
  <2> QED
    BY <1>3, <2>1, <2>2
    DEF Begin, BeginFail, InsertDuplicate, StatementFail, ProviderFail, Check, Arrive
<1>4. CASE InsertRow(r)
  <2>1. PICK e : e = op[r]
    OBVIOUS
  <2>2. /\ db' = db
        /\ \A q \in Requests : wrote'[q] \subseteq wrote[q] \cup {Row(e, r)}
        /\ \A t \in AllRows : t # Row(e, t.by)
    BY <1>4, <2>1 DEF InsertRow, RowFree, AllRows, HandlerTypeOK
  <2>3. AllRows' \subseteq AllRows \cup {Row(e, r)} /\ AllRows \subseteq Tables
    BY <2>2 DEF AllRows, HandlerTypeOK
  <2>4. \A t \in AllRows : t.part = "row" => t.table # e
    BY <2>2, <2>3 DEF Tables, Row
  <2>5. OneRow(AllRows')
    BY <2>3, <2>4 DEF OneRow, Row
  <2> QED
    BY <2>5 DEF OneRow, AllRows
<1>5. CASE InsertStatus(r) \/ StatusUnchanged(r) \/ StatusLost(r)
  <2>1. PICK rest : InsertRest(r, rest) /\ \A t \in rest : t.part # "row"
    BY <1>5 DEF InsertStatus, StatusUnchanged, StatusLost, Meta, Status
  <2> QED
    BY <1>1, <2>1 DEF InsertRest, AllRows, HandlerTypeOK
<1>6. CASE Commit(r) \/ CommitFail(r)
  BY <1>2, <1>6 DEF Commit, CommitFail
<1> QED
  BY <1>3, <1>4, <1>5, <1>6 DEF HandlerStep

\* Rows are only added to the databases, so what is visible stays visible.
LEMMA RowsGrow ==
    ASSUME HandlerTypeOK, NEW r \in Requests,
           HandlerStep(r) \/ StatementFail(r) \/ \E p \in Procs : Arrive(r, p)
    PROVE  /\ db' = db \/ (pc[r] = "commit" /\ db' = db \cup wrote[r])
           /\ \A e : Visible(e, db) => Visible(e, db')
<1>1. pc[r] = "commit" \/ UNCHANGED db
  BY DEF HandlerStep, Begin, BeginFail, Check, ProviderFail, InsertRow, InsertDuplicate,
         InsertStatus, StatusUnchanged, StatusLost, InsertRest, Commit, CommitFail,
         StatementFail, Arrive
<1>2. db' \in {db, db \cup wrote[r]}
  BY DEF HandlerStep, Begin, BeginFail, Check, ProviderFail, InsertRow, InsertDuplicate,
         InsertStatus, StatusUnchanged, StatusLost, InsertRest, Commit, CommitFail,
         StatementFail, Arrive
<1>3. db \subseteq db'
  BY <1>2
<1>4. \A e : Visible(e, db) => Visible(e, db')
  BY <1>3 DEF Visible
<1> QED
  BY <1>1, <1>2, <1>4

\* The parent a handler found is there until it ends.
LEMMA ParentStep ==
    ASSUME HandlerTypeOK, OpenInv, WroteInv, ParentInv, NEW r \in Requests,
           HandlerStep(r) \/ StatementFail(r) \/ \E p \in Procs : Arrive(r, p)
    PROVE  ParentInv'
<1>0. \A e : Visible(e, db) => Visible(e, db)'
  BY RowsGrow DEF Visible
<1>1. /\ op' = [op EXCEPT ![r] = op'[r]] /\ pc' = [pc EXCEPT ![r] = pc'[r]]
  BY DEF HandlerStep, Begin, BeginFail, Check, ProviderFail, InsertRow, InsertDuplicate,
         InsertStatus, StatusUnchanged, StatusLost, InsertRest, Commit, CommitFail,
         StatementFail, Arrive, Goto, Return, HandlerTypeOK
<1>2. /\ op'[r] = "project" /\ pc'[r] \in {"row", "rest", "commit"} => Visible("principal", db)
      /\ op'[r] = "method" /\ pc'[r] \in {"check", "row", "rest", "commit"} =>
             Visible("project", db)
  BY DEF HandlerStep, Begin, BeginFail, Check, Missing, ProviderFail, InsertRow, InsertDuplicate,
         InsertStatus, StatusUnchanged, StatusLost, InsertRest, Commit, CommitFail,
         StatementFail, Arrive, Goto, Return, HandlerTypeOK, ParentInv
<1> QED
  BY <1>0, <1>1, <1>2 DEF ParentInv, HandlerTypeOK

\* What has been answered is in the databases, or its request lost a write.
LEMMA AnswerStep ==
    ASSUME HandlerTypeOK, OpenInv, WroteInv, AnswerInv, NEW r \in Requests,
           HandlerStep(r) \/ StatementFail(r) \/ \E p \in Procs : Arrive(r, p)
    PROVE  AnswerInv'
<1> USE DEF HandlerTypeOK, AnswerInv, Goto, Return, None
<1>1. CASE Begin(r) \/ BeginFail(r)
  BY <1>1 DEF Begin, BeginFail
<1>2. CASE InsertDuplicate(r) \/ StatementFail(r) \/ ProviderFail(r)
  BY <1>2 DEF InsertDuplicate, StatementFail, ProviderFail
<1>3. CASE Check(r)
  BY <1>3 DEF Check
<1>4. CASE InsertRow(r)
  BY <1>4 DEF InsertRow
<1>5. CASE InsertStatus(r) \/ StatusUnchanged(r) \/ StatusLost(r)
  BY <1>5 DEF InsertStatus, StatusUnchanged, StatusLost, InsertRest
<1>6. CASE Commit(r)
  BY <1>6 DEF Commit, WroteInv, OpenInv, Ops
<1>7. CASE CommitFail(r)
  BY <1>7 DEF CommitFail
<1>8. CASE \E p \in Procs : Arrive(r, p)
  BY <1>8 DEF Arrive
<1> QED
  BY <1>1, <1>2, <1>3, <1>4, <1>5, <1>6, <1>7, <1>8 DEF HandlerStep

\* A transaction commits an entity with its status and after its parent.
LEMMA CompleteStep ==
    ASSUME HandlerTypeOK, OpenInv, WroteInv, ParentInv, CompleteEntities, NEW r \in Requests,
           HandlerStep(r) \/ StatementFail(r) \/ \E p \in Procs : Arrive(r, p)
    PROVE  CompleteEntities'
<1>0. /\ db' = db \/ (pc[r] = "commit" /\ db' = db \cup wrote[r])
      /\ \A e : Visible(e, db) => Visible(e, db')
  BY RowsGrow
<1>1. SUFFICES ASSUME db' = db \cup wrote[r], pc[r] = "commit", NEW t \in wrote[r], t.part = "row"
               PROVE  /\ t.table \in HasStatus => Status(t.table, t.by) \in db'
                      /\ t.table # "principal" => Visible(Parent(t.table), db')
  BY <1>0 DEF CompleteEntities
<1>2. op[r] # "change"
  <2>1. ASSUME op[r] = "change" PROVE t \in {Meta("method", r), Status("method", r)}
    BY <1>1, <2>1 DEF WroteInv
  <2> QED
    BY <1>1, <2>1 DEF Meta, Status
<1>3. /\ wrote[r] = {Row(op[r], r), Meta(op[r], r)} \cup
                     (IF op[r] \in HasStatus THEN {Status(op[r], r)} ELSE {})
      /\ op[r] \in {"principal", "project", "method"}
  BY <1>1, <1>2 DEF WroteInv, OpenInv, Ops, Entities
<1>4. t = Row(op[r], r)
  BY <1>1, <1>3 DEF Row, Meta, Status
<1>5. t.table = op[r] /\ t.by = r
  BY <1>4 DEF Row
<1>6. t.table \in HasStatus => Status(t.table, t.by) \in db'
  BY <1>1, <1>3, <1>5
<1>7. t.table # "principal" => Visible(Parent(t.table), db)
  BY <1>1, <1>3, <1>5 DEF ParentInv, Parent
<1> QED
  BY <1>0, <1>6, <1>7

\* The invariant of the handlers is inductive; the keychains do not touch it.
LEMMA HandlerInvStep == HandlerTypeOK /\ HandlerInv /\ [Next]_vars => HandlerTypeOK' /\ HandlerInv'
<1> SUFFICES ASSUME HandlerTypeOK, HandlerInv, [Next]_vars PROVE HandlerTypeOK' /\ HandlerInv'
  OBVIOUS
<1>1. CASE UNCHANGED handlerVars
  BY <1>1 DEF handlerVars, HandlerTypeOK, HandlerInv, OpenInv, WroteInv, OneRow, AllRows,
              ParentInv, AnswerInv, CompleteEntities, Visible
<1>2. ASSUME NEW r \in Requests,
             HandlerStep(r) \/ StatementFail(r) \/ \E p \in Procs : Arrive(r, p)
      PROVE  HandlerTypeOK' /\ HandlerInv'
  BY <1>2, HandlerTypeStep, OpenStep, WroteStep, OneRowStep, ParentStep, AnswerStep, CompleteStep
  DEF HandlerInv
<1> QED
  BY <1>1, <1>2, Frames DEF vars

----------------------------------------------------------------------------
(* The steps of the keychains.                                             *)

\* The invariant of the keychains is inductive; the handlers do not touch it.
LEMMA KeyInvStep == AuthTypeOK /\ KeyInv /\ [Next]_vars => AuthTypeOK' /\ KeyInv'
<1> SUFFICES ASSUME AuthTypeOK, KeyInv, [Next]_vars PROVE AuthTypeOK' /\ KeyInv'
  OBVIOUS
<1> USE AdminAssumption
<1>0. AuthTypeOK'
  <2>1. CASE UNCHANGED authVars
    BY <2>1 DEF authVars, AuthTypeOK
  <2> QED
    BY <2>1, AuthTypeStep, Frames DEF vars
<1> SUFFICES KeyInv'
  BY <1>0
<1>1. CASE UNCHANGED authVars
  BY <1>1 DEF authVars, KeyInv
<1>2. ASSUME NEW p \in Procs, Login(p) \/ Refresh(p) PROVE KeyInv'
  <2>1. UNCHANGED <<newest, authKeys, keychain>>
    BY <1>2 DEF Login, Refresh
  <2>2. CASE respondWithAuthorization(p)
    <3>1. p \in 1..newest /\ keychain[p] \in Seq(Int) /\ keychain[p] # << >>
      BY <1>2 DEF Login, Refresh, AuthTypeOK, KeyInv
    <3>2. Head(keychain[p]) \in Range(keychain[p])
      BY <3>1 DEF Range
    <3>3. session'.by = p /\ session'.key = Head(keychain[p])
      BY <2>2 DEF respondWithAuthorization, BinKey
    <3>4. session'.by >= 1 /\ session'.key \in Range(keychain'[session'.by])
      BY <2>1, <3>1, <3>2, <3>3
    <3> QED
      BY <2>1, <3>4 DEF KeyInv
  <2>3. CASE session' = NoSession
    BY <2>1, <2>3 DEF KeyInv
  <2> QED
    BY <1>2, <2>2, <2>3 DEF Login, Refresh
<1>3. CASE Expire
  BY <1>3 DEF Expire, KeyInv
<1>4. CASE AddKey
  <2>1. /\ authKeys' = Append(authKeys, Len(authKeys) + 1) /\ authKeys \in Seq(Nat)
        /\ Len(authKeys) \in Nat
    BY <1>4 DEF AddKey, AuthTypeOK
  <2>2. /\ authKeys' # << >>
        /\ \A i \in DOMAIN authKeys : i \in DOMAIN authKeys' /\ authKeys'[i] = authKeys[i]
    BY <2>1
  <2>3. Range(authKeys) \subseteq Range(authKeys')
    BY <2>2 DEF Range
  <2> QED
    BY <1>4, <2>2, <2>3 DEF AddKey, KeyInv
<1>5. CASE NewProcess
  <2>1. newest + 1 \in Procs /\ newest \in Nat
    BY <1>5 DEF NewProcess, AuthTypeOK, Procs
  <2>2. /\ NewKeychain(newest + 1) # << >>
        /\ Configured => Range(NewKeychain(newest + 1)) = Range(authKeys)
    BY <2>1, NewKeychainKeys DEF KeyInv, AuthTypeOK
  <2>3. /\ keychain'[newest + 1] = NewKeychain(newest + 1)
        /\ \A p \in 1..newest : keychain'[p] = keychain[p]
        /\ UNCHANGED <<authKeys, session>> /\ newest' = newest + 1
    BY <1>5, <2>1 DEF NewProcess, AuthTypeOK, Procs
  <2>4. \A p \in 1..newest' : p \in 1..newest \/ p = newest + 1
    BY <2>1, <2>3
  <2>5. \A p \in 1..newest' : keychain'[p] # << >>
    BY <2>2, <2>3, <2>4 DEF KeyInv
  <2>6. Configured => \A p, q \in 1..newest' : p <= q =>
            Range(keychain'[p]) \subseteq Range(keychain'[q])
    <3>1. Configured => \A p \in 1..newest : Range(keychain[p]) \subseteq Range(authKeys)
      BY <2>1 DEF KeyInv
    <3>2. SUFFICES ASSUME Configured, NEW p \in 1..newest', NEW q \in 1..newest', p <= q
                   PROVE  Range(keychain'[p]) \subseteq Range(keychain'[q])
      OBVIOUS
    <3>3. CASE q = newest + 1
      BY <2>2, <2>3, <2>4, <3>1, <3>2, <3>3
    <3>4. CASE q \in 1..newest
      BY <2>1, <2>3, <2>4, <3>2, <3>4 DEF KeyInv
    <3> QED
      BY <2>4, <3>3, <3>4
  <2>7. \/ session' \in {NoSession, ExpiredSession}
        \/ session'.by >= 1 /\ session'.key \in Range(keychain'[session'.by])
    BY <2>1, <2>3 DEF KeyInv, AuthTypeOK
  <2> QED
    BY <2>2, <2>3, <2>5, <2>6, <2>7 DEF KeyInv
<1> QED
  BY <1>1, <1>2, <1>3, <1>4, <1>5, Frames DEF vars

----------------------------------------------------------------------------
(* The theorems.                                                           *)

\* Initially nothing is open and the first process has a key.
LEMMA InitInv == Init => TypeOK /\ HandlerInv /\ KeyInv
<1> SUFFICES ASSUME Init PROVE TypeOK /\ HandlerInv /\ KeyInv
  OBVIOUS
<1> USE AdminAssumption
<1>1. HandlerTypeOK
  BY DEF Init, HandlerTypeOK, Tables, Row, Status, Entities
<1>2. OpenInv /\ WroteInv /\ ParentInv /\ AnswerInv
  BY DEF Init, OpenInv, WroteInv, ParentInv, AnswerInv, None
<1>3. AllRows = db /\ OneRow(AllRows)
  <2>1. AllRows = db
    BY DEF Init, AllRows
  <2>2. \A t, u \in db : t.part = "row" /\ u.part = "row" /\ t.table = u.table => t = u
    BY DEF Init, Row, Status
  <2> QED
    BY <2>1, <2>2 DEF OneRow
<1>4. CompleteEntities
  <2>1. CASE db = {}
    BY <2>1 DEF CompleteEntities
  <2>2. CASE db = {Row("principal", Seed), Status("principal", Seed), Row("project", Seed)}
    <3>1. Visible("principal", db)
      BY <2>2 DEF Visible, HasStatus, Row, Status
    <3>2. \A t \in db : t.part = "row" =>
            t.table = "project" \/ (t.table = "principal" /\ t.by = Seed)
      BY <2>2 DEF Row, Status
    <3>3. Parent("project") = "principal" /\ "project" \notin HasStatus
      BY DEF Parent, HasStatus
    <3> QED
      BY <2>2, <3>1, <3>2, <3>3 DEF CompleteEntities
  <2> QED
    BY <2>1, <2>2 DEF Init
<1>5. authKeys \in Seq(Nat) /\ Len(authKeys) <= MaxKeys /\ (Configured => authKeys # << >>)
  BY DEF Init
<1>6. newest = 1 /\ 1 \in Procs /\ session = NoSession
      /\ NoSession \in [key : Int, by : 0..newest, expired : BOOLEAN]
  BY DEF Init, Procs, NoSession
<1>7. /\ NewKeychain(1) \in Seq(Int) /\ NewKeychain(1) # << >>
      /\ Configured => Range(NewKeychain(1)) = Range(authKeys)
  BY <1>5, <1>6, NewKeychainKeys
<1>8. keychain \in [Procs -> Seq(Int)] /\ keychain[1] = NewKeychain(1)
  BY <1>6, <1>7 DEF Init
<1>9. AuthTypeOK /\ KeyInv
  BY <1>5, <1>6, <1>7, <1>8 DEF AuthTypeOK, KeyInv
<1> QED
  BY <1>1, <1>2, <1>3, <1>4, <1>9 DEF TypeOK, HandlerInv

\* Every reachable state satisfies the inductive invariants.
LEMMA Invariance == Spec => [](TypeOK /\ HandlerInv /\ KeyInv)
<1>1. TypeOK /\ HandlerInv /\ KeyInv /\ [Next]_vars => (TypeOK /\ HandlerInv /\ KeyInv)'
  BY HandlerInvStep, KeyInvStep DEF TypeOK
<1> QED
  BY <1>1, InitInv, PTL DEF Spec

\* Type correctness of the administration API.
THEOREM TypeCorrect == Spec => []TypeOK
  BY Invariance, PTL

\* Nothing half made is ever committed (principal.go:178-216).
THEOREM EntitiesComplete == Spec => []CompleteEntities
<1>1. HandlerInv => CompleteEntities
  BY DEF HandlerInv
<1> QED
  BY <1>1, Invariance, PTL

\* Whoever is told that it created an entity did, alone (project.go:256-301): the
\* rows of a table that are committed or about to be are one.
THEOREM OneCreator == Spec => []CreatedOnce
<1>1. TypeOK /\ HandlerInv => CreatedOnce
  <2> SUFFICES ASSUME TypeOK, HandlerInv, NEW q \in Requests, NEW r \in Requests,
                      answer[q] = "created"
               PROVE  /\ Row(op[q], q) \in db
                      /\ answer[r] = "created" /\ op[r] = op[q] => r = q
    BY DEF CreatedOnce
  <2>1. Row(op[q], q) \in db /\ (answer[r] = "created" => Row(op[r], r) \in db)
    BY DEF HandlerInv, AnswerInv
  <2>2. ASSUME answer[r] = "created", op[r] = op[q] PROVE Row(op[r], r) = Row(op[q], q)
    BY <2>1, <2>2 DEF HandlerInv, OneRow, AllRows, Row
  <2> QED
    BY <2>1, <2>2 DEF Row
<1> QED
  BY <1>1, Invariance, PTL

\* An answered change of a method is committed unless a write of it was lost
\* unnoticed (payment_method.go:372-380).
THEOREM ChangesAreKept == Spec => []ChangeIsKept
<1>1. HandlerInv => ChangeIsKept
  BY DEF HandlerInv, AnswerInv, ChangeIsKept
<1> QED
  BY <1>1, Invariance, PTL

\* Only a failed lookup of the provider leaves a transaction open
\* (payment_method.go:153-169).
THEOREM TransactionsAreEnded == Spec => []TransactionsEnd
<1>1. TypeOK /\ HandlerInv => TransactionsEnd
  BY DEF HandlerInv, OpenInv, TransactionsEnd, TypeOK, HandlerTypeOK
<1> QED
  BY <1>1, Invariance, PTL

\* With keys in the configuration a session is only lost at a process older than
\* the one that signed its container (service/auth.go:126): every later process
\* has the key, for its chain holds those of its predecessors.
THEOREM SessionsAreKept == Spec => SessionKept
<1>1. TypeOK /\ KeyInv /\ [Next]_vars =>
        [Configured /\ session # NoSession /\ ~session.expired /\ session' = NoSession =>
           \E p \in 1..(session.by - 1) : session.key \notin Range(keychain[p])]_vars
  <2> SUFFICES ASSUME TypeOK, KeyInv, Next, Configured, session # NoSession, ~session.expired,
                      session' = NoSession
               PROVE  \E p \in 1..(session.by - 1) : session.key \notin Range(keychain[p])
    OBVIOUS
  <2>1. PICK p \in 1..newest : Refresh(p) /\ ~AuthHandler(p)
    <3>1. ~UNCHANGED authVars /\ ~Expire /\ ~AddKey /\ ~NewProcess
      BY DEF authVars, Expire, AddKey, NewProcess, ExpiredSession, NoSession
    <3>2. PICK p \in Procs : Login(p) \/ Refresh(p)
      BY <3>1, Frames DEF vars
    <3>3. Refresh(p)
      BY <3>2 DEF Login
    <3> QED
      BY <3>3 DEF Refresh, respondWithAuthorization, NoSession, Procs
  <2>2. session.key \notin Range(keychain[p])
    BY <2>1 DEF AuthHandler, MatchKey, Range
  <2>3. session.by \in 1..newest /\ session.key \in Range(keychain[session.by])
    BY DEF KeyInv, TypeOK, AuthTypeOK, NoSession, ExpiredSession
  <2>4. ~(session.by <= p)
    BY <2>1, <2>2, <2>3 DEF KeyInv
  <2>5. p \in 1..(session.by - 1)
    BY <2>1, <2>3, <2>4 DEF TypeOK, AuthTypeOK, Procs
  <2> QED
    BY <2>2, <2>5
<1> QED
  BY <1>1, Invariance, PTL DEF Spec, SessionKept

=============================================================================
