------------------------ MODULE ConnectionPoolProofs ------------------------
(***************************************************************************)
(* Proofs about ConnectionPool, for any set of requests and goroutines,    *)
(* any number of connections and retries, with and without a read-only     *)
(* database and lock errors.  The connections checked out of a pool are    *)
(* counted by whom they are held.                                          *)
(***************************************************************************)
EXTENDS ConnectionPool, FiniteSetTheorems, TLAPS

\* Holders of a transaction of pool d.
InTx == {"tx", "intent", "reading", "ready", "serving", "failed", "error", "rollback"}
First(d) == {a \in Actor : TxPool(a) = d /\ at[a] \in InTx}

\* Holders of a second connection of pool d, while they have a transaction.
HoldsSecond(place, d) == \/ place = "reading" /\ d = ReadOnly
                         \/ place = "error" /\ d = "write"
Second(d) == {a \in Actor : HoldsSecond(at[a], d)}

\* Requests that have a token of the rate limit.
Admitted == {r \in Request : at[r] \notin {"arrived", "done"}}

\* The inductive invariant.  Who can be where ...
PlaceInv == \A a \in Actor :
    /\ at[a] \in {"failed", "error", "rollback"} => a \in Background
    /\ at[a] \in {"begin", "ready", "return"} => a \in Request
    /\ at[a] \in {"intent", "reading", "serve", "serving"} => a \in PaymentRequest

\* ... a transaction was begun with a retry left ...
RetryInv == \A r \in Request : at[r] \in {"tx", "intent", "reading", "ready"} => retries[r] < TransactionMaxRetries

\* ... every connection that is out is held or lost, every token that is out held.
FiniteInv == /\ \A d \in Pool : IsFiniteSet(First(d)) /\ IsFiniteSet(Second(d))
             /\ IsFiniteSet(Admitted)
HeldInv == \A d \in Pool : used[d] = lost[d] + Cardinality(First(d)) + Cardinality(Second(d))
TokenInv == rateLimit + Cardinality(Admitted) = MaxOpenConns

PoolInv == PlaceInv /\ RetryInv /\ FiniteInv /\ HeldInv /\ TokenInv

----------------------------------------------------------------------------
(* Counting.                                                               *)

Count(b) == IF b THEN 1 ELSE 0

\* Two sets that differ in one element at most.
LEMMA OneElement ==
  ASSUME NEW S, NEW T, NEW a, IsFiniteSet(S), T \ {a} = S \ {a}
  PROVE  /\ IsFiniteSet(T) /\ Cardinality(T) \in Nat
         /\ Cardinality(T) = Cardinality(S) + Count(a \in T) - Count(a \in S)
<1> DEFINE R == S \ {a}
<1>1. /\ IsFiniteSet(R) /\ a \notin R
      /\ Cardinality(R) = Cardinality(S) - Count(a \in S)
  <2>1. IsFiniteSet(R) /\ Cardinality(R) = IF a \in S THEN Cardinality(S) - 1 ELSE Cardinality(S)
    BY FS_RemoveElement
  <2>2. Cardinality(S) \in Nat
    BY FS_CardinalityType
  <2> QED
    BY <2>1, <2>2 DEF Count
<1>2. Cardinality(R) \in Nat /\ Cardinality(S) \in Nat
  BY <1>1, FS_CardinalityType
<1>3. IsFiniteSet(R \cup {a}) /\ Cardinality(R \cup {a}) = Cardinality(R) + 1
  BY <1>1, FS_AddElement
<1>4. T = R \/ T = R \cup {a}
  OBVIOUS
<1>5. CASE T = R
  <2>1. a \notin T
    BY <1>5
  <2> QED
    BY <1>1, <1>2, <1>5, <2>1 DEF Count
<1>6. CASE T = R \cup {a}
  <2>1. a \in T
    BY <1>6
  <2> HIDE DEF R
  <2> QED
    BY <1>1, <1>2, <1>3, <1>6, <2>1 DEF Count
<1> QED
  BY <1>4, <1>5, <1>6

\* Who is counted, before and after one actor goes from one place to another:
\* among the holders of transactions, ...
LEMMA FirstMoves ==
  ASSUME at \in [Actor -> Place], FiniteInv, NEW a \in Actor, NEW to, at' = [at EXCEPT ![a] = to], NEW d \in Pool
  PROVE  /\ IsFiniteSet(First(d)') /\ Cardinality(First(d)) \in Nat /\ Cardinality(First(d)') \in Nat
         /\ Cardinality(First(d)') = Cardinality(First(d))
              + Count(TxPool(a) = d /\ to \in InTx) - Count(TxPool(a) = d /\ at[a] \in InTx)
<1>1. First(d)' \ {a} = First(d) \ {a}
  BY DEF First
<1>2. (a \in First(d)' <=> TxPool(a) = d /\ to \in InTx) /\ (a \in First(d) <=> TxPool(a) = d /\ at[a] \in InTx)
  BY DEF First
<1>3. IsFiniteSet(First(d))
  BY DEF FiniteInv
<1>4. Cardinality(First(d)') = Cardinality(First(d)) + Count(a \in First(d)') - Count(a \in First(d))
  BY <1>1, <1>3, OneElement
<1> QED
  BY <1>1, <1>2, <1>3, <1>4, OneElement, FS_CardinalityType DEF Count

\* ... among those of second connections, ...
LEMMA SecondMoves ==
  ASSUME at \in [Actor -> Place], FiniteInv, NEW a \in Actor, NEW to, at' = [at EXCEPT ![a] = to], NEW d \in Pool
  PROVE  /\ IsFiniteSet(Second(d)') /\ Cardinality(Second(d)) \in Nat /\ Cardinality(Second(d)') \in Nat
         /\ Cardinality(Second(d)') = Cardinality(Second(d))
              + Count(HoldsSecond(to, d)) - Count(HoldsSecond(at[a], d))
<1>1. Second(d)' \ {a} = Second(d) \ {a}
  BY DEF Second
<1>2. (a \in Second(d)' <=> HoldsSecond(to, d)) /\ (a \in Second(d) <=> HoldsSecond(at[a], d))
  BY DEF Second
<1>3. IsFiniteSet(Second(d))
  BY DEF FiniteInv
<1>4. Cardinality(Second(d)') = Cardinality(Second(d)) + Count(a \in Second(d)') - Count(a \in Second(d))
  BY <1>1, <1>3, OneElement
<1> QED
  BY <1>1, <1>2, <1>3, <1>4, OneElement, FS_CardinalityType DEF Count

\* ... and among the requests that were let in.
LEMMA AdmittedMoves ==
  ASSUME at \in [Actor -> Place], FiniteInv, NEW a \in Actor, NEW to, at' = [at EXCEPT ![a] = to]
  PROVE  /\ IsFiniteSet(Admitted') /\ Cardinality(Admitted) \in Nat /\ Cardinality(Admitted') \in Nat
         /\ Cardinality(Admitted') = Cardinality(Admitted)
              + Count(a \in Request /\ to \notin {"arrived", "done"})
              - Count(a \in Request /\ at[a] \notin {"arrived", "done"})
<1>1. Admitted' \ {a} = Admitted \ {a}
  BY DEF Admitted, Actor
<1>2. /\ a \in Admitted' <=> a \in Request /\ to \notin {"arrived", "done"}
      /\ a \in Admitted <=> a \in Request /\ at[a] \notin {"arrived", "done"}
  BY DEF Admitted
<1>3. IsFiniteSet(Admitted)
  BY DEF FiniteInv
<1>4. Cardinality(Admitted') = Cardinality(Admitted) + Count(a \in Admitted') - Count(a \in Admitted)
  BY <1>1, <1>3, OneElement
<1> QED
  BY <1>1, <1>2, <1>3, <1>4, OneElement, FS_CardinalityType DEF Count

----------------------------------------------------------------------------
(* The steps.                                                              *)

\* What a goes for is checked out or taken from the channel, what it lets go of is
\* returned or lost.
Balanced(a, to) == \A d \in Pool : used'[d] - lost'[d] = used[d] - lost[d]
    + Count(TxPool(a) = d /\ to \in InTx) - Count(TxPool(a) = d /\ at[a] \in InTx)
    + Count(HoldsSecond(to, d)) - Count(HoldsSecond(at[a], d))
TokensBalanced(a, to) == rateLimit' = rateLimit - Count(a \in Request /\ to \notin {"arrived", "done"})
                                                + Count(a \in Request /\ at[a] \notin {"arrived", "done"})
Bounded == used' \in [Pool -> Int] /\ lost' \in [Pool -> Nat] /\ \A d \in Pool : used'[d] <= MaxOpenConns

\* A step in which one actor moves and the pools' books are kept.
LEMMA BooksKept ==
  ASSUME TypeOK, PoolInv, NEW a \in Actor, NEW to, at' = [at EXCEPT ![a] = to],
         Bounded, rateLimit' \in Int, Balanced(a, to), TokensBalanced(a, to)
  PROVE  /\ FiniteInv' /\ HeldInv' /\ TokenInv'
         /\ rateLimit' <= MaxOpenConns
         /\ used' \in [Pool -> 0..MaxOpenConns] /\ lost' \in [Pool -> 0..MaxOpenConns]
<1> at \in [Actor -> Place] /\ FiniteInv
  BY DEF TypeOK, PoolInv
<1>1. ASSUME NEW d \in Pool
      PROVE  /\ used'[d] = lost'[d] + Cardinality(First(d)') + Cardinality(Second(d)')
             /\ IsFiniteSet(First(d)') /\ IsFiniteSet(Second(d)')
             /\ used'[d] \in 0..MaxOpenConns /\ lost'[d] \in 0..MaxOpenConns
  <2> DEFINE in1 == Count(TxPool(a) = d /\ to \in InTx)   out1 == Count(TxPool(a) = d /\ at[a] \in InTx)
             in2 == Count(HoldsSecond(to, d))             out2 == Count(HoldsSecond(at[a], d))
  <2>1. used[d] = lost[d] + Cardinality(First(d)) + Cardinality(Second(d)) /\ used[d] \in Int /\ lost[d] \in Int
    BY DEF PoolInv, HeldInv, TypeOK
  <2>2. used'[d] \in Int /\ lost'[d] \in Nat /\ used'[d] <= MaxOpenConns
    BY DEF Bounded
  <2>3. in1 \in Int /\ out1 \in Int /\ in2 \in Int /\ out2 \in Int
    BY DEF Count
  <2>4. used'[d] - lost'[d] = used[d] - lost[d] + in1 - out1 + in2 - out2
    BY DEF Balanced
  <2>5. /\ Cardinality(First(d)) \in Nat /\ Cardinality(Second(d)) \in Nat
        /\ Cardinality(First(d)') \in Nat /\ Cardinality(Second(d)') \in Nat
        /\ IsFiniteSet(First(d)') /\ IsFiniteSet(Second(d)')
        /\ Cardinality(First(d)') = Cardinality(First(d)) + in1 - out1
        /\ Cardinality(Second(d)') = Cardinality(Second(d)) + in2 - out2
    BY FirstMoves, SecondMoves
  <2> HIDE DEF in1, out1, in2, out2
  <2>6. used'[d] = lost'[d] + Cardinality(First(d)') + Cardinality(Second(d)')
    <3>1. PICK f \in Int, f1 \in Int, s \in Int, s1 \in Int :
            /\ f = Cardinality(First(d)) /\ f1 = Cardinality(First(d)')
            /\ s = Cardinality(Second(d)) /\ s1 = Cardinality(Second(d)')
      BY <2>5
    <3>2. f1 = f + in1 - out1 /\ s1 = s + in2 - out2
      BY <2>5, <3>1
    <3>3. used[d] = lost[d] + f + s
      BY <2>1, <3>1
    <3>4. used'[d] = lost'[d] + f1 + s1
      BY <2>1, <2>2, <2>3, <2>4, <3>2, <3>3
    <3> QED
      BY <3>1, <3>4
  <2> QED
    BY <2>2, <2>5, <2>6, PoolAssumption
<1>2. IsFiniteSet(Admitted') /\ rateLimit' + Cardinality(Admitted') = MaxOpenConns /\ rateLimit' <= MaxOpenConns
  <2> DEFINE enters == Count(a \in Request /\ to \notin {"arrived", "done"})
             leaves == Count(a \in Request /\ at[a] \notin {"arrived", "done"})
  <2>1. enters \in Int /\ leaves \in Int
    BY DEF Count
  <2>2. rateLimit + Cardinality(Admitted) = MaxOpenConns /\ rateLimit \in Int
    BY DEF PoolInv, TokenInv, TypeOK
  <2>3. rateLimit' = rateLimit - enters + leaves
    BY DEF TokensBalanced
  <2>4. /\ IsFiniteSet(Admitted') /\ Cardinality(Admitted) \in Nat /\ Cardinality(Admitted') \in Nat
        /\ Cardinality(Admitted') = Cardinality(Admitted) + enters - leaves
    BY AdmittedMoves
  <2> HIDE DEF enters, leaves
  <2> QED
    BY <2>1, <2>2, <2>3, <2>4, PoolAssumption
<1> QED
  BY <1>1, <1>2 DEF FiniteInv, HeldInv, TokenInv, Bounded

\* Only one request or goroutine moves in a step, and keeps the books.
Moves(a, to) == at' = [at EXCEPT ![a] = to] /\ Bounded /\ Balanced(a, to)

\* What the step of a request or goroutine that was let in has to show.
LEMMA MovesKeep ==
  ASSUME TypeOK, PoolInv, NEW a \in Actor, NEW to \in Place, Moves(a, to),
         UNCHANGED rateLimit, at[a] \notin {"arrived", "done"} \/ a \in Background,
         to \notin {"arrived", "done"} \/ a \in Background,
         retries' \in [Request -> 0..TransactionMaxRetries], RetryInv',
         to \in {"failed", "error", "rollback"} => a \in Background,
         to \in {"begin", "ready", "return"} => a \in Request,
         to \in {"intent", "reading", "serve", "serving"} => a \in PaymentRequest
  PROVE  TypeOK' /\ PoolInv'
<1>1. PlaceInv'
  BY DEF Moves, PlaceInv, PoolInv, TypeOK
<1>2. at' \in [Actor -> Place]
  BY DEF Moves, TypeOK
<1>3. rateLimit \in Int
  BY DEF TypeOK
<1>4. Count(a \in Request /\ to \notin {"arrived", "done"}) = Count(a \in Request /\ at[a] \notin {"arrived", "done"})
  BY PoolAssumption DEF Count
<1>5. TokensBalanced(a, to)
  BY <1>3, <1>4 DEF Count, TokensBalanced
<1>6. /\ FiniteInv' /\ HeldInv' /\ TokenInv'
      /\ used' \in [Pool -> 0..MaxOpenConns] /\ lost' \in [Pool -> 0..MaxOpenConns]
  BY <1>3, <1>5, BooksKept DEF Moves
<1> QED
  BY <1>1, <1>2, <1>6 DEF PoolInv, TypeOK

\* Every step keeps types and invariant.
LEMMA PoolStep == TypeOK /\ PoolInv /\ [Next]_vars => TypeOK' /\ PoolInv'
<1> SUFFICES ASSUME TypeOK, PoolInv, [Next]_vars PROVE TypeOK' /\ PoolInv'
  OBVIOUS
<1>1. CASE UNCHANGED vars
  BY <1>1 DEF vars, TypeOK, PoolInv, PlaceInv, RetryInv, FiniteInv, HeldInv, TokenInv, First, Second, Admitted
<1>2. ASSUME NEW r \in Request, Begin(r) PROVE TypeOK' /\ PoolInv'
  <2>1. Moves(r, "tx")
    BY <1>2, PoolAssumption DEF Moves, Balanced, Bounded, Begin, Move, Acquire, Count, InTx, HoldsSecond, TypeOK, TxPool, ReadOnly, Pool
  <2>2. RetryInv'
    BY <1>2 DEF Begin, Move, PoolInv, RetryInv
  <2> QED
    BY <1>2, <2>1, <2>2, MovesKeep DEF Begin, Move, Place, TypeOK, Actor
<1>3. ASSUME NEW r \in Request, GiveUp(r) PROVE TypeOK' /\ PoolInv'
  <2>1. Moves(r, "return")
    BY <1>3 DEF Moves, Balanced, Bounded, GiveUp, Move, Count, InTx, HoldsSecond, TypeOK
  <2>2. RetryInv'
    BY <1>3 DEF GiveUp, Move, PoolInv, RetryInv
  <2> QED
    BY <1>3, <2>1, <2>2, MovesKeep DEF GiveUp, Move, Place, TypeOK, Actor
<1>4. ASSUME NEW r \in Request, LockError(r) PROVE TypeOK' /\ PoolInv'
  <2>1. Moves(r, "begin")
    BY <1>4 DEF Moves, Balanced, Bounded, LockError, Count, InTx, HoldsSecond, TypeOK, TxPool, ReadOnly, Pool
  <2>2. RetryInv'
    BY <1>4 DEF LockError, PoolInv, RetryInv, TypeOK, Actor
  <2> QED
    BY <1>4, <2>1, <2>2, MovesKeep, PoolAssumption DEF LockError, Place, TypeOK, Actor, PoolInv, RetryInv
<1>5. ASSUME NEW r \in Request, CommitLockError(r) PROVE TypeOK' /\ PoolInv'
  <2>1. Moves(r, "begin")
    BY <1>5, PoolAssumption DEF Moves, Balanced, Bounded, CommitLockError, Move, Release, Count, InTx, HoldsSecond, TypeOK, TxPool, ReadOnly, Pool
  <2>2. RetryInv'
    BY <1>5 DEF CommitLockError, Move, PoolInv, RetryInv, TypeOK, Actor
  <2> QED
    BY <1>5, <2>1, <2>2, MovesKeep, PoolAssumption DEF CommitLockError, Move, Place, TypeOK, Actor, PoolInv, RetryInv
<1>6. ASSUME NEW r \in Request, Intent(r) PROVE TypeOK' /\ PoolInv'
  <2>1. Moves(r, "intent")
    BY <1>6 DEF Moves, Balanced, Bounded, Intent, Move, Count, InTx, HoldsSecond, TypeOK
  <2>2. RetryInv'
    BY <1>6 DEF Intent, Move, PoolInv, RetryInv
  <2> QED
    BY <1>6, <2>1, <2>2, MovesKeep DEF Intent, Move, Place, TypeOK, Actor
<1>7. ASSUME NEW r \in Request, IntentRead(r) PROVE TypeOK' /\ PoolInv'
  <2>1. Moves(r, "reading")
    BY <1>7, PoolAssumption DEF Moves, Balanced, Bounded, IntentRead, Move, Acquire, Count, InTx, HoldsSecond, TypeOK, ReadOnly, Pool
  <2>2. RetryInv'
    BY <1>7 DEF IntentRead, Move, PoolInv, RetryInv
  <2> QED
    BY <1>7, <2>1, <2>2, MovesKeep DEF IntentRead, Move, Place, TypeOK, Actor, PoolInv, PlaceInv
<1>8. ASSUME NEW r \in Request, IntentGranted(r) PROVE TypeOK' /\ PoolInv'
  <2>1. Moves(r, "ready")
    BY <1>8, PoolAssumption DEF Moves, Balanced, Bounded, IntentGranted, Move, Release, Count, InTx, HoldsSecond, TypeOK, ReadOnly, Pool
  <2>2. RetryInv'
    BY <1>8 DEF IntentGranted, Move, PoolInv, RetryInv
  <2> QED
    BY <1>8, <2>1, <2>2, MovesKeep DEF IntentGranted, Move, Place, TypeOK, Actor
<1>9. ASSUME NEW r \in Request, NoIntent(r) PROVE TypeOK' /\ PoolInv'
  <2>1. Moves(r, "ready")
    BY <1>9 DEF Moves, Balanced, Bounded, NoIntent, Move, Count, InTx, HoldsSecond, TypeOK
  <2>2. RetryInv'
    BY <1>9 DEF NoIntent, Move, PoolInv, RetryInv
  <2> QED
    BY <1>9, <2>1, <2>2, MovesKeep DEF NoIntent, Move, Place, TypeOK, Actor
<1>10. ASSUME NEW r \in Request, Rollback(r) PROVE TypeOK' /\ PoolInv'
  <2>1. Moves(r, "return")
    BY <1>10, PoolAssumption DEF Moves, Balanced, Bounded, Rollback, Release, Count, InTx, HoldsSecond, TypeOK, TxPool, ReadOnly, Pool
  <2>2. RetryInv'
    BY <1>10 DEF Rollback, PoolInv, RetryInv
  <2> QED
    BY <1>10, <2>1, <2>2, MovesKeep DEF Rollback, Place, TypeOK, Actor
<1>11. ASSUME NEW r \in Request, Commit(r) PROVE TypeOK' /\ PoolInv'
  <2>1. Moves(r, IF r \in PaymentRequest THEN "serve" ELSE "return")
    BY <1>11, PoolAssumption DEF Moves, Balanced, Bounded, Commit, Move, Release, Count, InTx, HoldsSecond, TypeOK, TxPool, ReadOnly, Pool
  <2>2. RetryInv'
    BY <1>11 DEF Commit, Move, PoolInv, RetryInv
  <2> QED
    BY <1>11, <2>1, <2>2, MovesKeep DEF Commit, Move, Place, TypeOK, Actor
<1>12. ASSUME NEW r \in Request, (Serve(r) /\ at[r] = "serve") PROVE TypeOK' /\ PoolInv'
  <2>1. Moves(r, "serving")
    BY <1>12, PoolAssumption DEF Moves, Balanced, Bounded, Serve, Move, Acquire, Count, InTx, HoldsSecond, TypeOK, TxPool, Actor, PoolInv, PlaceInv
  <2>2. RetryInv'
    BY <1>12 DEF Serve, Move, PoolInv, RetryInv, TypeOK, Actor
  <2> QED
    BY <1>12, <2>1, <2>2, MovesKeep DEF Serve, Place, TypeOK, Actor, PoolInv, PlaceInv
<1>13. ASSUME NEW r \in Request, (Serve(r) /\ at[r] # "serve") PROVE TypeOK' /\ PoolInv'
  <2>1. Moves(r, "return")
    BY <1>13, PoolAssumption DEF Moves, Balanced, Bounded, Serve, Move, Release, Count, InTx, HoldsSecond, TypeOK, TxPool, Actor, PoolInv, PlaceInv
  <2>2. RetryInv'
    BY <1>13 DEF Serve, Move, PoolInv, RetryInv, TypeOK, Actor
  <2> QED
    BY <1>13, <2>1, <2>2, MovesKeep DEF Serve, Move, Place, TypeOK, Actor
<1>14. ASSUME NEW b \in Background, GoroutineBegin(b) PROVE TypeOK' /\ PoolInv'
  <2>1. Moves(b, "tx")
    BY <1>14, PoolAssumption DEF Moves, Balanced, Bounded, GoroutineBegin, Move, Acquire, Count, InTx, HoldsSecond, TypeOK, TxPool, Pool, Request
  <2>2. RetryInv'
    BY <1>14, PoolAssumption DEF GoroutineBegin, Move, PoolInv, RetryInv
  <2> QED
    BY <1>14, <2>1, <2>2, MovesKeep DEF GoroutineBegin, Place, TypeOK, Actor
<1>15. ASSUME NEW b \in Background, GoroutineError(b) PROVE TypeOK' /\ PoolInv'
  <2>1. Moves(b, "failed")
    BY <1>15 DEF Moves, Balanced, Bounded, GoroutineError, Move, Count, InTx, HoldsSecond, TypeOK
  <2>2. RetryInv'
    BY <1>15 DEF GoroutineError, Move, PoolInv, RetryInv
  <2> QED
    BY <1>15, <2>1, <2>2, MovesKeep DEF GoroutineError, Place, TypeOK, Actor
<1>16. ASSUME NEW b \in Background, (setPayPalError(b) /\ at[b] = "failed") PROVE TypeOK' /\ PoolInv'
  <2>1. Moves(b, "error")
    BY <1>16, PoolAssumption DEF Moves, Balanced, Bounded, setPayPalError, Move, Acquire, Count, InTx, HoldsSecond, TypeOK
  <2>2. RetryInv'
    BY <1>16 DEF setPayPalError, Move, PoolInv, RetryInv, TypeOK, Actor
  <2> QED
    BY <1>16, <2>1, <2>2, MovesKeep DEF setPayPalError, Place, TypeOK, Actor
<1>17. ASSUME NEW b \in Background, (setPayPalError(b) /\ at[b] # "failed") PROVE TypeOK' /\ PoolInv'
  <2>1. Moves(b, "rollback")
    BY <1>17, PoolAssumption DEF Moves, Balanced, Bounded, setPayPalError, Move, Release, Count, InTx, HoldsSecond, TypeOK
  <2>2. RetryInv'
    BY <1>17 DEF setPayPalError, Move, PoolInv, RetryInv, TypeOK, Actor
  <2> QED
    BY <1>17, <2>1, <2>2, MovesKeep DEF setPayPalError, Place, TypeOK, Actor
<1>18. ASSUME NEW b \in Background, GoroutineEnd(b) PROVE TypeOK' /\ PoolInv'
  <2>1. Moves(b, "done")
    BY <1>18, PoolAssumption DEF Moves, Balanced, Bounded, GoroutineEnd, Release, Count, InTx, HoldsSecond, TypeOK, TxPool, Pool, Request
  <2>2. RetryInv'
    BY <1>18 DEF GoroutineEnd, PoolInv, RetryInv
  <2> QED
    BY <1>18, <2>1, <2>2, MovesKeep DEF GoroutineEnd, Place, TypeOK, Actor
<1>19. ASSUME NEW r \in Request, Enter(r) PROVE TypeOK' /\ PoolInv'
  <2>1. /\ at[r] = "arrived" /\ at' = [at EXCEPT ![r] = "begin"] /\ rateLimit' = rateLimit - 1
        /\ UNCHANGED <<used, retries, lost>> /\ r \in Actor
    BY <1>19 DEF Enter, Move, Actor
  <2>2. rateLimit \in Int /\ rateLimit' \in Int /\ rateLimit' >= 0
    BY <1>19, <2>1 DEF Enter, TypeOK
  <2>3. /\ FiniteInv' /\ HeldInv' /\ TokenInv' /\ rateLimit' <= MaxOpenConns
        /\ used' \in [Pool -> 0..MaxOpenConns] /\ lost' \in [Pool -> 0..MaxOpenConns]
    <3>1. Bounded
      BY <2>1 DEF TypeOK, Bounded
    <3>2. Balanced(r, "begin")
      BY <2>1 DEF TypeOK, Count, InTx, HoldsSecond, Balanced
    <3>3. TokensBalanced(r, "begin")
      BY <2>1, <2>2 DEF Count, TokensBalanced
    <3> QED
      BY <2>1, <2>2, <3>1, <3>2, <3>3, BooksKept
  <2>4. PlaceInv' /\ RetryInv'
    BY <2>1 DEF PoolInv, PlaceInv, RetryInv
  <2>5. at' \in [Actor -> Place] /\ retries' \in [Request -> 0..TransactionMaxRetries]
    BY <2>1 DEF TypeOK, Place
  <2> QED
    BY <2>2, <2>3, <2>4, <2>5 DEF TypeOK, PoolInv
<1>20. ASSUME NEW r \in Request, Leave(r) PROVE TypeOK' /\ PoolInv'
  <2>1. /\ at[r] = "return" /\ at' = [at EXCEPT ![r] = "done"] /\ rateLimit' = rateLimit + 1
        /\ UNCHANGED <<used, retries, lost>> /\ r \in Actor
    BY <1>20 DEF Leave, Move, Actor
  <2>2. rateLimit \in Int /\ rateLimit' \in Int /\ rateLimit' >= 0
    BY <1>20, <2>1 DEF TypeOK
  <2>3. /\ FiniteInv' /\ HeldInv' /\ TokenInv' /\ rateLimit' <= MaxOpenConns
        /\ used' \in [Pool -> 0..MaxOpenConns] /\ lost' \in [Pool -> 0..MaxOpenConns]
    <3>1. Bounded
      BY <2>1 DEF TypeOK, Bounded
    <3>2. Balanced(r, "done")
      BY <2>1 DEF TypeOK, Count, InTx, HoldsSecond, Balanced
    <3>3. TokensBalanced(r, "done")
      BY <2>1, <2>2 DEF Count, TokensBalanced
    <3> QED
      BY <2>1, <2>2, <3>1, <3>2, <3>3, BooksKept
  <2>4. PlaceInv' /\ RetryInv'
    BY <2>1 DEF PoolInv, PlaceInv, RetryInv
  <2>5. at' \in [Actor -> Place] /\ retries' \in [Request -> 0..TransactionMaxRetries]
    BY <2>1 DEF TypeOK, Place
  <2> QED
    BY <2>2, <2>3, <2>4, <2>5 DEF TypeOK, PoolInv
<1> QED
  BY <1>1, <1>2, <1>3, <1>4, <1>5, <1>6, <1>7, <1>8, <1>9, <1>10, <1>11, <1>12, <1>13, <1>14,
     <1>15, <1>16, <1>17, <1>18, <1>19, <1>20
     DEF Next, RequestStep, GoroutineStep

\* Types and invariant hold in every reachable state, as the properties below do:
\* a pool never checks out more connections than MaxOpenConns, the channel never
\* holds more tokens, and no retry goes beyond the limit.
THEOREM PoolInvariance == Spec => [](TypeOK /\ PoolInv)
<1>1. Init => TypeOK /\ PoolInv
  <2> SUFFICES ASSUME Init PROVE TypeOK /\ PoolInv
    OBVIOUS
  <2>1. TypeOK
    BY PoolAssumption DEF Init, TypeOK, Place
  <2>2. \A d \in Pool : First(d) = {} /\ Second(d) = {}
    BY DEF Init, First, Second, InTx, HoldsSecond
  <2>3. Admitted = {}
    BY DEF Init, Admitted, Actor
  <2>4. FiniteInv /\ HeldInv /\ TokenInv
    <3>1. FiniteInv
      BY <2>2, <2>3, FS_EmptySet DEF FiniteInv
    <3>2. ASSUME NEW d \in Pool PROVE used[d] = lost[d] + Cardinality(First(d)) + Cardinality(Second(d))
      <4>1. Cardinality(First(d)) = 0 /\ Cardinality(Second(d)) = 0
        BY <2>2, FS_EmptySet
      <4> QED
        BY <4>1 DEF Init
    <3> QED
      BY <2>3, <3>1, <3>2, FS_EmptySet, PoolAssumption DEF Init, HeldInv, TokenInv
  <2>5. PlaceInv /\ RetryInv
    BY DEF Init, PlaceInv, RetryInv, Actor
  <2> QED
    BY <2>1, <2>4, <2>5 DEF PoolInv
<1> QED
  BY <1>1, PoolStep, PTL DEF Spec

\* Every variable has its type in every reachable state.
THEOREM TypeCorrect == Spec => []TypeOK
  BY PoolInvariance, PTL

\* Whatever was interrupted, retried or given up: once nobody is at work, every
\* connection that was not lost is back and every token in the channel.
THEOREM PoolIsRestored == Spec => []PoolRestored
<1>1. TypeOK /\ PoolInv => PoolRestored
  <2> SUFFICES ASSUME TypeOK, PoolInv, \A a \in Actor : Away(a) PROVE used = lost /\ rateLimit = MaxOpenConns
    BY DEF PoolRestored
  <2>1. Admitted = {}
    BY DEF Admitted, Away, Actor
  <2>2. \A d \in Pool : First(d) = {} /\ Second(d) = {}
    BY DEF First, Second, Away, InTx, HoldsSecond
  <2>3. \A d \in Pool : used[d] = lost[d]
    BY <2>2, FS_EmptySet DEF PoolInv, HeldInv, TypeOK
  <2> QED
    BY <2>1, <2>3, FS_EmptySet, PoolAssumption DEF PoolInv, TokenInv, TypeOK
<1> QED
  BY <1>1, PoolInvariance, PTL

\* With a read-only database of its own, the write pool serves every request the
\* rate limit lets in: only goroutines and lost connections make it wait.
THEOREM AdmittedNeverWaits == ASSUME ReadOnlyDB PROVE Spec => []AdmittedCanBegin
<1>1. TypeOK /\ PoolInv => AdmittedCanBegin
  <2> SUFFICES ASSUME TypeOK, PoolInv, NEW r \in PaymentRequest, at[r] = "begin", \A b \in Background : Away(b)
               PROVE  used["write"] - lost["write"] < MaxOpenConns
    BY DEF AdmittedCanBegin
  <2>1. Second("write") = {}
    BY DEF Second, HoldsSecond, ReadOnly, Away, PoolInv, PlaceInv, Actor
  <2>2. First("write") \subseteq Admitted \ {r}
    BY DEF First, Admitted, InTx, Away, Actor
  <2>3. r \in Admitted
    BY DEF Admitted, Request
  <2>4. IsFiniteSet(Admitted) /\ Cardinality(Admitted) \in Nat
    BY FS_CardinalityType DEF PoolInv, FiniteInv
  <2>5. IsFiniteSet(Admitted \ {r}) /\ Cardinality(Admitted \ {r}) = Cardinality(Admitted) - 1
    BY <2>3, <2>4, FS_RemoveElement
  <2>6. Cardinality(First("write")) <= Cardinality(Admitted \ {r}) /\ Cardinality(First("write")) \in Nat
    BY <2>2, <2>5, FS_Subset, FS_CardinalityType
  <2>7. used["write"] = lost["write"] + Cardinality(First("write")) + 0
    BY <2>1, FS_EmptySet DEF PoolInv, HeldInv, Pool
  <2>8. used["write"] \in Int /\ lost["write"] \in Int /\ rateLimit \in Nat
    BY DEF TypeOK, Pool
  <2>9. rateLimit + Cardinality(Admitted) = MaxOpenConns
    BY DEF PoolInv, TokenInv
  <2> QED
    BY <2>4, <2>5, <2>6, <2>7, <2>8, <2>9, PoolAssumption
<1> QED
  BY <1>1, PoolInvariance, PTL

=============================================================================
