------------------------- MODULE PaymentSetupProofs -------------------------
(***************************************************************************)
(* Proofs about PaymentSetup and the IDEncoder it uses: for any number of  *)
(* bits and any key, any requests, customers, idents and tokens, and any   *)
(* retry limit.                                                            *)
(***************************************************************************)
EXTENDS PaymentSetup, WellFoundedInduction, TLAPS

----------------------------------------------------------------------------
(* Induction over numbers, in the form of sets.                            *)

\* A set of numbers that is not empty has a least one.
LEMMA LeastNumber ==
    ASSUME NEW T, T \subseteq Nat, T # {}
    PROVE  \E n \in T : \A m \in T : n <= m
<1>1. IsWellFoundedOn(OpToRel(<, Nat), Nat)
  BY NatLessThanWellFounded
<1>2. PICK n \in T : \A m \in T : <<m, n>> \notin OpToRel(<, Nat)
  BY <1>1, WFMin
<1>3. \A m \in T : m < n => <<m, n>> \in OpToRel(<, Nat)
  BY DEF OpToRel
<1>4. \A m \in T : ~(m < n)
  BY <1>2, <1>3
<1> QED
  BY <1>4

\* A set with 0 that has with every number its successor has every number.
LEMMA NumbersInSet ==
    ASSUME NEW S, 0 \in S, \A n \in Nat : n \in S => n + 1 \in S
    PROVE  Nat \subseteq S
<1> DEFINE T == Nat \ S
<1>1. SUFFICES ASSUME T # {} PROVE FALSE
  OBVIOUS
<1>2. PICK n \in T : \A m \in T : n <= m
  BY <1>1, LeastNumber
<1>3. n \in Nat /\ n # 0
  BY <1>2
<1>4. n - 1 \in Nat /\ n - 1 \notin T /\ (n - 1) + 1 = n
  BY <1>2, <1>3
<1> QED
  BY <1>2, <1>4

\* f is defined by recursion up to N: it starts with Z and goes on by G.
Recurses(f, Z, G, N, T) ==
    f \in [0..N -> T] /\ f[0] = Z /\ \A w \in 1..N : f[w] = G[f[w - 1]]

\* There is such a function, whatever the start and the step.
LEMMA RecursionDefined ==
    ASSUME NEW T, NEW Z \in T, NEW G \in [T -> T], NEW N \in Nat
    PROVE  \E f : Recurses(f, Z, G, N, T)
<1> DEFINE Rec(f, n) == f[0] = Z /\ \A w \in 1..n : f[w] = G[f[w - 1]]
           S == {n \in Nat : \E f \in [0..n -> T] : Rec(f, n)}
<1>1. 0 \in S
  <2>1. [w \in 0..0 |-> Z] \in [0..0 -> T] /\ Rec([w \in 0..0 |-> Z], 0)
    OBVIOUS
  <2> QED
    BY <2>1
<1>2. ASSUME NEW n \in Nat, n \in S PROVE n + 1 \in S
  <2>1. PICK f \in [0..n -> T] : Rec(f, n)
    BY <1>2
  <2> DEFINE g == [w \in 0..(n + 1) |-> IF w = n + 1 THEN G[f[n]] ELSE f[w]]
  <2>2. g \in [0..(n + 1) -> T]
    BY <2>1
  <2>3. \A w \in 1..(n + 1) : g[w] = G[g[w - 1]]
    BY <2>1
  <2>4. g[0] = Z
    BY <2>1
  <2> QED
    BY <2>2, <2>3, <2>4
<1>3. N \in S
  BY <1>1, <1>2, NumbersInSet
<1> QED
  BY <1>3 DEF Recurses

----------------------------------------------------------------------------
(* The numbers of the encoder.                                             *)

\* pow2 is what its definition says it is.
LEMMA PowersOfTwo ==
    /\ pow2[0] = 1
    /\ \A w \in 1..Width : pow2[w] = 2 * pow2[w - 1]
    /\ \A w \in 0..Width : pow2[w] \in Nat \ {0}
<1> USE WidthAssumption
<1>1. PICK f \in [0..Width -> Nat] : f = [w \in 0..Width |-> IF w = 0 THEN 1 ELSE 2 * f[w - 1]]
  <2> DEFINE G == [x \in Nat |-> 2 * x]
  <2>1. G \in [Nat -> Nat] /\ 1 \in Nat /\ Width \in Nat
    OBVIOUS
  <2> HIDE DEF G
  <2>2. PICK f : Recurses(f, 1, G, Width, Nat)
    BY <2>1, RecursionDefined, Zenon
  <2>3. f \in [0..Width -> Nat] /\ \A w \in 1..Width : f[w - 1] \in Nat
    BY <2>2 DEF Recurses
  <2>4. \A w \in 1..Width : f[w] = 2 * f[w - 1]
    BY <2>2, <2>3 DEF Recurses, G
  <2>5. f = [w \in 0..Width |-> IF w = 0 THEN 1 ELSE 2 * f[w - 1]]
    BY <2>2, <2>3, <2>4 DEF Recurses
  <2> QED
    BY <2>3, <2>5
<1>2. pow2 = [w \in 0..Width |-> IF w = 0 THEN 1 ELSE 2 * pow2[w - 1]]
  BY <1>1, Zenon DEF pow2
<1>3. pow2[0] = 1 /\ \A w \in 1..Width : pow2[w] = 2 * pow2[w - 1]
  <2>1. 0 \in 0..Width /\ \A w \in 1..Width : w \in 0..Width /\ w # 0
    OBVIOUS
  <2>2. \A w \in 0..Width : pow2[w] = IF w = 0 THEN 1 ELSE 2 * pow2[w - 1]
    BY <1>2
  <2> QED
    BY <2>1, <2>2
<1> DEFINE S == {n \in Nat : n <= Width => pow2[n] \in Nat \ {0}}
<1>4. 0 \in S
  BY <1>3
<1>5. ASSUME NEW n \in Nat, n \in S PROVE n + 1 \in S
  <2>1. n + 1 <= Width => pow2[n + 1] = 2 * pow2[n]
    BY <1>3
  <2> QED
    BY <1>5, <2>1
<1>6. Nat \subseteq S
  BY <1>4, <1>5, NumbersInSet
<1> QED
  BY <1>3, <1>6

\* The powers of two increase, so all bits of a word fit.
LEMMA PowersIncrease == \A w \in 0..Width : pow2[w] <= pow2[Width]
<1> USE WidthAssumption
<1> DEFINE S == {n \in Nat : n <= Width => pow2[Width - n] <= pow2[Width]}
<1>1. 0 \in S
  BY PowersOfTwo
<1>2. ASSUME NEW n \in Nat, n \in S PROVE n + 1 \in S
  <2>1. SUFFICES ASSUME n + 1 <= Width PROVE pow2[Width - (n + 1)] <= pow2[Width]
    OBVIOUS
  <2>2. Width - n \in 1..Width /\ (Width - n) - 1 = Width - (n + 1)
    BY <2>1
  <2>3. pow2[Width - n] = 2 * pow2[Width - (n + 1)] /\ pow2[Width - n] <= pow2[Width]
    BY <1>2, <2>1, <2>2, PowersOfTwo
  <2>4. pow2[Width - (n + 1)] \in Nat /\ pow2[Width] \in Nat
    BY <2>1, <2>2, PowersOfTwo
  <2> QED
    BY <2>3, <2>4
<1>3. Nat \subseteq S
  BY <1>1, <1>2, NumbersInSet
<1>4. ASSUME NEW w \in 0..Width PROVE pow2[w] <= pow2[Width]
  <2>1. Width - w \in S /\ Width - (Width - w) = w
    BY <1>3
  <2> QED
    BY <2>1
<1> QED
  BY <1>4

\* Words are the numbers of Width bits; halving one keeps it a word.
LEMMA Words ==
    /\ Max + 1 = pow2[Width] /\ Max \in Nat
    /\ \A a : a \in Word <=> a \in Nat /\ a < pow2[Width]
    /\ \A a \in Word : a \div 2 \in Word
<1>1. pow2[Width] \in Nat \ {0}
  BY PowersOfTwo, WidthAssumption
<1>2. Max + 1 = pow2[Width] /\ Max \in Nat
  BY <1>1 DEF Max
<1>3. \A a : a \in Word <=> a \in Nat /\ a < pow2[Width]
  BY <1>1, <1>2 DEF Word
<1> QED
  BY <1>2, <1>3

\* xor is what its definition says it is.
LEMMA XorDefined ==
    /\ \A a, b \in Word : xor[0][a][b] = 0
    /\ \A w \in 1..Width : \A a, b \in Word :
           xor[w][a][b] = ((a + b) % 2) + 2 * xor[w - 1][a \div 2][b \div 2]
<1> USE WidthAssumption
<1> DEFINE Table == [Word -> [Word -> Nat]]
           Z == [a \in Word |-> [b \in Word |-> 0]]
           G == [g \in Table |-> [a \in Word |-> [b \in Word |->
                    ((a + b) % 2) + 2 * g[a \div 2][b \div 2]]]]
<1>1. Z \in Table
  OBVIOUS
<1>2. G \in [Table -> Table]
  <2>1. ASSUME NEW g \in Table, NEW a \in Word, NEW b \in Word
        PROVE  ((a + b) % 2) + 2 * g[a \div 2][b \div 2] \in Nat
    <3>1. a \div 2 \in Word /\ b \div 2 \in Word /\ a \in Nat /\ b \in Nat
      BY Words
    <3>2. g[a \div 2][b \div 2] \in Nat
      BY <3>1
    <3> QED
      BY <3>1, <3>2
  <2> QED
    BY <2>1
<1>3. PICK f : Recurses(f, Z, G, Width, Table)
  <2> HIDE DEF Z, G, Table
  <2> QED
    BY <1>1, <1>2, RecursionDefined, Zenon
<1>4. f \in [0..Width -> Table] /\ f[0] = Z /\ \A w \in 1..Width : f[w] = G[f[w - 1]] /\ f[w - 1] \in Table
  <2> HIDE DEF Z, G, Table
  <2> QED
    BY <1>3 DEF Recurses
<1>5. f = [w \in 0..Width |-> [a \in Word |-> [b \in Word |->
             IF w = 0 THEN 0 ELSE ((a + b) % 2) + 2 * f[w - 1][a \div 2][b \div 2]]]]
  <2>1. \A w \in 1..Width : f[w] = [a \in Word |-> [b \in Word |->
             ((a + b) % 2) + 2 * f[w - 1][a \div 2][b \div 2]]]
    BY <1>4
  <2>2. ASSUME NEW w \in 0..Width
        PROVE  f[w] = [a \in Word |-> [b \in Word |->
                 IF w = 0 THEN 0 ELSE ((a + b) % 2) + 2 * f[w - 1][a \div 2][b \div 2]]]
    <3>1. CASE w = 0
      BY <1>4, <3>1
    <3>2. CASE w # 0
      <4>1. w \in 1..Width
        BY <3>2
      <4> QED
        BY <2>1, <3>2, <4>1
    <3> QED
      BY <3>1, <3>2
  <2> QED
    BY <1>4, <2>2
<1>6. xor = [w \in 0..Width |-> [a \in Word |-> [b \in Word |->
             IF w = 0 THEN 0 ELSE ((a + b) % 2) + 2 * xor[w - 1][a \div 2][b \div 2]]]]
  BY <1>5, Zenon DEF xor
<1>7. ASSUME NEW w \in 0..Width, NEW a \in Word, NEW b \in Word
      PROVE  xor[w][a][b] =
               IF w = 0 THEN 0 ELSE ((a + b) % 2) + 2 * xor[w - 1][a \div 2][b \div 2]
  <2>1. xor[w] = [x \in Word |-> [y \in Word |->
             IF w = 0 THEN 0 ELSE ((x + y) % 2) + 2 * xor[w - 1][x \div 2][y \div 2]]]
    BY <1>6, Zenon
  <2>2. xor[w][a] = [y \in Word |->
             IF w = 0 THEN 0 ELSE ((a + y) % 2) + 2 * xor[w - 1][a \div 2][y \div 2]]
    BY <2>1, Zenon
  <2> QED
    BY <2>2, Zenon
<1>8. 0 \in 0..Width /\ \A w \in 1..Width : w \in 0..Width /\ w # 0
  OBVIOUS
<1> QED
  BY <1>7, <1>8

\* Taking the xor with a word twice leads back, bit by bit.
LEMMA XorBits ==
    \A a, b \in Word : xor[Width][a][b] \in Word /\ xor[Width][xor[Width][a][b]][b] = a
<1> USE WidthAssumption
<1> DEFINE Good(w, a, b) == /\ xor[w][a][b] \in Nat
                            /\ xor[w][a][b] < pow2[w]
                            /\ xor[w][xor[w][a][b]][b] = a
           Below(w, a) == a \in Word /\ a < pow2[w]
           S == {w \in Nat : w <= Width => \A a, b : Below(w, a) /\ Below(w, b) => Good(w, a, b)}
<1>1. 0 \in S
  <2>1. ASSUME NEW a, NEW b, Below(0, a), Below(0, b) PROVE a = 0 /\ b = 0
    BY <2>1, PowersOfTwo, Words
  <2>2. 0 \in Word /\ pow2[0] = 1
    BY PowersOfTwo, Words
  <2>3. xor[0][0][0] = 0
    BY <2>2, XorDefined
  <2>4. Good(0, 0, 0)
    BY <2>2, <2>3
  <2> QED
    BY <2>1, <2>4
<1>2. ASSUME NEW w \in Nat, w \in S PROVE w + 1 \in S
  <2>1. SUFFICES ASSUME w + 1 <= Width, NEW a, NEW b, Below(w + 1, a), Below(w + 1, b)
                 PROVE  Good(w + 1, a, b)
    OBVIOUS
  <2> DEFINE c == xor[w + 1][a][b]
             d == xor[w][a \div 2][b \div 2]
  <2>2. /\ w + 1 \in 1..Width /\ (w + 1) - 1 = w
        /\ pow2[w + 1] = 2 * pow2[w] /\ pow2[w] \in Nat /\ pow2[w + 1] <= pow2[Width]
        /\ pow2[Width] \in Nat
    BY <2>1, PowersOfTwo, PowersIncrease
  <2>3. a \in Nat /\ b \in Nat /\ a < 2 * pow2[w] /\ b < 2 * pow2[w]
    BY <2>1, <2>2, Words
  <2>4. a \div 2 < pow2[w] /\ b \div 2 < pow2[w]
    BY <2>2, <2>3
  <2>5. Good(w, a \div 2, b \div 2)
    <3>1. Below(w, a \div 2) /\ Below(w, b \div 2)
      BY <2>1, <2>4, Words
    <3> QED
      BY <1>2, <2>1, <3>1
  <2>6. c = ((a + b) % 2) + 2 * d
    BY <2>1, <2>2, XorDefined
  <2> HIDE DEF c
  <2>7. d \in Nat /\ d < pow2[w] /\ xor[w][d][b \div 2] = a \div 2
    BY <2>5
  <2> HIDE DEF d
  <2>8. c \in Nat /\ c < pow2[w + 1] /\ c \div 2 = d /\ c % 2 = (a + b) % 2
    BY <2>2, <2>3, <2>6, <2>7
  <2>9. c \in Word
    BY <2>2, <2>8, Words
  <2>10. xor[w + 1][c][b] = ((c + b) % 2) + 2 * xor[w][d][b \div 2]
    BY <2>1, <2>2, <2>8, <2>9, XorDefined
  <2>11. (c + b) % 2 = a % 2
    BY <2>3, <2>8
  <2>12. xor[w + 1][c][b] = (a % 2) + 2 * (a \div 2)
    BY <2>7, <2>10, <2>11
  <2>13. xor[w + 1][c][b] = a
    BY <2>3, <2>12
  <2> QED
    BY <2>8, <2>13 DEF c
<1>3. Width \in S
  BY <1>1, <1>2, NumbersInSet
<1>4. ASSUME NEW a \in Word, NEW b \in Word PROVE Good(Width, a, b)
  BY <1>3, Words
<1> QED
  BY <1>4, Words

\* The bits of a signed number are a word, and the sign and they are all of it.
LEMMA Signed ==
    \A a \in Int64 : /\ bits(a) \in Word
                     /\ a = IF a < 0 THEN -bits(a) - 1 ELSE bits(a)
                     /\ a >= 0 => a \in Word
<1> SUFFICES ASSUME NEW a \in Int64
             PROVE  /\ bits(a) \in Word
                    /\ a = IF a < 0 THEN -bits(a) - 1 ELSE bits(a)
                    /\ a >= 0 => a \in Word
  OBVIOUS
<1>1. Max \in Nat
  BY Words
<1> QED
  BY <1>1 DEF bits, Int64, Word

\* Words are numbers that are not negative; a word's complement is negative.
LEMMA WordsSigned ==
    \A c \in Word : /\ c \in Int64 /\ c >= 0 /\ bits(c) = c
                    /\ -c - 1 \in Int64 /\ -c - 1 < 0 /\ bits(-c - 1) = c
<1> SUFFICES ASSUME NEW c \in Word
             PROVE  /\ c \in Int64 /\ c >= 0 /\ bits(c) = c
                    /\ -c - 1 \in Int64 /\ -c - 1 < 0 /\ bits(-c - 1) = c
  OBVIOUS
<1>1. Max \in Nat
  BY Words
<1> QED
  BY <1>1 DEF bits, Int64, Word

\* Taking the xor with a number twice leads back, whatever the signs; the result is
\* negative if one of the two numbers is.
LEMMA XorTwice ==
    \A a, b \in Int64 : /\ Xor(a, b) \in Int64 /\ Xor(Xor(a, b), b) = a
                        /\ Xor(a, b) >= 0 <=> ((a < 0) <=> (b < 0))
<1> SUFFICES ASSUME NEW a \in Int64, NEW b \in Int64
             PROVE  /\ Xor(a, b) \in Int64 /\ Xor(Xor(a, b), b) = a
                    /\ Xor(a, b) >= 0 <=> ((a < 0) <=> (b < 0))
  OBVIOUS
<1> DEFINE c == xor[Width][bits(a)][bits(b)]
           d == Xor(a, b)
<1>1. bits(a) \in Word /\ bits(b) \in Word
  BY Signed
<1>2. c \in Word /\ xor[Width][c][bits(b)] = bits(a)
  BY <1>1, XorBits
<1>3. d = IF (a < 0) <=> (b < 0) THEN c ELSE -c - 1
  BY DEF Xor
<1>4. Xor(d, b) = IF (d < 0) <=> (b < 0) THEN xor[Width][bits(d)][bits(b)] ELSE -xor[Width][bits(d)][bits(b)] - 1
  BY DEF Xor
<1> HIDE DEF c, d
<1>5. d \in Int64 /\ bits(d) = c /\ (d >= 0 <=> ((a < 0) <=> (b < 0)))
  <2>1. CASE (a < 0) <=> (b < 0)
    BY <1>2, <1>3, <2>1, WordsSigned
  <2>2. CASE ~((a < 0) <=> (b < 0))
    <3>1. d = -c - 1
      BY <1>3, <2>2
    <3>2. d \in Int64 /\ d < 0 /\ bits(d) = c
      BY <1>2, <3>1, WordsSigned
    <3>3. ~(d >= 0)
      BY <3>2, Words DEF Int64
    <3> QED
      BY <2>2, <3>2, <3>3
  <2> QED
    BY <2>1, <2>2
<1>6. Xor(d, b) = IF a < 0 THEN -bits(a) - 1 ELSE bits(a)
  <2>1. Xor(d, b) = IF (d < 0) <=> (b < 0) THEN bits(a) ELSE -bits(a) - 1
    BY <1>2, <1>4, <1>5
  <2>2. ((d < 0) <=> (b < 0)) <=> ~(a < 0)
    <3>1. d \in Int
      BY <1>5, Words DEF Int64
    <3> QED
      BY <1>5, <3>1
  <2> QED
    BY <2>1, <2>2
<1>7. Xor(d, b) = a
  BY <1>6, Signed
<1> QED
  BY <1>5, <1>7 DEF d

\* A remainder is the only one there is.
LEMMA RemainderUnique ==
    ASSUME NEW M \in Nat \ {0}, NEW k \in Int, NEW i \in 0..(M - 1), NEW y \in Int, y = M * k + i
    PROVE  y % M = i
<1> DEFINE d == y \div M
           r == y % M
           e == d - k
<1>1. d \in Int /\ r \in 0..(M - 1) /\ y = M * d + r
  OBVIOUS
<1> HIDE DEF d, r
<1>2. e \in Int /\ d = e + k
  BY <1>1
<1> HIDE DEF e
<1>3. M * (e + k) = M * e + M * k
  BY <1>2
<1>4. M * e = i - r
  BY <1>1, <1>2, <1>3
<1>5. M * e \in Int /\ M * e < M /\ M * e > 0 - M
  BY <1>1, <1>2, <1>4
<1>6. ASSUME e >= 1 PROVE FALSE
  <2>1. M * e >= M
    BY <1>2, <1>6
  <2> QED
    BY <1>5, <2>1
<1>7. ASSUME e <= -1 PROVE FALSE
  <2>1. M * e <= 0 - M
    BY <1>2, <1>7
  <2> QED
    BY <1>5, <2>1
<1>8. e = 0
  BY <1>2, <1>6, <1>7
<1> QED
  BY <1>1, <1>4, <1>8 DEF r

\* Multiplying by the inverse modulo M undoes a multiplication modulo M.
LEMMA InverseUndoes ==
    ASSUME NEW M \in Nat \ {0}, NEW i \in 0..(M - 1), NEW p \in Int, NEW v \in Nat,
           (p * v) % M = 1
    PROVE  (((i * p) % M) * v) % M = i
<1> DEFINE x == (i * p) % M
           q == (i * p) \div M
           s == (p * v) \div M
           k == i * s - q * v
<1>1. /\ i \in Int /\ i * p \in Int /\ p * v \in Int
      /\ q \in Int /\ x \in Int /\ i * p = M * q + x
      /\ s \in Int /\ p * v = M * s + 1
  OBVIOUS
<1> HIDE DEF x, q, s
<1>2. (i * p) * v = i * (p * v)
  BY <1>1
<1>3. (M * q + x) * v = M * (q * v) + x * v
  BY <1>1
<1>4. i * (M * s + 1) = M * (i * s) + i
  BY <1>1
<1>5. q * v \in Int /\ i * s \in Int /\ x * v \in Int
  BY <1>1
<1>6. M * (i * s - q * v) = M * (i * s) - M * (q * v)
  BY <1>5
<1>7. M * (q * v) + x * v = M * (i * s) + i
  BY <1>1, <1>2, <1>3, <1>4
<1>8. x * v = M * k + i /\ k \in Int
  BY <1>5, <1>6, <1>7
<1> HIDE DEF k
<1>9. (x * v) % M = i
  BY <1>5, <1>8, RemainderUnique
<1> QED
  BY <1>9 DEF x

\* The arithmetic of an id can be undone, whatever the number of bits and whatever
\* the key; the displayed id is negative exactly if the xor is (payment_id.go:88-117).
THEOREM HideAndShow ==
    \A key \in Key, id \in Word : /\ Hide(key, id) \in Int64 /\ Show(key, Hide(key, id)) = id
                                  /\ Hide(key, id) >= 0 <=> key.xor >= 0
<1> SUFFICES ASSUME NEW key \in Key, NEW id \in Word
             PROVE  /\ Hide(key, id) \in Int64 /\ Show(key, Hide(key, id)) = id
                    /\ Hide(key, id) >= 0 <=> key.xor >= 0
  OBVIOUS
<1> DEFINE M == Max + 1
           x == (id * key.prime) % M
<1>1. key.prime \in Int64 /\ key.xor \in Int64 /\ \E i \in Word : (key.prime * i) % M = 1
  BY DEF Key
<1>2. inv(key) \in Word /\ (key.prime * inv(key)) % M = 1
  BY <1>1 DEF inv
<1>3. M \in Nat \ {0} /\ Word = 0..(M - 1) /\ Int64 \subseteq Int
  BY Words DEF Word, Int64
<1>4. key.prime \in Int /\ key.xor \in Int /\ inv(key) \in Nat /\ id \in 0..(M - 1)
  <2>1. key.prime \in Int /\ key.xor \in Int
    BY <1>1, <1>3, Zenon
  <2> QED
    BY <1>2, <1>3, <2>1
<1> HIDE DEF M
<1>5. x \in Word
  <2>1. id * key.prime \in Int
    BY <1>4
  <2> QED
    BY <1>3, <2>1
<1>6. (x * inv(key)) % M = id
  BY <1>2, <1>3, <1>4, InverseUndoes
<1> HIDE DEF x
<1>7. Hide(key, id) = Xor(x, key.xor)
  BY DEF Hide, x, M
<1>8. x \in Int64 /\ ~(x < 0)
  BY <1>3, <1>5, WordsSigned
<1>9. /\ Xor(x, key.xor) \in Int64 /\ Xor(Xor(x, key.xor), key.xor) = x
      /\ Xor(x, key.xor) >= 0 <=> ((x < 0) <=> (key.xor < 0))
  BY <1>1, <1>8, XorTwice
<1>10. Xor(x, key.xor) >= 0 <=> key.xor >= 0
  <2>1. key.xor >= 0 <=> ~(key.xor < 0)
    BY <1>4
  <2> QED
    BY <1>8, <1>9, <2>1
<1>11. Show(key, Hide(key, id)) = (x * inv(key)) % M
  BY <1>7, <1>9 DEF Show, M
<1> QED
  BY <1>6, <1>7, <1>9, <1>10, <1>11

----------------------------------------------------------------------------
(* The inductive invariant.                                                *)

\* A transaction is only begun below the retry limit, and the count goes with
\* the handler.
RetriesInv ==
    \A a \in Actor :
        /\ pc[a] \in {"begun", "created", "token", "found", "deleted"} =>
               retries[a] < TransactionMaxRetries
        /\ pc[a] = "done" => retries[a] = 0

\* What the transaction of a request has inserted.
TxInv ==
    \A r \in Request :
        /\ pc[r] \notin {"created", "token"} => tx[r] = NoRows
        /\ pc[r] \in {"created", "token"} => tx[r].id \in PaymentId /\ tx[r].configured = TRUE
        /\ pc[r] = "created" => tx[r].token = NoToken
        /\ pc[r] = "token" => tx[r].token \in TokenName

\* Ids and idents are used once, by committed and uncommitted payments together,
\* and a payment is committed with its configuration.
IdInv ==
    /\ \A p, q \in payments : p.id = q.id \/ p.ident = q.ident => p = q
    /\ \A r \in Request : tx[r].id # 0 =>
           \A p \in payments : p.id # tx[r].id /\ p.ident # ident[r]
    /\ \A r, o \in Request : tx[r].id # 0 /\ tx[o].id # 0 /\ r # o =>
           tx[r].id # tx[o].id /\ ident[r] # ident[o]
    /\ configured = {p.id : p \in payments}

\* So are tokens, and a payment has one.
TokenInv ==
    /\ \A u, w \in tokens : u.token = w.token \/ u.id = w.id => u = w
    /\ \A u \in tokens : \E p \in payments : p.id = u.id
    /\ \A r \in Request : \A u \in tokens : u.token # tx[r].token
    /\ \A r, o \in Request : r # o /\ tx[r].token # NoToken => tx[o].token # tx[r].token

\* What the merchant was told, or is about to be.
Told(r) == IF pc[r] = "respond" THEN resp[r] ELSE answer[r]
IsTold(r) == Told(r).kind = "success"

\* A confirmation is about a payment with the request's ident, and nobody else
\* is told of that payment or of its token; while the confirmation is pending
\* the token is there.
AnswerInv ==
    /\ \A r \in Request :
        /\ pc[r] # "done" => answer[r] = NoAnswer
        /\ pc[r] = "respond" => resp[r] # NoAnswer
        /\ pc[r] = "token" => resp[r] = Success(r, tx[r].token)
        /\ Told(r).kind = "conflict" => Told(r).ident = ident[r] /\ IdentTaken(r)
        /\ IsTold(r) => /\ \E p \in payments : /\ p.ident = ident[r]
                                               /\ Told(r).id = EncodedPaymentID[p.id]
                        /\ \A u \in tokens : u.token = Told(r).token <=>
                                                 EncodedPaymentID[u.id] = Told(r).id
                        /\ \A o \in Request : tx[o].token # Told(r).token
        /\ IsTold(r) /\ pc[r] = "respond" => \E u \in tokens : u.token = Told(r).token
    /\ \A r, o \in Request : IsTold(r) /\ IsTold(o) /\ r # o =>
           Told(r).id # Told(o).id /\ Told(r).token # Told(o).token

\* A customer brings a token somebody was told, and holds the payment it is for.
Owns(c, id) == \E r \in Request : /\ answer[r].kind = "success"
                                  /\ answer[r].token = brought[c]
                                  /\ answer[r].id = EncodedPaymentID[id]
CustomerInv ==
    \A c \in Customer :
        /\ brought[c] # NoToken => \E r \in Request : answer[r].kind = "success"
                                                   /\ answer[r].token = brought[c]
        /\ brought[c] = NoToken => held[c] = 0 /\ cookie[c] = 0
        /\ pc[c] \in {"found", "deleted"} => held[c] # 0
        /\ held[c] # 0 => Owns(c, held[c])

\* What is spent has no fresh token any more, and no late customer holds it.
SpentInv ==
    /\ \A u \in tokens : u.fresh => u.id \notin spent
    /\ \A i \in spent : \E p \in payments : p.id = i
    /\ \A c \in Customer : late[c] \subseteq spent /\ held[c] \notin late[c] /\ cookie[c] \notin late[c]

SetupInv == RetriesInv /\ TxInv /\ IdInv /\ TokenInv /\ AnswerInv /\ CustomerInv /\ SpentInv

----------------------------------------------------------------------------
(* Types.                                                                  *)

\* The ids of payments are words, and their displayed form can be decoded.
LEMMA Encoding ==
    /\ PaymentId \cup {0} \subseteq Word
    /\ \A id \in Word : EncodedPaymentID[id] \in Int64 /\ DecodedPaymentID[EncodedPaymentID[id]] = id
<1>1. PaymentId \cup {0} \subseteq Word
  BY SetupAssumption, Words DEF PaymentId, Word
<1>2. ASSUME NEW id \in Word
      PROVE  EncodedPaymentID[id] \in Int64 /\ DecodedPaymentID[EncodedPaymentID[id]] = id
  <2>1. IDEncKey \in Key
    BY SetupAssumption
  <2>2. EncodedPaymentID[id] = Hide(IDEncKey, id) /\ Hide(IDEncKey, id) \in Int64
    BY <2>1, HideAndShow DEF EncodedPaymentID
  <2>3. DecodedPaymentID[Hide(IDEncKey, id)] = Show(IDEncKey, Hide(IDEncKey, id))
    BY <2>2 DEF DecodedPaymentID
  <2> QED
    BY <2>1, <2>2, <2>3, HideAndShow
<1> QED
  BY <1>1, <1>2

\* What a displayed id is parsed to.
LEMMA EncodingParsed ==
    ASSUME NEW id \in Word
    PROVE  ParsePaymentIDStr(EncodedPaymentID[id]) = IF IDEncKey.xor >= 0 THEN {EncodedPaymentID[id]} ELSE {}
<1>1. /\ EncodedPaymentID[id] = Hide(IDEncKey, id) /\ Hide(IDEncKey, id) \in Int64
      /\ Hide(IDEncKey, id) >= 0 <=> IDEncKey.xor >= 0
  BY SetupAssumption, HideAndShow DEF EncodedPaymentID
<1>2. Hide(IDEncKey, id) \in Nat <=> IDEncKey.xor >= 0
  BY <1>1, Words DEF Int64
<1> QED
  BY <1>1, <1>2 DEF ParsePaymentIDStr

\* A confirmation is an answer.
LEMMA SuccessType ==
    ASSUME TypeOK, NEW r \in Request, NEW t \in TokenName
    PROVE  /\ Success(r, t) \in Answer
           /\ Success(r, t).kind = "success" /\ Success(r, t).token = t
           /\ Success(r, t).id = EncodedPaymentID[tx[r].id]
<1>1. tx[r].id \in PaymentId \cup {0}
  BY DEF TypeOK, Rows
<1>2. EncodedPaymentID[tx[r].id] \in Int64
  BY <1>1, Encoding
<1> QED
  BY <1>2 DEF Success, Answer

\* Every step keeps every variable in its type.
LEMMA TypeStep == TypeOK /\ RetriesInv /\ TxInv /\ CustomerInv /\ [Next]_vars => TypeOK'
<1> SUFFICES ASSUME TypeOK, RetriesInv, TxInv, CustomerInv, [Next]_vars PROVE TypeOK'
  OBVIOUS
<1> USE SetupAssumption
<1>0. /\ NoRows \in Rows /\ NoAnswer \in Answer /\ Error \in Answer
      /\ Request \subseteq Actor /\ Customer \subseteq Actor
      /\ 0 \in 0..TransactionMaxRetries
  BY DEF NoRows, Rows, NoAnswer, Error, Answer, Actor
<1>1. CASE UNCHANGED vars
  BY <1>1 DEF vars, initVars, customerVars, TypeOK
<1>2. ASSUME NEW r \in Request, NEW a \in Answer, Return(r, a) PROVE TypeOK'
  BY <1>0, <1>2 DEF Return, Rollback, TypeOK, customerVars, PC
<1>3. ASSUME NEW r \in Request, Refuse(r) \/ Fail(r) \/ DuplicateIdent(r) PROVE TypeOK'
  <2>1. [kind |-> "conflict", ident |-> ident[r]] \in Answer
    BY DEF TypeOK, Answer
  <2> QED
    BY <1>0, <1>2, <1>3, <2>1 DEF Refuse, Fail, DuplicateIdent
<1>4. ASSUME NEW r \in Request, Begin(r) PROVE TypeOK'
  BY <1>0, <1>4 DEF Begin, Goto, TypeOK, initVars, customerVars, PC
<1>5. ASSUME NEW r \in Request, Retry(r) PROVE TypeOK'
  <2>1. retries[r] + 1 \in 0..TransactionMaxRetries
    BY <1>0, <1>5 DEF Retry, RetriesInv, TypeOK
  <2> QED
    BY <1>0, <1>5, <2>1 DEF Retry, Rollback, TypeOK, customerVars, PC
<1>6. ASSUME NEW r \in Request, CreatePayment(r) PROVE TypeOK'
  <2>1. AutoIncrement \in PaymentId
    BY <1>6 DEF CreatePayment, AutoIncrement
  <2>2. NewPayment \in Rows
    BY <1>0, <2>1 DEF NewPayment, Rows, NoRows
  <2> QED
    BY <1>0, <1>6, <2>2 DEF CreatePayment, Goto, TypeOK, customerVars, PC
<1>7. ASSUME NEW r \in Request, RegenerateToken(r) PROVE TypeOK'
  <2>1. PICK u \in tokens : resp' = [resp EXCEPT ![r] = Success(r, u.token)]
    BY <1>7 DEF RegenerateToken
  <2>2. Success(r, u.token) \in Answer
    BY SuccessType DEF TypeOK
  <2> QED
    BY <1>7, <2>1, <2>2 DEF RegenerateToken, TypeOK, customerVars
<1>8. ASSUME NEW r \in Request, CreatePaymentToken(r) PROVE TypeOK'
  <2>1. PICK t \in TokenName : /\ tx' = [tx EXCEPT ![r].token = t]
                               /\ resp' = [resp EXCEPT ![r] = Success(r, t)]
    BY <1>8 DEF CreatePaymentToken
  <2>2. Success(r, t) \in Answer /\ [tx[r] EXCEPT !.token = t] \in Rows
    BY SuccessType DEF TypeOK, Rows
  <2> QED
    BY <1>0, <1>8, <2>1, <2>2 DEF CreatePaymentToken, Goto, TypeOK, customerVars, PC
<1>9. ASSUME NEW r \in Request, Commit(r) \/ CommitUnknown(r) PROVE TypeOK'
  <2>1. ASSUME CommitRows(r)
        PROVE  /\ payments' \subseteq [id : PaymentId, ident : Ident]
               /\ configured' \subseteq PaymentId
               /\ tokens' \subseteq [token : TokenName, id : PaymentId, fresh : BOOLEAN]
               /\ tx' \in [Request -> Rows]
    <3>1. tx[r].id \in PaymentId /\ tx[r].token \in TokenName /\ ident[r] \in Ident
      BY <1>9 DEF Commit, CommitUnknown, Goto, TxInv, TypeOK
    <3>2. {i \in {tx[r].id} : tx[r].configured} \subseteq PaymentId
      BY <3>1
    <3>3. [token |-> tx[r].token, id |-> tx[r].id, fresh |-> TRUE]
             \in [token : TokenName, id : PaymentId, fresh : BOOLEAN]
      BY <3>1
    <3>4. tx' \in [Request -> Rows]
      BY <1>0, <2>1 DEF CommitRows, Rollback, TypeOK
    <3>5. [id |-> tx[r].id, ident |-> ident[r]] \in [id : PaymentId, ident : Ident]
      BY <3>1
    <3>6. /\ payments' = payments \cup {[id |-> tx[r].id, ident |-> ident[r]]}
          /\ configured' = configured \cup {i \in {tx[r].id} : tx[r].configured}
          /\ tokens' = tokens \cup {[token |-> tx[r].token, id |-> tx[r].id, fresh |-> TRUE]}
      BY <2>1 DEF CommitRows
    <3>7. /\ payments \subseteq [id : PaymentId, ident : Ident] /\ configured \subseteq PaymentId
          /\ tokens \subseteq [token : TokenName, id : PaymentId, fresh : BOOLEAN]
      BY DEF TypeOK
    <3> QED
      BY <3>2, <3>3, <3>4, <3>5, <3>6, <3>7
  <2>2. CASE Commit(r)
    BY <1>0, <2>1, <2>2 DEF Commit, Goto, TypeOK, customerVars, PC
  <2>3. CASE CommitUnknown(r) /\ CommitRows(r)
    BY <1>0, <2>1, <2>3 DEF CommitUnknown, Goto, TypeOK, customerVars, PC
  <2>4. CASE CommitUnknown(r) /\ Rollback(r) /\ UNCHANGED <<payments, configured, tokens>>
    BY <1>0, <2>4 DEF CommitUnknown, Rollback, Goto, TypeOK, customerVars, PC
  <2> QED
    BY <1>9, <2>2, <2>3, <2>4 DEF CommitUnknown
<1>10. ASSUME NEW r \in Request, WriteResponse(r) PROVE TypeOK'
  BY <1>0, <1>10 DEF WriteResponse, Goto, TypeOK, customerVars, PC
<1>11. ASSUME NEW c \in Customer, Arrive(c) PROVE TypeOK'
  <2>1. PICK r \in Request : answer[r].kind = "success" /\ brought' = [brought EXCEPT ![c] = answer[r].token]
    BY <1>11 DEF Arrive
  <2>2. answer[r].token \in TokenName
    BY <2>1 DEF TypeOK, Answer, NoAnswer, Error
  <2> QED
    BY <1>11, <2>1, <2>2 DEF Arrive, TypeOK, initVars
<1>12. ASSUME NEW c \in Customer, FindPayment(c) \/ DeletePaymentToken(c) PROVE TypeOK'
  <2>1. \A t : PaymentByToken(t) \subseteq PaymentId
    BY DEF PaymentByToken, TypeOK
  <2>2. CASE FindPayment(c)
    BY <1>0, <2>1, <2>2 DEF FindPayment, Goto, TypeOK, initVars, PC
  <2>3. CASE DeletePaymentToken(c)
    BY <1>0, <2>3 DEF DeletePaymentToken, Goto, TypeOK, initVars, PC
  <2> QED
    BY <1>12, <2>2, <2>3
<1>13. ASSUME NEW c \in Customer, RefuseCustomer(c) \/ Redirect(c) \/ RedirectUnknown(c) PROVE TypeOK'
  <2>1. CustomerDone(c) /\ tokens' \subseteq tokens /\ spent' \subseteq spent \cup {held[c]}
    BY <1>13 DEF RefuseCustomer, Redirect, RedirectUnknown
  <2>2. spent' \subseteq PaymentId
    BY <1>13, <2>1 DEF RefuseCustomer, Redirect, RedirectUnknown, CustomerInv, TypeOK
  <2> QED
    BY <1>0, <2>1, <2>2 DEF CustomerDone, TypeOK, initVars, PC
<1>14. ASSUME NEW c \in Customer, RetryCustomer(c) PROVE TypeOK'
  <2>1. retries[c] + 1 \in 0..TransactionMaxRetries
    BY <1>0, <1>14 DEF RetryCustomer, RetriesInv, TypeOK
  <2> QED
    BY <1>0, <1>14, <2>1 DEF RetryCustomer, TypeOK, initVars, customerVars, PC
<1>15. ASSUME NEW u \in tokens, TokenTooOld(u) PROVE TypeOK'
  <2>1. u.id \in PaymentId /\ [u EXCEPT !.fresh = FALSE] \in [token : TokenName, id : PaymentId, fresh : BOOLEAN]
    BY DEF TypeOK
  <2> QED
    BY <1>15, <2>1 DEF TokenTooOld, TypeOK, initVars, customerVars
<1>16. CASE Crash
  BY <1>0, <1>16 DEF Crash, TypeOK, PC
<1> QED
  BY <1>1, <1>3, <1>4, <1>5, <1>6, <1>7, <1>8, <1>9, <1>10, <1>11, <1>12, <1>13, <1>14, <1>15,
     <1>16 DEF Next

----------------------------------------------------------------------------
(* The steps of InitPayment.                                               *)

\* The steps of customers and of time: they leave InitPayment alone.
CustomerNext(c) ==
    \/ Arrive(c) \/ FindPayment(c) \/ RefuseCustomer(c) \/ DeletePaymentToken(c)
    \/ RetryCustomer(c) \/ Redirect(c) \/ RedirectUnknown(c)
OtherStep == (\E c \in Customer : CustomerNext(c)) \/ (\E u \in tokens : TokenTooOld(u)) \/ UNCHANGED vars

\* Nothing InitPayment is told changes in such a step.
LEMMA OtherStepFrame ==
    ASSUME TypeOK, OtherStep
    PROVE  UNCHANGED initVars /\ \A r \in Request : pc'[r] = pc[r] /\ Told(r)' = Told(r)
<1> USE SetupAssumption
<1>1. ASSUME NEW c \in Customer, CustomerNext(c)
      PROVE  UNCHANGED initVars /\ \A r \in Request : pc'[r] = pc[r]
  <2>1. \A r \in Request : r # c
    BY <1>1
  <2>2. UNCHANGED initVars
    BY <1>1 DEF CustomerNext, Arrive, FindPayment, RefuseCustomer, DeletePaymentToken, RetryCustomer,
                Redirect, RedirectUnknown, CustomerDone
  <2>3. UNCHANGED pc \/ \E l : pc' = [pc EXCEPT ![c] = l]
    BY <1>1 DEF CustomerNext, Arrive, FindPayment, RefuseCustomer, DeletePaymentToken, RetryCustomer,
                Redirect, RedirectUnknown, CustomerDone, Goto
  <2> QED
    BY <2>1, <2>2, <2>3 DEF TypeOK, Actor
<1>2. ASSUME NEW u \in tokens, TokenTooOld(u) PROVE UNCHANGED <<initVars, pc>>
  BY <1>2 DEF TokenTooOld
<1>3. UNCHANGED initVars /\ \A r \in Request : pc'[r] = pc[r]
  BY <1>1, <1>2 DEF OtherStep, vars
<1> QED
  BY <1>3 DEF Told, initVars

\* A transaction of either kind is only begun below the retry limit.
LEMMA RetriesStep == TypeOK /\ RetriesInv /\ [Next]_vars => RetriesInv'
<1> SUFFICES ASSUME TypeOK, RetriesInv, [Next]_vars PROVE RetriesInv'
  OBVIOUS
<1> USE SetupAssumption DEF TypeOK, RetriesInv, Goto, Actor
<1>1. CASE UNCHANGED vars
  BY <1>1 DEF vars
<1>2. ASSUME NEW r \in Request, Refuse(r) \/ Fail(r) \/ DuplicateIdent(r) \/ Begin(r) \/ Retry(r)
      PROVE  RetriesInv'
  BY <1>2 DEF Refuse, Fail, DuplicateIdent, Return, Begin, Retry
<1>3. ASSUME NEW r \in Request, CreatePayment(r) \/ RegenerateToken(r) \/ CreatePaymentToken(r)
      PROVE  RetriesInv'
  BY <1>3 DEF CreatePayment, RegenerateToken, CreatePaymentToken
<1>4. ASSUME NEW r \in Request, Commit(r) \/ CommitUnknown(r) \/ WriteResponse(r) PROVE RetriesInv'
  BY <1>4 DEF Commit, CommitUnknown, WriteResponse
<1>5. ASSUME NEW c \in Customer, Arrive(c) \/ FindPayment(c) \/ DeletePaymentToken(c) \/ RetryCustomer(c)
      PROVE  RetriesInv'
  BY <1>5 DEF Arrive, FindPayment, DeletePaymentToken, RetryCustomer
<1>6. ASSUME NEW c \in Customer, RefuseCustomer(c) \/ Redirect(c) \/ RedirectUnknown(c) PROVE RetriesInv'
  BY <1>6 DEF RefuseCustomer, Redirect, RedirectUnknown, CustomerDone
<1>7. ASSUME NEW u \in tokens, TokenTooOld(u) PROVE RetriesInv'
  BY <1>7 DEF TokenTooOld
<1>8. CASE Crash
  BY <1>8 DEF Crash
<1> QED
  BY <1>1, <1>2, <1>3, <1>4, <1>5, <1>6, <1>7, <1>8 DEF Next

\* What a transaction has inserted, step by step.
LEMMA TxStep == TypeOK /\ TxInv /\ [Next]_vars => TxInv'
<1> SUFFICES ASSUME TypeOK, TxInv, [Next]_vars PROVE TxInv'
  OBVIOUS
<1> USE SetupAssumption DEF TypeOK, TxInv, Goto, Actor
<1>1. CASE OtherStep
  BY <1>1, OtherStepFrame DEF initVars
<1>2. ASSUME NEW r \in Request, Refuse(r) \/ Fail(r) \/ DuplicateIdent(r) \/ Retry(r)
      PROVE  TxInv'
  BY <1>2 DEF Refuse, Fail, DuplicateIdent, Return, Rollback, Retry
<1>3. ASSUME NEW r \in Request, Begin(r) \/ RegenerateToken(r) \/ WriteResponse(r) PROVE TxInv'
  BY <1>3 DEF Begin, RegenerateToken, WriteResponse, initVars
<1>4. ASSUME NEW r \in Request, CreatePayment(r) PROVE TxInv'
  <2>1. AutoIncrement \in PaymentId
    BY <1>4 DEF CreatePayment, AutoIncrement
  <2>2. NewPayment.id \in PaymentId /\ NewPayment.configured = TRUE /\ NewPayment.token = NoToken
    BY <2>1 DEF NewPayment, NoRows
  <2> QED
    BY <1>4, <2>2 DEF CreatePayment
<1>5. ASSUME NEW r \in Request, CreatePaymentToken(r) PROVE TxInv'
  BY <1>5 DEF CreatePaymentToken, Rows
<1>6. ASSUME NEW r \in Request, Commit(r) \/ CommitUnknown(r) PROVE TxInv'
  BY <1>6 DEF Commit, CommitUnknown, CommitRows, Rollback
<1>7. CASE Crash
  BY <1>7 DEF Crash
<1> QED
  BY <1>1, <1>2, <1>3, <1>4, <1>5, <1>6, <1>7 DEF Next, OtherStep, CustomerNext

\* The steps of a request that commit nothing and hand out no id.
LEMMA NoCommitFrame ==
    ASSUME TypeOK, TxInv, NEW r \in Request,
           \/ Refuse(r) \/ Fail(r) \/ DuplicateIdent(r) \/ Retry(r)
           \/ Begin(r) \/ RegenerateToken(r) \/ WriteResponse(r) \/ CreatePaymentToken(r)
           \/ (CommitUnknown(r) /\ ~CommitRows(r))
    PROVE  /\ UNCHANGED <<ident, payments, configured, tokens, spent, customerVars>>
           /\ \A o \in Request : tx'[o].id \in {0, tx[o].id}
<1>1. NoRows.id = 0 /\ \A o \in Request : tx[o] \in Rows
  BY DEF NoRows, TypeOK
<1>2. CASE Refuse(r) \/ Fail(r) \/ DuplicateIdent(r) \/ Retry(r)
  BY <1>1, <1>2 DEF Refuse, Fail, DuplicateIdent, Retry, Return, Rollback, TypeOK
<1>3. CASE Begin(r) \/ RegenerateToken(r) \/ WriteResponse(r)
  BY <1>3 DEF Begin, RegenerateToken, WriteResponse, initVars
<1>4. CASE CreatePaymentToken(r)
  BY <1>1, <1>4 DEF CreatePaymentToken, TypeOK, Rows
<1>5. CASE CommitUnknown(r) /\ ~CommitRows(r)
  BY <1>1, <1>5 DEF CommitUnknown, Rollback, TypeOK
<1> QED
  BY <1>2, <1>3, <1>4, <1>5

\* What a commit adds.
LEMMA CommitFrame ==
    ASSUME TypeOK, TxInv, NEW r \in Request, Commit(r) \/ CommitUnknown(r), CommitRows(r)
    PROVE  /\ payments' = payments \cup {[id |-> tx[r].id, ident |-> ident[r]]}
           /\ configured' = configured \cup {tx[r].id}
           /\ tokens' = tokens \cup {[token |-> tx[r].token, id |-> tx[r].id, fresh |-> TRUE]}
           /\ tx' = [tx EXCEPT ![r] = NoRows]
           /\ tx[r].id \in PaymentId /\ tx[r].token \in TokenName /\ tx[r].id # 0
           /\ pc[r] = "token" /\ pc' = [pc EXCEPT ![r] = "respond"]
           /\ UNCHANGED <<ident, answer, spent, customerVars>>
<1>1. /\ pc[r] = "token" /\ pc' = [pc EXCEPT ![r] = "respond"]
      /\ UNCHANGED <<ident, answer, spent, customerVars>>
  BY DEF Commit, CommitUnknown, Goto
<1>2. tx[r].id \in PaymentId /\ tx[r].token \in TokenName /\ tx[r].configured = TRUE
  BY <1>1 DEF TxInv
<1>3. {i \in {tx[r].id} : tx[r].configured} = {tx[r].id}
  BY <1>2
<1> QED
  BY <1>1, <1>2, <1>3 DEF CommitRows, Rollback, PaymentId

\* Every step, in the groups the proofs treat together.
LEMMA NextCases ==
    ASSUME [Next]_vars
    PROVE  \/ OtherStep \/ Crash
           \/ \E r \in Request :
                \/ Refuse(r) \/ Fail(r) \/ DuplicateIdent(r) \/ Retry(r) \/ Begin(r) \/ RegenerateToken(r)
                \/ WriteResponse(r) \/ (CommitUnknown(r) /\ ~CommitRows(r))
                \/ CreatePayment(r) \/ CreatePaymentToken(r)
                \/ (Commit(r) \/ CommitUnknown(r)) /\ CommitRows(r)
<1>1. \A r \in Request : Commit(r) => CommitRows(r)
  BY DEF Commit
<1> QED
  BY <1>1 DEF Next, OtherStep, CustomerNext

\* No id and no ident is used twice, and payments are configured.
LEMMA IdStep == TypeOK /\ TxInv /\ IdInv /\ [Next]_vars => IdInv'
<1> SUFFICES ASSUME TypeOK, TxInv, IdInv, [Next]_vars PROVE IdInv'
  OBVIOUS
<1>1. ASSUME UNCHANGED <<ident, payments, configured>>, \A o \in Request : tx'[o].id \in {0, tx[o].id}
      PROVE  IdInv'
  BY <1>1 DEF IdInv
<1>2. CASE OtherStep
  BY <1>1, <1>2, OtherStepFrame DEF initVars
<1>3. CASE Crash
  BY <1>1, <1>3 DEF Crash, NoRows
<1>4. ASSUME NEW r \in Request,
             \/ Refuse(r) \/ Fail(r) \/ DuplicateIdent(r) \/ Retry(r)
             \/ Begin(r) \/ RegenerateToken(r) \/ WriteResponse(r) \/ CreatePaymentToken(r)
             \/ (CommitUnknown(r) /\ ~CommitRows(r))
      PROVE  IdInv'
  BY <1>1, <1>4, NoCommitFrame
<1>5. ASSUME NEW r \in Request, CreatePayment(r) PROVE IdInv'
  <2>1. AutoIncrement \in PaymentId /\ IdFree(AutoIncrement)
    BY <1>5 DEF CreatePayment, AutoIncrement
  <2>2. /\ \A o \in Request : o # r => tx'[o] = tx[o]
        /\ tx'[r].id = AutoIncrement
        /\ UNCHANGED <<ident, payments, configured>>
    BY <1>5 DEF CreatePayment, NewPayment, NoRows, TypeOK
  <2>3. \A p \in payments : p.id # tx'[r].id /\ p.ident # ident[r]
    BY <1>5, <2>1, <2>2 DEF CreatePayment, IdFree, IdentTaken
  <2>4. \A o \in Request : o # r /\ tx[o].id # 0 => tx[o].id # tx'[r].id /\ ident[o] # ident[r]
    BY <1>5, <2>1, <2>2 DEF CreatePayment, IdFree, IdentUnlocked
  <2> QED
    BY <2>2, <2>3, <2>4 DEF IdInv
<1>6. ASSUME NEW r \in Request, Commit(r) \/ CommitUnknown(r), CommitRows(r) PROVE IdInv'
  <2> DEFINE new == [id |-> tx[r].id, ident |-> ident[r]]
  <2>1. /\ payments' = payments \cup {new} /\ configured' = configured \cup {new.id}
        /\ UNCHANGED ident /\ tx[r].id # 0
        /\ \A o \in Request : tx'[o] = IF o = r THEN NoRows ELSE tx[o]
    BY <1>6, CommitFrame DEF TypeOK
  <2>2. \A p \in payments : p.id # new.id /\ p.ident # new.ident
    BY <2>1 DEF IdInv
  <2>3. \A p, q \in payments' : p.id = q.id \/ p.ident = q.ident => p = q
    BY <2>1, <2>2 DEF IdInv
  <2>4. \A o \in Request : tx'[o].id # 0 => o # r /\ tx'[o] = tx[o]
    BY <2>1 DEF NoRows
  <2>5. \A o \in Request : tx'[o].id # 0 => \A p \in payments' : p.id # tx'[o].id /\ p.ident # ident[o]
    BY <2>1, <2>4 DEF IdInv
  <2>6. configured' = {p.id : p \in payments'}
    <3>1. configured = {p.id : p \in payments}
      BY DEF IdInv
    <3>2. {p.id : p \in payments'} = {p.id : p \in payments} \cup {new.id}
      BY <2>1
    <3> QED
      BY <2>1, <3>1, <3>2
  <2> QED
    BY <2>1, <2>3, <2>4, <2>5, <2>6 DEF IdInv
<1> QED
  BY <1>2, <1>3, <1>4, <1>5, <1>6, NextCases

\* Only a draw puts a token into a transaction.
LEMMA TxTokens ==
    ASSUME TypeOK, NEW r \in Request,
           \/ Refuse(r) \/ Fail(r) \/ DuplicateIdent(r) \/ Retry(r) \/ Begin(r) \/ RegenerateToken(r)
           \/ WriteResponse(r) \/ CreatePayment(r) \/ Commit(r) \/ CommitUnknown(r)
    PROVE  \A o \in Request : tx'[o].token \in {NoToken, tx[o].token}
<1>1. NoRows.token = NoToken /\ NewPayment.token = NoToken /\ \A o \in Request : tx[o] \in Rows
  BY DEF NoRows, NewPayment, TypeOK
<1>2. CASE Refuse(r) \/ Fail(r) \/ DuplicateIdent(r) \/ Retry(r)
  BY <1>1, <1>2 DEF Refuse, Fail, DuplicateIdent, Retry, Return, Rollback, TypeOK
<1>3. CASE Begin(r) \/ RegenerateToken(r) \/ WriteResponse(r)
  BY <1>3 DEF Begin, RegenerateToken, WriteResponse, initVars
<1>4. CASE CreatePayment(r)
  BY <1>1, <1>4 DEF CreatePayment, TypeOK
<1>5. CASE Commit(r) \/ CommitUnknown(r)
  BY <1>1, <1>5 DEF Commit, CommitUnknown, CommitRows, Rollback, TypeOK
<1> QED
  BY <1>2, <1>3, <1>4, <1>5

\* What becomes of the tokens when no payment is committed: they age or go.
LEMMA TokensAge ==
    ASSUME TypeOK, OtherStep
    PROVE  \/ tokens' \subseteq tokens
           \/ \E u \in tokens : /\ u.fresh /\ spent' = spent \cup {u.id} /\ UNCHANGED <<customerVars>>
                                /\ tokens' = (tokens \ {u}) \cup {[u EXCEPT !.fresh = FALSE]}
<1>1. ASSUME NEW c \in Customer, CustomerNext(c) PROVE tokens' \subseteq tokens
  BY <1>1 DEF CustomerNext, Arrive, FindPayment, RefuseCustomer, DeletePaymentToken, RetryCustomer,
              Redirect, RedirectUnknown
<1> QED
  BY <1>1 DEF OtherStep, TokenTooOld, vars

\* No token is used twice, and every token has its payment.
LEMMA TokenStep == TypeOK /\ TxInv /\ IdInv /\ TokenInv /\ [Next]_vars => TokenInv'
<1> SUFFICES ASSUME TypeOK, TxInv, IdInv, TokenInv, [Next]_vars PROVE TokenInv'
  OBVIOUS
<1> USE SetupAssumption
<1>0. \A u \in tokens : u.token \in TokenName /\ u.token # NoToken
  BY DEF TypeOK
<1>1. ASSUME \A o \in Request : tx'[o].token \in {NoToken, tx[o].token},
             UNCHANGED <<tokens, payments>>
      PROVE  TokenInv'
  BY <1>0, <1>1 DEF TokenInv
<1>2. CASE OtherStep
  <2>1. UNCHANGED <<tx, payments>>
    BY <1>2, OtherStepFrame DEF initVars
  <2>2. CASE tokens' \subseteq tokens
    BY <2>1, <2>2 DEF TokenInv
  <2>3. ASSUME NEW u \in tokens, tokens' = (tokens \ {u}) \cup {[u EXCEPT !.fresh = FALSE]}
        PROVE  TokenInv'
    <3>1. [u EXCEPT !.fresh = FALSE].token = u.token /\ [u EXCEPT !.fresh = FALSE].id = u.id
      BY DEF TypeOK
    <3> DEFINE old == [u EXCEPT !.fresh = FALSE]
    <3>2. old.token = u.token /\ old.id = u.id /\ tokens' = (tokens \ {u}) \cup {old}
      BY <2>3, <3>1
    <3> HIDE DEF old
    <3>3. \A v, w \in tokens' : v.token = w.token \/ v.id = w.id => v = w
      BY <3>2 DEF TokenInv
    <3>4. \A w \in tokens' : \E p \in payments : p.id = w.id
      BY <3>2 DEF TokenInv
    <3>5. \A r \in Request : \A w \in tokens' : w.token # tx[r].token
      BY <3>2 DEF TokenInv
    <3> QED
      BY <2>1, <3>3, <3>4, <3>5 DEF TokenInv
  <2> QED
    BY <1>2, <2>2, <2>3, TokensAge
<1>3. CASE Crash
  BY <1>1, <1>3 DEF Crash, NoRows
<1>4. ASSUME NEW r \in Request,
             \/ Refuse(r) \/ Fail(r) \/ DuplicateIdent(r) \/ Retry(r) \/ Begin(r) \/ RegenerateToken(r)
             \/ WriteResponse(r) \/ (CommitUnknown(r) /\ ~CommitRows(r))
      PROVE  TokenInv'
  BY <1>1, <1>4, NoCommitFrame, TxTokens
<1>5. ASSUME NEW r \in Request, CreatePayment(r) PROVE TokenInv'
  BY <1>1, <1>5, TxTokens DEF CreatePayment
<1>6. ASSUME NEW r \in Request, CreatePaymentToken(r) PROVE TokenInv'
  <2>1. PICK t \in TokenName : TokenUnlocked(r, t) /\ TokenFree(t) /\ tx' = [tx EXCEPT ![r].token = t]
    BY <1>6 DEF CreatePaymentToken
  <2>2. /\ UNCHANGED <<tokens, payments>>
        /\ \A o \in Request : tx'[o].token = IF o = r THEN t ELSE tx[o].token
    BY <1>6, <2>1 DEF CreatePaymentToken, TypeOK, Rows
  <2>3. (\A u \in tokens : u.token # t) /\ \A o \in Request : o # r => tx[o].token # t
    BY <2>1 DEF TokenFree, TokenUnlocked
  <2> QED
    BY <2>2, <2>3 DEF TokenInv
<1>7. ASSUME NEW r \in Request, Commit(r) \/ CommitUnknown(r), CommitRows(r) PROVE TokenInv'
  <2> DEFINE new == [token |-> tx[r].token, id |-> tx[r].id, fresh |-> TRUE]
  <2>1. /\ payments' = payments \cup {[id |-> tx[r].id, ident |-> ident[r]]}
        /\ tokens' = tokens \cup {new} /\ tx[r].id # 0 /\ tx[r].token # NoToken
        /\ \A o \in Request : tx'[o] = IF o = r THEN NoRows ELSE tx[o]
    BY <1>7, CommitFrame DEF TypeOK
  <2>2. \A u \in tokens : u.token # new.token /\ u.id # new.id
    <3>1. \A u \in tokens : \E p \in payments : p.id = u.id /\ p.id # tx[r].id
      BY <2>1 DEF TokenInv, IdInv
    <3> QED
      BY <3>1 DEF TokenInv
  <2>3. \A o \in Request : o # r => tx[o].token # tx[r].token
    BY <2>1 DEF TokenInv
  <2>4. \A o \in Request : tx'[o].token = IF o = r THEN NoToken ELSE tx[o].token
    BY <2>1 DEF NoRows
  <2>5. \A u, w \in tokens' : u.token = w.token \/ u.id = w.id => u = w
    <3>1. \A u, w \in tokens : u.token = w.token \/ u.id = w.id => u = w
      BY DEF TokenInv
    <3>2. \A u \in tokens' : u \in tokens \/ u = new
      BY <2>1
    <3> HIDE DEF new
    <3> QED
      BY <2>2, <3>1, <3>2
  <2>6. \A u \in tokens' : \E p \in payments' : p.id = u.id
    <3>1. [id |-> tx[r].id, ident |-> ident[r]].id = new.id
      OBVIOUS
    <3>2. \E p \in payments' : p.id = new.id
      BY <2>1, <3>1
    <3> QED
      BY <2>1, <3>2 DEF TokenInv
  <2>7. \A o \in Request : \A u \in tokens' : u.token # tx'[o].token
    BY <1>0, <2>1, <2>3, <2>4 DEF TokenInv
  <2> QED
    BY <2>4, <2>5, <2>6, <2>7 DEF TokenInv
<1> QED
  BY <1>2, <1>3, <1>4, <1>5, <1>6, <1>7, NextCases

----------------------------------------------------------------------------
(* The answers of InitPayment.                                             *)

\* What AnswerInv says of one request, and of two.
PendingOK(r) ==
    /\ pc[r] # "done" => answer[r] = NoAnswer
    /\ pc[r] = "respond" => resp[r] # NoAnswer
    /\ pc[r] = "token" => resp[r] = Success(r, tx[r].token)
    /\ Told(r).kind = "conflict" => Told(r).ident = ident[r] /\ IdentTaken(r)
ToldOK(r) ==
    IsTold(r) =>
        /\ \E p \in payments : p.ident = ident[r] /\ Told(r).id = EncodedPaymentID[p.id]
        /\ \A u \in tokens : u.token = Told(r).token <=> EncodedPaymentID[u.id] = Told(r).id
        /\ \A o \in Request : tx[o].token # Told(r).token
        /\ pc[r] = "respond" => \E u \in tokens : u.token = Told(r).token
ToldApart(r, o) ==
    IsTold(r) /\ IsTold(o) => Told(r).id # Told(o).id /\ Told(r).token # Told(o).token

\* They are the invariant about answers, taken apart.
LEMMA AnswerParts ==
    AnswerInv <=> /\ \A r \in Request : PendingOK(r) /\ ToldOK(r)
                  /\ \A r, o \in Request : r # o => ToldApart(r, o)
  BY DEF AnswerInv, PendingOK, ToldOK, ToldApart

\* Two payments have two displayed ids.
LEMMA EncodingApart ==
    \A i, j \in PaymentId : EncodedPaymentID[i] = EncodedPaymentID[j] => i = j
<1>1. \A i \in PaymentId : DecodedPaymentID[EncodedPaymentID[i]] = i
  BY Encoding
<1> QED
  BY <1>1

\* The parts again make the whole, after a step.
LEMMA AnswerWhole ==
    ASSUME \A r \in Request : PendingOK(r)' /\ ToldOK(r)',
           \A r, o \in Request : r # o => ToldApart(r, o)'
    PROVE  AnswerInv'
  BY DEF AnswerInv, PendingOK, ToldOK, ToldApart

\* A confirmation names a token.
LEMMA ToldTokens == TypeOK => \A o \in Request : IsTold(o) => Told(o).token \in TokenName
<1> SUFFICES ASSUME TypeOK, NEW o \in Request, IsTold(o) PROVE Told(o).token \in TokenName
  OBVIOUS
<1>1. Told(o) \in Answer
  BY DEF Told, TypeOK
<1>2. \A a \in Answer : a.kind = "success" => a.token \in TokenName
  BY DEF Answer, NoAnswer, Error
<1> QED
  BY <1>1, <1>2 DEF IsTold

\* The answer is kept by whatever leaves the payments, the tokens and the
\* requests' confirmations alone and puts no new token into a transaction.
LEMMA AnswerFrame ==
    ASSUME TypeOK, AnswerInv, UNCHANGED <<ident, payments, tokens>>,
           \A o \in Request : tx'[o].token \in {NoToken, tx[o].token},
           \A o \in Request : \/ Told(o)' = Told(o) /\ (pc'[o] = "respond" => pc[o] = "respond")
                              \/ Told(o)'.kind # "success",
           \A o \in Request : PendingOK(o)'
    PROVE  AnswerInv'
<1>1. \A o \in Request : IsTold(o)' => Told(o)' = Told(o) /\ IsTold(o) /\ (pc'[o] = "respond" => pc[o] = "respond")
  BY DEF IsTold
<1>2. \A o \in Request : IsTold(o) => Told(o).token # NoToken
  BY ToldTokens, SetupAssumption
<1>3. ASSUME NEW r \in Request PROVE ToldOK(r)'
  <2>1. SUFFICES ASSUME IsTold(r)' PROVE ToldOK(r)'
    BY DEF ToldOK
  <2>2. IsTold(r) /\ Told(r)' = Told(r) /\ (pc'[r] = "respond" => pc[r] = "respond")
    BY <1>1, <2>1
  <2>3. \A o \in Request : tx'[o].token # Told(r).token
    BY <1>2, <2>2, AnswerParts DEF ToldOK
  <2> QED
    BY <2>2, <2>3, AnswerParts DEF ToldOK
<1>4. ASSUME NEW r \in Request, NEW o \in Request, r # o PROVE ToldApart(r, o)'
  BY <1>1, <1>4, AnswerParts DEF ToldApart
<1> QED
  BY <1>3, <1>4, AnswerWhole

\* Who was told something has its answer, or is about to write it.
LEMMA AnsweredIsTold ==
    ASSUME AnswerInv, NEW r \in Request, answer[r].kind = "success"
    PROVE  pc[r] = "done" /\ Told(r) = answer[r] /\ IsTold(r)
<1>1. answer[r] # NoAnswer
  BY DEF NoAnswer
<1> QED
  BY <1>1, AnswerParts DEF PendingOK, Told, IsTold

\* The steps of a request that commit nothing and draw no token.
LEMMA AnswerQuietStep ==
    ASSUME TypeOK, TxInv, AnswerInv, NEW r \in Request,
           \/ Refuse(r) \/ Fail(r) \/ DuplicateIdent(r) \/ Retry(r) \/ Begin(r) \/ RegenerateToken(r)
           \/ WriteResponse(r) \/ CreatePayment(r) \/ (CommitUnknown(r) /\ ~CommitRows(r))
    PROVE  AnswerInv'
<1>0. /\ UNCHANGED <<ident, payments, tokens>>
      /\ \A o \in Request : tx'[o].token \in {NoToken, tx[o].token}
  BY NoCommitFrame, TxTokens DEF CreatePayment
<1>1. /\ Error.kind = "error" /\ Error # NoAnswer /\ NoAnswer.kind = "none"
      /\ Request \subseteq Actor /\ \A o \in Request : PendingOK(o)
  BY AnswerParts DEF Error, NoAnswer, Actor
<1>2. /\ \A o \in Request : o # r => /\ pc'[o] = pc[o] /\ resp'[o] = resp[o]
                                     /\ answer'[o] = answer[o] /\ tx'[o] = tx[o]
  <2>1. CASE Refuse(r) \/ Fail(r) \/ DuplicateIdent(r) \/ Retry(r)
    BY <1>1, <2>1 DEF Refuse, Fail, DuplicateIdent, Return, Rollback, Retry, TypeOK
  <2>2. CASE Begin(r) \/ RegenerateToken(r) \/ WriteResponse(r) \/ CreatePayment(r)
    BY <1>1, <2>2 DEF Begin, RegenerateToken, WriteResponse, CreatePayment, Goto, TypeOK, initVars
  <2>3. CASE CommitUnknown(r)
    BY <1>1, <2>3 DEF CommitUnknown, CommitRows, Rollback, Goto, TypeOK
  <2> QED
    BY <2>1, <2>2, <2>3
<1>3. \A o \in Request : o # r => Told(o)' = Told(o) /\ pc'[o] = pc[o] /\ PendingOK(o)'
  BY <1>0, <1>1, <1>2 DEF Told, PendingOK, Success, IdentTaken, EncodedPaymentID
<1>4. /\ \/ Told(r)' = Told(r) /\ (pc'[r] = "respond" => pc[r] = "respond")
         \/ Told(r)'.kind # "success"
      /\ PendingOK(r)'
  <2>1. CASE Refuse(r) \/ Fail(r)
    <3>1. pc[r] # "done" /\ Return(r, Error)
      BY <2>1 DEF Refuse, Fail
    <3>2. pc'[r] = "respond" /\ resp'[r] = Error /\ answer'[r] = NoAnswer
      BY <1>1, <3>1 DEF Return, TypeOK, PendingOK
    <3> QED
      BY <1>1, <3>2 DEF Told, PendingOK
  <2>2. CASE DuplicateIdent(r)
    <3> DEFINE a == [kind |-> "conflict", ident |-> ident[r]]
    <3>1. pc[r] # "done" /\ Return(r, a) /\ IdentTaken(r)
      BY <2>2 DEF DuplicateIdent
    <3>2. pc'[r] = "respond" /\ resp'[r] = a /\ answer'[r] = NoAnswer
      BY <1>1, <3>1 DEF Return, TypeOK, PendingOK
    <3>3. a.kind = "conflict" /\ a.ident = ident[r] /\ a # NoAnswer
      BY <1>1
    <3>4. IdentTaken(r)' /\ ident'[r] = ident[r]
      BY <1>0, <3>1 DEF IdentTaken
    <3> HIDE DEF a
    <3> QED
      BY <1>1, <3>2, <3>3, <3>4 DEF Told, PendingOK
  <2>3. CASE Retry(r) \/ Begin(r) \/ CreatePayment(r) \/ RegenerateToken(r)
    <3>1. /\ pc[r] \notin {"done", "respond", "token"} \/ pc[r] = "token"
          /\ pc[r] \notin {"done", "respond"}
          /\ pc'[r] \in {"start", "begun", "created"} /\ answer'[r] = answer[r]
      BY <1>1, <2>3 DEF Retry, Begin, CreatePayment, RegenerateToken, Goto, TypeOK, initVars
    <3>2. answer[r] = NoAnswer
      BY <1>1, <3>1 DEF PendingOK
    <3> QED
      BY <1>1, <3>1, <3>2 DEF Told, PendingOK
  <2>4. CASE WriteResponse(r)
    <3>1. /\ pc[r] = "respond" /\ pc'[r] = "done" /\ answer'[r] = resp[r]
      BY <1>1, <2>4 DEF WriteResponse, Goto, TypeOK
    <3>2. Told(r)' = Told(r)
      BY <3>1 DEF Told
    <3> QED
      BY <1>0, <1>1, <3>1, <3>2 DEF PendingOK, IdentTaken
  <2>5. CASE CommitUnknown(r)
    <3>1. pc[r] = "token" /\ pc'[r] = "respond" /\ resp'[r] = Error /\ answer'[r] = answer[r]
      BY <1>1, <2>5 DEF CommitUnknown, Goto, TypeOK
    <3> QED
      BY <1>1, <3>1 DEF Told, PendingOK
  <2> QED
    BY <2>1, <2>2, <2>3, <2>4, <2>5
<1> QED
  BY <1>0, <1>3, <1>4, AnswerFrame

\* The draw of a token nobody was told and no pending confirmation names.
LEMMA AnswerTokenStep ==
    ASSUME TypeOK, TxInv, AnswerInv, NEW r \in Request, CreatePaymentToken(r)
    PROVE  AnswerInv'
<1>1. PICK t \in TokenName : /\ TokenFree(t)
                             /\ tx' = [tx EXCEPT ![r].token = t]
                             /\ resp' = [resp EXCEPT ![r] = Success(r, t)]
  BY DEF CreatePaymentToken
<1>2. /\ UNCHANGED <<ident, payments, tokens, answer>>
      /\ pc[r] = "created" /\ pc' = [pc EXCEPT ![r] = "token"] /\ r \in Actor
  BY DEF CreatePaymentToken, Goto, Actor
<1>3. \A o \in Request : /\ tx'[o].token = IF o = r THEN t ELSE tx[o].token
                         /\ tx'[o].id = tx[o].id
                         /\ resp'[o] = IF o = r THEN Success(r, t) ELSE resp[o]
                         /\ pc'[o] = IF o = r THEN "token" ELSE pc[o]
  BY <1>1, <1>2 DEF TypeOK, Rows, Actor
<1>4. \A o \in Request : Told(o)' = Told(o) /\ (pc'[o] = "respond" <=> pc[o] = "respond")
  BY <1>2, <1>3 DEF Told
<1>5. ASSUME NEW o \in Request PROVE PendingOK(o)'
  <2>1. PendingOK(o)
    BY AnswerParts
  <2>2. pc'[o] = "token" => resp'[o] = Success(o, tx[o].token)'
    BY <1>1, <1>2, <1>3, <2>1 DEF PendingOK, Success, EncodedPaymentID
  <2>3. Told(o)'.kind = "conflict" => Told(o)'.ident = ident'[o] /\ IdentTaken(o)'
    BY <1>2, <1>4, <2>1 DEF PendingOK, IdentTaken
  <2> QED
    BY <1>2, <1>3, <2>1, <2>2, <2>3 DEF PendingOK
<1>6. ASSUME NEW o \in Request, IsTold(o) PROVE Told(o).token # t
  <2>1. CASE pc[o] = "respond"
    BY <1>1, <1>6, <2>1, AnswerParts DEF ToldOK, TokenFree
  <2>2. CASE pc[o] # "respond"
    BY <1>1, <1>6, <2>2 DEF Told, IsTold, TokenFree
  <2> QED
    BY <2>1, <2>2
<1>7. ASSUME NEW o \in Request PROVE ToldOK(o)'
  <2>1. IsTold(o)' <=> IsTold(o)
    BY <1>4 DEF IsTold
  <2> QED
    BY <1>2, <1>3, <1>4, <1>6, <2>1, AnswerParts DEF ToldOK
<1>8. ASSUME NEW o \in Request, NEW q \in Request, o # q PROVE ToldApart(o, q)'
  BY <1>4, <1>8, AnswerParts DEF ToldApart, IsTold
<1> QED
  BY <1>5, <1>7, <1>8, AnswerWhole

\* The commit: the confirmation becomes true as it becomes pending.
LEMMA AnswerCommitStep ==
    ASSUME TypeOK, TxInv, IdInv, TokenInv, AnswerInv, NEW r \in Request,
           Commit(r) \/ CommitUnknown(r), CommitRows(r)
    PROVE  AnswerInv'
<1> DEFINE new == [token |-> tx[r].token, id |-> tx[r].id, fresh |-> TRUE]
           row == [id |-> tx[r].id, ident |-> ident[r]]
<1>1. /\ payments' = payments \cup {row} /\ tokens' = tokens \cup {new}
      /\ tx[r].id \in PaymentId /\ tx[r].id # 0 /\ tx[r].token \in TokenName
      /\ pc[r] = "token" /\ UNCHANGED <<ident, answer>>
      /\ \A o \in Request : /\ tx'[o] = IF o = r THEN NoRows ELSE tx[o]
                            /\ pc'[o] = IF o = r THEN "respond" ELSE pc[o]
  BY CommitFrame DEF TypeOK, Actor
<1>2. /\ row.id = tx[r].id /\ row.ident = ident[r]
      /\ new.token = tx[r].token /\ new.id = tx[r].id
      /\ NoRows.token = NoToken /\ Error.kind = "error" /\ Error # NoAnswer
  BY DEF NoRows, Error, NoAnswer
<1> HIDE DEF new, row
<1>3. resp[r] = Success(r, tx[r].token)
  BY <1>1, AnswerParts DEF PendingOK
<1>4. (\A o \in Request : o # r => resp'[o] = resp[o]) /\ resp'[r] \in {resp[r], Error}
  BY DEF Commit, CommitUnknown, TypeOK
<1>5. /\ \A o \in Request : o # r => Told(o)' = Told(o)
      /\ Told(r)' \in {Success(r, tx[r].token), Error}
  BY <1>1, <1>3, <1>4 DEF Told
<1>6. /\ resp[r].kind = "success" /\ resp[r].token = tx[r].token
      /\ resp[r].id = EncodedPaymentID[tx[r].id] /\ resp[r] # NoAnswer
  BY <1>1, <1>3, SuccessType DEF NoAnswer
<1>7. ASSUME NEW o \in Request PROVE PendingOK(o)'
  <2>1. PendingOK(o)
    BY AnswerParts
  <2>2. CASE o = r
    <3>1. pc[o] = "token" /\ pc'[o] = "respond" /\ answer'[o] = answer[o]
      BY <1>1, <2>2
    <3>2. Told(o)'.kind # "conflict" /\ resp'[o] # NoAnswer
      BY <1>2, <1>3, <1>4, <1>5, <1>6, <2>2
    <3> QED
      BY <2>1, <3>1, <3>2 DEF PendingOK
  <2>3. CASE o # r
    <3>1. pc'[o] = pc[o] /\ resp'[o] = resp[o] /\ answer'[o] = answer[o] /\ tx'[o] = tx[o]
      BY <1>1, <1>4, <2>3
    <3>2. pc[o] = "token" => resp'[o] = Success(o, tx[o].token)'
      BY <2>1, <3>1 DEF PendingOK, Success, EncodedPaymentID
    <3>3. IdentTaken(o) => IdentTaken(o)'
      BY <1>1 DEF IdentTaken
    <3> QED
      BY <1>1, <1>5, <2>1, <2>3, <3>1, <3>2, <3>3 DEF PendingOK
  <2> QED
    BY <2>2, <2>3
<1>8. \A u \in tokens : u.id \in PaymentId /\ u.id # tx[r].id /\ u.token # tx[r].token
  <2>1. \A p \in payments : p.id # tx[r].id
    BY <1>1 DEF IdInv
  <2> QED
    BY <2>1 DEF TokenInv, TypeOK
<1>9. ASSUME NEW o \in Request, o # r, IsTold(o)
      PROVE  Told(o).token # tx[r].token /\ Told(o).id # EncodedPaymentID[tx[r].id]
  <2>1. ToldOK(o)
    BY AnswerParts
  <2>2. PICK p \in payments : Told(o).id = EncodedPaymentID[p.id]
    BY <1>9, <2>1 DEF ToldOK
  <2>3. p.id # tx[r].id /\ p.id \in PaymentId
    BY <1>1 DEF IdInv, TypeOK
  <2> QED
    BY <1>1, <1>9, <2>1, <2>2, <2>3, EncodingApart DEF ToldOK
<1>10. \A o \in Request : tx'[o].token # tx[r].token
  BY <1>1, <1>2, SetupAssumption DEF TokenInv
<1>11. ASSUME NEW o \in Request PROVE ToldOK(o)'
  <2>1. CASE o # r
    <3>1. Told(o)' = Told(o) /\ (IsTold(o)' <=> IsTold(o)) /\ pc'[o] = pc[o]
      BY <1>1, <1>5, <2>1 DEF IsTold
    <3>2. ASSUME IsTold(o) PROVE ToldOK(o)'
      <4>0. ToldOK(o)
        BY AnswerParts
      <4>1. \E p \in payments' : p.ident = ident'[o] /\ Told(o).id = EncodedPaymentID[p.id]
        BY <1>1, <3>2, <4>0 DEF ToldOK
      <4>2. \A u \in tokens' : u.token = Told(o).token <=> EncodedPaymentID[u.id] = Told(o).id
        BY <1>1, <1>2, <1>9, <2>1, <3>2, <4>0 DEF ToldOK
      <4>3. \A q \in Request : tx'[q].token # Told(o).token
        <5>1. Told(o).token # NoToken
          BY <3>2, ToldTokens, SetupAssumption
        <5> QED
          BY <1>1, <1>2, <3>2, <4>0, <5>1 DEF ToldOK
      <4>4. pc[o] = "respond" => \E u \in tokens' : u.token = Told(o).token
        BY <1>1, <3>2, <4>0 DEF ToldOK
      <4> QED
        BY <3>1, <4>1, <4>2, <4>3, <4>4 DEF ToldOK, EncodedPaymentID
    <3> QED
      BY <3>1, <3>2 DEF ToldOK
  <2>2. CASE o = r
    <3>1. SUFFICES ASSUME IsTold(r)' PROVE ToldOK(r)'
      BY <2>2 DEF ToldOK
    <3>2. Told(r)' = resp[r]
      BY <1>2, <1>3, <1>5, <3>1 DEF IsTold
    <3>3. \E p \in payments' : p.ident = ident'[r] /\ resp[r].id = EncodedPaymentID[p.id]
      BY <1>1, <1>2, <1>6
    <3>4. \A u \in tokens' : u.token = resp[r].token <=> EncodedPaymentID[u.id] = resp[r].id
      BY <1>1, <1>2, <1>6, <1>8, EncodingApart
    <3>5. \E u \in tokens' : u.token = resp[r].token
      BY <1>1, <1>2, <1>6
    <3> QED
      BY <1>6, <1>10, <3>2, <3>3, <3>4, <3>5 DEF ToldOK, EncodedPaymentID
  <2> QED
    BY <2>1, <2>2
<1>12. ASSUME NEW o \in Request, NEW q \in Request, o # q PROVE ToldApart(o, q)'
  <2>1. IsTold(r)' => Told(r)' = resp[r]
    BY <1>2, <1>3, <1>5 DEF IsTold
  <2>2. \A i \in Request : i # r => Told(i)' = Told(i) /\ (IsTold(i)' <=> IsTold(i))
    BY <1>5 DEF IsTold
  <2>3. ToldApart(o, q)
    BY <1>12, AnswerParts
  <2> QED
    BY <1>6, <1>9, <1>12, <2>1, <2>2, <2>3 DEF ToldApart
<1> QED
  BY <1>7, <1>11, <1>12, AnswerWhole

\* A customer at work brought a token somebody was told.
LEMMA BroughtIsTold ==
    ASSUME AnswerInv, CustomerInv, NEW c \in Customer, brought[c] # NoToken
    PROVE  \E r \in Request : /\ answer[r].kind = "success" /\ answer[r].token = brought[c]
                              /\ pc[r] = "done" /\ Told(r) = answer[r] /\ IsTold(r)
  BY AnsweredIsTold DEF CustomerInv

\* The token of a pending confirmation is left alone by customers and time.
LEMMA PendingTokenStays ==
    ASSUME TypeOK, AnswerInv, CustomerInv, OtherStep, NEW r \in Request,
           IsTold(r), pc[r] = "respond"
    PROVE  \E u \in tokens' : u.token = Told(r).token
<1>1. PICK u \in tokens : u.token = Told(r).token
  BY AnswerParts DEF ToldOK
<1>2. ASSUME NEW c \in Customer, CustomerNext(c), u \notin tokens' PROVE FALSE
  <2>1. Redirect(c) \/ RedirectUnknown(c)
    BY <1>1, <1>2 DEF CustomerNext, Arrive, FindPayment, RefuseCustomer, DeletePaymentToken, RetryCustomer
  <2>2. pc[c] = "deleted" /\ u.token = brought[c]
    BY <1>1, <1>2, <2>1 DEF Redirect, RedirectUnknown
  <2>3. brought[c] # NoToken
    BY <2>2 DEF CustomerInv
  <2>4. PICK o \in Request : pc[o] = "done" /\ IsTold(o) /\ Told(o).token = brought[c]
    BY <2>3, BroughtIsTold
  <2> QED
    BY <1>1, <2>2, <2>4, AnswerParts DEF ToldApart
<1>3. ASSUME NEW w \in tokens, TokenTooOld(w) PROVE \E v \in tokens' : v.token = u.token
  <2>1. tokens' = (tokens \ {w}) \cup {[w EXCEPT !.fresh = FALSE]}
    BY <1>3 DEF TokenTooOld
  <2>2. [w EXCEPT !.fresh = FALSE].token = w.token
    BY DEF TypeOK
  <2> QED
    BY <1>1, <2>1, <2>2
<1> QED
  BY <1>1, <1>2, <1>3 DEF OtherStep, vars

\* Customers and time leave the answers true.
LEMMA AnswerOtherStep ==
    ASSUME TypeOK, AnswerInv, CustomerInv, OtherStep
    PROVE  AnswerInv'
<1>1. UNCHANGED initVars /\ \A r \in Request : pc'[r] = pc[r] /\ Told(r)' = Told(r)
  BY OtherStepFrame
<1>2. \A u \in tokens' : \E w \in tokens : w.token = u.token /\ w.id = u.id
  <2>1. \A u \in tokens : [u EXCEPT !.fresh = FALSE].token = u.token /\ [u EXCEPT !.fresh = FALSE].id = u.id
    BY DEF TypeOK
  <2> QED
    BY <2>1, TokensAge
<1>3. ASSUME NEW r \in Request PROVE PendingOK(r)' /\ ToldOK(r)'
  <2>1. PendingOK(r)'
    BY <1>1, AnswerParts DEF PendingOK, Success, EncodedPaymentID, IdentTaken, initVars
  <2>2. IsTold(r)' <=> IsTold(r)
    BY <1>1 DEF IsTold
  <2>3. ASSUME IsTold(r) PROVE ToldOK(r)'
    <3>0. ToldOK(r)
      BY AnswerParts
    <3>1. \A u \in tokens' : u.token = Told(r).token <=> EncodedPaymentID[u.id] = Told(r).id
      BY <1>2, <2>3, <3>0 DEF ToldOK
    <3>2. pc[r] = "respond" => \E u \in tokens' : u.token = Told(r).token
      BY <2>3, PendingTokenStays
    <3>3. \E p \in payments' : p.ident = ident'[r] /\ Told(r).id = EncodedPaymentID[p.id]
      BY <1>1, <2>3, <3>0 DEF ToldOK, initVars
    <3>4. \A o \in Request : tx'[o].token # Told(r).token
      BY <1>1, <2>3, <3>0 DEF ToldOK, initVars
    <3> QED
      BY <1>1, <3>1, <3>2, <3>3, <3>4 DEF ToldOK, EncodedPaymentID
  <2> QED
    BY <2>1, <2>2, <2>3 DEF ToldOK
<1>4. ASSUME NEW r \in Request, NEW o \in Request, r # o PROVE ToldApart(r, o)'
  BY <1>1, <1>4, AnswerParts DEF ToldApart, IsTold
<1> QED
  BY <1>3, <1>4, AnswerWhole

\* After a crash nothing is pending, and what was told stays true.
LEMMA AnswerCrashStep ==
    ASSUME TypeOK, RetriesInv, AnswerInv, Crash
    PROVE  AnswerInv'
<1>1. /\ UNCHANGED <<ident, payments, tokens, answer>>
      /\ \A o \in Request : tx'[o] = NoRows
  BY DEF Crash
<1>2. NoRows.token = NoToken /\ NoAnswer.kind = "none"
  BY DEF NoRows, NoAnswer
<1>3. ASSUME NEW o \in Request
      PROVE  /\ pc'[o] \notin {"respond", "token"} /\ (pc'[o] # "done" => pc[o] # "done")
  BY <1>3 DEF Crash, RetriesInv, Actor
<1>4. ASSUME NEW o \in Request
      PROVE  /\ Told(o)' = Told(o) \/ Told(o)' = NoAnswer
             /\ PendingOK(o)'
  <2>1. PendingOK(o)
    BY AnswerParts
  <2>2. Told(o)' = answer[o]
    BY <1>1, <1>3 DEF Told
  <2>3. Told(o)' = Told(o) \/ Told(o)' = NoAnswer
    BY <2>1, <2>2 DEF Told, PendingOK
  <2> QED
    BY <1>1, <1>2, <1>3, <2>1, <2>3 DEF PendingOK, IdentTaken
<1> QED
  BY <1>1, <1>2, <1>3, <1>4, AnswerFrame

\* The answers stay true.
LEMMA AnswerStep ==
    TypeOK /\ RetriesInv /\ TxInv /\ IdInv /\ TokenInv /\ AnswerInv /\ CustomerInv /\ [Next]_vars => AnswerInv'
  BY NextCases, AnswerQuietStep, AnswerTokenStep, AnswerCommitStep, AnswerOtherStep, AnswerCrashStep

----------------------------------------------------------------------------
(* The customers.                                                          *)

\* Confirmations are for good.
LEMMA AnswersStay ==
    ASSUME TypeOK, AnswerInv, [Next]_vars, NEW r \in Request, answer[r].kind = "success"
    PROVE  answer'[r] = answer[r]
<1>1. pc[r] = "done"
  BY AnsweredIsTold
<1>2. UNCHANGED answer \/ \E o \in Request : WriteResponse(o)
  <2>1. OtherStep => UNCHANGED answer
    BY OtherStepFrame DEF initVars
  <2>2. \A o \in Request : Refuse(o) \/ Fail(o) \/ DuplicateIdent(o) \/ Retry(o) \/ Begin(o) => UNCHANGED answer
    BY DEF Refuse, Fail, DuplicateIdent, Return, Retry, Begin, initVars
  <2>3. \A o \in Request : \/ CreatePayment(o) \/ RegenerateToken(o) \/ CreatePaymentToken(o)
                           \/ Commit(o) \/ CommitUnknown(o)
                           => UNCHANGED answer
    BY DEF CreatePayment, RegenerateToken, CreatePaymentToken, Commit, CommitUnknown
  <2>4. Crash => UNCHANGED answer
    BY DEF Crash
  <2> QED
    BY <2>1, <2>2, <2>3, <2>4, NextCases
<1>3. ASSUME NEW o \in Request, WriteResponse(o) PROVE answer'[r] = answer[r]
  BY <1>1, <1>3 DEF WriteResponse, Goto, TypeOK
<1> QED
  BY <1>2, <1>3

\* The steps of requests and of time, and a crash, move no customer on.
LEMMA CustomerFrame ==
    ASSUME TypeOK, [Next]_vars
    PROVE  \/ \E c \in Customer : CustomerNext(c)
           \/ /\ UNCHANGED <<brought, cookie, late>>
              /\ \A c \in Customer : \/ pc'[c] = pc[c] /\ held'[c] = held[c]
                                     \/ pc'[c] \in {"start", "done", "lost"} /\ held'[c] = 0
<1> USE SetupAssumption
<1>1. ASSUME NEW r \in Request,
             \/ Refuse(r) \/ Begin(r) \/ Fail(r) \/ Retry(r)
             \/ CreatePayment(r) \/ DuplicateIdent(r)
             \/ RegenerateToken(r) \/ CreatePaymentToken(r)
             \/ Commit(r) \/ CommitUnknown(r) \/ WriteResponse(r)
      PROVE  UNCHANGED customerVars /\ \A c \in Customer : pc'[c] = pc[c]
  <2>1. \A c \in Customer : c # r
    BY <1>1
  <2>2. UNCHANGED customerVars
    BY <1>1 DEF Refuse, Fail, DuplicateIdent, Return, Retry, Begin, RegenerateToken, Commit, CommitUnknown,
         CreatePayment, CreatePaymentToken, WriteResponse
  <2>3. UNCHANGED pc \/ \E l : pc' = [pc EXCEPT ![r] = l]
    BY <1>1 DEF Refuse, Fail, DuplicateIdent, Return, Retry, Begin, RegenerateToken, Commit, CommitUnknown,
         CreatePayment, CreatePaymentToken, WriteResponse, Goto
  <2> QED
    BY <2>1, <2>2, <2>3 DEF TypeOK, Actor
<1>2. CASE UNCHANGED vars
  BY <1>2 DEF vars, customerVars
<1>3. ASSUME NEW u \in tokens, TokenTooOld(u) PROVE UNCHANGED <<pc, customerVars>>
  BY <1>3 DEF TokenTooOld
<1>4. ASSUME Crash
      PROVE  /\ UNCHANGED <<brought, cookie, late>>
             /\ \A c \in Customer : pc'[c] \in {"start", "done", "lost"} /\ held'[c] = 0
  BY <1>4 DEF Crash, Actor
<1> QED
  BY <1>1, <1>2, <1>3, <1>4 DEF Next, CustomerNext, customerVars

\* What a customer finds is the payment of the token it brought.
LEMMA FoundIsOwned ==
    ASSUME TypeOK, TokenInv, AnswerInv, CustomerInv, NEW c \in Customer, brought[c] # NoToken,
           NEW u \in tokens, u.token = brought[c]
    PROVE  Owns(c, u.id)
<1>1. PICK r \in Request : /\ answer[r].kind = "success" /\ answer[r].token = brought[c]
                           /\ Told(r) = answer[r] /\ IsTold(r)
  BY BroughtIsTold
<1> QED
  BY <1>1, AnswerParts DEF ToldOK, Owns

\* A customer holds the payment of the token it brought, step by step.
LEMMA CustomerInvStep ==
    TypeOK /\ TokenInv /\ AnswerInv /\ CustomerInv /\ [Next]_vars => CustomerInv'
<1> SUFFICES ASSUME TypeOK, TokenInv, AnswerInv, CustomerInv, [Next]_vars PROVE CustomerInv'
  OBVIOUS
<1> USE SetupAssumption
<1>1. \A r \in Request : answer[r].kind = "success" => answer'[r] = answer[r]
  BY AnswersStay
<1>2. \A id : \A c \in Customer : Owns(c, id) /\ brought'[c] = brought[c] => Owns(c, id)'
  BY <1>1 DEF Owns, EncodedPaymentID
<1>3. ASSUME UNCHANGED <<brought, cookie, late>>,
             \A c \in Customer : \/ pc'[c] = pc[c] /\ held'[c] = held[c]
                                 \/ pc'[c] \in {"start", "done", "lost"} /\ held'[c] = 0
      PROVE  CustomerInv'
  BY <1>1, <1>2, <1>3 DEF CustomerInv
<1>4. ASSUME NEW c \in Customer, RefuseCustomer(c) \/ Redirect(c) \/ RedirectUnknown(c) PROVE CustomerInv'
  BY <1>3, <1>4 DEF RefuseCustomer, Redirect, RedirectUnknown, CustomerDone, TypeOK, Actor
<1>5. ASSUME NEW c \in Customer, Arrive(c) PROVE CustomerInv'
  <2>1. PICK r \in Request : answer[r].kind = "success" /\ brought' = [brought EXCEPT ![c] = answer[r].token]
    BY <1>5 DEF Arrive
  <2>2. UNCHANGED <<pc, held, cookie, answer>> /\ brought[c] = NoToken
    BY <1>5 DEF Arrive, initVars
  <2>3. held[c] = 0 /\ cookie[c] = 0
    BY <2>2 DEF CustomerInv
  <2>4. \A d \in Customer : brought'[d] = IF d = c THEN answer[r].token ELSE brought[d]
    BY <2>1 DEF TypeOK
  <2>5. Told(r) = answer[r] /\ IsTold(r)
    BY <2>1, AnsweredIsTold
  <2>6. answer[r].token # NoToken
    BY <2>5, ToldTokens
  <2> QED
    BY <1>2, <2>1, <2>2, <2>3, <2>4, <2>6 DEF CustomerInv
<1>6. ASSUME NEW c \in Customer, FindPayment(c) PROVE CustomerInv'
  <2>1. /\ brought[c] # NoToken /\ pc[c] = "start" /\ pc' = [pc EXCEPT ![c] = "found"]
        /\ UNCHANGED <<brought, cookie, answer>>
    BY <1>6 DEF FindPayment, Goto, initVars
  <2>2. PICK u \in tokens : u.token = brought[c] /\ held' = [held EXCEPT ![c] = u.id]
    BY <1>6 DEF FindPayment, PaymentByToken
  <2>3. u.id # 0 /\ \A d \in Customer : held'[d] = IF d = c THEN u.id ELSE held[d]
    BY <2>2 DEF TypeOK, PaymentId
  <2>4. \A d \in Customer : pc'[d] = IF d = c THEN "found" ELSE pc[d]
    BY <2>1 DEF TypeOK, Actor
  <2>5. Owns(c, u.id)
    BY <2>1, <2>2, FoundIsOwned
  <2> QED
    BY <1>1, <1>2, <2>1, <2>3, <2>4, <2>5 DEF CustomerInv
<1>7. ASSUME NEW c \in Customer, DeletePaymentToken(c) PROVE CustomerInv'
  <2>1. /\ pc[c] = "found" /\ UNCHANGED <<brought, held, answer>>
        /\ \A d \in Customer : d # c => pc'[d] = pc[d] /\ cookie'[d] = cookie[d]
    BY <1>7 DEF DeletePaymentToken, Goto, initVars, TypeOK, Actor
  <2>2. held[c] # 0 /\ brought[c] # NoToken
    BY <2>1 DEF CustomerInv
  <2> QED
    BY <1>1, <1>2, <2>1, <2>2 DEF CustomerInv
<1>8. ASSUME NEW c \in Customer, RetryCustomer(c) PROVE CustomerInv'
  <2>1. /\ UNCHANGED <<brought, held, cookie, answer>>
        /\ \A d \in Customer : pc'[d] = IF d = c THEN "start" ELSE pc[d]
    BY <1>8 DEF RetryCustomer, initVars, customerVars, TypeOK, Actor
  <2> QED
    BY <1>1, <1>2, <2>1 DEF CustomerInv
<1> QED
  BY <1>3, <1>4, <1>5, <1>6, <1>7, <1>8, CustomerFrame DEF CustomerNext

\* What was redeemed or is too old stays so, and nobody late gets hold of it.
LEMMA SpentStep ==
    TypeOK /\ TxInv /\ IdInv /\ TokenInv /\ AnswerInv /\ CustomerInv /\ SpentInv /\ [Next]_vars => SpentInv'
<1> SUFFICES ASSUME TypeOK, TxInv, IdInv, TokenInv, AnswerInv, CustomerInv, SpentInv, [Next]_vars
             PROVE  SpentInv'
  OBVIOUS
<1>1. ASSUME UNCHANGED <<payments, tokens, spent, late, cookie>>,
             \A c \in Customer : held'[c] \in {0, held[c]}
      PROVE  SpentInv'
  <2>1. \A c \in Customer : 0 \notin late[c]
    BY DEF TypeOK, PaymentId
  <2> QED
    BY <1>1, <2>1 DEF SpentInv
<1>2. ASSUME NEW r \in Request,
             \/ Refuse(r) \/ Fail(r) \/ DuplicateIdent(r) \/ Retry(r) \/ Begin(r) \/ RegenerateToken(r)
             \/ WriteResponse(r) \/ (CommitUnknown(r) /\ ~CommitRows(r))
             \/ CreatePayment(r) \/ CreatePaymentToken(r)
      PROVE  SpentInv'
  BY <1>1, <1>2, NoCommitFrame DEF CreatePayment, customerVars
<1>3. ASSUME NEW r \in Request, Commit(r) \/ CommitUnknown(r), CommitRows(r) PROVE SpentInv'
  <2> DEFINE new == [token |-> tx[r].token, id |-> tx[r].id, fresh |-> TRUE]
             row == [id |-> tx[r].id, ident |-> ident[r]]
  <2>1. /\ payments' = payments \cup {row} /\ tokens' = tokens \cup {new}
        /\ UNCHANGED <<spent, held, late, cookie>> /\ tx[r].id # 0
    BY <1>3, CommitFrame DEF customerVars
  <2>2. new.id = tx[r].id
    OBVIOUS
  <2> HIDE DEF new, row
  <2>3. tx[r].id \notin spent
    BY <2>1 DEF SpentInv, IdInv
  <2> QED
    BY <2>1, <2>2, <2>3 DEF SpentInv
<1>4. CASE Crash
  BY <1>1, <1>4 DEF Crash
<1>5. ASSUME NEW u \in tokens, TokenTooOld(u) PROVE SpentInv'
  <2> DEFINE old == [u EXCEPT !.fresh = FALSE]
  <2>1. /\ tokens' = (tokens \ {u}) \cup {old} /\ spent' = spent \cup {u.id}
        /\ UNCHANGED <<payments, held, late, cookie>>
    BY <1>5 DEF TokenTooOld, initVars, customerVars
  <2>2. old.fresh = FALSE
    BY DEF TypeOK
  <2> HIDE DEF old
  <2>3. \A w \in tokens' : w.fresh => w \in tokens /\ w # u /\ w.id # u.id
    BY <2>1, <2>2 DEF TokenInv
  <2>4. \E p \in payments : p.id = u.id
    BY DEF TokenInv
  <2> QED
    BY <2>1, <2>3, <2>4 DEF SpentInv
<1>6. ASSUME NEW c \in Customer, Arrive(c) PROVE SpentInv'
  <2>1. /\ brought[c] = NoToken /\ late' = [late EXCEPT ![c] = spent]
        /\ UNCHANGED <<payments, tokens, spent, held, cookie>>
    BY <1>6 DEF Arrive, initVars
  <2>2. held[c] = 0 /\ cookie[c] = 0 /\ 0 \notin spent
    BY <2>1 DEF CustomerInv, TypeOK, PaymentId
  <2>3. \A d \in Customer : late'[d] = IF d = c THEN spent ELSE late[d]
    BY <2>1 DEF TypeOK
  <2> QED
    BY <2>1, <2>2, <2>3 DEF SpentInv
<1>7. ASSUME NEW c \in Customer, FindPayment(c) PROVE SpentInv'
  <2>1. PICK u \in tokens : u.fresh /\ held' = [held EXCEPT ![c] = u.id]
    BY <1>7 DEF FindPayment, PaymentByToken
  <2>2. UNCHANGED <<payments, tokens, spent, late, cookie>>
    BY <1>7 DEF FindPayment, initVars
  <2>3. \A d \in Customer : held'[d] = IF d = c THEN u.id ELSE held[d]
    BY <2>1 DEF TypeOK
  <2>4. u.id \notin late[c]
    BY <2>1 DEF SpentInv
  <2> QED
    BY <2>2, <2>3, <2>4 DEF SpentInv
<1>8. ASSUME NEW c \in Customer, RefuseCustomer(c) \/ RetryCustomer(c) PROVE SpentInv'
  BY <1>1, <1>8 DEF RefuseCustomer, RetryCustomer, CustomerDone, initVars, customerVars, TypeOK
<1>9. ASSUME NEW c \in Customer, DeletePaymentToken(c) PROVE SpentInv'
  <2>1. /\ cookie' = [cookie EXCEPT ![c] = held[c]]
        /\ UNCHANGED <<payments, tokens, spent, held, late>>
    BY <1>9 DEF DeletePaymentToken, initVars
  <2> QED
    BY <2>1 DEF SpentInv, TypeOK
<1>10. ASSUME NEW c \in Customer, Redirect(c) \/ RedirectUnknown(c) PROVE SpentInv'
  <2>1. /\ pc[c] = "deleted" /\ tokens' = {u \in tokens : u.token # brought[c]}
        /\ spent' \in {spent, spent \cup {held[c]}} /\ UNCHANGED <<payments, late, cookie>>
        /\ held' = [held EXCEPT ![c] = 0]
    BY <1>10 DEF Redirect, RedirectUnknown, CustomerDone, initVars
  <2>2. held[c] # 0 /\ Owns(c, held[c]) /\ held[c] \in PaymentId
    BY <2>1 DEF CustomerInv, TypeOK
  <2>3. PICK r \in Request : /\ answer[r].kind = "success" /\ answer[r].token = brought[c]
                             /\ answer[r].id = EncodedPaymentID[held[c]]
    BY <2>2 DEF Owns
  <2>4. Told(r) = answer[r] /\ IsTold(r)
    BY <2>3, AnsweredIsTold
  <2>5. ToldOK(r)
    BY AnswerParts
  <2>6. \A u \in tokens : u.id = held[c] => u.token = brought[c]
    BY <2>3, <2>4, <2>5 DEF ToldOK
  <2>7. \E p \in payments : p.id = held[c]
    <3>1. PICK p \in payments : Told(r).id = EncodedPaymentID[p.id]
      BY <2>4, <2>5 DEF ToldOK
    <3> QED
      BY <2>2, <2>3, <2>4, <3>1, EncodingApart DEF TypeOK
  <2>8. \A d \in Customer : held'[d] \in {0, held[d]} /\ 0 \notin late[d]
    BY <2>1 DEF TypeOK, PaymentId
  <2> QED
    BY <2>1, <2>6, <2>7, <2>8 DEF SpentInv
<1>11. CASE UNCHANGED vars
  BY <1>1, <1>11 DEF vars, initVars, customerVars
<1> QED
  BY <1>2, <1>3, <1>4, <1>5, <1>6, <1>7, <1>8, <1>9, <1>10, <1>11, NextCases DEF OtherStep, CustomerNext

----------------------------------------------------------------------------
(* The theorems.                                                           *)

\* The initial states satisfy the invariant.
LEMMA InitInv == Init => TypeOK /\ SetupInv
<1> SUFFICES ASSUME Init PROVE TypeOK /\ SetupInv
  OBVIOUS
<1> USE SetupAssumption
<1>0. /\ NoRows \in Rows /\ NoAnswer \in Answer /\ NoRows.id = 0 /\ NoRows.token = NoToken
      /\ NoAnswer.kind = "none" /\ Request \subseteq Actor /\ Customer \subseteq Actor
  BY DEF NoRows, Rows, NoAnswer, Answer, Actor
<1>1. TypeOK
  BY <1>0 DEF Init, TypeOK, PC
<1>2. RetriesInv /\ TxInv /\ IdInv /\ TokenInv /\ CustomerInv /\ SpentInv
  BY <1>0 DEF Init, RetriesInv, TxInv, IdInv, TokenInv, CustomerInv, SpentInv
<1>3. AnswerInv
  <2>1. \A r \in Request : Told(r) = NoAnswer /\ ~IsTold(r)
    BY <1>0 DEF Init, Told, IsTold
  <2> QED
    BY <1>0, <2>1 DEF Init, AnswerInv
<1> QED
  BY <1>1, <1>2, <1>3 DEF SetupInv

\* The invariant holds always.
THEOREM Invariance == Spec => [](TypeOK /\ SetupInv)
<1>1. TypeOK /\ SetupInv /\ [Next]_vars => (TypeOK /\ SetupInv)'
  BY TypeStep, RetriesStep, TxStep, IdStep, TokenStep, AnswerStep, CustomerInvStep, SpentStep DEF SetupInv
<1> QED
  BY InitInv, <1>1, PTL DEF Spec

\* Every variable keeps its type, whatever the requests do.
THEOREM TypeCorrect == Spec => []TypeOK
  BY Invariance, PTL

\* A token opens a payment once: who arrives after it was redeemed or expired
\* gets no cookie (web/payment.go:96-104).
THEOREM RedeemedOnce == Spec => []OneTimeToken
<1>1. SetupInv => OneTimeToken
  BY DEF SetupInv, SpentInv, OneTimeToken
<1> QED
  BY <1>1, Invariance, PTL

\* GetPayment finds what an answer of InitPayment named, for every key whose xor is
\* not negative (get_payment.go:86, 127, 145).
THEOREM AnswersLookUp == IDEncKey.xor >= 0 => (Spec => []AnswerCanBeLookedUp)
<1> SUFFICES ASSUME IDEncKey.xor >= 0 PROVE Spec => []AnswerCanBeLookedUp
  OBVIOUS
<1>1. TypeOK /\ SetupInv => AnswerCanBeLookedUp
  <2> SUFFICES ASSUME TypeOK, SetupInv, NEW r \in Request
               PROVE  /\ answer[r].kind = "success" =>
                             {p.ident : p \in GetPaymentByID(answer[r].id)} = {ident[r]}
                      /\ answer[r].kind = "conflict" => GetPaymentByIdent(answer[r].ident) # {}
    BY DEF AnswerCanBeLookedUp
  <2>1. AnswerInv /\ IdInv
    BY DEF SetupInv
  <2>2. ASSUME answer[r].kind = "success"
        PROVE  {p.ident : p \in GetPaymentByID(answer[r].id)} = {ident[r]}
    <3>1. Told(r) = answer[r] /\ IsTold(r) /\ ToldOK(r)
      BY <2>1, <2>2, AnsweredIsTold, AnswerParts
    <3>2. PICK p \in payments : p.ident = ident[r] /\ answer[r].id = EncodedPaymentID[p.id]
      BY <3>1 DEF ToldOK
    <3>3. DecodedPaymentID[answer[r].id] = p.id
      BY <3>2, Encoding DEF TypeOK
    <3>4. ParsePaymentIDStr(answer[r].id) = {answer[r].id}
      BY <3>2, Encoding, EncodingParsed DEF TypeOK
    <3>5. \A q \in payments : q.id = p.id <=> q = p
      BY <2>1 DEF IdInv
    <3>6. GetPaymentByID(answer[r].id) = {p}
      BY <3>2, <3>3, <3>4, <3>5 DEF GetPaymentByID
    <3> QED
      BY <3>2, <3>6
  <2>3. ASSUME answer[r].kind = "conflict" PROVE GetPaymentByIdent(answer[r].ident) # {}
    <3>1. answer[r] # NoAnswer
      BY <2>3 DEF NoAnswer
    <3>2. Told(r) = answer[r] /\ PendingOK(r)
      BY <2>1, <3>1, AnswerParts DEF PendingOK, Told
    <3> QED
      BY <2>3, <3>2 DEF PendingOK, IdentTaken, GetPaymentByIdent
  <2> QED
    BY <2>2, <2>3
<1> QED
  BY <1>1, Invariance, PTL

\* With a negative xor nothing GetPayment is asked for by the id of an answer is
\* found: the answer's id cannot be parsed (payment_id.go:26-32).
THEOREM NegativeNotLookedUp ==
    IDEncKey.xor < 0 =>
        (Spec => [](\A r \in Request : answer[r].kind = "success" => GetPaymentByID(answer[r].id) = {}))
<1> DEFINE NoneFound == \A r \in Request : answer[r].kind = "success" => GetPaymentByID(answer[r].id) = {}
<1> SUFFICES ASSUME IDEncKey.xor < 0 PROVE Spec => []NoneFound
  OBVIOUS
<1>1. ASSUME TypeOK, SetupInv, NEW r \in Request, answer[r].kind = "success"
      PROVE  GetPaymentByID(answer[r].id) = {}
  <2>1. AnswerInv /\ IdInv
    BY <1>1 DEF SetupInv
  <2>2. Told(r) = answer[r] /\ IsTold(r) /\ ToldOK(r)
    BY <1>1, <2>1, AnsweredIsTold, AnswerParts
  <2>3. PICK p \in payments : answer[r].id = EncodedPaymentID[p.id]
    BY <2>2 DEF ToldOK
  <2>4. p.id \in Word
    BY <1>1, Encoding DEF TypeOK
  <2>5. ~(IDEncKey.xor >= 0)
    BY SetupAssumption, Words DEF Key, Int64
  <2>6. ParsePaymentIDStr(answer[r].id) = {}
    BY <2>3, <2>4, <2>5, EncodingParsed
  <2> QED
    BY <2>6 DEF GetPaymentByID
<1>2. TypeOK /\ SetupInv => NoneFound
  BY <1>1
<1> QED
  BY <1>2, Invariance, PTL

\* Whatever the width, the key and the number: a displayed id leads back to its
\* payment if the xor is not negative, and nowhere if it is, never to another
\* payment (payment_id.go:26-32, 88-117).
THEOREM IdsDecodable == Spec => []IdsRoundTrip
<1>1. TypeOK => IdsRoundTrip
  <2> SUFFICES ASSUME TypeOK, NEW p \in payments, NEW i \in p.id..Max PROVE i \in DecodableIDs
    BY DEF IdsRoundTrip
  <2>1. p.id \in PaymentId /\ Max \in Nat
    BY Words, SetupAssumption DEF TypeOK
  <2>2. i \in Word
    BY <2>1 DEF Word, PaymentId
  <2>3. ASSUME NEW key \in Key PROVE LeadsTo(key, i) = IF key.xor >= 0 THEN {i} ELSE {}
    <3>1. /\ Hide(key, i) \in Int64 /\ Show(key, Hide(key, i)) = i
          /\ Hide(key, i) >= 0 <=> key.xor >= 0
      BY <2>2, HideAndShow
    <3>2. Hide(key, i) \in Nat <=> key.xor >= 0
      BY <2>1, <3>1 DEF Int64
    <3>3. ParsePaymentIDStr(Hide(key, i)) = IF key.xor >= 0 THEN {Hide(key, i)} ELSE {}
      BY <3>2 DEF ParsePaymentIDStr
    <3> QED
      BY <3>1, <3>3 DEF LeadsTo
  <2> QED
    BY <2>2, <2>3 DEF DecodableIDs
<1> QED
  BY <1>1, TypeCorrect, PTL

----------------------------------------------------------------------------
(* Creating payments implements the registry.                              *)

\* The registry moves only with the rows and the answers.
LEMMA RegistryFrame ==
    ASSUME UNCHANGED <<payments, configured, tokens, answer>>
    PROVE  UNCHANGED Registry!vars
<1>1. UNCHANGED KnownPayments
  BY DEF KnownPayments
<1>2. UNCHANGED ValidTokens
  BY DEF ValidTokens
<1>3. UNCHANGED KnownAnswers
  BY DEF KnownAnswers, DecodedPaymentID
<1> QED
  BY <1>1, <1>2, <1>3 DEF Registry!vars

\* The registry knows every payment by its id and its ident.
LEMMA KnownIsThere == \A p \in payments : \E k \in KnownPayments : k.id = p.id /\ k.ident = p.ident
<1> SUFFICES ASSUME NEW p \in payments PROVE \E k \in KnownPayments : k.id = p.id /\ k.ident = p.ident
  OBVIOUS
<1> DEFINE k == [id |-> p.id, ident |-> p.ident, configured |-> p.id \in configured]
<1>1. k \in KnownPayments
  BY Zenon DEF KnownPayments
<1>2. k.id = p.id /\ k.ident = p.ident
  OBVIOUS
<1> QED
  BY <1>1, <1>2

\* A commit registers a payment.
LEMMA CommitRegisters ==
    ASSUME TypeOK, TxInv, IdInv, TokenInv, NEW r \in Request,
           Commit(r) \/ CommitUnknown(r), CommitRows(r)
    PROVE  Registry!Register
<1> DEFINE row == [id |-> tx[r].id, ident |-> ident[r]]
           new == [token |-> tx[r].token, id |-> tx[r].id, fresh |-> TRUE]
           known == [id |-> tx[r].id, ident |-> ident[r], configured |-> TRUE]
           valid == [token |-> tx[r].token, id |-> tx[r].id]
<1>1. /\ payments' = payments \cup {row} /\ configured' = configured \cup {tx[r].id}
      /\ tokens' = tokens \cup {new} /\ UNCHANGED answer
      /\ tx[r].id \in PaymentId /\ tx[r].token \in TokenName /\ tx[r].id # 0
  BY CommitFrame
<1>2. ident[r] \in Ident
  BY DEF TypeOK
<1>3. \A p \in payments : p.id # tx[r].id /\ p.ident # ident[r]
  BY <1>1 DEF IdInv
<1>4. KnownPayments' = KnownPayments \cup {known}
  <2>1. \A p \in payments : p.id \in configured' <=> p.id \in configured
    BY <1>1, <1>3
  <2>2. KnownPayments' = {[id |-> p.id, ident |-> p.ident, configured |-> p.id \in configured'] : p \in payments'}
    BY DEF KnownPayments
  <2>3. [id |-> row.id, ident |-> row.ident, configured |-> row.id \in configured'] = known
    BY <1>1
  <2> HIDE DEF row, known
  <2>4. KnownPayments' = {[id |-> p.id, ident |-> p.ident, configured |-> p.id \in configured'] : p \in payments}
                         \cup {known}
    BY <1>1, <2>2, <2>3
  <2>5. {[id |-> p.id, ident |-> p.ident, configured |-> p.id \in configured'] : p \in payments} = KnownPayments
    BY <2>1 DEF KnownPayments
  <2> QED
    BY <2>4, <2>5
<1>5. ValidTokens' = ValidTokens \cup {valid}
  <2>1. new.fresh = TRUE /\ [token |-> new.token, id |-> new.id] = valid
    OBVIOUS
  <2> HIDE DEF new, valid
  <2> QED
    BY <1>1, <2>1 DEF ValidTokens
<1>6. \A p \in KnownPayments : p.id # tx[r].id /\ p.ident # ident[r]
  BY <1>3 DEF KnownPayments
<1>7. \A u \in ValidTokens : u.token # tx[r].token
  BY DEF ValidTokens, TokenInv
<1>8. UNCHANGED KnownAnswers
  BY <1>1 DEF KnownAnswers, DecodedPaymentID
<1> QED
  BY <1>1, <1>2, <1>4, <1>5, <1>6, <1>7, <1>8 DEF Registry!Register

\* An answer tells the truth.
LEMMA ResponseAnswers ==
    ASSUME TypeOK, IdInv, AnswerInv, NEW r \in Request, WriteResponse(r)
    PROVE  Registry!Confirm(r) \/ Registry!Conflict(r) \/ Registry!Error(r)
<1>1. /\ pc[r] = "respond" /\ answer' = [answer EXCEPT ![r] = resp[r]]
      /\ UNCHANGED <<payments, configured, tokens>>
  BY DEF WriteResponse, Goto
<1>2. /\ answer[r] = NoAnswer /\ resp[r] \in Answer /\ resp[r] # NoAnswer /\ Told(r) = resp[r]
      /\ PendingOK(r) /\ ToldOK(r)
  BY <1>1, AnswerParts DEF PendingOK, Told, TypeOK
<1>3. UNCHANGED KnownPayments /\ UNCHANGED ValidTokens
  BY <1>1 DEF KnownPayments, ValidTokens
<1>4. KnownAnswers[r] = Registry!None
  BY <1>2 DEF KnownAnswers, NoAnswer, Registry!None
<1> DEFINE shown == IF resp[r].kind = "success"
                    THEN [resp[r] EXCEPT !.id = DecodedPaymentID[@]] ELSE resp[r]
<1>5. KnownAnswers' = [KnownAnswers EXCEPT ![r] = shown]
  <2>1. \A o \in Request : answer'[o] = IF o = r THEN resp[r] ELSE answer[o]
    BY <1>1 DEF TypeOK
  <2>2. KnownAnswers' = [o \in Request |-> IF answer'[o].kind = "success"
                                           THEN [answer'[o] EXCEPT !.id = DecodedPaymentID[@]] ELSE answer'[o]]
    BY DEF KnownAnswers, DecodedPaymentID
  <2>3. \A o \in Request : KnownAnswers'[o] = IF o = r THEN shown ELSE KnownAnswers[o]
    BY <2>1, <2>2 DEF KnownAnswers
  <2> HIDE DEF shown
  <2> QED
    BY <2>2, <2>3 DEF KnownAnswers
<1>6. CASE resp[r] = Error
  <2>1. shown = [kind |-> "error"]
    BY <1>6 DEF Error
  <2> QED
    BY <1>3, <1>4, <1>5, <2>1 DEF Registry!Error
<1>7. CASE resp[r].kind = "conflict"
  <2>1. /\ resp[r] \in [kind : {"conflict"}, ident : Ident]
    BY <1>2, <1>7 DEF Answer, NoAnswer, Error
  <2>2. resp[r].ident = ident[r] /\ IdentTaken(r)
    BY <1>2, <1>7 DEF PendingOK
  <2>3. PICK p \in KnownPayments : p.ident = resp[r].ident
    BY <2>2, KnownIsThere DEF IdentTaken
  <2>4. shown = [kind |-> "conflict", ident |-> p.ident]
    BY <1>7, <2>1, <2>3
  <2> HIDE DEF shown
  <2> QED
    BY <1>3, <1>4, <1>5, <2>4 DEF Registry!Conflict
<1>8. CASE resp[r].kind = "success"
  <2>1. resp[r] \in [kind : {"success"}, id : Int64, token : TokenName]
    BY <1>2, <1>8 DEF Answer, NoAnswer, Error
  <2>2. PICK p \in payments : resp[r].id = EncodedPaymentID[p.id]
    BY <1>2, <1>8 DEF ToldOK, IsTold
  <2>3. p.id \in PaymentId /\ DecodedPaymentID[resp[r].id] = p.id
    BY <2>2, Encoding DEF TypeOK
  <2>4. PICK k \in KnownPayments : k.id = p.id
    BY KnownIsThere
  <2>5. shown = [kind |-> "success", id |-> k.id, token |-> resp[r].token]
    BY <1>8, <2>1, <2>3, <2>4
  <2> HIDE DEF shown
  <2>6. \A u \in ValidTokens : u.token = resp[r].token => u.id = k.id
    <3>1. \A u \in tokens : u.token = resp[r].token => EncodedPaymentID[u.id] = EncodedPaymentID[p.id]
      BY <1>2, <1>8, <2>2 DEF ToldOK, IsTold
    <3>2. \A u \in tokens : u.token = resp[r].token => u.id = p.id
      BY <2>3, <3>1, EncodingApart DEF TypeOK
    <3> QED
      BY <2>4, <3>2 DEF ValidTokens
  <2>7. ASSUME NEW o \in Request, KnownAnswers[o].kind = "success" PROVE KnownAnswers[o].id # k.id
    <3>1. answer[o].kind = "success"
      BY <2>7 DEF KnownAnswers
    <3>2. pc[o] = "done" /\ Told(o) = answer[o] /\ IsTold(o)
      BY <3>1, AnsweredIsTold
    <3>3. answer[o].id # EncodedPaymentID[p.id]
      BY <1>1, <1>2, <1>8, <2>2, <3>2, AnswerParts DEF ToldApart, IsTold
    <3>4. PICK q \in payments : answer[o].id = EncodedPaymentID[q.id]
      BY <3>2, AnswerParts DEF ToldOK
    <3>5. DecodedPaymentID[answer[o].id] = q.id /\ q.id # p.id
      BY <3>3, <3>4, Encoding DEF TypeOK
    <3>6. answer[o] \in [kind : {"success"}, id : Int64, token : TokenName]
      BY <3>1 DEF TypeOK, Answer, NoAnswer, Error
    <3>7. KnownAnswers[o] = [answer[o] EXCEPT !.id = DecodedPaymentID[@]]
      BY <3>1 DEF KnownAnswers
    <3>8. KnownAnswers[o].id = DecodedPaymentID[answer[o].id]
      BY <3>6, <3>7
    <3> QED
      BY <2>4, <3>5, <3>8
  <2>8. resp[r].token \in TokenName
    BY <2>1
  <2> QED
    BY <1>3, <1>4, <1>5, <2>4, <2>5, <2>6, <2>7, <2>8 DEF Registry!Confirm, Registry!Confirmation
<1> QED
  BY <1>2, <1>6, <1>7, <1>8 DEF Answer

\* What takes the token of a payment, or makes it stale, consumes it.
LEMMA TokenIsConsumed ==
    ASSUME TypeOK, TokenInv, NEW u \in tokens, UNCHANGED <<payments, configured, answer>>,
           {w \in tokens' : w.fresh} = {w \in tokens : w.fresh} \ {u}
    PROVE  [Registry!Next]_(Registry!vars)
<1>1. UNCHANGED KnownPayments
  BY DEF KnownPayments
<1>2. UNCHANGED KnownAnswers
  BY DEF KnownAnswers, DecodedPaymentID
<1>3. ValidTokens' = {[token |-> w.token, id |-> w.id] : w \in {w \in tokens : w.fresh} \ {u}}
  BY DEF ValidTokens
<1>4. CASE u.fresh
  <2> DEFINE v == [token |-> u.token, id |-> u.id]
  <2>1. v \in ValidTokens
    BY <1>4 DEF ValidTokens
  <2>2. \A w \in tokens : w # u => [token |-> w.token, id |-> w.id] # v
    BY DEF TokenInv
  <2> HIDE DEF v
  <2>3. ValidTokens' = ValidTokens \ {v}
    <3>1. v = [token |-> u.token, id |-> u.id]
      BY DEF v
    <3> QED
      BY <1>3, <2>2, <3>1 DEF ValidTokens
  <2> QED
    BY <1>1, <1>2, <2>1, <2>3 DEF Registry!Next, Registry!Consume
<1>5. CASE ~u.fresh
  <2>1. {w \in tokens : w.fresh} \ {u} = {w \in tokens : w.fresh}
    BY <1>5
  <2>2. UNCHANGED ValidTokens
    BY <1>3, <2>1 DEF ValidTokens
  <2> QED
    BY <1>1, <1>2, <2>2 DEF Registry!vars
<1> QED
  BY <1>4, <1>5

\* Customers and time only consume tokens.
LEMMA OthersConsume ==
    ASSUME TypeOK, TokenInv, OtherStep
    PROVE  [Registry!Next]_(Registry!vars)
<1>1. UNCHANGED <<payments, configured, answer>>
  BY OtherStepFrame DEF initVars
<1>2. CASE UNCHANGED tokens
  BY <1>1, <1>2, RegistryFrame
<1>3. ASSUME NEW u \in tokens, TokenTooOld(u) PROVE [Registry!Next]_(Registry!vars)
  <2> DEFINE old == [u EXCEPT !.fresh = FALSE]
  <2>1. tokens' = (tokens \ {u}) \cup {old} /\ old.fresh = FALSE
    BY <1>3 DEF TokenTooOld, TypeOK
  <2> HIDE DEF old
  <2>2. {w \in tokens' : w.fresh} = {w \in tokens : w.fresh} \ {u}
    BY <2>1
  <2> QED
    BY <1>1, <2>2, TokenIsConsumed
<1>4. ASSUME NEW c \in Customer, Redirect(c) \/ RedirectUnknown(c) PROVE [Registry!Next]_(Registry!vars)
  <2>1. tokens' = {w \in tokens : w.token # brought[c]}
    BY <1>4 DEF Redirect, RedirectUnknown
  <2>2. CASE \E u \in tokens : u.token = brought[c]
    <3>1. PICK u \in tokens : u.token = brought[c]
      BY <2>2
    <3>2. tokens' = tokens \ {u}
      BY <2>1, <3>1 DEF TokenInv
    <3>3. {w \in tokens' : w.fresh} = {w \in tokens : w.fresh} \ {u}
      BY <3>2
    <3> QED
      BY <1>1, <3>3, TokenIsConsumed
  <2>3. CASE \A u \in tokens : u.token # brought[c]
    BY <1>2, <2>1, <2>3
  <2> QED
    BY <2>2, <2>3
<1>5. ASSUME NEW c \in Customer, \/ Arrive(c) \/ FindPayment(c) \/ RefuseCustomer(c) \/ DeletePaymentToken(c)
                                 \/ RetryCustomer(c)
      PROVE  UNCHANGED tokens
  BY <1>5 DEF Arrive, FindPayment, RefuseCustomer, DeletePaymentToken, RetryCustomer
<1> QED
  BY <1>2, <1>3, <1>4, <1>5 DEF OtherStep, CustomerNext, vars

\* InitPayment creates payments whole and once per ident, whatever the retries,
\* crashes and lost commits, and its answers are true (init_payment.go:445).
THEOREM RefinesRegistry == Spec => ImplementsRegistry
<1>1. Init => Registry!Init
  <2> SUFFICES ASSUME Init PROVE Registry!Init
    OBVIOUS
  <2>1. KnownPayments = {} /\ ValidTokens = {}
    BY DEF Init, KnownPayments, ValidTokens
  <2>2. KnownAnswers = [r \in Request |-> Registry!None]
    BY DEF Init, KnownAnswers, NoAnswer, Registry!None
  <2> QED
    BY <2>1, <2>2 DEF Registry!Init
<1>2. TypeOK /\ SetupInv /\ [Next]_vars => [Registry!Next]_(Registry!vars)
  <2> SUFFICES ASSUME TypeOK, SetupInv, [Next]_vars PROVE [Registry!Next]_(Registry!vars)
    OBVIOUS
  <2> USE DEF SetupInv
  <2>1. CASE OtherStep
    BY <2>1, OthersConsume
  <2>2. CASE Crash
    BY <2>2, RegistryFrame DEF Crash
  <2>3. ASSUME NEW r \in Request, (Commit(r) \/ CommitUnknown(r)) /\ CommitRows(r) PROVE Registry!Next
    BY <2>3, CommitRegisters DEF Registry!Next
  <2>4. ASSUME NEW r \in Request, WriteResponse(r) PROVE Registry!Next
    BY <2>4, ResponseAnswers DEF Registry!Next
  <2>5. ASSUME NEW r \in Request,
               \/ Refuse(r) \/ Fail(r) \/ DuplicateIdent(r) \/ Retry(r) \/ Begin(r) \/ RegenerateToken(r)
               \/ (CommitUnknown(r) /\ ~CommitRows(r)) \/ CreatePayment(r) \/ CreatePaymentToken(r)
        PROVE  UNCHANGED <<payments, configured, tokens, answer>>
    <3>1. CASE CreatePayment(r) \/ CreatePaymentToken(r) \/ RegenerateToken(r) \/ Begin(r)
      BY <3>1 DEF CreatePayment, CreatePaymentToken, RegenerateToken, Begin, initVars
    <3>2. CASE Refuse(r) \/ Fail(r) \/ DuplicateIdent(r) \/ Retry(r)
      BY <3>2 DEF Refuse, Fail, DuplicateIdent, Return, Retry
    <3>3. CASE CommitUnknown(r) /\ ~CommitRows(r)
      BY <3>3 DEF CommitUnknown
    <3> QED
      BY <2>5, <3>1, <3>2, <3>3
  <2> QED
    BY <2>1, <2>2, <2>3, <2>4, <2>5, NextCases, RegistryFrame
<1> QED
  BY <1>1, <1>2, Invariance, PTL DEF Spec, ImplementsRegistry, Registry!Spec

=============================================================================
