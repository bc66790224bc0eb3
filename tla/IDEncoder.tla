----------------------------- MODULE IDEncoder -----------------------------
(***************************************************************************)
(* payment.IDEncoder hides the numbers of payments: ids are multiplied by  *)
(* a prime modulo a power of two and xored with a key.  The merchant sees  *)
(* the result as a string.  The code computes with 63 bits and a sign;     *)
(* Width is the number of bits here.                                       *)
(***************************************************************************)
EXTENDS Integers

CONSTANT Width   \* bits of an id without the sign, 63 in the code

ASSUME WidthAssumption == Width \in Nat \ {0}

\* the powers of two
pow2[w \in 0..Width] == IF w = 0 THEN 1 ELSE 2 * pow2[w - 1]

Max == pow2[Width] - 1   \* math.MaxInt64
Word == 0..Max

Int64 == -(Max + 1)..Max

\* Key pairs NewIDEncoder accepts: the first number has an inverse (before go1.14
\* GCD wants it positive too), the second is any.
Key == [prime : {q \in Int64 : \E i \in Word : (q * i) % (Max + 1) = 1}, xor : Int64]

\* xor[w]: of the w lowest bits, the last one first
xor[w \in 0..Width] ==
    [a \in Word |-> [b \in Word |->
        IF w = 0 THEN 0 ELSE ((a + b) % 2) + 2 * xor[w - 1][a \div 2][b \div 2]]]

\* big.Int is in two's complement: a negative number has the bits of its
\* complement flipped, and the result is negative if one of the two is.
bits(a) == IF a < 0 THEN -a - 1 ELSE a
Xor(a, b) == LET c == xor[Width][bits(a)][bits(b)]
             IN  IF (a < 0) <=> (b < 0) THEN c ELSE -c - 1

\* GCD's cofactor, reduced
inv(key) == CHOOSE i \in Word : (key.prime * i) % (Max + 1) = 1

\* Mutant: xor first.
HideXorFirst(key, i) == (Xor(i, key.xor) * key.prime) % (Max + 1)
Hide(key, i) == Xor((i * key.prime) % (Max + 1), key.xor)

Show(key, i) == (Xor(i, key.xor) * inv(key)) % (Max + 1)

\* Mutant: the sign is dropped.
ParseUnsigned(i) == {bits(i)}
\* String writes "project-id" and ParsePaymentIDStr splits that at every dash: the
\* numbers that come back for an id, none for a negative one (three parts).
ParsePaymentIDStr(i) == {i} \cap Nat
=============================================================================
