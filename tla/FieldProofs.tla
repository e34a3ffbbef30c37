---------------------------- MODULE FieldProofs -----------------------------
(****************************************************************************)
(* What the payload proofs and the stream proofs rest on: induction over    *)
(* numbers, the varints of a frame (frame.go), the fields and rows of       *)
(* fields of a payload (Payload), and did:keys, which are numbers in        *)
(* another base (identity.go).                                              *)
(*                                                                          *)
(* A loop of the code is a recursive function of the model.  What it        *)
(* computes is proved by induction on its length, from the least            *)
(* counterexample.  That there is one (NatIsWellOrdered) is an assumption   *)
(* of these lemmas; the two modules that extend this one prove it from the  *)
(* library of the prover, before the theorems.                              *)
(*                                                                          *)
(* A did:key is a number in another base, with its leading zeros (Conv),    *)
(* which is inverted by writing it in the first base (ConvInverse).  No     *)
(* did:key begins with another one (KeysArePrefixFree): one character more  *)
(* makes the number at least twice as large, while the numbers of two keys, *)
(* with the same codec in front, differ by less than a factor of two.       *)
(****************************************************************************)
EXTENDS Payload, TLAPS

-----------------------------------------------------------------------------
(* Induction over numbers, and functions defined by it.                     *)

(* A set of natural numbers that is not empty has a least element.          *)
NatIsWellOrdered ==
    \A T : T \subseteq Nat /\ T # {} => \E x \in T : \A y \in T : x <= y

(* A set that holds 0, and with a number below n the next one, holds 0 ..   *)
(* n.                                                                       *)
LEMMA Induction ==
    ASSUME NatIsWellOrdered,
           NEW n \in Nat, NEW P, 0 \in P, \A k \in 0 .. n - 1 : k \in P => k + 1 \in P
    PROVE  0 .. n \subseteq P
<1> DEFINE T == {k \in 0 .. n : k \notin P}
<1> SUFFICES ASSUME T # {} PROVE FALSE
  OBVIOUS
<1>0. T \subseteq Nat
  OBVIOUS
<1>1. PICK x \in T : \A y \in T : x <= y
  <2> HIDE DEF T
  <2> QED
    BY <1>0, Zenon DEF NatIsWellOrdered
<1>2. x \in Nat \ {0} /\ x <= n /\ x \notin P
  OBVIOUS
<1>3. x - 1 \in 0 .. n - 1 /\ ~(x <= x - 1) /\ (x - 1) + 1 = x
  BY <1>2
<1>4. x - 1 \in P
  BY <1>1, <1>3
<1> QED
  BY <1>2, <1>3, <1>4

(* A function that is defined from its value at one number for the next.    *)
IsRecursion(f, n, z, step) ==
    f = [i \in 0 .. n |-> IF i = 0 THEN z ELSE step[i][f[i - 1]]]

(* A function defined from its value at one number for the next exists.     *)
LEMMA Recursion ==
    ASSUME NatIsWellOrdered,
           NEW n \in Nat, NEW S, NEW z \in S, NEW step \in [1 .. n -> [S -> S]]
    PROVE  \E f \in [0 .. n -> S] : IsRecursion(f, n, z, step)
<1> DEFINE P == {m \in 0 .. n : \E f \in [0 .. m -> S] : IsRecursion(f, m, z, step)}
<1>1. 0 \in P
  <2> DEFINE f == [i \in 0 .. 0 |-> z]
  <2>1. f \in [0 .. 0 -> S] /\ IsRecursion(f, 0, z, step)
    BY DEF IsRecursion
  <2> QED
    BY <2>1
<1>2. ASSUME NEW k \in 0 .. n - 1, k \in P PROVE k + 1 \in P
  <2>1. PICK g \in [0 .. k -> S] : IsRecursion(g, k, z, step)
    BY <1>2
  <2> DEFINE f == [i \in 0 .. k + 1 |-> IF i = k + 1 THEN step[k + 1][g[k]] ELSE g[i]]
  <2>2. step[k + 1] \in [S -> S] /\ g[k] \in S
    OBVIOUS
  <2>3. f \in [0 .. k + 1 -> S]
    BY <2>2
  <2>4. \A i \in 0 .. k + 1 : f[i] = IF i = 0 THEN z ELSE step[i][f[i - 1]]
    <3> SUFFICES ASSUME NEW i \in 0 .. k + 1 PROVE f[i] = IF i = 0 THEN z ELSE step[i][f[i - 1]]
      OBVIOUS
    <3>1. CASE i = k + 1
      <4>1. i # 0 /\ i - 1 = k /\ k \in 0 .. k + 1 /\ k # k + 1
        BY <3>1
      <4> QED
        BY <3>1, <4>1
    <3>2. CASE i = 0
      BY <2>1, <3>2 DEF IsRecursion
    <3>3. CASE i \in 1 .. k
      <4>1. i \in 0 .. k /\ i # 0 /\ i - 1 \in 0 .. k + 1 /\ i - 1 # k + 1 /\ i # k + 1
        BY <3>3
      <4>2. g[i] = step[i][g[i - 1]]
        BY <2>1, <4>1 DEF IsRecursion
      <4> QED
        BY <4>1, <4>2
    <3> QED
      BY <3>1, <3>2, <3>3
  <2>5. IsRecursion(f, k + 1, z, step)
    BY <2>3, <2>4 DEF IsRecursion
  <2> QED
    BY <2>3, <2>5
<1>3. n \in P
  <2>1. \A k \in 0 .. n - 1 : k \in P => k + 1 \in P
    BY <1>2
  <2> HIDE DEF P
  <2>2. 0 .. n \subseteq P
    BY <1>1, <2>1, Induction, Zenon
  <2> QED
    BY <2>2
<1> QED
  BY <1>3

-----------------------------------------------------------------------------
(* Digits.                                                                  *)
LEMMA BaseIsPositive == Base \in Nat \ {0} /\ Q \in Nat \ {0} /\ Base = 4 * Q
BY FrameAssumption DEF Base

(* Division with remainder.                                                 *)
LEMMA DivMod ==
    ASSUME NEW a \in Nat, NEW b \in Nat \ {0}
    PROVE  a \div b \in Nat /\ a % b \in 0 .. b - 1 /\ a = b * (a \div b) + (a % b)
OBVIOUS

(* Quotient and remainder are unique.                                       *)
LEMMA Quotient ==
    ASSUME NEW a \in Nat, NEW b \in Nat \ {0}, NEW q \in Nat, NEW r \in 0 .. b - 1, a = q * b + r
    PROVE  a \div b = q /\ a % b = r
OBVIOUS

(* A number with a digit appended stays below the bound with one appended.  *)
LEMMA ProductBelow ==
    ASSUME NEW x \in Nat, NEW b \in Nat \ {0}, NEW c \in Nat, NEW r \in Nat, x < c, r < b
    PROVE  x * b + r < c * b
<1>1. (c - 1 - x) * b \in Nat
  OBVIOUS
<1> QED
  BY <1>1

(* Dividing twice is dividing by the product.                               *)
LEMMA DivDiv ==
    ASSUME NEW a \in Nat, NEW b \in Nat \ {0}, NEW c \in Nat \ {0}
    PROVE  a \div (c * b) = (a \div b) \div c
<1> DEFINE q == a \div b
           r == a % b
           s == q \div c
           u == q % c
<1>1. q \in Nat /\ r \in 0 .. b - 1 /\ a = b * q + r
  BY DivMod, Zenon
<1>2. s \in Nat /\ u \in 0 .. c - 1 /\ q = c * s + u
  BY <1>1, DivMod, Zenon
<1> HIDE DEF q, r, s, u
<1>3. u * b + r < c * b /\ u * b + r \in Nat
  BY <1>1, <1>2, ProductBelow
<1>4. a = s * (c * b) + (u * b + r)
  BY <1>1, <1>2
<1>5. c * b \in Nat \ {0}
  OBVIOUS
<1>6. a \div (c * b) = s
  BY <1>2, <1>3, <1>4, <1>5, Quotient
<1> QED
  BY <1>6 DEF s, q

(* Place[k], the weight of a digit, is Base to the power of k.              *)
LEMMA Places ==
    ASSUME NatIsWellOrdered
    PROVE  \A k \in 0 .. 7 : /\ Place[k] \in Nat \ {0}
                             /\ Place[k] = IF k = 0 THEN 1 ELSE Base * Place[k - 1]
<1> DEFINE S == Nat \ {0}
           step == [i \in 1 .. 7 |-> [x \in S |-> Base * x]]
           Is(f) == f = [k \in 0 .. 7 |-> IF k = 0 THEN 1 ELSE Base * f[k - 1]]
<1>1. step \in [1 .. 7 -> [S -> S]] /\ 1 \in S
  BY BaseIsPositive
<1>2. PICK f \in [0 .. 7 -> S] : IsRecursion(f, 7, 1, step)
  <2> HIDE DEF step, S
  <2> QED
    BY <1>1, Recursion, Zenon
<1>3. Is(f)
  <2>1. \A k \in 1 .. 7 : k - 1 \in 0 .. 7
    OBVIOUS
  <2>2. \A k \in 1 .. 7 : step[k][f[k - 1]] = Base * f[k - 1]
    BY <2>1
  <2>3. \A k \in 0 .. 7 : f[k] = IF k = 0 THEN 1 ELSE Base * f[k - 1]
    BY <1>2, <2>2 DEF IsRecursion
  <2> QED
    BY <2>3
<1>4. Place = CHOOSE g : Is(g)
  BY Zenon DEF Place
<1>5. Is(Place)
  <2> HIDE DEF Is
  <2> QED
    BY <1>3, <1>4, Zenon
<1>6. \A k \in 0 .. 7 : Place[k] = IF k = 0 THEN 1 ELSE Base * Place[k - 1]
  BY <1>5
<1> DEFINE P == {k \in 0 .. 7 : Place[k] \in S}
<1>7. 0 \in P
  BY <1>6
<1>8. \A k \in 0 .. 7 - 1 : k \in P => k + 1 \in P
  <2> SUFFICES ASSUME NEW k \in 0 .. 7 - 1, k \in P PROVE k + 1 \in P
    OBVIOUS
  <2>1. k + 1 \in 0 .. 7 /\ k + 1 # 0 /\ (k + 1) - 1 = k
    OBVIOUS
  <2>2. Place[k + 1] = Base * Place[k]
    BY <1>6, <2>1
  <2> QED
    BY <2>1, <2>2, BaseIsPositive
<1>9. 0 .. 7 \subseteq P
  <2> HIDE DEF P
  <2> QED
    BY <1>7, <1>8, Induction
<1> QED
  BY <1>6, <1>9

(* The value of a sequence of digits, digit by digit.                       *)
IsSum(sum, digits) ==
    /\ sum \in [0 .. Len(digits) -> Nat]
    /\ sum[0] = 0
    /\ \A i \in 1 .. Len(digits) : sum[i] = sum[i - 1] * Base + digits[i]

(* Value is a sum over the digits, built up from the left.                  *)
LEMMA ValueIsSum ==
    ASSUME NatIsWellOrdered, NEW digits \in Seq(Nat)
    PROVE  \E sum : IsSum(sum, digits) /\ Value(digits) = sum[Len(digits)]
<1> DEFINE n == Len(digits)
           step == [i \in 1 .. n |-> [x \in Nat |-> x * Base + digits[i]]]
           Is(f) == f = [i \in 0 .. Len(digits) |-> IF i = 0 THEN 0 ELSE f[i - 1] * Base + digits[i]]
<1>1. n \in Nat /\ step \in [1 .. n -> [Nat -> Nat]]
  BY BaseIsPositive
<1>2. PICK f \in [0 .. n -> Nat] : IsRecursion(f, n, 0, step)
  <2> HIDE DEF step, n
  <2> QED
    BY <1>1, Recursion, Zenon
<1>3. Is(f)
  <2>1. \A k \in 1 .. n : k - 1 \in 0 .. n
    BY <1>1
  <2>2. \A k \in 1 .. n : step[k][f[k - 1]] = f[k - 1] * Base + digits[k]
    BY <2>1, Zenon
  <2>3. \A k \in 0 .. n : f[k] = IF k = 0 THEN 0 ELSE f[k - 1] * Base + digits[k]
    <3> SUFFICES ASSUME NEW k \in 0 .. n
                 PROVE  f[k] = IF k = 0 THEN 0 ELSE f[k - 1] * Base + digits[k]
      OBVIOUS
    <3>1. k # 0 => k \in 1 .. n
      BY <1>1
    <3>2. f[k] = IF k = 0 THEN 0 ELSE step[k][f[k - 1]]
      BY <1>2, Zenon DEF IsRecursion
    <3> HIDE DEF step
    <3> QED
      BY <2>2, <3>1, <3>2
  <2> QED
    BY <2>3
<1> DEFINE sum == CHOOSE g : Is(g)
<1>4. Value(digits) = sum[Len(digits)]
  BY Zenon DEF Value
<1>5. Is(sum)
  <2> HIDE DEF Is
  <2> QED
    BY <1>3, Zenon
<1> HIDE DEF sum
<1>6. \A k \in 0 .. n : sum[k] = IF k = 0 THEN 0 ELSE sum[k - 1] * Base + digits[k]
  BY <1>5, Zenon
<1> DEFINE P == {k \in 0 .. n : sum[k] \in Nat}
<1>7. 0 \in P
  BY <1>1, <1>6
<1>8. \A k \in 0 .. n - 1 : k \in P => k + 1 \in P
  <2> SUFFICES ASSUME NEW k \in 0 .. n - 1, k \in P PROVE k + 1 \in P
    OBVIOUS
  <2>1. k + 1 \in 0 .. n /\ k + 1 \in 1 .. n /\ k + 1 # 0 /\ (k + 1) - 1 = k
    BY <1>1
  <2>2. sum[k + 1] = sum[k] * Base + digits[k + 1]
    BY <1>6, <2>1
  <2>3. digits[k + 1] \in Nat
    BY <2>1
  <2>4. sum[k + 1] \in Nat
    <3>1. ASSUME NEW x \in Nat, NEW y \in Nat PROVE x * Base + y \in Nat
      BY BaseIsPositive
    <3> QED
      BY <2>2, <2>3, <3>1, Zenon
  <2> QED
    BY <2>1, <2>4
<1>9. 0 .. n \subseteq P
  <2> HIDE DEF P, n
  <2> QED
    BY <1>1, <1>7, <1>8, Induction, Zenon
<1>10. IsSum(sum, digits)
  <2>1. sum = [k \in 0 .. n |-> sum[k]]
    BY <1>5
  <2>2. sum \in [0 .. n -> Nat]
    BY <1>9, <2>1
  <2>3. \A i \in 1 .. n : sum[i] = sum[i - 1] * Base + digits[i]
    BY <1>1, <1>6
  <2> QED
    BY <1>1, <1>6, <2>2, <2>3 DEF IsSum
<1> QED
  BY <1>4, <1>10

(* The digits of a number below Base ^ n have its value.                    *)
LEMMA DigitsOf ==
    ASSUME NatIsWellOrdered, NEW n \in 1 .. 8, NEW v \in Nat, v < Base * Place[n - 1]
    PROVE  /\ BigEndian(v, n) \in Seq(Byte) /\ Len(BigEndian(v, n)) = n
           /\ Value(BigEndian(v, n)) = v
<1> DEFINE d == BigEndian(v, n)
<1>0. \A k \in 0 .. n - 1 : Place[k] \in Nat \ {0} /\ k \in 0 .. 7
  BY Places
<1>1. d \in Seq(Byte) /\ Len(d) = n
      /\ \A k \in 0 .. n - 1 : d[k + 1] = (v \div Place[n - 1 - k]) % Base
  <2>1. \A i \in 1 .. n : (v \div Place[n - i]) % Base \in Byte
    <3> SUFFICES ASSUME NEW i \in 1 .. n PROVE (v \div Place[n - i]) % Base \in Byte
      OBVIOUS
    <3>1. n - i \in 0 .. n - 1
      OBVIOUS
    <3>2. v \div Place[n - i] \in Nat
      BY <1>0, <3>1, DivMod, Zenon
    <3> QED
      BY <3>2, DivMod, BaseIsPositive, Zenon DEF Byte
  <2>2. d = [i \in 1 .. n |-> (v \div Place[n - i]) % Base]
    BY DEF BigEndian
  <2> HIDE DEF d
  <2>3. d \in [1 .. n -> Byte]
    BY <2>1, <2>2
  <2>4. \A k \in 0 .. n - 1 : k + 1 \in 1 .. n /\ n - (k + 1) = n - 1 - k
    OBVIOUS
  <2>5. \A k \in 0 .. n - 1 : d[k + 1] = (v \div Place[n - (k + 1)]) % Base
    BY <2>2, <2>4
  <2> QED
    BY <2>3, <2>4, <2>5
<1> HIDE DEF d
<1>2. d \in Seq(Nat)
  BY <1>1, BaseIsPositive DEF Byte
<1>3. PICK sum : IsSum(sum, d) /\ Value(d) = sum[Len(d)]
  BY <1>2, ValueIsSum
<1>4. /\ sum \in [0 .. n -> Nat] /\ sum[0] = 0
      /\ \A k \in 0 .. n - 1 : sum[k + 1] = sum[k] * Base + d[k + 1]
  <2>1. \A k \in 0 .. n - 1 : k + 1 \in 1 .. n /\ (k + 1) - 1 = k
    OBVIOUS
  <2> QED
    BY <1>1, <1>3, <2>1 DEF IsSum
<1> DEFINE P == {k \in 0 .. n - 1 : sum[k + 1] = v \div Place[n - 1 - k]}
<1>5. 0 \in P
  <2>1. v \div Place[n - 1] < Base /\ v \div Place[n - 1] \in Nat
    <3> DEFINE m == Place[n - 1]
               q == v \div m
    <3>1. m \in Nat \ {0} /\ v < Base * m
      BY <1>0
    <3> HIDE DEF m
    <3>2. q \in Nat /\ v % m \in 0 .. m - 1 /\ v = m * q + (v % m)
      BY <3>1, DivMod, Zenon
    <3> HIDE DEF q
    <3>3. m * q < Base * m
      BY <3>1, <3>2, BaseIsPositive
    <3>4. ASSUME q >= Base PROVE FALSE
      <4>1. (q - Base) * m \in Nat
        BY <3>1, <3>2, <3>4, BaseIsPositive
      <4> QED
        BY <3>1, <3>2, <3>3, <4>1, BaseIsPositive
    <3> QED
      BY <3>2, <3>4, BaseIsPositive DEF q, m
  <2>2. d[1] = (v \div Place[n - 1]) % Base /\ sum[1] = sum[0] * Base + d[1]
    BY <1>1, <1>4
  <2>3. (v \div Place[n - 1]) % Base = v \div Place[n - 1]
    BY <2>1, BaseIsPositive
  <2>4. sum[1] = v \div Place[n - 1]
    BY <1>4, <2>1, <2>2, <2>3, BaseIsPositive
  <2> QED
    BY <2>4
<1>6. \A k \in 0 .. (n - 1) - 1 : k \in P => k + 1 \in P
  <2> SUFFICES ASSUME NEW k \in 0 .. (n - 1) - 1, k \in P PROVE k + 1 \in P
    OBVIOUS
  <2> DEFINE m == Place[n - 1 - (k + 1)]
             u == v \div m
  <2>1. /\ n - 1 - k \in 1 .. 7 /\ (n - 1 - k) - 1 = n - 1 - (k + 1)
        /\ k \in 0 .. n - 1 /\ k + 1 \in 0 .. n - 1 /\ n - 1 - (k + 1) \in 0 .. 7
    OBVIOUS
  <2>2. Place[n - 1 - k] = Base * m /\ m \in Nat \ {0}
    BY <2>1, Places
  <2>3. sum[k + 1] = v \div (Base * m)
    BY <2>2
  <2>4. sum[(k + 1) + 1] = sum[k + 1] * Base + d[(k + 1) + 1] /\ d[(k + 1) + 1] = u % Base
    BY <1>1, <1>4, <2>1, Zenon
  <2> HIDE DEF m
  <2>5. u \in Nat
    BY <2>2, DivMod, Zenon
  <2>6. v \div (Base * m) = u \div Base
    BY <2>2, DivDiv, BaseIsPositive
  <2> HIDE DEF u
  <2>7. /\ u = Base * (u \div Base) + (u % Base) /\ u \div Base \in Nat
        /\ u % Base \in 0 .. Base - 1
    BY <2>5, DivMod, BaseIsPositive, Zenon
  <2>8. sum[(k + 1) + 1] = u
    BY <2>3, <2>4, <2>6, <2>7, BaseIsPositive
  <2> QED
    BY <2>1, <2>8 DEF u, m
<1>7. n - 1 \in P
  <2>1. n - 1 \in Nat
    OBVIOUS
  <2> HIDE DEF P
  <2>2. 0 .. n - 1 \subseteq P
    BY <1>5, <1>6, <2>1, Induction
  <2> QED
    BY <2>1, <2>2
<1>8. sum[n] = v
  <2>1. (n - 1) + 1 = n /\ n - 1 - (n - 1) = 0
    OBVIOUS
  <2>2. sum[n] = v \div Place[0] /\ Place[0] = 1
    BY <1>7, <2>1, Places
  <2> QED
    BY <2>2
<1> QED
  BY <1>1, <1>3, <1>8 DEF d

-----------------------------------------------------------------------------
(* Varints.                                                                 *)
LEMMA SizeOf ==
    \A k \in 0 .. 3 : /\ Sizes[k + 1] \in 1 .. 8 /\ Sizes[k + 1] - 1 \in 0 .. 7
                      /\ Sizes[k + 1] = 1 <=> k = 0
BY DEF Sizes

(* The four limits of AppendVarint are numbers.                             *)
LEMMA LimitIsNat ==
    ASSUME NatIsWellOrdered
    PROVE  \A k \in 0 .. 3 : Limit(k) \in Nat
<1> SUFFICES ASSUME NEW k \in 0 .. 3 PROVE Limit(k) \in Nat
  OBVIOUS
<1>1. Place[Sizes[k + 1] - 1] \in Nat
  BY SizeOf, Places
<1>2. ASSUME NEW m \in Nat PROVE Q * m \in Nat
  BY BaseIsPositive
<1> QED
  BY <1>1, <1>2 DEF Limit

(* AppendVarint has a length class for every varint that is not too large.  *)
LEMMA ClassOfVarint ==
    ASSUME NatIsWellOrdered, NEW v \in 0 .. MaxVarint
    PROVE  ClassOf(v) \in 0 .. 3 /\ v < Limit(ClassOf(v))
<1> DEFINE T == {k \in 0 .. 3 : v < Limit(k)}
           Is(k) == v < Limit(k) /\ \A j \in 0 .. k - 1 : v >= Limit(j)
<1>1. v \in Nat /\ v < Limit(3)
  BY LimitIsNat DEF MaxVarint
<1>2. T \subseteq Nat /\ T # {}
  BY <1>1
<1>3. PICK k \in T : \A y \in T : k <= y
  <2> HIDE DEF T
  <2> QED
    BY <1>2, Zenon DEF NatIsWellOrdered
<1>4. \A j \in 0 .. k - 1 : v >= Limit(j)
  <2> SUFFICES ASSUME NEW j \in 0 .. k - 1 PROVE v >= Limit(j)
    OBVIOUS
  <2>1. j \in 0 .. 3 /\ ~(k <= j)
    OBVIOUS
  <2>2. ~(v < Limit(j))
    BY <1>3, <2>1
  <2> QED
    BY <1>1, <2>1, <2>2, LimitIsNat
<1>5. \E j \in 0 .. 3 : Is(j)
  BY <1>3, <1>4
<1>6. ClassOf(v) = CHOOSE j \in 0 .. 3 : Is(j)
  BY DEF ClassOf
<1> HIDE DEF Is
<1>7. ClassOf(v) \in 0 .. 3 /\ Is(ClassOf(v))
  BY <1>5, <1>6, Zenon
<1> QED
  BY <1>7 DEF Is

(* What AppendVarint appends.                                               *)
Varint(v) == [BigEndian(v, Sizes[ClassOf(v) + 1]) EXCEPT ![1] = @ + ClassOf(v) * Q]

(* What AppendVarint writes: the length and the value can be read off it.   *)
LEMMA VarintBytes ==
    ASSUME NatIsWellOrdered, NEW v \in 0 .. MaxVarint
    PROVE  /\ Varint(v) \in Seq(Byte)
           /\ Len(Varint(v)) = Sizes[ClassOf(v) + 1] /\ Len(Varint(v)) \in 1 .. 8
           /\ Varint(v)[1] \div Q = ClassOf(v)
           /\ Value([Varint(v) EXCEPT ![1] = @ % Q]) = v
<1> DEFINE k == ClassOf(v)
           n == Sizes[k + 1]
           d == BigEndian(v, n)
           x == d[1]
<1>1. k \in 0 .. 3 /\ v < Limit(k) /\ n \in 1 .. 8 /\ n - 1 \in 0 .. 7 /\ v \in Nat
  BY ClassOfVarint, SizeOf, LimitIsNat DEF MaxVarint
<1>2. v < Q * Place[n - 1] /\ Place[n - 1] \in Nat \ {0}
  BY <1>1, Places DEF Limit
<1>2a. Varint(v) = [d EXCEPT ![1] = @ + k * Q]
  BY DEF Varint
<1> HIDE DEF k, n
<1>3. v < Base * Place[n - 1]
  BY <1>1, <1>2, BaseIsPositive
<1>4. d \in Seq(Byte) /\ Len(d) = n /\ Value(d) = v
  BY <1>1, <1>3, DigitsOf, Zenon
<1>5. x \in 0 .. Q - 1
  <2> DEFINE m == Place[n - 1]
             q == v \div m
  <2>1. m \in Nat \ {0} /\ v < Q * m
    BY <1>2
  <2>2. x = q % Base
    BY <1>1 DEF BigEndian
  <2> HIDE DEF m, x
  <2>3. q \in Nat /\ v % m \in 0 .. m - 1 /\ v = m * q + (v % m)
    BY <1>1, <2>1, DivMod
  <2> HIDE DEF q
  <2>4. m * q < Q * m
    BY <1>1, <2>1, <2>3, BaseIsPositive
  <2>5. ASSUME q >= Q PROVE FALSE
    <3>1. (q - Q) * m \in Nat
      BY <2>1, <2>3, <2>5, BaseIsPositive
    <3> QED
      BY <2>1, <2>3, <2>4, <3>1, BaseIsPositive
  <2>6. q < Q
    BY <2>3, <2>5, BaseIsPositive
  <2>7. q % Base = q
    BY <2>3, <2>6, BaseIsPositive
  <2> QED
    BY <2>2, <2>3, <2>6, <2>7, BaseIsPositive
<1> HIDE DEF d, x
<1>6. x + k * Q \in Nat /\ (x + k * Q) \div Q = k /\ (x + k * Q) % Q = x
  <2>1. x + k * Q = k * Q + x /\ k * Q \in Nat
    BY <1>1, <1>5, BaseIsPositive
  <2> QED
    BY <1>1, <1>5, <2>1, Quotient, BaseIsPositive
<1>7. x + k * Q \in Byte
  BY <1>1, <1>5, <1>6, BaseIsPositive DEF Byte
<1>8. /\ Varint(v) \in Seq(Byte) /\ Len(Varint(v)) = n /\ Varint(v)[1] = x + k * Q
      /\ [Varint(v) EXCEPT ![1] = x] = d
  <2>1. d = [i \in 1 .. n |-> d[i]] /\ 1 \in 1 .. n /\ d[1] = x
    BY <1>1, <1>4 DEF x
  <2>2. Varint(v) = [i \in 1 .. n |-> IF i = 1 THEN x + k * Q ELSE d[i]]
    BY <1>2a, <2>1, Zenon
  <2>3. \A i \in 1 .. n : d[i] \in Byte
    BY <1>4
  <2>4. Varint(v) \in [1 .. n -> Byte]
    BY <1>7, <2>2, <2>3
  <2>5. Varint(v) \in Seq(Byte) /\ Len(Varint(v)) = n /\ Varint(v)[1] = x + k * Q
    BY <1>1, <2>1, <2>2, <2>4, SMTT(30)
  <2>6. [Varint(v) EXCEPT ![1] = x] = d
    BY <2>1, <2>2, Zenon
  <2> QED
    BY <2>5, <2>6
<1>9. [Varint(v) EXCEPT ![1] = @ % Q] = d
  BY <1>6, <1>8
<1> QED
  BY <1>1, <1>4, <1>6, <1>8, <1>9, Zenon DEF k, n

(* AppendVarint only appends.                                               *)
LEMMA AppendsVarint ==
    ASSUME NEW dst, NEW v
    PROVE  AppendVarint(dst, v) = dst \o Varint(v)
BY DEF AppendVarint, Varint

(* What ReadVarint makes of any bytes.                                      *)
LEMMA ReadVarintCases ==
    ASSUME NatIsWellOrdered, NEW data \in Seq(Byte)
    PROVE  /\ ReadVarint(data).err \in {"nil", "ErrShortBuffer"}
           /\ ReadVarint(data).err = "ErrShortBuffer" <=>
                  data = <<>> \/ Len(data) < Sizes[data[1] \div Q + 1]
           /\ ReadVarint(data).err = "ErrShortBuffer" => ReadVarint(data).n = 0
           /\ data # <<>> => data[1] \div Q \in 0 .. 3
           /\ ReadVarint(data).err = "nil" =>
                  /\ data # <<>>
                  /\ ReadVarint(data).n = Sizes[data[1] \div Q + 1]
                  /\ ReadVarint(data).n \in 1 .. Len(data)
                  /\ ReadVarint(data).value \in Nat
                  /\ ReadVarint(data).value
                        = Value([SubSeq(data, 1, ReadVarint(data).n) EXCEPT ![1] = @ % Q])
<1>1. CASE data = <<>>
  BY <1>1 DEF ReadVarint, Short
<1>2. CASE data # <<>>
  <2> DEFINE c == data[1] \div Q
             n == Sizes[c + 1]
             digits == [SubSeq(data, 1, n) EXCEPT ![1] = @ % Q]
  <2>1. data[1] \in Byte /\ data[1] \in Nat /\ Len(data) \in Nat \ {0}
    BY <1>2, BaseIsPositive DEF Byte
  <2>2. c \in 0 .. 3
    <3>1. c \in Nat /\ data[1] % Q \in 0 .. Q - 1 /\ data[1] = Q * c + (data[1] % Q)
      BY <2>1, DivMod, BaseIsPositive, Zenon
    <3> HIDE DEF c
    <3>2. ASSUME c >= 4 PROVE FALSE
      <4>1. (c - 4) * Q \in Nat /\ Q * c = (c - 4) * Q + 4 * Q
        BY <3>1, <3>2, BaseIsPositive
      <4>2. Q * c >= Base
        BY <4>1, BaseIsPositive
      <4>3. data[1] < Base
        BY <2>1, BaseIsPositive DEF Byte
      <4>4. ASSUME NEW x \in Nat, NEW y \in Nat, NEW r \in Nat, NEW b \in Nat,
                   x = y + r, y >= b, x < b
            PROVE  FALSE
        BY <4>4
      <4>5. data[1] % Q \in Nat /\ Q * c \in Nat /\ Base \in Nat
        BY <3>1, <4>1, BaseIsPositive
      <4> QED
        BY <2>1, <3>1, <4>2, <4>3, <4>4, <4>5, Zenon
    <3> QED
      BY <3>1, <3>2
  <2>3. n \in 1 .. 8
    BY <2>2, SizeOf
  <2>4. ReadVarint(data) = IF Len(data) < n THEN Short
                           ELSE [err |-> "nil", n |-> n, value |-> Value(digits)]
    BY <1>2, Zenon DEF ReadVarint
  <2>5. CASE Len(data) < n
    BY <1>2, <2>2, <2>4, <2>5 DEF Short
  <2>6. CASE ~(Len(data) < n)
    <3> HIDE DEF c, n
    <3>1. SubSeq(data, 1, n) \in Seq(Byte) /\ Len(SubSeq(data, 1, n)) = n
      BY <2>1, <2>3, <2>6
    <3>2. SubSeq(data, 1, n)[1] = data[1]
      BY <2>1, <2>3, <2>6
    <3>3. data[1] % Q \in Nat
      BY <2>1, BaseIsPositive
    <3>4. SubSeq(data, 1, n) \in Seq(Nat)
      BY <3>1, BaseIsPositive DEF Byte
    <3>5. digits \in Seq(Nat) /\ Len(digits) = n
      BY <2>3, <3>1, <3>2, <3>3, <3>4
    <3> HIDE DEF digits
    <3>6. PICK sum : IsSum(sum, digits) /\ Value(digits) = sum[Len(digits)]
      BY <3>5, ValueIsSum
    <3>7. Value(digits) \in Nat
      BY <2>3, <3>5, <3>6 DEF IsSum
    <3>8. /\ ReadVarint(data).err = "nil" /\ ReadVarint(data).n = n
          /\ ReadVarint(data).value = Value(digits)
      <4>1. ReadVarint(data) = [err |-> "nil", n |-> n, value |-> Value(digits)]
        BY <2>4, <2>6, Zenon
      <4>2. ASSUME NEW r, NEW size, NEW value, r = [err |-> "nil", n |-> size, value |-> value]
            PROVE  r.err = "nil" /\ r.n = size /\ r.value = value
        BY <4>2
      <4> QED
        BY <4>1, <4>2
    <3>9. n \in 1 .. Len(data)
      BY <2>1, <2>3, <2>6
    <3> QED
      BY <1>2, <2>2, <2>6, <3>7, <3>8, <3>9, Zenon DEF digits, n, c
  <2> QED
    BY <2>5, <2>6, Zenon
<1> QED
  BY <1>1, <1>2, Zenon

(* Bytes of equal length that agree in each place are equal.                *)
LEMMA SameBytes ==
    ASSUME NEW a \in Seq(Byte), NEW b \in Seq(Byte), Len(a) = Len(b),
           \A i \in 1 .. Len(a) : a[i] = b[i]
    PROVE  a = b
OBVIOUS

(* A slice data[p : p+n], byte by byte.                                     *)
LEMMA SubSeqFacts ==
    ASSUME NEW data \in Seq(Byte), NEW p \in 0 .. Len(data), NEW n \in 0 .. Len(data) - p
    PROVE  /\ SubSeq(data, p + 1, p + n) \in Seq(Byte) /\ Len(SubSeq(data, p + 1, p + n)) = n
           /\ \A i \in 1 .. n : SubSeq(data, p + 1, p + n)[i] = data[p + i]
<1>1. SubSeq(data, p + 1, p + n) = [i \in 1 .. n |-> data[p + i]]
  OBVIOUS
<1>2. \A i \in 1 .. n : data[p + i] \in Byte
  OBVIOUS
<1> QED
  BY <1>1, <1>2

(* A slice a[: j], byte by byte.                                            *)
LEMMA PrefixFacts ==
    ASSUME NEW a \in Seq(Byte), NEW j \in 0 .. Len(a)
    PROVE  /\ SubSeq(a, 1, j) \in Seq(Byte) /\ Len(SubSeq(a, 1, j)) = j
           /\ \A i \in 1 .. j : SubSeq(a, 1, j)[i] = a[i]
OBVIOUS

(* As far as there are bytes after the first p, they are those of w.        *)
BeginsAs(data, p, w) == \A i \in 1 .. Len(w) : p + i <= Len(data) => data[p + i] = w[i]

(* Bytes that begin as a varint does are read as that varint, if there are  *)
(* enough of them.                                                          *)
LEMMA VarintIsRead ==
    ASSUME NatIsWellOrdered, NEW v \in 0 .. MaxVarint, NEW data \in Seq(Byte),
           BeginsAs(data, 0, Varint(v)), ReadVarint(data).err = "nil"
    PROVE  ReadVarint(data).n = Len(Varint(v)) /\ ReadVarint(data).value = v
<1> DEFINE w == Varint(v)
           r == ReadVarint(data)
           n == Len(w)
<1>1. /\ w \in Seq(Byte) /\ n \in 1 .. 8 /\ n = Sizes[ClassOf(v) + 1]
      /\ w[1] \div Q = ClassOf(v) /\ Value([w EXCEPT ![1] = @ % Q]) = v
  BY VarintBytes, Zenon
<1>2. r.n = Sizes[data[1] \div Q + 1] /\ r.n \in 1 .. Len(data)
  BY ReadVarintCases, Zenon
<1>2a. r.value = Value([SubSeq(data, 1, r.n) EXCEPT ![1] = @ % Q])
  BY ReadVarintCases, Zenon
<1>3. \A i \in 1 .. n : i <= Len(data) => data[i] = w[i]
  <2>1. \A i \in 1 .. n : 0 + i = i
    BY <1>1
  <2>2. \A i \in 1 .. n : 0 + i <= Len(data) => data[0 + i] = w[i]
    BY DEF BeginsAs
  <2> QED
    BY <2>1, <2>2
<1> SUFFICES r.n = n /\ r.value = v
  OBVIOUS
<1> HIDE DEF w, r, n
<1>4. 1 <= Len(data) /\ 1 \in 1 .. n
  BY <1>1, <1>2, SMTT(30)
<1>5. data[1] = w[1]
  BY <1>3, <1>4
<1>6. r.n = n
  BY <1>1, <1>2, <1>5
<1>7. SubSeq(data, 1, n) = w
  <2>1. n \in 1 .. Len(data)
    BY <1>2, <1>6
  <2>2. \A i \in 1 .. n : data[i] = w[i]
    BY <1>3, <2>1
  <2>3. SubSeq(data, 1, n) \in Seq(Byte) /\ Len(SubSeq(data, 1, n)) = n
        /\ \A i \in 1 .. n : SubSeq(data, 1, n)[i] = data[i]
    BY <2>1
  <2> QED
    BY <1>1, <2>2, <2>3, SameBytes DEF n
<1> QED
  BY <1>1, <1>2a, <1>6, <1>7, Zenon

-----------------------------------------------------------------------------
(* Parts of sequences of bytes.                                             *)
LEMMA DropFacts ==
    ASSUME NEW data \in Seq(Byte), NEW p \in 0 .. Len(data)
    PROVE  /\ Drop(data, p) \in Seq(Byte)
           /\ Len(Drop(data, p)) = Len(data) - p
           /\ \A i \in 1 .. Len(data) - p : Drop(data, p)[i] = data[p + i]
           /\ Drop(data, p) = <<>> <=> p = Len(data)
<1>1. Drop(data, p) = [i \in 1 .. Len(data) - p |-> data[p + i]]
  BY DEF Drop
<1>2. \A i \in 1 .. Len(data) - p : data[p + i] \in Byte
  OBVIOUS
<1>3. Drop(data, p) \in Seq(Byte) /\ Len(Drop(data, p)) = Len(data) - p
  BY <1>1, <1>2
<1>4. Drop(data, p) = <<>> <=> p = Len(data)
  BY <1>3
<1> QED
  BY <1>1, <1>3, <1>4, Zenon

(* Slicing twice is slicing further.                                        *)
LEMMA DropDrop ==
    ASSUME NEW data \in Seq(Byte), NEW p \in 0 .. Len(data), NEW q \in 0 .. Len(data) - p
    PROVE  Drop(Drop(data, p), q) = Drop(data, p + q)
<1> DEFINE d == Drop(data, p)
           a == Drop(d, q)
           b == Drop(data, p + q)
<1>1. d \in Seq(Byte) /\ Len(d) = Len(data) - p /\ \A i \in 1 .. Len(data) - p : d[i] = data[p + i]
  BY DropFacts
<1>2. p + q \in 0 .. Len(data) /\ q \in 0 .. Len(d)
  BY <1>1
<1> HIDE DEF d
<1>3. a \in Seq(Byte) /\ Len(a) = Len(d) - q /\ \A i \in 1 .. Len(d) - q : a[i] = d[q + i]
  BY <1>1, <1>2, DropFacts, Zenon
<1>4. /\ b \in Seq(Byte) /\ Len(b) = Len(data) - (p + q)
      /\ \A i \in 1 .. Len(data) - (p + q) : b[i] = data[(p + q) + i]
  BY <1>2, DropFacts
<1> HIDE DEF a, b
<1>5. Len(a) = Len(b)
  BY <1>1, <1>3, <1>4
<1>6. ASSUME NEW i \in 1 .. Len(a) PROVE a[i] = b[i]
  <2>1. i \in 1 .. Len(d) - q /\ q + i \in 1 .. Len(data) - p /\ p + (q + i) = (p + q) + i
        /\ i \in 1 .. Len(data) - (p + q)
    BY <1>1, <1>3
  <2> QED
    BY <1>1, <1>3, <1>4, <2>1, Zenon
<1>7. a = b
  BY <1>3, <1>4, <1>5, <1>6, SameBytes
<1> QED
  BY <1>7 DEF a, b, d

(* Bytes behind one another, byte by byte.                                  *)
LEMMA ConcatFacts ==
    ASSUME NEW a \in Seq(Byte), NEW b \in Seq(Byte)
    PROVE  /\ a \o b \in Seq(Byte) /\ Len(a \o b) = Len(a) + Len(b)
           /\ \A i \in 1 .. Len(a) : (a \o b)[i] = a[i]
           /\ \A i \in 1 .. Len(b) : (a \o b)[Len(a) + i] = b[i]
OBVIOUS

-----------------------------------------------------------------------------
(* Varints in a sequence of bytes.                                          *)

(* The class of the varint at p.                                            *)
LEMMA VarintClass ==
    ASSUME NatIsWellOrdered, NEW data \in Seq(Byte), NEW p \in 0 .. Len(data) - 1
    PROVE  /\ Drop(data, p) \in Seq(Byte) /\ Drop(data, p) # <<>>
           /\ Len(Drop(data, p)) = Len(data) - p
           /\ Drop(data, p)[1] = data[p + 1]
           /\ data[p + 1] \in Nat /\ data[p + 1] \div Q \in 0 .. 3
           /\ Sizes[data[p + 1] \div Q + 1] \in 1 .. 8
           /\ Sizes[data[p + 1] \div Q + 1] = 1 <=> data[p + 1] \div Q = 0
<1>0. p \in 0 .. Len(data) /\ 1 \in 1 .. Len(data) - p /\ p # Len(data) /\ p + 1 \in 1 .. Len(data)
  OBVIOUS
<1>1. Drop(data, p) \in Seq(Byte) /\ Drop(data, p) # <<>>
      /\ Len(Drop(data, p)) = Len(data) - p /\ Drop(data, p)[1] = data[p + 1]
  BY <1>0, DropFacts
<1>2. data[p + 1] \div Q \in 0 .. 3
  BY <1>1, ReadVarintCases, Zenon
<1>3. data[p + 1] \in Byte
  BY <1>0
<1>4. data[p + 1] \in Nat
  BY <1>3, BaseIsPositive DEF Byte
<1> QED
  BY <1>1, <1>2, <1>4, SizeOf, Zenon

(* ReadVarint succeeds where the bytes that the first one announces are     *)
(* there.                                                                   *)
LEMMA VarintIsThere ==
    ASSUME NatIsWellOrdered, NEW data \in Seq(Byte), NEW p \in 0 .. Len(data) - 1,
           Len(data) - p >= Sizes[data[p + 1] \div Q + 1]
    PROVE  /\ ReadVarint(Drop(data, p)).err = "nil"
           /\ ReadVarint(Drop(data, p)).n = Sizes[data[p + 1] \div Q + 1]
<1> DEFINE d == Drop(data, p)
<1>1. d \in Seq(Byte) /\ d # <<>> /\ Len(d) = Len(data) - p /\ d[1] = data[p + 1]
      /\ Sizes[data[p + 1] \div Q + 1] \in 1 .. 8
  BY VarintClass
<1> HIDE DEF d
<1>2. ~(Len(d) < Sizes[d[1] \div Q + 1])
  BY <1>1, SMTT(30)
<1>3. ReadVarint(d).err = "nil"
  BY <1>1, <1>2, ReadVarintCases, Zenon
<1>4. ReadVarint(d).n = Sizes[d[1] \div Q + 1]
  BY <1>1, <1>3, ReadVarintCases, Zenon
<1> QED
  BY <1>1, <1>3, <1>4 DEF d

(* ReadVarint reads a whole varint as AppendVarint wrote it.                *)
LEMMA VarintComplete ==
    ASSUME NatIsWellOrdered,
           NEW v \in 0 .. MaxVarint, NEW data \in Seq(Byte), NEW p \in 0 .. Len(data),
           Len(data) - p >= Len(Varint(v)), BeginsAs(Drop(data, p), 0, Varint(v))
    PROVE  LET r == ReadVarint(Drop(data, p))
           IN  r.err = "nil" /\ r.n = Len(Varint(v)) /\ r.value = v
<1> DEFINE w == Varint(v)
           d == Drop(data, p)
<1>1. w \in Seq(Byte) /\ Len(w) \in 1 .. 8 /\ Len(w) = Sizes[w[1] \div Q + 1]
  <2>1. w \in Seq(Byte) /\ Len(w) \in 1 .. 8
    BY VarintBytes, Zenon
  <2>2. Len(w) = Sizes[ClassOf(v) + 1] /\ w[1] \div Q = ClassOf(v)
    BY VarintBytes, Zenon
  <2> QED
    BY <2>1, <2>2
<1>2. Len(data) \in Nat
  OBVIOUS
<1>3. p \in 0 .. Len(data) - 1
  <2> HIDE DEF w
  <2>1. Len(data) - p >= Len(w)
    BY DEF w
  <2> QED
    BY <1>1, <1>2, <2>1, SMTT(30)
<1>4. d \in Seq(Byte) /\ Len(d) = Len(data) - p /\ d[1] = data[p + 1]
  BY <1>3, VarintClass
<1>5. d[1] = w[1]
  <2>1. 1 \in 1 .. Len(w) /\ 0 + 1 <= Len(d) /\ 0 + 1 = 1
    <3>1. ASSUME NEW m \in Nat, NEW j \in 0 .. m - 1, NEW l, l = m - j
          PROVE  0 + 1 <= l /\ 0 + 1 = 1
      BY <3>1
    <3>2. ASSUME NEW l \in 1 .. 8 PROVE 1 \in 1 .. l
      BY <3>2
    <3> HIDE DEF w, d
    <3> QED
      BY <1>1, <1>2, <1>3, <1>4, <3>1, <3>2, Zenon
  <2> QED
    BY <2>1 DEF BeginsAs
<1>6. Len(data) - p >= Sizes[data[p + 1] \div Q + 1]
  BY <1>1, <1>4, <1>5
<1>7. ReadVarint(d).err = "nil"
  BY <1>3, <1>6, VarintIsThere
<1> QED
  BY <1>4, <1>7, VarintIsRead

-----------------------------------------------------------------------------
(* Varints of any bytes.                                                    *)

(* Digits below Base, the first below q, make a number below q * Base^(n-1).*)
LEMMA ValueBound ==
    ASSUME NatIsWellOrdered, NEW n \in 1 .. 8, NEW digits \in Seq(Byte), Len(digits) = n,
           NEW q \in Nat, digits[1] < q
    PROVE  Value(digits) \in Nat /\ Value(digits) < q * Place[n - 1]
<1>0. digits \in Seq(Nat) /\ \A i \in 1 .. n : digits[i] \in Nat /\ digits[i] < Base
  BY BaseIsPositive DEF Byte
<1>1. PICK sum : IsSum(sum, digits) /\ Value(digits) = sum[Len(digits)]
  BY <1>0, ValueIsSum
<1>2. /\ sum \in [0 .. n -> Nat] /\ sum[0] = 0
      /\ \A i \in 1 .. n : sum[i] = sum[i - 1] * Base + digits[i]
  BY <1>1 DEF IsSum
<1> DEFINE P == {k \in 0 .. n - 1 : sum[k + 1] < q * Place[k]}
<1>3. 0 \in P
  <2>1. sum[1] = sum[0] * Base + digits[1]
    BY <1>2
  <2>2. sum[1] < q
    BY <1>0, <1>2, <2>1, BaseIsPositive
  <2>3. Place[0] = 1
    BY Places
  <2> QED
    BY <2>2, <2>3
<1>4. \A k \in 0 .. (n - 1) - 1 : k \in P => k + 1 \in P
  <2> SUFFICES ASSUME NEW k \in 0 .. (n - 1) - 1, k \in P PROVE k + 1 \in P
    OBVIOUS
  <2>1. /\ k + 1 \in 0 .. n - 1 /\ k + 1 \in 0 .. 7 /\ k \in 0 .. 7 /\ k + 1 # 0 /\ (k + 1) - 1 = k
        /\ (k + 1) + 1 \in 1 .. n /\ ((k + 1) + 1) - 1 = k + 1 /\ k + 1 \in 0 .. n
    OBVIOUS
  <2>2. Place[k + 1] = Base * Place[k] /\ Place[k] \in Nat
    BY <2>1, Places, Zenon
  <2>3. sum[(k + 1) + 1] = sum[k + 1] * Base + digits[(k + 1) + 1]
    BY <1>2, <2>1
  <2>4. sum[k + 1] \in Nat /\ digits[(k + 1) + 1] \in Nat /\ digits[(k + 1) + 1] < Base
        /\ sum[k + 1] < q * Place[k]
    BY <1>0, <1>2, <2>1, Zenon
  <2>5. ASSUME NEW x \in Nat, NEW m \in Nat, NEW d \in Nat, NEW b \in Nat \ {0}, x < q * m, d < b
        PROVE  x * b + d < q * (b * m)
    <3>1. q * m \in Nat /\ q * (b * m) = (q * m) * b
      OBVIOUS
    <3> QED
      BY <2>5, <3>1, ProductBelow
  <2>6. sum[k + 1] * Base + digits[(k + 1) + 1] < q * (Base * Place[k])
    BY <2>2, <2>4, <2>5, BaseIsPositive, Zenon
  <2> QED
    BY <2>1, <2>2, <2>3, <2>6
<1>5. n - 1 \in P
  <2>1. n - 1 \in Nat
    OBVIOUS
  <2> HIDE DEF P
  <2>2. 0 .. n - 1 \subseteq P
    BY <1>3, <1>4, <2>1, Induction
  <2> QED
    BY <2>1, <2>2
<1>6. (n - 1) + 1 = n /\ n \in 0 .. n
  OBVIOUS
<1> QED
  BY <1>1, <1>2, <1>5, <1>6

(* The last limit of AppendVarint is the largest.                           *)
LEMMA LimitsGrow ==
    ASSUME NatIsWellOrdered
    PROVE  \A k \in 0 .. 3 : Limit(k) <= Limit(3)
<1> DEFINE P == {k \in 0 .. 7 : \A j \in 0 .. k : Place[j] <= Place[k]}
<1>1. 0 \in P
  BY Places
<1>2. \A k \in 0 .. 7 - 1 : k \in P => k + 1 \in P
  <2> SUFFICES ASSUME NEW k \in 0 .. 7 - 1, k \in P, NEW j \in 0 .. k + 1
               PROVE  Place[j] <= Place[k + 1]
    OBVIOUS
  <2>1. k + 1 \in 0 .. 7 /\ k + 1 # 0 /\ (k + 1) - 1 = k /\ k \in 0 .. 7 /\ j \in 0 .. 7
    OBVIOUS
  <2>2. Place[k + 1] = Base * Place[k] /\ Place[k] \in Nat \ {0} /\ Place[j] \in Nat
    BY <2>1, Places
  <2>3. ASSUME NEW m \in Nat, NEW b \in Nat \ {0} PROVE m <= b * m
    <3>1. (b - 1) * m \in Nat
      OBVIOUS
    <3> QED
      BY <3>1
  <2>4. Place[k] <= Place[k + 1] /\ Place[k + 1] \in Nat
    BY <2>1, <2>2, <2>3, BaseIsPositive, Places, Zenon
  <2>5. j \in 0 .. k \/ j = k + 1
    OBVIOUS
  <2> QED
    BY <2>2, <2>4, <2>5
<1>3. 0 .. 7 \subseteq P
  <2> HIDE DEF P
  <2> QED
    BY <1>1, <1>2, Induction
<1>4. SUFFICES ASSUME NEW k \in 0 .. 3 PROVE Limit(k) <= Limit(3)
  OBVIOUS
<1>5. Sizes[k + 1] - 1 \in 0 .. 7 /\ Sizes[3 + 1] - 1 = 7
  BY SizeOf DEF Sizes
<1>6. Place[Sizes[k + 1] - 1] <= Place[7] /\ Place[Sizes[k + 1] - 1] \in Nat /\ Place[7] \in Nat
  BY <1>3, <1>5, Places
<1>7. ASSUME NEW x \in Nat, NEW y \in Nat, x <= y PROVE Q * x <= Q * y
  <2>1. Q * (y - x) \in Nat
    BY <1>7, BaseIsPositive
  <2> QED
    BY <1>7, <2>1, BaseIsPositive
<1> QED
  BY <1>5, <1>6, <1>7 DEF Limit

(* The largest varint is one less than the last limit.                      *)
LEMMA MaxVarintIsNat ==
    ASSUME NatIsWellOrdered
    PROVE  MaxVarint \in Nat /\ MaxVarint + 1 = Limit(3)
<1>1. Place[7] \in Nat \ {0} /\ Sizes[3 + 1] - 1 = 7
  BY Places DEF Sizes
<1>2. ASSUME NEW m \in Nat \ {0} PROVE Q * m \in Nat \ {0}
  BY BaseIsPositive
<1>3. Limit(3) \in Nat \ {0}
  BY <1>1, <1>2 DEF Limit
<1> QED
  BY <1>3 DEF MaxVarint

(* A varint that was read can be written.                                   *)
LEMMA VarintBounded ==
    ASSUME NatIsWellOrdered, NEW data \in Seq(Byte), ReadVarint(data).err = "nil"
    PROVE  ReadVarint(data).value \in 0 .. MaxVarint
<1> DEFINE c == data[1] \div Q
           n == Sizes[c + 1]
           w == SubSeq(data, 1, n)
           digits == [w EXCEPT ![1] = @ % Q]
<1>1. /\ c \in 0 .. 3 /\ ReadVarint(data).n = n /\ n \in 1 .. Len(data)
      /\ ReadVarint(data).value = Value([SubSeq(data, 1, ReadVarint(data).n) EXCEPT ![1] = @ % Q])
  BY ReadVarintCases, Zenon
<1>2. n \in 1 .. 8
  BY <1>1, SizeOf
<1>3. w \in Seq(Byte) /\ Len(w) = n
  <2> HIDE DEF n
  <2> QED
    BY <1>1, PrefixFacts
<1>4. w[1] \in Nat /\ w[1] % Q \in Byte /\ w[1] % Q < Q
  <2>0. ASSUME NEW x \in Seq(Byte), Len(x) \in 1 .. 8 PROVE x[1] \in Byte
    BY <2>0
  <2>1. w[1] \in Byte
    BY <1>2, <1>3, <2>0, Zenon
  <2>2. ASSUME NEW x \in Byte PROVE x \in Nat /\ x % Q \in Byte /\ x % Q < Q
    BY BaseIsPositive DEF Byte
  <2> QED
    BY <2>1, <2>2, Zenon
<1> HIDE DEF w
<1>5. digits \in Seq(Byte) /\ Len(digits) = n /\ digits[1] = w[1] % Q
  <2> HIDE DEF n
  <2>1. 1 \in 1 .. n
    BY <1>2
  <2> QED
    BY <1>3, <1>4, <2>1
<1> HIDE DEF digits
<1>6. Value(digits) \in Nat /\ Value(digits) < Q * Place[n - 1]
  <2> HIDE DEF n
  <2> QED
    BY <1>2, <1>4, <1>5, ValueBound, BaseIsPositive, Zenon
<1>7. Q * Place[n - 1] = Limit(c)
  BY DEF Limit
<1>8. Limit(c) <= Limit(3) /\ Limit(c) \in Nat /\ Limit(3) \in Nat
  <2>1. 3 \in 0 .. 3 /\ c \in 0 .. 3
    BY <1>1
  <2> QED
    BY <2>1, LimitsGrow, LimitIsNat, Zenon
<1>9. ReadVarint(data).value = Value(digits)
  BY <1>1, Zenon DEF digits, w
<1> HIDE DEF n, c
<1> QED
  BY <1>6, <1>7, <1>8, <1>9 DEF MaxVarint

(* ReadVarint looks at the bytes of the varint and at no other.             *)
LEMMA VarintLocal ==
    ASSUME NatIsWellOrdered,
           NEW a \in Seq(Byte), NEW b \in Seq(Byte), ReadVarint(a).err = "nil",
           ReadVarint(a).n <= Len(b), \A i \in 1 .. ReadVarint(a).n : a[i] = b[i]
    PROVE  /\ ReadVarint(b).err = "nil" /\ ReadVarint(b).n = ReadVarint(a).n
           /\ ReadVarint(b).value = ReadVarint(a).value
<1> DEFINE n == ReadVarint(a).n
<1>1. /\ a # <<>> /\ n = Sizes[a[1] \div Q + 1] /\ n \in 1 .. Len(a)
      /\ ReadVarint(a).value = Value([SubSeq(a, 1, n) EXCEPT ![1] = @ % Q])
  BY ReadVarintCases, Zenon
<1>2. n \in Nat /\ 1 \in 1 .. n /\ n \in 0 .. Len(a) /\ n \in 0 .. Len(b) /\ b # <<>>
  BY <1>1
<1>3. a[1] = b[1]
  BY <1>2
<1>4. ~(Len(b) < Sizes[b[1] \div Q + 1])
  <2> HIDE DEF n
  <2> QED
    BY <1>1, <1>2, <1>3
<1>5. ReadVarint(b).err = "nil"
  BY <1>2, <1>4, ReadVarintCases, Zenon
<1>6. /\ ReadVarint(b).n = Sizes[b[1] \div Q + 1]
      /\ ReadVarint(b).value = Value([SubSeq(b, 1, ReadVarint(b).n) EXCEPT ![1] = @ % Q])
  BY <1>5, ReadVarintCases, Zenon
<1>7. ReadVarint(b).n = n
  BY <1>1, <1>3, <1>6
<1>8. SubSeq(a, 1, n) = SubSeq(b, 1, n)
  <2>1. \A i \in 1 .. n : a[i] = b[i]
    OBVIOUS
  <2> HIDE DEF n
  <2> QED
    BY <1>2, <2>1
<1> QED
  BY <1>1, <1>5, <1>6, <1>7, <1>8, Zenon

(* ReadVarint reads what AppendVarint appends, whatever follows.            *)
LEMMA VarintInverse ==
    ASSUME NatIsWellOrdered, NEW v \in 0 .. MaxVarint, NEW rest \in Seq(Byte)
    PROVE  /\ Varint(v) \in Seq(Byte) /\ Len(Varint(v)) \in 1 .. 8
           /\ ReadVarint(Varint(v) \o rest).err = "nil"
           /\ ReadVarint(Varint(v) \o rest).n = Len(Varint(v))
           /\ ReadVarint(Varint(v) \o rest).value = v
<1> DEFINE w == Varint(v)
           data == w \o rest
<1>1. w \in Seq(Byte) /\ Len(w) \in 1 .. 8
  BY VarintBytes, Zenon
<1> HIDE DEF w
<1>2. /\ data \in Seq(Byte) /\ Len(data) = Len(w) + Len(rest)
      /\ \A i \in 1 .. Len(w) : data[i] = w[i]
  BY <1>1, ConcatFacts
<1> HIDE DEF data
<1>3. Drop(data, 0) = data
  BY <1>2 DEF Drop
<1>4. Len(rest) \in Nat /\ 0 \in 0 .. Len(data) /\ Len(data) - 0 >= Len(w)
  BY <1>1, <1>2
<1>5. BeginsAs(data, 0, w)
  <2>1. \A i \in 1 .. Len(w) : 0 + i = i
    BY <1>1
  <2> QED
    BY <1>2, <2>1 DEF BeginsAs
<1>6. /\ ReadVarint(data).err = "nil" /\ ReadVarint(data).n = Len(w)
      /\ ReadVarint(data).value = v
  BY <1>2, <1>3, <1>4, <1>5, VarintComplete DEF w
<1> QED
  BY <1>1, <1>6 DEF data, w

-----------------------------------------------------------------------------
(* Fields.                                                                  *)
FieldKinds == {"varint", "byte", "bool", "string", "nonce", "word"}

(* The values of each kind of field, spelled out.                           *)
LEMMA FieldValuesAre ==
    /\ FieldValues("varint") = 0 .. MaxVarint
    /\ FieldValues("string") = {s \in Seq(Byte) : Len(s) <= MaxVarint}
    /\ FieldValues("bool") = {<<0>>, <<1>>}
    /\ \A kind \in {"byte", "nonce", "word"} :
           FieldValues(kind) = {s \in Seq(Byte) : Len(s) = Size(kind)}
BY DEF FieldValues

(* As many bytes of b as of a, and the same.                                *)
SameStart(a, b, n) == n <= Len(b) /\ \A i \in 1 .. n : a[i] = b[i]

SameRead(r, s) == s.err = "nil" /\ s.n = r.n /\ s.value = r.value

(* The bytes of a field.                                                    *)
FieldBytes(kind, v) ==
    CASE kind = "varint" -> Varint(v)
      [] kind = "string" -> Varint(Len(v)) \o v
      [] OTHER -> v

(* It does not matter which bytes are put together first.                   *)
LEMMA ConcatAssociative ==
    ASSUME NEW a \in Seq(Byte), NEW b \in Seq(Byte), NEW c \in Seq(Byte)
    PROVE  (a \o b) \o c = a \o (b \o c)
<1>1. a \o b \in Seq(Byte) /\ b \o c \in Seq(Byte)
  BY ConcatFacts
<1>2. /\ (a \o b) \o c \in Seq(Byte) /\ Len((a \o b) \o c) = (Len(a) + Len(b)) + Len(c)
      /\ a \o (b \o c) \in Seq(Byte) /\ Len(a \o (b \o c)) = Len(a) + (Len(b) + Len(c))
  BY <1>1, ConcatFacts
<1>3. Len(a) \in Nat /\ Len(b) \in Nat /\ Len(c) \in Nat
  OBVIOUS
<1>4. ASSUME NEW i \in 1 .. Len(a) + Len(b) + Len(c)
      PROVE  ((a \o b) \o c)[i] = (a \o (b \o c))[i]
  <2>1. CASE i \in 1 .. Len(a)
    <3>1. i \in 1 .. Len(a \o b)
      BY <1>3, <2>1, ConcatFacts
    <3>2. ((a \o b) \o c)[i] = (a \o b)[i]
      BY <1>1, <3>1, ConcatFacts
    <3>3. (a \o b)[i] = a[i] /\ (a \o (b \o c))[i] = a[i]
      BY <1>1, <2>1, ConcatFacts
    <3> QED
      BY <3>2, <3>3
  <2>2. CASE i \in Len(a) + 1 .. Len(a) + Len(b)
    <3>1. PICK j \in 1 .. Len(b) : i = Len(a) + j
      <4>1. i - Len(a) \in 1 .. Len(b) /\ i = Len(a) + (i - Len(a))
        BY <1>3, <2>2
      <4> QED
        BY <4>1, Zenon
    <3>2. i \in 1 .. Len(a \o b) /\ j \in 1 .. Len(b \o c)
      <4>1. Len(a \o b) = Len(a) + Len(b) /\ Len(b \o c) = Len(b) + Len(c)
        BY ConcatFacts
      <4> QED
        BY <1>3, <2>2, <3>1, <4>1
    <3>3. ((a \o b) \o c)[i] = (a \o b)[i] /\ (a \o (b \o c))[Len(a) + j] = (b \o c)[j]
      BY <1>1, <3>2, ConcatFacts
    <3>4. (a \o b)[Len(a) + j] = b[j] /\ (b \o c)[j] = b[j]
      BY <3>1, ConcatFacts
    <3> QED
      BY <3>1, <3>3, <3>4
  <2>3. CASE i \in Len(a) + Len(b) + 1 .. Len(a) + Len(b) + Len(c)
    <3>1. PICK j \in 1 .. Len(c) : i = (Len(a) + Len(b)) + j
      <4>1. i - (Len(a) + Len(b)) \in 1 .. Len(c) /\ i = (Len(a) + Len(b)) + (i - (Len(a) + Len(b)))
        BY <1>3, <2>3
      <4> QED
        BY <4>1, Zenon
    <3>2. Len(a \o b) = Len(a) + Len(b) /\ Len(b \o c) = Len(b) + Len(c)
      BY ConcatFacts
    <3>3. i = Len(a) + (Len(b) + j) /\ Len(b) + j \in 1 .. Len(b \o c)
      BY <1>3, <3>1, <3>2
    <3>4. ((a \o b) \o c)[Len(a \o b) + j] = c[j]
      BY <1>1, ConcatFacts
    <3>5. (a \o (b \o c))[Len(a) + (Len(b) + j)] = (b \o c)[Len(b) + j]
      BY <1>1, <3>3, ConcatFacts
    <3>6. (b \o c)[Len(b) + j] = c[j]
      BY ConcatFacts
    <3> QED
      BY <3>1, <3>2, <3>3, <3>4, <3>5, <3>6
  <2> QED
    BY <1>3, <2>1, <2>2, <2>3
<1> DEFINE x == (a \o b) \o c
           y == a \o (b \o c)
<1>5. /\ x \in Seq(Byte) /\ y \in Seq(Byte) /\ Len(x) = Len(y)
      /\ Len(x) = Len(a) + Len(b) + Len(c) /\ \A i \in 1 .. Len(x) : x[i] = y[i]
  BY <1>2, <1>3, <1>4
<1> HIDE DEF x, y
<1>6. x = y
  BY <1>5, SameBytes, Zenon
<1> QED
  BY <1>6 DEF x, y

(* The parts of a concatenation.                                            *)
LEMMA ConcatParts ==
    ASSUME NEW a \in Seq(Byte), NEW b \in Seq(Byte)
    PROVE  /\ SubSeq(a \o b, 1, Len(a)) = a
           /\ Drop(a \o b, Len(a)) = b
           /\ \A n \in 0 .. Len(b) : SubSeq(a \o b, Len(a) + 1, Len(a) + n) = SubSeq(b, 1, n)
<1> DEFINE w == a \o b
<1>1. /\ w \in Seq(Byte) /\ Len(w) = Len(a) + Len(b)
      /\ \A i \in 1 .. Len(a) : w[i] = a[i]
      /\ \A i \in 1 .. Len(b) : w[Len(a) + i] = b[i]
  BY ConcatFacts
<1>2. Len(a) \in Nat /\ Len(b) \in Nat /\ Len(a) \in 0 .. Len(w)
  BY <1>1
<1> HIDE DEF w
<1>3. SubSeq(w, 1, Len(a)) = a
  <2>1. /\ SubSeq(w, 1, Len(a)) \in Seq(Byte) /\ Len(SubSeq(w, 1, Len(a))) = Len(a)
        /\ \A i \in 1 .. Len(a) : SubSeq(w, 1, Len(a))[i] = w[i]
    BY <1>1, <1>2, PrefixFacts
  <2> QED
    BY <1>1, <2>1, SameBytes
<1>4. Drop(w, Len(a)) = b
  <2>1. /\ Drop(w, Len(a)) \in Seq(Byte) /\ Len(Drop(w, Len(a))) = Len(w) - Len(a)
        /\ \A i \in 1 .. Len(w) - Len(a) : Drop(w, Len(a))[i] = w[Len(a) + i]
    BY <1>1, <1>2, DropFacts, Zenon
  <2>2. Len(w) - Len(a) = Len(b)
    BY <1>1, <1>2
  <2> QED
    BY <1>1, <2>1, <2>2, SameBytes
<1>5. ASSUME NEW n \in 0 .. Len(b)
      PROVE  SubSeq(w, Len(a) + 1, Len(a) + n) = SubSeq(b, 1, n)
  <2>1. Len(w) - Len(a) = Len(b)
    BY <1>1, <1>2
  <2>2. /\ SubSeq(w, Len(a) + 1, Len(a) + n) \in Seq(Byte)
        /\ Len(SubSeq(w, Len(a) + 1, Len(a) + n)) = n
        /\ \A i \in 1 .. n : SubSeq(w, Len(a) + 1, Len(a) + n)[i] = w[Len(a) + i]
    BY <1>1, <1>2, <2>1, SubSeqFacts
  <2>3. /\ SubSeq(b, 1, n) \in Seq(Byte) /\ Len(SubSeq(b, 1, n)) = n
        /\ \A i \in 1 .. n : SubSeq(b, 1, n)[i] = b[i]
    BY PrefixFacts
  <2>4. \A i \in 1 .. n : w[Len(a) + i] = b[i]
    BY <1>1, <1>2
  <2> QED
    BY <2>2, <2>3, <2>4, SameBytes
<1> QED
  BY <1>3, <1>4, <1>5 DEF w

(* The bytes of each kind of field, spelled out.                            *)
LEMMA FieldBytesAre ==
    ASSUME NEW v
    PROVE  /\ FieldBytes("varint", v) = Varint(v)
           /\ FieldBytes("string", v) = Varint(Len(v)) \o v
           /\ \A kind \in FieldKinds \ {"varint", "string"} : FieldBytes(kind, v) = v
BY DEF FieldBytes, FieldKinds

(* Rows of fields: what AppendFields has written after k fields.            *)
Holds(kinds, values) == \A i \in 1 .. Len(kinds) : values[i] \in FieldValues(kinds[i])

IsAppended(g, kinds, values) ==
    g = [i \in 0 .. Len(kinds) |->
            IF i = 0 THEN <<>> ELSE AppendField(g[i - 1], kinds[i], values[i])]

Appended(kinds, values) == CHOOSE g : IsAppended(g, kinds, values)

(* What ReadFields has read after k fields.                                 *)
Got(got, n) == [ok |-> TRUE, got |-> got, n |-> n]

AnyValue == Nat \cup Seq(Byte)

Reads(data) == {Error} \cup [ok : {TRUE}, got : Seq(AnyValue), n : 0 .. Len(data)]

ReadOne(kind, data, before) ==
    IF ~before.ok THEN before
    ELSE LET r == ReadField(kind, Drop(data, before.n)) IN
         IF r.err # "nil" THEN Error ELSE Got(Append(before.got, r.value), before.n + r.n)

IsReading(g, kinds, data) ==
    g = [i \in 0 .. Len(kinds) |->
            IF i = 0 THEN Got(<<>>, 0) ELSE ReadOne(kinds[i], data, g[i - 1])]

FieldsRead(kinds, data) == CHOOSE g : IsReading(g, kinds, data)

(* Taking apart the result of a reader.                                     *)
LEMMA GotFields ==
    /\ \A g, n : Got(g, n).ok /\ Got(g, n).got = g /\ Got(g, n).n = n
    /\ ~Error.ok
BY DEF Got, Error

(* A length that is not zero is a length.                                   *)
LEMMA FromZero ==
    ASSUME NEW u, NEW v, v \in 1 .. u
    PROVE  v \in 0 .. u
OBVIOUS

(* The same, for a result that has a name.                                  *)
LEMMA GotParts ==
    ASSUME NEW r, NEW g, NEW n, r = Got(g, n)
    PROVE  r.ok /\ r.got = g /\ r.n = n
BY DEF Got

(* AnyValue has the values of all kinds.                                    *)
LEMMA FieldValuesAny ==
    ASSUME NatIsWellOrdered
    PROVE  \A kind \in FieldKinds : FieldValues(kind) \subseteq AnyValue
<1> SUFFICES ASSUME NEW kind \in FieldKinds, NEW v \in FieldValues(kind) PROVE v \in AnyValue
  OBVIOUS
<1>1. CASE kind = "varint"
  BY <1>1, FieldValuesAre, MaxVarintIsNat DEF AnyValue
<1>2. CASE kind # "varint"
  <2>1. CASE kind = "bool"
    <3>1. 0 \in Byte /\ 1 \in Byte
      BY BaseIsPositive DEF Byte
    <3>2. <<0>> \in Seq(Byte) /\ <<1>> \in Seq(Byte)
      BY <3>1
    <3> QED
      BY <2>1, <3>2, FieldValuesAre, Zenon DEF AnyValue
  <2>2. CASE kind # "bool"
    <3>1. kind = "string" \/ kind \in {"byte", "nonce", "word"}
      BY <1>2, <2>2 DEF FieldKinds
    <3>2. v \in Seq(Byte)
      BY <3>1, FieldValuesAre
    <3> QED
      BY <3>2 DEF AnyValue
  <2> QED
    BY <2>1, <2>2
<1> QED
  BY <1>1, <1>2

(* A row that was read holds values of its kinds, each of a byte at least.  *)
RowRead(kinds, data, k, r) ==
    \/ r = Error
    \/ \E g \in Seq(AnyValue), m \in 0 .. Len(data) :
          /\ r = Got(g, m) /\ Len(g) = k /\ m >= k
          /\ \A i \in 1 .. k : g[i] \in FieldValues(kinds[i])

(* Bytes that agree at first agree behind a field as well.                  *)
LEMMA SameStartDrop ==
    ASSUME NEW a \in Seq(Byte), NEW b \in Seq(Byte), NEW m \in 0 .. Len(a), NEW n \in 0 .. Len(a) - m,
           SameStart(a, b, m + n)
    PROVE  SameStart(a, b, m) /\ m \in 0 .. Len(b) /\ SameStart(Drop(a, m), Drop(b, m), n)
<1>1. Len(a) \in Nat /\ Len(b) \in Nat /\ m + n <= Len(b) /\ \A i \in 1 .. m + n : a[i] = b[i]
  BY DEF SameStart
<1>2. m \in 0 .. Len(b) /\ n <= Len(b) - m
  BY <1>1
<1>3. SameStart(a, b, m)
  <2>1. \A i \in 1 .. m : i \in 1 .. m + n
    BY <1>1
  <2> QED
    BY <1>1, <1>2, <2>1 DEF SameStart
<1>4. /\ Len(Drop(b, m)) = Len(b) - m
      /\ \A i \in 1 .. Len(a) - m : Drop(a, m)[i] = a[m + i]
      /\ \A i \in 1 .. Len(b) - m : Drop(b, m)[i] = b[m + i]
  BY <1>2, DropFacts
<1>5. \A i \in 1 .. n : i \in 1 .. Len(a) - m /\ i \in 1 .. Len(b) - m /\ m + i \in 1 .. m + n
  BY <1>1, <1>2
<1>6. SameStart(Drop(a, m), Drop(b, m), n)
  BY <1>1, <1>2, <1>4, <1>5 DEF SameStart
<1> QED
  BY <1>2, <1>3, <1>6

(* The first k values of a row.                                             *)
Values(values, k) == [i \in 1 .. k |-> values[i]]

(* How strings and rows of fields are written and read: a row is written    *)
(* field by field; what is read has the types of its fields and depends only *)
(* on the bytes that it takes; and what was written is read as it was.      *)
LEMMA RowFacts ==
    ASSUME NatIsWellOrdered
    PROVE  /\ \A s \in Seq(Byte), dst \in Seq(Byte), rest \in Seq(Byte) :
                  Len(s) <= MaxVarint
                  => LET w == Varint(Len(s)) \o s
                     IN  /\ w \in Seq(Byte)
                         /\ appendString(dst, s) = dst \o w
                         /\ readString(w \o rest).err = "nil"
                         /\ readString(w \o rest).n = Len(w)
                         /\ readString(w \o rest).value = s
           /\ \A values : \A kinds \in Seq(FieldKinds) :
                  Holds(kinds, values)
                  => LET A == Appended(kinds, values)
                     IN  /\ A[0] = <<>>
                         /\ \A k \in 0 .. Len(kinds) : A[k] \in Seq(Byte)
                         /\ \A k \in 0 .. Len(kinds) - 1 :
                                /\ FieldBytes(kinds[k + 1], values[k + 1]) \in Seq(Byte)
                                /\ A[k + 1] = A[k] \o FieldBytes(kinds[k + 1], values[k + 1])
                         /\ AppendFields(kinds, values) = A[Len(kinds)]
           /\ \A kinds \in Seq(FieldKinds), data \in Seq(Byte) :
                  RowRead(kinds, data, Len(kinds), ReadFields(kinds, data))
           /\ \A kinds \in Seq(FieldKinds), a \in Seq(Byte), b \in Seq(Byte) :
                  ReadFields(kinds, a).ok /\ SameStart(a, b, ReadFields(kinds, a).n)
                  => ReadFields(kinds, b) = ReadFields(kinds, a)
           /\ \A values : \A kinds \in Seq(FieldKinds), rest \in Seq(Byte) :
                  Holds(kinds, values)
                  => LET w == AppendFields(kinds, values)
                     IN  /\ w \in Seq(Byte)
                         /\ ReadFields(kinds, w \o rest) = Got(Values(values, Len(kinds)), Len(w))
<1>FieldSizes. \A kind \in FieldKinds : Size(kind) \in Nat \ {0}
  BY PayloadAssumption, SMTT(30) DEF Size
<1>StringCases.
    ASSUME NEW data \in Seq(Byte)
    PROVE  LET r == ReadVarint(data)
               s == readString(data)
           IN  /\ s.err \in {"nil", "ErrShortBuffer"}
               /\ s.err = "nil" <=> r.err = "nil" /\ r.n + r.value <= Len(data)
               /\ s.err = "nil" => /\ s.n = r.n + r.value
                                   /\ s.value = SubSeq(data, r.n + 1, r.n + r.value)
                                   /\ r.n \in 1 .. Len(data) /\ r.value \in Nat
  <2> DEFINE r == ReadVarint(data)
             s == readString(data)
             v == SubSeq(data, r.n + 1, r.n + r.value)
  <2>1. s = IF r.err # "nil" \/ Len(data) - r.n < r.value THEN Short
            ELSE [err |-> "nil", value |-> v, n |-> r.n + r.value]
    BY DEF readString
  <2>2. r.err = "nil" => r.n \in 1 .. Len(data) /\ r.value \in Nat
    BY ReadVarintCases, Zenon
  <2>3. Len(data) \in Nat
    OBVIOUS
  <2> SUFFICES /\ s.err \in {"nil", "ErrShortBuffer"}
               /\ s.err = "nil" <=> r.err = "nil" /\ r.n + r.value <= Len(data)
               /\ s.err = "nil" => s.n = r.n + r.value /\ s.value = v
                                  /\ r.n \in 1 .. Len(data) /\ r.value \in Nat
    OBVIOUS
  <2> HIDE DEF r, s, v
  <2>4. CASE r.err = "nil"
    <3>1. r.n \in Nat /\ r.value \in Nat
      BY <2>2, <2>3, <2>4
    <3>2. Len(data) - r.n < r.value <=> ~(r.n + r.value <= Len(data))
      <4>1. ASSUME NEW x \in Nat, NEW y \in Nat, NEW z \in Nat
            PROVE  z - x < y <=> ~(x + y <= z)
        OBVIOUS
      <4> QED
        BY <2>3, <3>1, <4>1
    <3>3. CASE r.n + r.value <= Len(data)
      <4>1. s = [err |-> "nil", value |-> v, n |-> r.n + r.value]
        BY <2>1, <2>4, <3>2, <3>3
      <4> QED
        BY <2>2, <2>4, <3>3, <4>1
    <3>4. CASE ~(r.n + r.value <= Len(data))
      <4>1. s = Short
        BY <2>1, <2>4, <3>2, <3>4
      <4> QED
        BY <3>4, <4>1 DEF Short
    <3> QED
      BY <3>3, <3>4
  <2>5. CASE r.err # "nil"
    <3>1. s = Short
      BY <2>1, <2>5
    <3> QED
      BY <2>5, <3>1 DEF Short
  <2> QED
    BY <2>4, <2>5
(* A field of fixed size.                                                   *)
<1>FixedCases.
    ASSUME NEW kind \in FieldKinds \ {"varint", "string"}, NEW data \in Seq(Byte)
    PROVE  LET s == ReadField(kind, data)
           IN  /\ s.err \in {"nil", "ErrShortBuffer"}
               /\ s.err = "nil" <=> /\ Size(kind) <= Len(data)
                                    /\ kind = "bool" => data[1] \in {0, 1}
               /\ s.err = "nil" => s.n = Size(kind) /\ s.value = SubSeq(data, 1, Size(kind))
  <2> DEFINE s == ReadField(kind, data)
             z == Size(kind)
             bad == kind = "bool" /\ data # <<>> /\ data[1] \notin {0, 1}
             v == SubSeq(data, 1, z)
  <2>1. s = IF bad THEN Short
            ELSE IF Len(data) < z THEN Short ELSE [err |-> "nil", value |-> v, n |-> z]
    BY DEF ReadField, Take
  <2>2. z \in Nat \ {0} /\ Len(data) \in Nat
    BY <1>FieldSizes
  <2>3. z <= Len(data) => data # <<>>
    <3> HIDE DEF z
    <3> QED
      BY <2>2
  <2> SUFFICES /\ s.err \in {"nil", "ErrShortBuffer"}
               /\ s.err = "nil" <=> z <= Len(data) /\ (kind = "bool" => data[1] \in {0, 1})
               /\ s.err = "nil" => s.n = z /\ s.value = v
    OBVIOUS
  <2> HIDE DEF s, z, v
  <2>4. CASE z <= Len(data) /\ (kind = "bool" => data[1] \in {0, 1})
    <3>1. s = [err |-> "nil", value |-> v, n |-> z]
      BY <2>1, <2>2, <2>4
    <3> QED
      BY <2>4, <3>1
  <2>5. CASE ~(z <= Len(data) /\ (kind = "bool" => data[1] \in {0, 1}))
    <3>1. s = Short
      BY <2>1, <2>2, <2>3, <2>5
    <3> QED
      BY <2>5, <3>1 DEF Short
  <2> QED
    BY <2>4, <2>5
<1>FieldIs.
    ASSUME NEW data, NEW dst, NEW v
    PROVE  /\ ReadField("varint", data) = ReadVarint(data)
           /\ ReadField("string", data) = readString(data)
           /\ AppendField(dst, "varint", v) = AppendVarint(dst, v)
           /\ AppendField(dst, "string", v) = appendString(dst, v)
           /\ \A kind \in FieldKinds \ {"varint", "string"} : AppendField(dst, kind, v) = dst \o v
  BY DEF ReadField, AppendField, FieldKinds
(* A value that was read can be written, and takes a byte at least.         *)
<1>FieldType.
    ASSUME NEW kind \in FieldKinds, NEW data \in Seq(Byte)
    PROVE  /\ ReadField(kind, data).err \in {"nil", "ErrShortBuffer"}
           /\ ReadField(kind, data).err = "nil" =>
                  /\ ReadField(kind, data).n \in 1 .. Len(data)
                  /\ ReadField(kind, data).value \in FieldValues(kind)
  <2>1. CASE kind = "varint"
    BY <2>1, <1>FieldIs, FieldValuesAre, ReadVarintCases, VarintBounded, Zenon
  <2>2. CASE kind = "string"
    <3> DEFINE r == ReadVarint(data)
               s == readString(data)
    <3>1. ReadField(kind, data) = s
      BY <2>2, <1>FieldIs, Zenon
    <3>2. s.err \in {"nil", "ErrShortBuffer"}
      BY <1>StringCases
    <3>3. ASSUME s.err = "nil" PROVE s.n \in 1 .. Len(data) /\ s.value \in FieldValues(kind)
      <4>1. /\ r.err = "nil" /\ r.n + r.value <= Len(data) /\ s.n = r.n + r.value
            /\ s.value = SubSeq(data, r.n + 1, r.n + r.value)
            /\ r.n \in 1 .. Len(data) /\ r.value \in Nat
        BY <3>3, <1>StringCases
      <4>2. r.value \in 0 .. MaxVarint
        BY <4>1, VarintBounded
      <4>3. Len(data) \in Nat
        OBVIOUS
      <4> HIDE DEF r, s
      <4>4. r.n \in 0 .. Len(data) /\ r.value \in 0 .. Len(data) - r.n /\ r.n + r.value \in 1 .. Len(data)
        BY <4>1, <4>3
      <4>5. /\ SubSeq(data, r.n + 1, r.n + r.value) \in Seq(Byte)
            /\ Len(SubSeq(data, r.n + 1, r.n + r.value)) = r.value
        BY <4>4, SubSeqFacts, Zenon
      <4>6. s.value \in Seq(Byte) /\ Len(s.value) <= MaxVarint
        <5>1. s.value \in Seq(Byte) /\ Len(s.value) = r.value
          BY <4>1, <4>5, Zenon
        <5>2. r.value <= MaxVarint
          BY <4>2, MaxVarintIsNat
        <5> QED
          BY <5>1, <5>2, Zenon
      <4> QED
        BY <2>2, <4>1, <4>4, <4>6, FieldValuesAre, Zenon
    <3> QED
      BY <3>1, <3>2, <3>3
  <2>3. CASE kind \in FieldKinds \ {"varint", "string"}
    <3> DEFINE s == ReadField(kind, data)
               z == Size(kind)
    <3>1. s.err \in {"nil", "ErrShortBuffer"}
      BY <2>3, <1>FixedCases
    <3>2. ASSUME s.err = "nil" PROVE s.n \in 1 .. Len(data) /\ s.value \in FieldValues(kind)
      <4>1. z <= Len(data) /\ s.n = z /\ s.value = SubSeq(data, 1, z) /\ (kind = "bool" => data[1] \in {0, 1})
        BY <2>3, <3>2, <1>FixedCases
      <4>2. z \in Nat \ {0} /\ Len(data) \in Nat
        BY <1>FieldSizes
      <4> HIDE DEF z, s
      <4>3. z \in 0 .. Len(data) /\ z \in 1 .. Len(data)
        BY <4>1, <4>2
      <4>4. s.value \in Seq(Byte) /\ Len(s.value) = z /\ s.value[1] = data[1]
        BY <4>1, <4>3, PrefixFacts
      <4>5. CASE kind = "bool"
        <5>1. z = 1
          BY <4>5 DEF z, Size
        <5>2. ASSUME NEW x \in Seq(Byte), Len(x) = 1 PROVE x = <<x[1]>>
          BY <5>2
        <5>3. s.value = <<data[1]>>
          BY <4>4, <5>1, <5>2
        <5> QED
          BY <4>1, <4>3, <4>5, <5>3, FieldValuesAre, Zenon
      <4>6. CASE kind # "bool"
        <5>1. kind \in {"byte", "nonce", "word"}
          BY <2>3, <4>6 DEF FieldKinds
        <5> QED
          BY <4>1, <4>3, <4>4, <5>1, FieldValuesAre, Zenon DEF z
      <4> QED
        BY <4>5, <4>6
    <3> QED
      BY <3>1, <3>2
  <2> QED
    BY <2>1, <2>2, <2>3
<1>SameStartSubSeq.
    ASSUME NEW a \in Seq(Byte), NEW b \in Seq(Byte), NEW n \in 0 .. Len(a), SameStart(a, b, n),
           NEW p \in 0 .. n, NEW m \in 0 .. n - p
    PROVE  SubSeq(a, p + 1, p + m) = SubSeq(b, p + 1, p + m)
  <2> USE <1>SameStartSubSeq
  <2>1. n \in Nat /\ Len(a) \in Nat /\ Len(b) \in Nat /\ n <= Len(b)
    BY DEF SameStart
  <2>2. p \in 0 .. Len(a) /\ m \in 0 .. Len(a) - p /\ p \in 0 .. Len(b) /\ m \in 0 .. Len(b) - p
    BY <2>1
  <2> DEFINE x == SubSeq(a, p + 1, p + m)
             y == SubSeq(b, p + 1, p + m)
  <2>3. x \in Seq(Byte) /\ Len(x) = m /\ \A i \in 1 .. m : x[i] = a[p + i]
    BY <2>2, SubSeqFacts
  <2>4. y \in Seq(Byte) /\ Len(y) = m /\ \A i \in 1 .. m : y[i] = b[p + i]
    BY <2>2, SubSeqFacts
  <2>5. \A i \in 1 .. m : a[p + i] = b[p + i]
    <3> SUFFICES ASSUME NEW i \in 1 .. m PROVE a[p + i] = b[p + i]
      BY Zenon
    <3>1. p + i \in 1 .. n
      BY <2>1
    <3> QED
      BY <3>1 DEF SameStart
  <2> HIDE DEF x, y
  <2>6. x = y
    BY <2>3, <2>4, <2>5, SameBytes, Zenon
  <2> QED
    BY <2>6 DEF x, y
(* A field is read from its own bytes and from no other.                    *)
<1>FieldLocal.
    ASSUME NEW kind \in FieldKinds, NEW a \in Seq(Byte), NEW b \in Seq(Byte),
           ReadField(kind, a).err = "nil", SameStart(a, b, ReadField(kind, a).n)
    PROVE  SameRead(ReadField(kind, a), ReadField(kind, b))
  <2> USE <1>FieldLocal
  <2>0. ReadField(kind, a).n \in 1 .. Len(a) /\ Len(a) \in Nat /\ Len(b) \in Nat
    BY <1>FieldType
  <2>1. CASE kind = "varint"
    BY <2>1, <1>FieldIs, VarintLocal, Zenon DEF SameStart, SameRead
  <2>2. CASE kind = "string"
    <3> DEFINE r == ReadVarint(a)
               q == ReadVarint(b)
               s == readString(a)
               u == readString(b)
    <3>1. ReadField(kind, a) = s /\ ReadField(kind, b) = u
      BY <2>2, <1>FieldIs, Zenon
    <3>2. /\ r.err = "nil" /\ r.n + r.value <= Len(a) /\ s.n = r.n + r.value
          /\ s.value = SubSeq(a, r.n + 1, r.n + r.value)
          /\ r.n \in 1 .. Len(a) /\ r.value \in Nat
      BY <3>1, <1>StringCases
    <3>3. SameStart(a, b, s.n)
      BY <3>1
    <3>4. r.n <= Len(b) /\ (\A i \in 1 .. r.n : a[i] = b[i]) /\ r.n + r.value <= Len(b)
      <4> HIDE DEF r, s
      <4> QED
        BY <2>0, <3>2, <3>3 DEF SameStart
    <3>5. q.err = "nil" /\ q.n = r.n /\ q.value = r.value
      BY <3>2, <3>4, VarintLocal
    <3>6. u.err = "nil" /\ u.n = r.n + r.value /\ u.value = SubSeq(b, r.n + 1, r.n + r.value)
      <4>1. q.err = "nil" /\ q.n + q.value <= Len(b)
        BY <3>4, <3>5
      <4>2. u.err = "nil" /\ u.n = q.n + q.value /\ u.value = SubSeq(b, q.n + 1, q.n + q.value)
        BY <4>1, <1>StringCases
      <4> QED
        BY <3>5, <4>2
    <3>7. SubSeq(a, r.n + 1, r.n + r.value) = SubSeq(b, r.n + 1, r.n + r.value)
      <4> HIDE DEF r, s
      <4>1. s.n \in 0 .. Len(a) /\ r.n \in 0 .. s.n /\ r.value \in 0 .. s.n - r.n
        <5>1. ASSUME NEW l \in Nat, NEW x \in 1 .. l, NEW y \in Nat, NEW z, z = x + y, z <= l
              PROVE  z \in 0 .. l /\ x \in 0 .. z /\ y \in 0 .. z - x
          BY <5>1
        <5>2. s.n <= Len(a)
          BY <3>2
        <5> QED
          BY <2>0, <3>2, <5>1, <5>2, Zenon
      <4> QED
        BY <3>3, <4>1, <1>SameStartSubSeq, Zenon
    <3> QED
      BY <3>1, <3>2, <3>6, <3>7, Zenon DEF SameRead
  <2>3. CASE kind \in FieldKinds \ {"varint", "string"}
    <3> DEFINE s == ReadField(kind, a)
               u == ReadField(kind, b)
               z == Size(kind)
    <3>1. z <= Len(a) /\ s.n = z /\ s.value = SubSeq(a, 1, z) /\ (kind = "bool" => a[1] \in {0, 1})
      BY <2>3, <1>FixedCases
    <3>2. z \in Nat \ {0}
      BY <1>FieldSizes
    <3>3. SameStart(a, b, z)
      BY <3>1
    <3>4. z <= Len(b) /\ a[1] = b[1]
      <4> HIDE DEF z
      <4> QED
        BY <3>2, <3>3 DEF SameStart
    <3>5. u.err = "nil" /\ u.n = z /\ u.value = SubSeq(b, 1, z)
      BY <2>3, <3>1, <3>4, <1>FixedCases
    <3>6. SubSeq(a, 1, z) = SubSeq(b, 1, z)
      <4> HIDE DEF z
      <4>1. z \in 0 .. Len(a) /\ 0 \in 0 .. z /\ z \in 0 .. z - 0 /\ 0 + 1 = 1 /\ 0 + z = z
        BY <2>0, <3>1, <3>2
      <4>2. SubSeq(a, 0 + 1, 0 + z) = SubSeq(b, 0 + 1, 0 + z)
        BY <3>3, <4>1, <1>SameStartSubSeq, Zenon
      <4> QED
        BY <4>1, <4>2
    <3> QED
      BY <3>1, <3>5, <3>6, Zenon DEF SameRead
  <2> QED
    BY <2>1, <2>2, <2>3
(* A field is read as it was written, whatever follows.                     *)
<1>StringInverse.
    ASSUME NEW s \in Seq(Byte), Len(s) <= MaxVarint, NEW dst \in Seq(Byte), NEW rest \in Seq(Byte)
    PROVE  LET w == Varint(Len(s)) \o s
           IN  /\ w \in Seq(Byte)
               /\ appendString(dst, s) = dst \o w
               /\ readString(w \o rest).err = "nil"
               /\ readString(w \o rest).n = Len(w)
               /\ readString(w \o rest).value = s
  <2> USE <1>StringInverse
  <2> DEFINE a == Varint(Len(s))
             w == a \o s
             t == s \o rest
             data == w \o rest
             r == ReadVarint(data)
             u == readString(data)
  <2>1. Len(s) \in 0 .. MaxVarint /\ Len(s) \in Nat /\ Len(rest) \in Nat
    BY MaxVarintIsNat
  <2>2. t \in Seq(Byte) /\ Len(t) = Len(s) + Len(rest)
    BY ConcatFacts
  <2>3. a \in Seq(Byte) /\ Len(a) \in 1 .. 8
    BY <2>1, VarintBytes, Zenon
  <2>4. appendString(dst, s) = (dst \o a) \o s
    BY AppendsVarint, Zenon DEF appendString
  <2>5. data = a \o t
    <3> HIDE DEF a
    <3> QED
      BY <2>3, ConcatAssociative, SMTT(30)
  <2>6. r.err = "nil" /\ r.n = Len(a) /\ r.value = Len(s)
    <3>1. /\ ReadVarint(a \o t).err = "nil" /\ ReadVarint(a \o t).n = Len(a)
          /\ ReadVarint(a \o t).value = Len(s)
      <4> HIDE DEF t
      <4> QED
        BY <2>1, <2>2, VarintInverse
    <3> QED
      BY <2>5, <3>1
  <2> HIDE DEF a
  <2>7. w \in Seq(Byte) /\ Len(w) = Len(a) + Len(s)
    BY <2>3, ConcatFacts
  <2>8. dst \o w = (dst \o a) \o s
    BY <2>3, ConcatAssociative, Zenon
  <2>9. data \in Seq(Byte) /\ Len(data) = (Len(a) + Len(s)) + Len(rest)
    <3> HIDE DEF w
    <3> QED
      BY <2>7, ConcatFacts, Zenon
  <2>10. Len(a) + Len(s) <= Len(data)
    BY <2>1, <2>3, <2>9
  <2>11. u.err = "nil" /\ u.n = Len(a) + Len(s) /\ u.value = SubSeq(data, Len(a) + 1, Len(a) + Len(s))
    <3> HIDE DEF data
    <3>1. u.err = "nil"
      BY <2>6, <2>9, <2>10, <1>StringCases
    <3> QED
      BY <2>6, <2>9, <3>1, <1>StringCases, Zenon
  <2>12. SubSeq(data, Len(a) + 1, Len(a) + Len(s)) = s
    <3>1. Len(s) \in 0 .. Len(t)
      BY <2>1, <2>2
    <3>2. SubSeq(a \o t, Len(a) + 1, Len(a) + Len(s)) = SubSeq(t, 1, Len(s))
      <4> HIDE DEF t
      <4> QED
        BY <2>2, <2>3, <3>1, ConcatParts, ZenonT(60)
    <3>3. SubSeq(t, 1, Len(s)) = s
      BY ConcatParts
    <3> QED
      BY <2>5, <3>2, <3>3
  <2> QED
    BY <2>4, <2>7, <2>8, <2>11, <2>12 DEF a
<1>FieldInverse.
    ASSUME NEW kind \in FieldKinds, NEW v \in FieldValues(kind),
           NEW dst \in Seq(Byte), NEW rest \in Seq(Byte)
    PROVE  LET w == FieldBytes(kind, v)
           IN  /\ w \in Seq(Byte)
               /\ AppendField(dst, kind, v) = dst \o w
               /\ ReadField(kind, w \o rest).err = "nil"
               /\ ReadField(kind, w \o rest).n = Len(w)
               /\ ReadField(kind, w \o rest).value = v
  <2>1. CASE kind = "varint"
    <3>1. v \in 0 .. MaxVarint
      BY <2>1, FieldValuesAre, Zenon
    <3>2. FieldBytes(kind, v) = Varint(v)
      BY <2>1, FieldBytesAre
    <3>3. AppendField(dst, kind, v) = dst \o Varint(v)
      BY <2>1, <1>FieldIs, AppendsVarint, Zenon
    <3>4. ReadField(kind, Varint(v) \o rest) = ReadVarint(Varint(v) \o rest)
      BY <2>1, <1>FieldIs
    <3> QED
      BY <3>1, <3>2, <3>3, <3>4, VarintInverse
  <2>2. CASE kind = "string"
    <3>1. v \in Seq(Byte) /\ Len(v) <= MaxVarint
      BY <2>2, FieldValuesAre
    <3> DEFINE w == Varint(Len(v)) \o v
    <3>2. FieldBytes(kind, v) = w
      BY <2>2, FieldBytesAre, Zenon
    <3>3. AppendField(dst, kind, v) = appendString(dst, v)
      BY <2>2, <1>FieldIs, Zenon
    <3>4. ReadField(kind, w \o rest) = readString(w \o rest)
      BY <2>2, <1>FieldIs, Zenon
    <3>5. /\ w \in Seq(Byte) /\ appendString(dst, v) = dst \o w
          /\ readString(w \o rest).err = "nil"
          /\ readString(w \o rest).n = Len(w)
          /\ readString(w \o rest).value = v
      BY <3>1, <1>StringInverse, SMTT(30)
    <3> HIDE DEF w
    <3> QED
      BY <3>2, <3>3, <3>4, <3>5
  <2>3. CASE kind \in FieldKinds \ {"varint", "string"}
    <3> DEFINE z == Size(kind)
    <3>0. z \in Nat \ {0}
      BY <1>FieldSizes
    <3>1. v \in Seq(Byte) /\ Len(v) = z /\ (kind = "bool" => v[1] \in {0, 1})
      <4>1. CASE kind = "bool"
        <5>1. z = 1
          BY <4>1 DEF Size
        <5>2. v \in {<<0>>, <<1>>} /\ 0 \in Byte /\ 1 \in Byte
          BY <4>1, FieldValuesAre, BaseIsPositive DEF Byte
        <5>3. ASSUME NEW x \in Byte, x \in {0, 1}
              PROVE  <<x>> \in Seq(Byte) /\ Len(<<x>>) = 1 /\ <<x>>[1] \in {0, 1}
          BY <5>3
        <5> HIDE DEF z
        <5> QED
          BY <5>1, <5>2, <5>3, Zenon
      <4>2. CASE kind # "bool"
        <5>1. kind \in {"byte", "nonce", "word"}
          BY <2>3, <4>2 DEF FieldKinds
        <5> QED
          BY <4>2, <5>1, FieldValuesAre
      <4> QED
        BY <4>1, <4>2
    <3>2. FieldBytes(kind, v) = v /\ AppendField(dst, kind, v) = dst \o v
      BY <2>3, FieldBytesAre, <1>FieldIs, Zenon
    <3> DEFINE data == v \o rest
               s == ReadField(kind, data)
    <3>3. /\ data \in Seq(Byte) /\ Len(data) = Len(v) + Len(rest)
          /\ (\A i \in 1 .. Len(v) : data[i] = v[i]) /\ SubSeq(data, 1, Len(v)) = v
      BY <3>1, ConcatFacts, ConcatParts, Zenon
    <3> HIDE DEF z, data
    <3>4. Len(rest) \in Nat /\ 1 \in 1 .. Len(v) /\ z <= Len(data)
      BY <3>0, <3>1, <3>3
    <3>5. data[1] = v[1]
      BY <3>3, <3>4
    <3>6. s.err = "nil" /\ s.n = z /\ s.value = SubSeq(data, 1, z)
      BY <2>3, <3>1, <3>3, <3>4, <3>5, <1>FixedCases DEF z
    <3> QED
      BY <3>1, <3>2, <3>3, <3>6 DEF data
  <2> QED
    BY <2>1, <2>2, <2>3
<1>AppendedStep.
    ASSUME NEW kinds \in Seq(FieldKinds), NEW values, Holds(kinds, values)
    PROVE  LET A == Appended(kinds, values)
           IN  /\ A[0] = <<>>
               /\ \A k \in 0 .. Len(kinds) : A[k] \in Seq(Byte)
               /\ \A k \in 0 .. Len(kinds) - 1 :
                      /\ FieldBytes(kinds[k + 1], values[k + 1]) \in Seq(Byte)
                      /\ A[k + 1] = A[k] \o FieldBytes(kinds[k + 1], values[k + 1])
               /\ AppendFields(kinds, values) = A[Len(kinds)]
  <2> USE <1>AppendedStep
  <2> DEFINE n == Len(kinds)
             S == Seq(Byte)
             w(i) == FieldBytes(kinds[i], values[i])
             step == [i \in 1 .. n |-> [x \in S |-> x \o w(i)]]
  <2>0. n \in Nat /\ \A i \in 1 .. n : kinds[i] \in FieldKinds /\ values[i] \in FieldValues(kinds[i])
    BY DEF Holds
  <2>0a. \A i \in 1 .. n : w(i) \in S /\ \A x \in S : AppendField(x, kinds[i], values[i]) = x \o w(i)
    <3> SUFFICES ASSUME NEW i \in 1 .. n, NEW x \in S
                 PROVE  w(i) \in S /\ AppendField(x, kinds[i], values[i]) = x \o w(i)
      <4>1. <<>> \in S
        OBVIOUS
      <4> QED
        BY <4>1, Zenon
    <3>1. <<>> \in Seq(Byte) /\ kinds[i] \in FieldKinds /\ values[i] \in FieldValues(kinds[i])
      BY <2>0
    <3> QED
      BY <3>1, <1>FieldInverse
  <2>0b. \A i \in 1 .. n : \A x \in S : x \o w(i) \in S
    BY <2>0a, ConcatFacts
  <2> HIDE DEF n, w
  <2>1. step \in [1 .. n -> [S -> S]] /\ <<>> \in S
    <3>1. <<>> \in S
      OBVIOUS
    <3> HIDE DEF S
    <3> QED
      BY <2>0b, <3>1
  <2>2. PICK f \in [0 .. n -> S] : IsRecursion(f, n, <<>>, step)
    <3> HIDE DEF step, S
    <3> QED
      BY <2>0, <2>1, Recursion
  <2>3. f[0] = <<>> /\ \A i \in 1 .. n : f[i] = AppendField(f[i - 1], kinds[i], values[i])
    <3>1. f[0] = <<>>
      BY <2>0, <2>2 DEF IsRecursion
    <3>2. ASSUME NEW i \in 1 .. n PROVE f[i] = AppendField(f[i - 1], kinds[i], values[i])
      <4>1. i \in 0 .. n /\ i # 0 /\ i - 1 \in 0 .. n
        BY <2>0
      <4>2. f[i] = step[i][f[i - 1]]
        BY <2>2, <4>1, Zenon DEF IsRecursion
      <4>3. f[i - 1] \in S
        BY <4>1
      <4>4. f[i] = f[i - 1] \o w(i)
        <5> HIDE DEF S
        <5> QED
          BY <4>2, <4>3
      <4> QED
        BY <2>0a, <4>3, <4>4, Zenon
    <3> QED
      BY <3>1, <3>2
  <2>4. IsAppended(f, kinds, values)
    <3>1. ASSUME NEW k \in 0 .. n
          PROVE  f[k] = IF k = 0 THEN <<>> ELSE AppendField(f[k - 1], kinds[k], values[k])
      <4>1. k # 0 => k \in 1 .. n
        BY <2>0
      <4> QED
        BY <2>3, <4>1
    <3> QED
      BY <3>1 DEF IsAppended, n
  <2> DEFINE A == Appended(kinds, values)
             P == {k \in 0 .. n : A[k] \in S}
  <2>5. IsAppended(A, kinds, values)
    BY <2>4, Zenon DEF Appended
  <2>6. AppendFields(kinds, values) = A[n]
    BY Zenon DEF AppendFields, Appended, IsAppended, n
  <2> HIDE DEF A
  <2>7. \A k \in 0 .. n : A[k] = IF k = 0 THEN <<>> ELSE AppendField(A[k - 1], kinds[k], values[k])
    BY <2>5, Zenon DEF IsAppended, n
  <2>8. A[0] = <<>>
    <3>1. 0 \in 0 .. n
      BY <2>0
    <3> QED
      BY <2>7, <3>1
  <2>9. ASSUME NEW k \in 0 .. n - 1, A[k] \in S PROVE A[k + 1] = A[k] \o w(k + 1)
    <3>1. k + 1 \in 0 .. n /\ k + 1 \in 1 .. n /\ k + 1 # 0 /\ (k + 1) - 1 = k
      BY <2>0
    <3>2. A[k + 1] = AppendField(A[k], kinds[k + 1], values[k + 1])
      BY <2>7, <3>1
    <3> QED
      BY <2>0a, <2>9, <3>1, <3>2, Zenon
  <2>10. 0 .. n \subseteq P
    <3>1. 0 \in P
      <4>1. 0 \in 0 .. n
        BY <2>0
      <4> HIDE DEF S
      <4> QED
        BY <2>1, <2>8, <4>1
    <3>2. \A k \in 0 .. n - 1 : k \in P => k + 1 \in P
      <4> SUFFICES ASSUME NEW k \in 0 .. n - 1, k \in P PROVE k + 1 \in P
        OBVIOUS
      <4>1. k + 1 \in 0 .. n /\ k + 1 \in 1 .. n
        BY <2>0
      <4>2. A[k] \in S
        OBVIOUS
      <4>3. A[k + 1] \in S
        BY <2>0b, <2>9, <4>1, <4>2, Zenon
      <4> HIDE DEF S
      <4> QED
        BY <4>1, <4>3
    <3> HIDE DEF P
    <3> QED
      BY <2>0, <3>1, <3>2, Induction, Zenon
  <2>11. \A k \in 0 .. n - 1 : w(k + 1) \in S /\ A[k + 1] = A[k] \o w(k + 1)
    <3> SUFFICES ASSUME NEW k \in 0 .. n - 1 PROVE w(k + 1) \in S /\ A[k + 1] = A[k] \o w(k + 1)
      BY Zenon
    <3>1. k \in 0 .. n /\ k + 1 \in 1 .. n
      BY <2>0
    <3>2. A[k] \in S
      BY <2>10, <3>1
    <3> QED
      BY <2>0a, <2>9, <3>1, <3>2, Zenon
  <2> QED
    BY <2>6, <2>8, <2>10, <2>11, Zenon DEF A, S, n, w
(* What AppendFields has written stays.                                     *)
<1>AppendedGrows.
    ASSUME NEW kinds \in Seq(FieldKinds), NEW values, Holds(kinds, values)
    PROVE  \A k \in 0 .. Len(kinds) : \E t \in Seq(Byte) :
               AppendFields(kinds, values) = Appended(kinds, values)[k] \o t
  <2> USE <1>AppendedGrows
  <2> DEFINE n == Len(kinds)
             A == Appended(kinds, values)
             w(i) == FieldBytes(kinds[i], values[i])
             P == {m \in 0 .. n : \A k \in 0 .. m : \E t \in Seq(Byte) : A[m] = A[k] \o t}
  <2>0. n \in Nat
    OBVIOUS
  <2>1. /\ \A k \in 0 .. n : A[k] \in Seq(Byte)
        /\ \A k \in 0 .. n - 1 : w(k + 1) \in Seq(Byte) /\ A[k + 1] = A[k] \o w(k + 1)
        /\ AppendFields(kinds, values) = A[n]
    BY <1>AppendedStep, Zenon
  <2> HIDE DEF n, A, w
  <2>2. ASSUME NEW a \in Seq(Byte) PROVE a = a \o <<>> /\ <<>> \in Seq(Byte)
    OBVIOUS
  <2>3. 0 \in P
    <3>1. \A k \in 0 .. 0 : k = 0
      OBVIOUS
    <3>2. 0 \in 0 .. n
      BY <2>0
    <3>3. A[0] \in Seq(Byte)
      BY <2>1, <3>2
    <3> QED
      BY <2>2, <3>1, <3>2, <3>3, Zenon
  <2>4. \A m \in 0 .. n - 1 : m \in P => m + 1 \in P
    <3> SUFFICES ASSUME NEW m \in 0 .. n - 1, m \in P, NEW k \in 0 .. m + 1
                 PROVE  \E t \in Seq(Byte) : A[m + 1] = A[k] \o t
      <4>1. \A m \in 0 .. n - 1 : m + 1 \in 0 .. n
        BY <2>0
      <4> QED
        BY <4>1, Zenon
    <3>1. m + 1 \in 0 .. n /\ m \in 0 .. n /\ k \in 0 .. n /\ (k = m + 1 \/ k \in 0 .. m)
      BY <2>0
    <3>2. CASE k = m + 1
      BY <2>1, <2>2, <3>1, <3>2, Zenon
    <3>3. CASE k \in 0 .. m
      <4>1. PICK t \in Seq(Byte) : A[m] = A[k] \o t
        BY <3>3, Zenon
      <4>2. A[m + 1] = (A[k] \o t) \o w(m + 1) /\ w(m + 1) \in Seq(Byte) /\ A[k] \in Seq(Byte)
        BY <2>1, <3>1, <4>1, Zenon
      <4>3. A[m + 1] = A[k] \o (t \o w(m + 1)) /\ t \o w(m + 1) \in Seq(Byte)
        <5>1. ASSUME NEW a \in Seq(Byte), NEW b \in Seq(Byte), NEW c \in Seq(Byte)
              PROVE  (a \o b) \o c = a \o (b \o c) /\ b \o c \in Seq(Byte)
          <6>1. b \o c \in Seq(Byte)
            BY ConcatFacts
          <6> QED
            BY <6>1, ConcatAssociative, ZenonT(60)
        <5> QED
          BY <4>2, <5>1, Zenon
      <4> QED
        BY <4>3, Zenon
    <3> QED
      BY <3>1, <3>2, <3>3, Zenon
  <2>5. 0 .. n \subseteq P
    <3> HIDE DEF P
    <3> QED
      BY <2>0, <2>3, <2>4, Induction
  <2>6. n \in P
    <3>1. n \in 0 .. n
      BY <2>0
    <3> HIDE DEF P
    <3> QED
      BY <2>5, <3>1
  <2> QED
    BY <2>1, <2>6, Zenon DEF A, n
<1>ReadsAre.
    ASSUME NEW data
    PROVE  /\ Error \in Reads(data)
           /\ \A g \in Seq(AnyValue), n \in 0 .. Len(data) : Got(g, n) \in Reads(data)
           /\ \A r \in Reads(data) :
                  r = Error \/ \E g \in Seq(AnyValue), n \in 0 .. Len(data) : r = Got(g, n)
  <2>1. \A g \in Seq(AnyValue), n \in 0 .. Len(data) : Got(g, n) \in Reads(data)
    BY DEF Reads, Got
  <2>2. ASSUME NEW r \in [ok : {TRUE}, got : Seq(AnyValue), n : 0 .. Len(data)]
        PROVE  r = Got(r.got, r.n) /\ r.got \in Seq(AnyValue) /\ r.n \in 0 .. Len(data)
    BY Zenon DEF Got
  <2> QED
    BY <2>1, <2>2, Zenon DEF Reads
(* One field more.                                                          *)
<1>ReadOneCases.
    ASSUME NEW kind \in FieldKinds, NEW data \in Seq(Byte),
           NEW g \in Seq(AnyValue), NEW m \in 0 .. Len(data)
    PROVE  LET r == ReadField(kind, Drop(data, m))
               s == ReadOne(kind, data, Got(g, m))
           IN  /\ Drop(data, m) \in Seq(Byte) /\ Len(Drop(data, m)) = Len(data) - m
               /\ r.err # "nil" => s = Error
               /\ r.err = "nil" =>
                    /\ s = Got(Append(g, r.value), m + r.n)
                    /\ r.n \in 1 .. Len(data) - m /\ m + r.n \in 0 .. Len(data)
                    /\ r.value \in FieldValues(kind) /\ Append(g, r.value) \in Seq(AnyValue)
  <2> DEFINE d == Drop(data, m)
             r == ReadField(kind, d)
             s == ReadOne(kind, data, Got(g, m))
  <2>1. d \in Seq(Byte) /\ Len(d) = Len(data) - m /\ Len(data) \in Nat
    BY DropFacts
  <2>2. s = IF r.err # "nil" THEN Error ELSE Got(Append(g, r.value), m + r.n)
    BY GotFields DEF ReadOne
  <2> HIDE DEF d
  <2>3. r.err = "nil" => r.n \in 1 .. Len(d) /\ r.value \in FieldValues(kind)
    BY <2>1, <1>FieldType
  <2> HIDE DEF r, s
  <2>4. ASSUME r.err = "nil"
        PROVE  /\ s = Got(Append(g, r.value), m + r.n)
               /\ r.n \in 1 .. Len(data) - m /\ m + r.n \in 0 .. Len(data)
               /\ r.value \in FieldValues(kind) /\ Append(g, r.value) \in Seq(AnyValue)
    <3>1. r.value \in AnyValue
      BY <2>3, <2>4, FieldValuesAny
    <3>2. Append(g, r.value) \in Seq(AnyValue)
      BY <3>1
    <3>3. r.n \in 1 .. Len(data) - m
      BY <2>1, <2>3, <2>4
    <3>4. m + r.n \in 0 .. Len(data)
      BY <2>1, <3>3
    <3> QED
      BY <2>2, <2>3, <2>4, <3>2, <3>3, <3>4
  <2> QED
    BY <2>1, <2>2, <2>4 DEF s, r, d
<1>ReadOneType.
    ASSUME NEW kind \in FieldKinds, NEW data \in Seq(Byte), NEW before \in Reads(data)
    PROVE  ReadOne(kind, data, before) \in Reads(data)
  <2>1. CASE before = Error
    BY <2>1, GotFields DEF ReadOne
  <2>2. ASSUME NEW g \in Seq(AnyValue), NEW m \in 0 .. Len(data), before = Got(g, m)
        PROVE  ReadOne(kind, data, before) \in Reads(data)
    <3> DEFINE r == ReadField(kind, Drop(data, m))
               s == ReadOne(kind, data, Got(g, m))
    <3>1. CASE r.err # "nil"
      <4>1. s = Error
        BY <3>1, <1>ReadOneCases
      <4> QED
        BY <2>2, <4>1, <1>ReadsAre
    <3>2. CASE r.err = "nil"
      <4>1. s = Got(Append(g, r.value), m + r.n) /\ m + r.n \in 0 .. Len(data)
            /\ Append(g, r.value) \in Seq(AnyValue)
        BY <3>2, <1>ReadOneCases
      <4>2. s \in Reads(data)
        <5> HIDE DEF s, r
        <5> QED
          BY <4>1, <1>ReadsAre, Zenon
      <4> QED
        BY <2>2, <4>2
    <3> QED
      BY <3>1, <3>2
  <2> QED
    BY <2>1, <2>2, <1>ReadsAre
<1>ReadingStep.
    ASSUME NEW kinds \in Seq(FieldKinds), NEW data \in Seq(Byte)
    PROVE  LET R == FieldsRead(kinds, data)
           IN  /\ R[0] = Got(<<>>, 0)
               /\ \A k \in 0 .. Len(kinds) : R[k] \in Reads(data)
               /\ \A k \in 0 .. Len(kinds) - 1 :
                      kinds[k + 1] \in FieldKinds /\ R[k + 1] = ReadOne(kinds[k + 1], data, R[k])
               /\ ReadFields(kinds, data) = R[Len(kinds)]
  <2> DEFINE n == Len(kinds)
             S == Reads(data)
             z == Got(<<>>, 0)
             step == [i \in 1 .. n |-> [x \in S |-> ReadOne(kinds[i], data, x)]]
  <2>0. n \in Nat /\ \A i \in 1 .. n : kinds[i] \in FieldKinds
    OBVIOUS
  <2>0a. \A i \in 1 .. n : \A x \in S : ReadOne(kinds[i], data, x) \in S
    BY <2>0, <1>ReadOneType
  <2>0b. z \in S
    <3>1. <<>> \in Seq(AnyValue) /\ 0 \in 0 .. Len(data)
      OBVIOUS
    <3> QED
      BY <3>1, <1>ReadsAre, Zenon
  <2> HIDE DEF n, S, z
  <2>1. step \in [1 .. n -> [S -> S]]
    BY <2>0a
  <2>2. PICK f \in [0 .. n -> S] : IsRecursion(f, n, z, step)
    <3> HIDE DEF step
    <3> QED
      BY <2>0, <2>0b, <2>1, Recursion
  <2>3. f[0] = z /\ \A i \in 1 .. n : f[i] = ReadOne(kinds[i], data, f[i - 1])
    <3>1. f[0] = z
      BY <2>0, <2>2 DEF IsRecursion
    <3>2. ASSUME NEW i \in 1 .. n PROVE f[i] = ReadOne(kinds[i], data, f[i - 1])
      <4>1. i \in 0 .. n /\ i # 0 /\ i - 1 \in 0 .. n
        BY <2>0
      <4>2. f[i] = step[i][f[i - 1]]
        BY <2>2, <4>1, Zenon DEF IsRecursion
      <4>3. f[i - 1] \in S
        BY <4>1
      <4> QED
        BY <4>2, <4>3
    <3> QED
      BY <3>1, <3>2
  <2>4. IsReading(f, kinds, data)
    <3>1. ASSUME NEW k \in 0 .. n
          PROVE  f[k] = IF k = 0 THEN z ELSE ReadOne(kinds[k], data, f[k - 1])
      <4>1. k # 0 => k \in 1 .. n
        BY <2>0
      <4> QED
        BY <2>3, <4>1
    <3> QED
      BY <3>1 DEF IsReading, n, z
  <2> DEFINE R == FieldsRead(kinds, data)
             P == {k \in 0 .. n : R[k] \in S}
  <2>5. IsReading(R, kinds, data)
    BY <2>4, Zenon DEF FieldsRead
  <2>6. ReadFields(kinds, data) = R[n]
    BY Zenon DEF ReadFields, FieldsRead, IsReading, ReadOne, Got, n
  <2> HIDE DEF R
  <2>7. \A k \in 0 .. n : R[k] = IF k = 0 THEN z ELSE ReadOne(kinds[k], data, R[k - 1])
    BY <2>5, Zenon DEF IsReading, n, z
  <2>8. R[0] = z
    <3>1. 0 \in 0 .. n
      BY <2>0
    <3> QED
      BY <2>7, <3>1
  <2>9. \A k \in 0 .. n - 1 : k + 1 \in 1 .. n /\ R[k + 1] = ReadOne(kinds[k + 1], data, R[k])
    <3> SUFFICES ASSUME NEW k \in 0 .. n - 1
                 PROVE  k + 1 \in 1 .. n /\ R[k + 1] = ReadOne(kinds[k + 1], data, R[k])
      OBVIOUS
    <3>1. k + 1 \in 0 .. n /\ k + 1 \in 1 .. n /\ k + 1 # 0 /\ (k + 1) - 1 = k
      BY <2>0
    <3> QED
      BY <2>7, <3>1
  <2>10. 0 .. n \subseteq P
    <3>1. 0 \in P
      BY <2>0, <2>0b, <2>8
    <3>2. \A k \in 0 .. n - 1 : k \in P => k + 1 \in P
      <4> SUFFICES ASSUME NEW k \in 0 .. n - 1, k \in P PROVE k + 1 \in P
        OBVIOUS
      <4>1. k + 1 \in 0 .. n
        BY <2>0
      <4>2. R[k] \in S
        OBVIOUS
      <4>3. R[k + 1] \in S
        BY <2>0a, <2>9, <4>2
      <4> QED
        BY <4>1, <4>3
    <3> HIDE DEF P
    <3> QED
      BY <2>0, <3>1, <3>2, Induction, Zenon
  <2> QED
    BY <2>0, <2>6, <2>8, <2>9, <2>10, Zenon DEF R, S, n, z
<1>ReadingType.
    ASSUME NEW kinds \in Seq(FieldKinds), NEW data \in Seq(Byte)
    PROVE  \A k \in 0 .. Len(kinds) : RowRead(kinds, data, k, FieldsRead(kinds, data)[k])
  <2> DEFINE n == Len(kinds)
             R == FieldsRead(kinds, data)
             P == {k \in 0 .. n : RowRead(kinds, data, k, R[k])}
  <2>0. n \in Nat /\ Len(data) \in Nat
    OBVIOUS
  <2>1. /\ R[0] = Got(<<>>, 0)
        /\ \A k \in 0 .. n - 1 :
               kinds[k + 1] \in FieldKinds /\ R[k + 1] = ReadOne(kinds[k + 1], data, R[k])
    BY <1>ReadingStep
  <2> HIDE DEF n, R
  <2>2. 0 \in P
    <3>1. 0 \in 0 .. n /\ 0 \in 0 .. Len(data)
      BY <2>0
    <3>2. <<>> \in Seq(AnyValue) /\ Len(<<>>) = 0 /\ 0 >= 0
      OBVIOUS
    <3>3. \A i \in 1 .. 0 : FALSE
      OBVIOUS
    <3> QED
      BY <2>1, <3>1, <3>2, <3>3, Zenon DEF RowRead
  <2>3. \A k \in 0 .. n - 1 : k \in P => k + 1 \in P
    <3> SUFFICES ASSUME NEW k \in 0 .. n - 1, k \in P PROVE k + 1 \in P
      OBVIOUS
    <3>1. k + 1 \in 0 .. n /\ k \in Nat
      BY <2>0
    <3> DEFINE kind == kinds[k + 1]
    <3>2. kind \in FieldKinds /\ R[k + 1] = ReadOne(kind, data, R[k])
      BY <2>1, SMTT(30)
    <3>3. CASE R[k] = Error
      BY <3>1, <3>2, <3>3, GotFields DEF ReadOne, RowRead
    <3>4. CASE R[k] # Error
      <4>1. PICK g \in Seq(AnyValue), m \in 0 .. Len(data) :
               /\ R[k] = Got(g, m) /\ Len(g) = k /\ m >= k
               /\ \A i \in 1 .. k : g[i] \in FieldValues(kinds[i])
        BY <3>4 DEF RowRead
      <4> DEFINE r == ReadField(kind, Drop(data, m))
                 s == ReadOne(kind, data, Got(g, m))
      <4>2. R[k + 1] = s
        BY <3>2, <4>1
      <4>3. CASE r.err # "nil"
        <5>1. s = Error
          BY <3>2, <4>3, <1>ReadOneCases
        <5> QED
          BY <3>1, <4>2, <5>1 DEF RowRead
      <4>4. CASE r.err = "nil"
        <5> DEFINE h == Append(g, r.value)
                   o == m + r.n
        <5>1. s = Got(h, o) /\ o \in 0 .. Len(data) /\ h \in Seq(AnyValue)
              /\ r.n \in 1 .. Len(data) - m /\ r.value \in FieldValues(kind)
          BY <3>2, <4>4, <1>ReadOneCases, Zenon
        <5>1a. r.value \in AnyValue
          BY <3>2, <5>1, FieldValuesAny
        <5> HIDE DEF r, s
        <5>2. o >= k + 1
          BY <2>0, <3>1, <4>1, <5>1
        <5>3. Len(h) = k + 1 /\ (\A i \in 1 .. k : h[i] = g[i]) /\ h[k + 1] = r.value
          BY <4>1, <5>1a
        <5>4. \A i \in 1 .. k + 1 : h[i] \in FieldValues(kinds[i])
          <6>1. \A i \in 1 .. k + 1 : i \in 1 .. k \/ i = k + 1
            BY <3>1
          <6> HIDE DEF h
          <6> QED
            BY <4>1, <5>1, <5>3, <6>1, SMTT(30)
        <5> HIDE DEF h, o
        <5>5. RowRead(kinds, data, k + 1, s)
          BY <5>1, <5>2, <5>3, <5>4 DEF RowRead
        <5> QED
          BY <3>1, <4>2, <5>5, SMTT(30)
      <4> QED
        BY <4>3, <4>4
    <3> QED
      BY <3>3, <3>4
  <2>4. 0 .. n \subseteq P
    <3> HIDE DEF P
    <3> QED
      BY <2>0, <2>2, <2>3, Induction, Zenon
  <2> QED
    BY <2>4 DEF n, R
<1>RowType.
    ASSUME NEW kinds \in Seq(FieldKinds), NEW data \in Seq(Byte)
    PROVE  RowRead(kinds, data, Len(kinds), ReadFields(kinds, data))
  <2>1. Len(kinds) \in 0 .. Len(kinds)
    OBVIOUS
  <2>2. ReadFields(kinds, data) = FieldsRead(kinds, data)[Len(kinds)]
    BY <1>ReadingStep
  <2>3. RowRead(kinds, data, Len(kinds), FieldsRead(kinds, data)[Len(kinds)])
    BY <2>1, <1>ReadingType
  <2> QED
    BY <2>2, <2>3
(* A row is read from its own bytes and from no other.                      *)
<1>RowLocal.
    ASSUME NEW kinds \in Seq(FieldKinds), NEW a \in Seq(Byte), NEW b \in Seq(Byte),
           ReadFields(kinds, a).ok, SameStart(a, b, ReadFields(kinds, a).n)
    PROVE  ReadFields(kinds, b) = ReadFields(kinds, a)
  <2> USE <1>RowLocal
  <2> DEFINE n == Len(kinds)
             A == FieldsRead(kinds, a)
             B == FieldsRead(kinds, b)
             P == {k \in 0 .. n : A[k].ok /\ SameStart(a, b, A[k].n) => B[k] = A[k]}
  <2>0. n \in Nat /\ Len(a) \in Nat
    OBVIOUS
  <2>1. /\ A[0] = Got(<<>>, 0) /\ ReadFields(kinds, a) = A[n]
        /\ \A k \in 0 .. n : A[k] \in Reads(a)
        /\ \A k \in 0 .. n - 1 : kinds[k + 1] \in FieldKinds /\ A[k + 1] = ReadOne(kinds[k + 1], a, A[k])
    BY <1>ReadingStep
  <2>2. /\ B[0] = Got(<<>>, 0) /\ ReadFields(kinds, b) = B[n]
        /\ \A k \in 0 .. n - 1 : kinds[k + 1] \in FieldKinds /\ B[k + 1] = ReadOne(kinds[k + 1], b, B[k])
    BY <1>ReadingStep
  <2> HIDE DEF n, A, B
  <2>3. 0 \in P
    BY <2>0, <2>1, <2>2, SMTT(30)
  <2>4. \A k \in 0 .. n - 1 : k \in P => k + 1 \in P
    <3> SUFFICES ASSUME NEW k \in 0 .. n - 1, k \in P,
                        A[k + 1].ok, SameStart(a, b, A[k + 1].n)
                 PROVE  B[k + 1] = A[k + 1]
      <4>1. \A k \in 0 .. n - 1 : k + 1 \in 0 .. n
        BY <2>0, SMTT(30)
      <4> QED
        BY <4>1
    <3> DEFINE kind == kinds[k + 1]
    <3>1. /\ kind \in FieldKinds /\ A[k + 1] = ReadOne(kind, a, A[k]) /\ B[k + 1] = ReadOne(kind, b, B[k])
          /\ A[k] \in Reads(a)
      <4>1. k \in 0 .. n
        BY <2>0, SMTT(30)
      <4> QED
        BY <2>1, <2>2, <4>1, Zenon
    <3>2. A[k] # Error
      BY <3>1, GotFields, ZenonT(60) DEF ReadOne
    <3>3. PICK g \in Seq(AnyValue), m \in 0 .. Len(a) : A[k] = Got(g, m)
      BY <3>1, <3>2, <1>ReadsAre, Zenon
    <3> DEFINE r == ReadField(kind, Drop(a, m))
               q == ReadField(kind, Drop(b, m))
    <3>4. r.err = "nil"
      <4>1. r.err # "nil" => ReadOne(kind, a, Got(g, m)) = Error
        BY <3>1, <1>ReadOneCases
      <4> QED
        BY <3>1, <3>3, <4>1, GotFields, ZenonT(60)
    <3>5. /\ A[k + 1] = Got(Append(g, r.value), m + r.n) /\ r.n \in 1 .. Len(a) - m
          /\ Drop(a, m) \in Seq(Byte)
      <4>1. /\ Drop(a, m) \in Seq(Byte)
            /\ ReadOne(kind, a, Got(g, m)) = Got(Append(g, r.value), m + r.n)
            /\ r.n \in 1 .. Len(a) - m
        BY <3>1, <3>4, <1>ReadOneCases, ZenonT(60)
      <4> QED
        BY <3>1, <3>3, <4>1, ZenonT(60)
    <3>6. SameStart(a, b, m + r.n)
      BY <3>5, GotFields, SMTT(30)
    <3>7. SameStart(a, b, m) /\ m \in 0 .. Len(b) /\ SameStart(Drop(a, m), Drop(b, m), r.n)
      <4>1. r.n \in 0 .. Len(a) - m
        BY <3>5, FromZero, ZenonT(60)
      <4> HIDE DEF r
      <4> QED
        BY <3>6, <4>1, SameStartDrop
    <3>8. B[k] = Got(g, m)
      BY <3>3, <3>7, GotFields, SMTT(30)
    <3>9. Drop(b, m) \in Seq(Byte)
      BY <3>7, DropFacts
    <3>10. q.err = "nil" /\ q.n = r.n /\ q.value = r.value
      BY <3>1, <3>4, <3>5, <3>7, <3>9, <1>FieldLocal, ZenonT(60) DEF SameRead
    <3>11. B[k + 1] = Got(Append(g, q.value), m + q.n)
      <4>1. ReadOne(kind, b, Got(g, m)) = Got(Append(g, q.value), m + q.n)
        BY <3>1, <3>7, <3>10, <1>ReadOneCases, Zenon
      <4> QED
        BY <3>1, <3>8, <4>1, Zenon
    <3> QED
      BY <3>5, <3>10, <3>11, ZenonT(60)
  <2>5. 0 .. n \subseteq P
    <3> HIDE DEF P
    <3> QED
      BY <2>0, <2>3, <2>4, Induction, Zenon
  <2>6. n \in P
    <3>1. n \in 0 .. n
      BY <2>0
    <3> HIDE DEF P
    <3> QED
      BY <2>5, <3>1
  <2> QED
    BY <2>1, <2>2, <2>6
<1>ValuesStep.
    ASSUME NEW values, NEW k \in Nat, \A i \in 1 .. k + 1 : values[i] \in AnyValue
    PROVE  /\ Values(values, k) \in Seq(AnyValue)
           /\ Append(Values(values, k), values[k + 1]) = Values(values, k + 1)
  <2> USE <1>ValuesStep
  <2> DEFINE v == Values(values, k)
  <2>1. \A i \in 1 .. k : i \in 1 .. k + 1
    OBVIOUS
  <2>2. v \in [1 .. k -> AnyValue] /\ \A i \in 1 .. k : v[i] = values[i]
    BY <2>1 DEF Values
  <2> HIDE DEF v
  <2>3. v \in Seq(AnyValue) /\ Len(v) = k
    BY <2>2
  <2>4. k + 1 \in 1 .. k + 1 /\ values[k + 1] \in AnyValue
    OBVIOUS
  <2>5. Append(v, values[k + 1]) = [i \in 1 .. k + 1 |-> values[i]]
    <3> DEFINE x == values[k + 1]
    <3>1. Append(v, x) = [i \in 1 .. k + 1 |-> IF i = k + 1 THEN x ELSE v[i]]
      BY <2>3, <2>4
    <3>2. ASSUME NEW i \in 1 .. k + 1 PROVE (IF i = k + 1 THEN x ELSE v[i]) = values[i]
      <4>1. i = k + 1 \/ i \in 1 .. k
        BY SMTT(30)
      <4> QED
        BY <2>2, <4>1
    <3> HIDE DEF x
    <3> QED
      BY <3>1, <3>2
  <2> QED
    BY <2>3, <2>5 DEF v, Values
(* A row is read as it was written, whatever follows.                       *)
<1>RowInverse.
    ASSUME NEW kinds \in Seq(FieldKinds), NEW values, Holds(kinds, values), NEW rest \in Seq(Byte)
    PROVE  LET w == AppendFields(kinds, values)
           IN  /\ w \in Seq(Byte)
               /\ ReadFields(kinds, w \o rest) = Got(Values(values, Len(kinds)), Len(w))
  <2> USE <1>RowInverse
  <2> DEFINE n == Len(kinds)
             w == AppendFields(kinds, values)
             data == w \o rest
             A == Appended(kinds, values)
             R == FieldsRead(kinds, data)
             b(i) == FieldBytes(kinds[i], values[i])
             P == {k \in 0 .. n : R[k] = Got(Values(values, k), Len(A[k]))}
  <2>0. n \in Nat
    OBVIOUS
  <2>1. /\ A[0] = <<>> /\ w = A[n]
        /\ \A k \in 0 .. n : A[k] \in Seq(Byte)
        /\ \A k \in 0 .. n - 1 : b(k + 1) \in Seq(Byte) /\ A[k + 1] = A[k] \o b(k + 1)
    BY <1>AppendedStep, Zenon
  <2>2. \A k \in 0 .. n : \E t \in Seq(Byte) : w = A[k] \o t
    BY <1>AppendedGrows, Zenon
  <2>3. w \in Seq(Byte)
    <3>1. n \in 0 .. n
      BY <2>0
    <3> QED
      BY <2>1, <3>1
  <2>4. data \in Seq(Byte)
    BY <2>3, ConcatFacts
  <2>5. /\ R[0] = Got(<<>>, 0) /\ ReadFields(kinds, data) = R[n]
        /\ \A k \in 0 .. n - 1 : kinds[k + 1] \in FieldKinds /\ R[k + 1] = ReadOne(kinds[k + 1], data, R[k])
    <3> HIDE DEF data
    <3> QED
      BY <2>4, <1>ReadingStep
  <2>6. \A i \in 1 .. n : values[i] \in FieldValues(kinds[i]) /\ values[i] \in AnyValue
    <3>1. \A i \in 1 .. n : kinds[i] \in FieldKinds /\ values[i] \in FieldValues(kinds[i])
      BY DEF Holds
    <3> QED
      BY <3>1, FieldValuesAny
  <2> HIDE DEF n, w, A, R, b
  <2>7. 0 \in P
    <3>1. Values(values, 0) = <<>>
      BY DEF Values
    <3>2. 0 \in 0 .. n /\ Len(<<>>) = 0
      BY <2>0
    <3> QED
      BY <2>1, <2>5, <3>1, <3>2
  <2>8. \A k \in 0 .. n - 1 : k \in P => k + 1 \in P
    <3> SUFFICES ASSUME NEW k \in 0 .. n - 1, k \in P PROVE k + 1 \in P
      OBVIOUS
    <3> DEFINE kind == kinds[k + 1]
               v == values[k + 1]
               c == b(k + 1)
               g == Values(values, k)
    <3>1. k \in Nat /\ k \in 0 .. n /\ k + 1 \in 0 .. n /\ k + 1 \in 1 .. n
      BY <2>0
    <3>2. kind \in FieldKinds /\ v \in FieldValues(kind) /\ R[k + 1] = ReadOne(kind, data, R[k])
      BY <2>5, <2>6, <3>1
    <3>3. c \in Seq(Byte) /\ A[k + 1] = A[k] \o c /\ A[k] \in Seq(Byte) /\ A[k + 1] \in Seq(Byte)
      BY <2>1, <3>1, Zenon
    <3>4. PICK t \in Seq(Byte) : w = A[k + 1] \o t
      BY <2>2, <3>1, Zenon
    <3> DEFINE u == t \o rest
               m == Len(A[k])
    <3>5. u \in Seq(Byte)
      BY ConcatFacts
    <3>6. data = A[k + 1] \o u
      BY <3>3, <3>4, ConcatAssociative, Zenon
    <3>7. A[k + 1] \o u = A[k] \o (c \o u)
      <4> HIDE DEF u, c
      <4>0. ASSUME NEW x \in Seq(Byte) PROVE (x \o c) \o u = x \o (c \o u)
        BY <3>3, <3>5, ConcatAssociative, ZenonT(60)
      <4>1. (A[k] \o c) \o u = A[k] \o (c \o u)
        BY <3>3, <4>0, Zenon
      <4> QED
        BY <3>3, <4>1, Zenon
    <3>8. c \o u \in Seq(Byte)
      <4> HIDE DEF u, c
      <4> QED
        BY <3>3, <3>5, ConcatFacts
    <3> HIDE DEF c, u
    <3>9. Drop(data, m) = c \o u /\ m \in 0 .. Len(data)
      <4>1. Drop(A[k] \o (c \o u), Len(A[k])) = c \o u
        BY <3>3, <3>8, ConcatParts, Zenon
      <4>2. Len(A[k] \o (c \o u)) = Len(A[k]) + Len(c \o u) /\ Len(A[k]) \in Nat /\ Len(c \o u) \in Nat
        BY <3>3, <3>8, ConcatFacts, SMTT(30)
      <4>3. m \in 0 .. Len(A[k] \o (c \o u))
        <5>1. ASSUME NEW x \in Nat, NEW y \in Nat, NEW z, z = x + y PROVE x \in 0 .. z
          BY <5>1
        <5> QED
          BY <4>2, <5>1, Zenon
      <4> QED
        BY <3>6, <3>7, <4>1, <4>3, Zenon
    <3>10. ReadField(kind, c \o u).err = "nil" /\ ReadField(kind, c \o u).n = Len(c)
           /\ ReadField(kind, c \o u).value = v
      <4>1. c = FieldBytes(kind, v)
        BY DEF c, b
      <4>2. ASSUME NEW x \in FieldKinds, NEW y \in FieldValues(x), NEW z \in Seq(Byte)
            PROVE  LET f == FieldBytes(x, y)
                   IN  /\ ReadField(x, f \o z).err = "nil" /\ ReadField(x, f \o z).n = Len(f)
                       /\ ReadField(x, f \o z).value = y
        BY rest \in Seq(Byte), <1>FieldInverse, SMTT(30)
      <4> HIDE DEF kind, v
      <4> QED
        BY <3>2, <3>5, <4>1, <4>2, ZenonT(60)
    <3>11. g \in Seq(AnyValue) /\ Append(g, v) = Values(values, k + 1)
      <4>1. \A i \in 1 .. k + 1 : i \in 1 .. n
        BY <2>0, <3>1
      <4>2. \A i \in 1 .. k + 1 : values[i] \in AnyValue
        BY <2>6, <4>1
      <4> QED
        BY <3>1, <4>2, <1>ValuesStep
    <3>12. R[k] = Got(g, m)
      OBVIOUS
    <3>13. ReadOne(kind, data, Got(g, m)) = Got(Append(g, v), m + Len(c))
      <4> HIDE DEF data, g, v, kind, m
      <4>1. ReadField(kind, Drop(data, m)).err = "nil"
        BY <3>9, <3>10
      <4>2. ReadOne(kind, data, Got(g, m))
              = Got(Append(g, ReadField(kind, Drop(data, m)).value), m + ReadField(kind, Drop(data, m)).n)
        BY <2>4, <3>2, <3>9, <3>11, <4>1, <1>ReadOneCases, Zenon
      <4> QED
        BY <3>9, <3>10, <4>2, Zenon
    <3>14. Len(A[k + 1]) = m + Len(c)
      BY <3>3, ConcatFacts
    <3> QED
      BY <3>1, <3>2, <3>11, <3>12, <3>13, <3>14
  <2>9. 0 .. n \subseteq P
    <3> HIDE DEF P
    <3> QED
      BY <2>0, <2>7, <2>8, Induction, Zenon
  <2>10. n \in P
    <3>1. n \in 0 .. n
      BY <2>0
    <3> HIDE DEF P
    <3> QED
      BY <2>9, <3>1
  <2> QED
    BY <2>1, <2>3, <2>5, <2>10 DEF n, w
<1>1. \A s \in Seq(Byte), dst \in Seq(Byte), rest \in Seq(Byte) :
         Len(s) <= MaxVarint
         => LET w == Varint(Len(s)) \o s
            IN  /\ w \in Seq(Byte)
                /\ appendString(dst, s) = dst \o w
                /\ readString(w \o rest).err = "nil"
                /\ readString(w \o rest).n = Len(w)
                /\ readString(w \o rest).value = s
  BY <1>StringInverse, Zenon
<1>2. \A values : \A kinds \in Seq(FieldKinds) :
         Holds(kinds, values)
         => LET A == Appended(kinds, values)
            IN  /\ A[0] = <<>>
                /\ \A k \in 0 .. Len(kinds) : A[k] \in Seq(Byte)
                /\ \A k \in 0 .. Len(kinds) - 1 :
                       /\ FieldBytes(kinds[k + 1], values[k + 1]) \in Seq(Byte)
                       /\ A[k + 1] = A[k] \o FieldBytes(kinds[k + 1], values[k + 1])
                /\ AppendFields(kinds, values) = A[Len(kinds)]
  BY <1>AppendedStep, Zenon
<1>3. \A kinds \in Seq(FieldKinds), data \in Seq(Byte) :
         RowRead(kinds, data, Len(kinds), ReadFields(kinds, data))
  BY <1>RowType, Zenon
<1>4. \A kinds \in Seq(FieldKinds), a \in Seq(Byte), b \in Seq(Byte) :
         ReadFields(kinds, a).ok /\ SameStart(a, b, ReadFields(kinds, a).n)
         => ReadFields(kinds, b) = ReadFields(kinds, a)
  BY <1>RowLocal, Zenon
<1>5. \A values : \A kinds \in Seq(FieldKinds), rest \in Seq(Byte) :
         Holds(kinds, values)
         => LET w == AppendFields(kinds, values)
            IN  /\ w \in Seq(Byte)
                /\ ReadFields(kinds, w \o rest) = Got(Values(values, Len(kinds)), Len(w))
  BY <1>RowInverse, Zenon
<1> QED
  BY <1>1, <1>2, <1>3, <1>4, <1>5, Zenon

(* A field is read as it was written, whatever follows.                     *)
LEMMA StringInverse ==
    ASSUME NatIsWellOrdered,
           NEW s \in Seq(Byte), Len(s) <= MaxVarint, NEW dst \in Seq(Byte), NEW rest \in Seq(Byte)
    PROVE  LET w == Varint(Len(s)) \o s
           IN  /\ w \in Seq(Byte)
               /\ appendString(dst, s) = dst \o w
               /\ readString(w \o rest).err = "nil"
               /\ readString(w \o rest).n = Len(w)
               /\ readString(w \o rest).value = s
BY RowFacts, Zenon

(* A row is written field by field.                                         *)
LEMMA AppendedStep ==
    ASSUME NatIsWellOrdered, NEW kinds \in Seq(FieldKinds), NEW values, Holds(kinds, values)
    PROVE  LET A == Appended(kinds, values)
           IN  /\ A[0] = <<>>
               /\ \A k \in 0 .. Len(kinds) : A[k] \in Seq(Byte)
               /\ \A k \in 0 .. Len(kinds) - 1 :
                      /\ FieldBytes(kinds[k + 1], values[k + 1]) \in Seq(Byte)
                      /\ A[k + 1] = A[k] \o FieldBytes(kinds[k + 1], values[k + 1])
               /\ AppendFields(kinds, values) = A[Len(kinds)]
BY RowFacts, Zenon

(* Reading a row fails, or yields a value of each kind and stays in the     *)
(* bytes.                                                                   *)
LEMMA RowType ==
    ASSUME NatIsWellOrdered, NEW kinds \in Seq(FieldKinds), NEW data \in Seq(Byte)
    PROVE  RowRead(kinds, data, Len(kinds), ReadFields(kinds, data))
BY RowFacts, Zenon

(* A row is read from its own bytes and from no other.                      *)
LEMMA RowLocal ==
    ASSUME NatIsWellOrdered,
           NEW kinds \in Seq(FieldKinds), NEW a \in Seq(Byte), NEW b \in Seq(Byte),
           ReadFields(kinds, a).ok, SameStart(a, b, ReadFields(kinds, a).n)
    PROVE  ReadFields(kinds, b) = ReadFields(kinds, a)
<1>1. \A ks \in Seq(FieldKinds), x \in Seq(Byte), y \in Seq(Byte) :
         ReadFields(ks, x).ok /\ SameStart(x, y, ReadFields(ks, x).n)
         => ReadFields(ks, y) = ReadFields(ks, x)
  BY RowFacts, Zenon
<1> QED
  BY <1>1, Zenon

(* A row is read as it was written, whatever follows.                       *)
LEMMA RowInverse ==
    ASSUME NatIsWellOrdered,
           NEW kinds \in Seq(FieldKinds), NEW values, Holds(kinds, values), NEW rest \in Seq(Byte)
    PROVE  LET w == AppendFields(kinds, values)
           IN  /\ w \in Seq(Byte)
               /\ ReadFields(kinds, w \o rest) = Got(Values(values, Len(kinds)), Len(w))
BY RowFacts, Zenon

-----------------------------------------------------------------------------
(* A row that is cut off is refused.                                        *)
LEMMA RowShort ==
    ASSUME NatIsWellOrdered,
           NEW kinds \in Seq(FieldKinds), NEW a \in Seq(Byte), NEW b \in Seq(Byte),
           ReadFields(kinds, a).ok, Len(b) < ReadFields(kinds, a).n, SameStart(b, a, Len(b))
    PROVE  ReadFields(kinds, b) = Error
<1> SUFFICES ASSUME ReadFields(kinds, b) # Error PROVE FALSE
  OBVIOUS
<1>1. PICK g \in Seq(AnyValue), m \in 0 .. Len(b) : ReadFields(kinds, b) = Got(g, m)
  BY RowType DEF RowRead
<1>2. ReadFields(kinds, b).ok /\ ReadFields(kinds, b).n = m
  BY <1>1, GotFields
<1>3. SameStart(b, a, m)
  <2>1. Len(b) \in Nat /\ Len(a) \in Nat /\ Len(b) <= Len(a)
    BY DEF SameStart
  <2>2. m <= Len(a) /\ \A i \in 1 .. m : i \in 1 .. Len(b)
    BY <2>1
  <2> QED
    BY <2>2 DEF SameStart
<1>4. ReadFields(kinds, a) = ReadFields(kinds, b)
  BY <1>2, <1>3, RowLocal
<1>5. Len(b) < m
  BY <1>2, <1>4
<1> QED
  BY <1>5

(* A count and its rows.                                                    *)
LEMMA RepeatFacts ==
    ASSUME NEW kinds \in Seq(FieldKinds), NEW l \in {2, 3}, Len(kinds) = l, NEW count \in Nat
    PROVE  /\ Repeat(kinds, count) \in Seq(FieldKinds)
           /\ Len(Repeat(kinds, count)) = count * l
           /\ \A i \in 1 .. count * l : Repeat(kinds, count)[i] = kinds[((i - 1) % l) + 1]
<1> DEFINE n == count * l
<1>1. n \in Nat
  OBVIOUS
<1>2. Repeat(kinds, count) = [i \in 1 .. n |-> kinds[((i - 1) % l) + 1]]
  BY DEF Repeat
<1> HIDE DEF n
<1>3. ASSUME NEW i \in 1 .. n PROVE kinds[((i - 1) % l) + 1] \in FieldKinds
  <2>1. ASSUME NEW j \in Nat PROVE (j % l) + 1 \in 1 .. l
    OBVIOUS
  <2>2. i - 1 \in Nat
    BY <1>1
  <2>3. ((i - 1) % l) + 1 \in 1 .. l
    BY <2>1, <2>2, Zenon
  <2> QED
    BY <2>3
<1>4. Repeat(kinds, count) \in [1 .. n -> FieldKinds]
  BY <1>2, <1>3
<1>5. Repeat(kinds, count) \in Seq(FieldKinds) /\ Len(Repeat(kinds, count)) = n
  BY <1>1, <1>4
<1> QED
  BY <1>2, <1>5 DEF n

(* Reading no more rows than there can be bytes for makes no difference.    *)
LEMMA RowsAre ==
    ASSUME NatIsWellOrdered,
           NEW kinds \in Seq(FieldKinds), NEW l \in {2, 3}, Len(kinds) = l, NEW count \in Nat,
           NEW data \in Seq(Byte)
    PROVE  ReadFields(Rows(kinds, count, data), data) = ReadFields(Repeat(kinds, count), data)
<1> DEFINE most == Len(data) \div l
<1>1. most \in Nat /\ Len(data) \in Nat /\ (most + 1) * l > Len(data)
  <2>1. ASSUME NEW n \in Nat PROVE n \div l \in Nat /\ ((n \div l) + 1) * l > n
    <3>1. CASE l = 2
      BY <3>1
    <3>2. CASE l = 3
      BY <3>2
    <3> QED
      BY <3>1, <3>2
  <2>2. Len(data) \in Nat
    OBVIOUS
  <2> QED
    BY <2>1, <2>2, Zenon
<1>2. Rows(kinds, count, data) = Repeat(kinds, IF count > most THEN most + 1 ELSE count)
  BY DEF Rows
<1> HIDE DEF most
<1>3. ASSUME NEW c \in Nat, c > most PROVE ReadFields(Repeat(kinds, c), data) = Error
  <2> DEFINE ks == Repeat(kinds, c)
  <2>1. ks \in Seq(FieldKinds) /\ Len(ks) = c * l
    BY RepeatFacts, Zenon
  <2>2. c * l > Len(data)
    <3>1. CASE l = 2
      BY <1>1, <1>3, <3>1
    <3>2. CASE l = 3
      BY <1>1, <1>3, <3>2
    <3> QED
      BY <3>1, <3>2
  <2> HIDE DEF ks
  <2>3. RowRead(ks, data, Len(ks), ReadFields(ks, data))
    BY <2>1, RowType, SMTT(30)
  <2>4. ASSUME NEW m \in 0 .. Len(data) PROVE ~(m >= c * l)
    <3>1. c * l \in Nat
      OBVIOUS
    <3> QED
      BY <1>1, <2>2, <3>1
  <2>5. ReadFields(ks, data) = Error
    BY <2>1, <2>3, <2>4 DEF RowRead
  <2> QED
    BY <2>5 DEF ks
<1>4. CASE count > most
  <2>1. most + 1 \in Nat /\ most + 1 > most
    BY <1>1
  <2>2. ReadFields(Repeat(kinds, most + 1), data) = Error /\ ReadFields(Repeat(kinds, count), data) = Error
    BY <1>3, <1>4, <2>1
  <2> QED
    BY <1>2, <1>4, <2>2
<1>5. CASE ~(count > most)
  BY <1>2, <1>5
<1> QED
  BY <1>4, <1>5

(* The rows of the payloads, and how many fields they have.                 *)
LEMMA PayloadFields ==
    /\ CancelFields \in Seq(FieldKinds) /\ Len(CancelFields) = 2
    /\ InvokeFields \in Seq(FieldKinds) /\ Len(InvokeFields) = 2
    /\ EntryFields \in Seq(FieldKinds) /\ Len(EntryFields) = 2
    /\ HelloFields \in Seq(FieldKinds) /\ Len(HelloFields) = 4
    /\ CapFields \in Seq(FieldKinds) /\ Len(CapFields) = 3
    /\ BlockFields \in Seq(FieldKinds) /\ Len(BlockFields) = 5
BY DEF CancelFields, InvokeFields, EntryFields, HelloFields, CapFields, BlockFields, FieldKinds

(* A row that can be written, and one that was read.                        *)
LEMMA RowWritten ==
    ASSUME NatIsWellOrdered,
           NEW kinds \in Seq(FieldKinds), NEW values, IsRow(kinds, values), NEW rest \in Seq(Byte)
    PROVE  LET w == AppendFields(kinds, values)
           IN  /\ w \in Seq(Byte) /\ Len(w) >= Len(kinds)
               /\ ReadFields(kinds, w) = Got(values, Len(w))
               /\ ReadFields(kinds, w \o rest) = Got(values, Len(w))
<1> DEFINE w == AppendFields(kinds, values)
<1>1. Holds(kinds, values) /\ values = Values(values, Len(kinds))
  BY DEF IsRow, Holds, Values
<1>2. w \in Seq(Byte) /\ \A t \in Seq(Byte) : ReadFields(kinds, w \o t) = Got(values, Len(w))
  BY <1>1, RowInverse
<1> HIDE DEF w
<1>3. <<>> \in Seq(Byte) /\ w \o <<>> = w
  BY <1>2
<1>4. ReadFields(kinds, w) = Got(values, Len(w))
  BY <1>2, <1>3, Zenon
<1>5. Len(w) >= Len(kinds)
  <2>1. RowRead(kinds, w, Len(kinds), Got(values, Len(w)))
    BY <1>2, <1>4, RowType
  <2>2. Got(values, Len(w)) # Error
    BY GotFields
  <2>3. PICK g \in Seq(AnyValue), m \in 0 .. Len(w) : Got(values, Len(w)) = Got(g, m) /\ m >= Len(kinds)
    BY <2>1, <2>2 DEF RowRead
  <2>4. Len(w) = m
    BY <2>3, GotFields
  <2> QED
    BY <2>3, <2>4
<1> QED
  BY <1>2, <1>4, <1>5 DEF w

(* A row that was read can be written, and takes a byte per field at least. *)
LEMMA RowAccepted ==
    ASSUME NatIsWellOrdered,
           NEW kinds \in Seq(FieldKinds), NEW data \in Seq(Byte), ReadFields(kinds, data).ok
    PROVE  LET r == ReadFields(kinds, data)
           IN  /\ r = Got(r.got, r.n) /\ r.n \in 0 .. Len(data) /\ r.n >= Len(kinds)
               /\ r.got \in Seq(AnyValue) /\ Len(r.got) = Len(kinds)
               /\ IsRow(kinds, r.got)
<1> DEFINE r == ReadFields(kinds, data)
<1>1. r # Error
  BY GotFields
<1>2. PICK g \in Seq(AnyValue), m \in 0 .. Len(data) :
         /\ r = Got(g, m) /\ Len(g) = Len(kinds) /\ m >= Len(kinds)
         /\ \A i \in 1 .. Len(kinds) : g[i] \in FieldValues(kinds[i])
  BY <1>1, RowType DEF RowRead
<1>3. r.got = g /\ r.n = m
  BY <1>2, GotFields
<1>4. g = [i \in 1 .. Len(kinds) |-> g[i]]
  BY <1>2
<1>5. IsRow(kinds, g)
  BY <1>2, <1>4 DEF IsRow
<1> QED
  BY <1>2, <1>3, <1>5

(* Reading a row either fails or succeeds.                                  *)
LEMMA RowOr ==
    ASSUME NatIsWellOrdered, NEW kinds \in Seq(FieldKinds), NEW data \in Seq(Byte)
    PROVE  ReadFields(kinds, data) = Error \/ ReadFields(kinds, data).ok
BY RowType, GotFields DEF RowRead

(* Bytes that are cut off, and bytes with one more.                         *)
LEMMA CutBytes ==
    ASSUME NEW w \in Seq(Byte), NEW n \in 0 .. Len(w) - 1
    PROVE  LET c == SubSeq(w, 1, n)
           IN  c \in Seq(Byte) /\ Len(c) = n /\ n \in Nat /\ n < Len(w)
               /\ \A m \in 0 .. n : SameStart(c, w, m)
<1> DEFINE c == SubSeq(w, 1, n)
<1>1. n \in 0 .. Len(w) /\ Len(w) \in Nat /\ n < Len(w)
  OBVIOUS
<1>2. c \in Seq(Byte) /\ Len(c) = n /\ \A i \in 1 .. n : c[i] = w[i]
  BY <1>1, PrefixFacts
<1> HIDE DEF c
<1>3. ASSUME NEW m \in 0 .. n PROVE SameStart(c, w, m)
  <2>1. m <= Len(w) /\ \A i \in 1 .. m : i \in 1 .. n
    BY <1>1
  <2> QED
    BY <1>2, <2>1 DEF SameStart
<1> QED
  BY <1>1, <1>2, <1>3 DEF c

(* Bytes with one more.                                                     *)
LEMMA LongerBytes ==
    ASSUME NEW w \in Seq(Byte), NEW b \in Byte
    PROVE  /\ Append(w, b) = w \o <<b>> /\ <<b>> \in Seq(Byte) /\ Append(w, b) \in Seq(Byte)
           /\ Len(Append(w, b)) = Len(w) + 1 /\ Len(w) \in Nat
OBVIOUS

-----------------------------------------------------------------------------
IsSumOf(g, b, s) == g = [i \in 0 .. Len(s) |-> IF i = 0 THEN 0 ELSE g[i - 1] * b + s[i]]

SumOf(b, s) == CHOOSE g : IsSumOf(g, b, s)

IsDigits(g, n, b) ==
    g = [k \in 0 .. n |-> IF k = 0 THEN <<>> ELSE Append(g[k \div b], k % b)]

DigitsTo(n, b) == CHOOSE g : IsDigits(g, n, b)

(* Leading zeros, and numbers in another base.                              *)
AreZeros(s, k) == (\A i \in 1 .. k : s[i] = 0) /\ (k < Len(s) => s[k + 1] # 0)

Zeros(s) == CHOOSE k \in 0 .. Len(s) : AreZeros(s, k)

Conv(a, b, s) == LeadingZeros(s) \o Digits(Number(a, s), b)

IsJoin(S, a, b, w) ==
    /\ w \in Seq(S) /\ Len(w) = Len(a) + Len(b)
    /\ SubSeq(w, 1, Len(a)) = a
    /\ SubSeq(w, Len(a) + 1, Len(w)) = b
    /\ \A i \in 1 .. Len(a) : w[i] = a[i]
    /\ \A i \in 1 .. Len(b) : w[Len(a) + i] = b[i]

IsSplit(S, s, k) ==
    /\ SubSeq(s, 1, k) \in Seq(S) /\ Len(SubSeq(s, 1, k)) = k
    /\ \A i \in 1 .. k : SubSeq(s, 1, k)[i] = s[i]
    /\ SubSeq(s, k + 1, Len(s)) \in Seq(S) /\ Len(SubSeq(s, k + 1, Len(s))) = Len(s) - k
    /\ \A i \in 1 .. Len(s) - k : SubSeq(s, k + 1, Len(s))[i] = s[k + i]
    /\ s = SubSeq(s, 1, k) \o SubSeq(s, k + 1, Len(s))

(* did:key.                                                                 *)
Symbol == 0 .. Alphabet - 1

IsKey(pub) == pub \in Seq(Byte) /\ Len(pub) = KeyLen

(* The bytes that are encoded for a key, and the characters of its did:key. *)
KeyBytes(pub) == KeyCodec \o pub

KeyChars(pub) == base58btcEncode(KeyBytes(pub))

(* The text of a key: it is read as the key, what is read as a key is the   *)
(* text of that key, and cut or longer it is refused.                       *)
LEMMA DIDKeyCodec ==
    ASSUME NatIsWellOrdered
    PROVE  /\ \A pub :
                  IsKey(pub)
                  => /\ MakeDIDKey(pub) \in Seq(Byte)
                     /\ ParseDIDKey(MakeDIDKey(pub)) = [ok |-> TRUE, value |-> pub]
           /\ \A did \in Seq(Byte) :
                  ParseDIDKey(did).ok
                  => IsKey(ParseDIDKey(did).value) /\ MakeDIDKey(ParseDIDKey(did).value) = did
           /\ \A pub :
                  IsKey(pub)
                  => LET w == MakeDIDKey(pub)
                     IN  /\ \A n \in 0 .. Len(w) - 1 : ~ParseDIDKey(SubSeq(w, 1, n)).ok
                         /\ \A b \in Byte : ~ParseDIDKey(Append(w, b)).ok
(* Numbers and their digits.                                                *)
<1>StrongInduction.
    ASSUME NEW P, \A n \in Nat : (\A m \in 0 .. n - 1 : m \in P) => n \in P
    PROVE  Nat \subseteq P
  <2> USE <1>StrongInduction
  <2> DEFINE T == {k \in Nat : k \notin P}
  <2> SUFFICES ASSUME T # {} PROVE FALSE
    OBVIOUS
  <2>1. T \subseteq Nat
    OBVIOUS
  <2>2. PICK x \in T : \A y \in T : x <= y
    <3> HIDE DEF T
    <3> QED
      BY <2>1, Zenon DEF NatIsWellOrdered
  <2>3. x \in Nat /\ x \notin P
    OBVIOUS
  <2>4. ASSUME NEW m \in 0 .. x - 1 PROVE m \in P
    <3>1. m \in Nat /\ ~(x <= m)
      BY <2>3
    <3> QED
      BY <2>2, <3>1
  <2> QED
    BY <2>3, <2>4
<1>NumberIsSum.
    ASSUME NEW b \in Nat, NEW s \in Seq(Nat)
    PROVE  LET S == SumOf(b, s)
           IN  /\ Number(b, s) = S[Len(s)] /\ S[0] = 0
               /\ \A i \in 0 .. Len(s) : S[i] \in Nat
               /\ \A i \in 0 .. Len(s) - 1 : s[i + 1] \in Nat /\ S[i + 1] = S[i] * b + s[i + 1]
  <2> DEFINE n == Len(s)
             step == [i \in 1 .. n |-> [x \in Nat |-> x * b + s[i]]]
             S == SumOf(b, s)
             P == {k \in 0 .. n : S[k] \in Nat}
  <2>0. ASSUME NEW x \in Nat, NEW y \in Nat PROVE x * b + y \in Nat
    OBVIOUS
  <2>1. n \in Nat /\ step \in [1 .. n -> [Nat -> Nat]] /\ \A i \in 1 .. n : s[i] \in Nat
    BY <2>0
  <2>2. PICK f \in [0 .. n -> Nat] : IsRecursion(f, n, 0, step)
    <3> HIDE DEF step, n
    <3> QED
      BY <2>1, Recursion, Zenon
  <2>3. IsSumOf(f, b, s)
    <3>1. \A k \in 1 .. n : k - 1 \in 0 .. n
      BY <2>1
    <3>2. \A k \in 1 .. n : step[k][f[k - 1]] = f[k - 1] * b + s[k]
      BY <3>1, Zenon
    <3>3. \A k \in 0 .. n : f[k] = IF k = 0 THEN 0 ELSE f[k - 1] * b + s[k]
      <4> SUFFICES ASSUME NEW k \in 0 .. n
                   PROVE  f[k] = IF k = 0 THEN 0 ELSE f[k - 1] * b + s[k]
        OBVIOUS
      <4>1. k # 0 => k \in 1 .. n
        BY <2>1
      <4>2. f[k] = IF k = 0 THEN 0 ELSE step[k][f[k - 1]]
        BY <2>2, Zenon DEF IsRecursion
      <4> HIDE DEF step
      <4> QED
        BY <3>2, <4>1, <4>2
    <3> QED
      BY <3>3 DEF IsSumOf
  <2>4. Number(b, s) = S[n]
    BY Zenon DEF Number, SumOf, IsSumOf
  <2>5. IsSumOf(S, b, s)
    BY <2>3, Zenon DEF SumOf
  <2> HIDE DEF S
  <2>6. \A k \in 0 .. n : S[k] = IF k = 0 THEN 0 ELSE S[k - 1] * b + s[k]
    BY <2>5, Zenon DEF IsSumOf
  <2>7. S[0] = 0
    BY <2>1, <2>6
  <2>8. ASSUME NEW k \in 0 .. n - 1 PROVE s[k + 1] \in Nat /\ S[k + 1] = S[k] * b + s[k + 1]
    <3>1. k + 1 \in 0 .. n /\ k + 1 \in 1 .. n /\ k + 1 # 0 /\ (k + 1) - 1 = k
      BY <2>1
    <3> QED
      BY <2>1, <2>6, <3>1
  <2>9. 0 \in P
    BY <2>1, <2>7
  <2>10. ASSUME NEW k \in 0 .. n - 1, k \in P PROVE k + 1 \in P
    <3>1. k + 1 \in 0 .. n
      BY <2>1
    <3>2. S[k + 1] \in Nat
      BY <2>0, <2>8, <2>10, Zenon
    <3> QED
      BY <3>1, <3>2
  <2>11. 0 .. n \subseteq P
    <3> HIDE DEF P, n
    <3> QED
      BY <2>1, <2>9, <2>10, Induction, Zenon
  <2> QED
    BY <2>4, <2>7, <2>8, <2>11, Zenon DEF S
(* The sums of a number's first digits are those digits' numbers.           *)
<1>SumOfStart.
    ASSUME NEW b \in Nat, NEW s \in Seq(Nat), NEW t \in Seq(Nat), Len(s) <= Len(t),
           \A i \in 1 .. Len(s) : t[i] = s[i]
    PROVE  SumOf(b, t)[Len(s)] = Number(b, s)
  <2> USE <1>SumOfStart
  <2> DEFINE n == Len(s)
             S == SumOf(b, s)
             T == SumOf(b, t)
             P == {k \in 0 .. n : S[k] = T[k]}
  <2>1. n \in Nat /\ Len(t) \in Nat /\ n <= Len(t) /\ \A k \in 0 .. n - 1 : k \in 0 .. Len(t) - 1 /\ k + 1 \in 1 .. n
    OBVIOUS
  <2>2. Number(b, s) = S[n] /\ S[0] = 0 /\ \A k \in 0 .. n - 1 : S[k + 1] = S[k] * b + s[k + 1]
    BY <1>NumberIsSum
  <2>3. T[0] = 0 /\ \A k \in 0 .. Len(t) - 1 : T[k + 1] = T[k] * b + t[k + 1]
    BY <1>NumberIsSum
  <2> HIDE DEF S, T
  <2>4. 0 \in P
    BY <2>1, <2>2, <2>3
  <2>5. ASSUME NEW k \in 0 .. n - 1, k \in P PROVE k + 1 \in P
    <3>1. k \in 0 .. Len(t) - 1 /\ k + 1 \in 1 .. n /\ k + 1 \in 0 .. n
      BY <2>1
    <3>2. S[k + 1] = S[k] * b + s[k + 1] /\ T[k + 1] = T[k] * b + t[k + 1] /\ t[k + 1] = s[k + 1]
      BY <2>2, <2>3, <3>1
    <3>3. S[k] = T[k]
      BY <2>5
    <3>4. S[k + 1] = T[k + 1]
      BY <3>2, <3>3, Zenon
    <3> QED
      BY <3>1, <3>4
  <2>6. n \in P
    <3>1. n \in 0 .. n
      BY <2>1
    <3> HIDE DEF P, n
    <3>2. 0 .. n \subseteq P
      BY <2>1, <2>4, <2>5, Induction, Zenon
    <3> QED
      BY <3>1, <3>2
  <2> QED
    BY <2>2, <2>6 DEF T
<1>NumberAppend.
    ASSUME NEW b \in Nat, NEW s \in Seq(Nat), NEW d \in Nat
    PROVE  Number(b, s) \in Nat /\ Number(b, Append(s, d)) = Number(b, s) * b + d
  <2> DEFINE t == Append(s, d)
             n == Len(s)
  <2>1. n \in Nat /\ t \in Seq(Nat) /\ Len(t) = n + 1 /\ t[n + 1] = d /\ \A i \in 1 .. n : t[i] = s[i]
    OBVIOUS
  <2> HIDE DEF t
  <2>2. SumOf(b, t)[n] = Number(b, s)
    BY <2>1, <1>SumOfStart, SMTT(30)
  <2>3. n \in 0 .. Len(t) - 1 /\ n \in 0 .. Len(s)
    BY <2>1
  <2>4. Number(b, t) = SumOf(b, t)[n + 1] /\ SumOf(b, t)[n + 1] = SumOf(b, t)[n] * b + t[n + 1]
    <3> DEFINE T == SumOf(b, t)
    <3>1. Number(b, t) = T[Len(t)] /\ \A i \in 0 .. Len(t) - 1 : T[i + 1] = T[i] * b + t[i + 1]
      BY <2>1, <1>NumberIsSum, Zenon
    <3> HIDE DEF T, n
    <3>2. Number(b, t) = T[n + 1] /\ T[n + 1] = T[n] * b + t[n + 1]
      BY <2>1, <2>3, <3>1
    <3> QED
      BY <3>2 DEF T
  <2>5. Number(b, s) \in Nat
    BY <2>3, <1>NumberIsSum, Zenon
  <2> QED
    BY <2>1, <2>2, <2>4, <2>5 DEF t
<1>NumberEmpty. \A b \in Nat : Number(b, <<>>) = 0
  <2>1. <<>> \in Seq(Nat) /\ Len(<<>>) = 0
    OBVIOUS
  <2> QED
    BY <2>1, <1>NumberIsSum, Zenon
<1>Shrinks.
    ASSUME NEW k \in Nat \ {0}, NEW b \in Nat, b >= 2
    PROVE  k \div b \in 0 .. k - 1 /\ k % b \in 0 .. b - 1
  <2> USE <1>Shrinks
  <2>1. k \div b \in Nat /\ k % b \in 0 .. b - 1 /\ k = b * (k \div b) + (k % b)
    <3>1. k \in Nat /\ b \in Nat \ {0}
      OBVIOUS
    <3> QED
      BY <3>1, DivMod, Zenon
  <2> DEFINE q == k \div b
             r == k % b
  <2>2. q \in Nat /\ r \in 0 .. b - 1 /\ k = b * q + r
    BY <2>1
  <2> HIDE DEF q, r
  <2>3. q < k
    <3>1. CASE q = 0
      BY <3>1
    <3>2. CASE q >= 1
      <4>1. b * q >= 2 * q
        BY <2>2, <3>2
      <4> QED
        BY <2>2, <3>2, <4>1
    <3> QED
      BY <2>2, <3>1, <3>2
  <2>4. q \in 0 .. k - 1
    BY <2>2, <2>3
  <2> QED
    BY <2>2, <2>4 DEF q, r
<1>DigitsExist.
    ASSUME NEW n \in Nat, NEW b \in Nat, b >= 2
    PROVE  \E g \in [0 .. n -> Seq(0 .. b - 1)] : IsDigits(g, n, b)
  <2> USE <1>DigitsExist
  <2> DEFINE D == Seq(0 .. b - 1)
             P == {m \in 0 .. n : \E g \in [0 .. m -> D] : IsDigits(g, m, b)}
  <2>1. 0 \in P
    <3> DEFINE g == [k \in 0 .. 0 |-> <<>>]
    <3>1. <<>> \in D
      OBVIOUS
    <3>2. g \in [0 .. 0 -> D]
      BY <3>1
    <3>3. \A k \in 0 .. 0 : k = 0
      OBVIOUS
    <3>4. g = [k \in 0 .. 0 |-> IF k = 0 THEN <<>> ELSE Append(g[k \div b], k % b)]
      BY <3>3, Zenon
    <3>5. IsDigits(g, 0, b)
      BY <3>4 DEF IsDigits
    <3>6. 0 \in 0 .. n
      OBVIOUS
    <3> HIDE DEF g, D
    <3> QED
      BY <3>2, <3>5, <3>6
  <2>2. ASSUME NEW m \in 0 .. n - 1, m \in P PROVE m + 1 \in P
    <3>1. PICK g \in [0 .. m -> D] : IsDigits(g, m, b)
      BY <2>2
    <3> DEFINE x == m + 1
               e == Append(g[x \div b], x % b)
               h == [k \in 0 .. x |-> IF k = x THEN e ELSE g[k]]
    <3>2. m \in Nat /\ x \in Nat \ {0} /\ x - 1 = m /\ x \in 0 .. n
      OBVIOUS
    <3>3. x \div b \in 0 .. m /\ x % b \in 0 .. b - 1
      BY <3>2, <1>Shrinks, Zenon
    <3>4. e \in D
      BY <3>1, <3>3
    <3>5. \A k \in 0 .. x : k = x \/ k \in 0 .. m
      BY <3>2
    <3>6. \A k \in 0 .. m : k \in 0 .. x /\ k # x
      BY <3>2
    <3> HIDE DEF e, x, D
    <3>7. h \in [0 .. x -> D]
      BY <3>4, <3>5
    <3>8. \A k \in 0 .. m : h[k] = g[k]
      BY <3>6
    <3>9. ASSUME NEW k \in 0 .. x
          PROVE  h[k] = IF k = 0 THEN <<>> ELSE Append(h[k \div b], k % b)
      <4>1. CASE k = x
        <5>1. h[x \div b] = g[x \div b] /\ h[x] = e /\ x # 0
          BY <3>2, <3>3, <3>8, <4>1
        <5> QED
          BY <4>1, <5>1, Zenon DEF e
      <4>2. CASE k \in 0 .. m
        <5>1. g[k] = IF k = 0 THEN <<>> ELSE Append(g[k \div b], k % b)
          BY <3>1, <4>2, Zenon DEF IsDigits
        <5>2. k # 0 => k \div b \in 0 .. m
          <6>1. k # 0 => k \in Nat \ {0} /\ k - 1 <= m
            BY <3>2, <4>2
          <6>2. k # 0 => k \div b \in 0 .. k - 1
            BY <6>1, <1>Shrinks, Zenon
          <6>3. ASSUME NEW y \in 0 .. k - 1 PROVE y \in 0 .. m
            BY <3>2, <4>2
          <6> QED
            BY <6>2, <6>3, Zenon
        <5>3. h[k] = g[k] /\ (k # 0 => h[k \div b] = g[k \div b])
          BY <3>8, <4>2, <5>2, Zenon
        <5> HIDE DEF h
        <5> QED
          BY <5>1, <5>3, Zenon
      <4> QED
        BY <3>5, <4>1, <4>2
    <3>10. h = [k \in 0 .. x |-> h[k]]
      BY Zenon
    <3> HIDE DEF h
    <3>11. IsDigits(h, x, b)
      BY <3>9, <3>10, Zenon DEF IsDigits
    <3>12. x \in P
      BY <3>2, <3>7, <3>11
    <3> QED
      BY <3>12 DEF x
  <2>3. n \in P
    <3>1. n \in 0 .. n
      OBVIOUS
    <3> HIDE DEF P
    <3>2. 0 .. n \subseteq P
      BY <2>1, <2>2, Induction
    <3> QED
      BY <3>1, <3>2
  <2> QED
    BY <2>3
<1>DigitsOfNumber.
    ASSUME NEW n \in Nat, NEW b \in Nat, b >= 2
    PROVE  LET g == DigitsTo(n, b)
           IN  /\ Digits(n, b) = g[n] /\ g[0] = <<>>
               /\ \A k \in 1 .. n : g[k] = Append(g[k \div b], k % b)
  <2> USE <1>DigitsOfNumber
  <2> DEFINE g == DigitsTo(n, b)
  <2>1. Digits(n, b) = g[n]
    BY Zenon DEF Digits, DigitsTo, IsDigits
  <2>2. IsDigits(g, n, b)
    <3>1. \E f : IsDigits(f, n, b)
      BY <1>DigitsExist
    <3> QED
      BY <3>1, Zenon DEF DigitsTo
  <2> HIDE DEF g
  <2>3. \A k \in 0 .. n : g[k] = IF k = 0 THEN <<>> ELSE Append(g[k \div b], k % b)
    BY <2>2, Zenon DEF IsDigits
  <2>4. 0 \in 0 .. n /\ \A k \in 1 .. n : k \in 0 .. n /\ k # 0
    OBVIOUS
  <2>5. g[0] = <<>> /\ \A k \in 1 .. n : g[k] = Append(g[k \div b], k % b)
    BY <2>3, <2>4, Zenon
  <2> QED
    BY <2>1, <2>5, Zenon DEF g
(* Digits, by recursion.                                                    *)
<1>DigitsStep.
    ASSUME NEW b \in Nat, b >= 2
    PROVE  /\ Digits(0, b) = <<>>
           /\ \A n \in Nat \ {0} : Digits(n, b) = Append(Digits(n \div b, b), n % b)
  <2> USE <1>DigitsStep
  <2>1. Digits(0, b) = <<>>
    BY <1>DigitsOfNumber
  <2>2. ASSUME NEW n \in Nat \ {0} PROVE Digits(n, b) = Append(Digits(n \div b, b), n % b)
    <3> DEFINE m == n \div b
               g == DigitsTo(n, b)
               h == DigitsTo(m, b)
               P == {k \in Nat : k <= m => g[k] = h[k]}
    <3>1. m \in Nat /\ m < n /\ n \in 1 .. n
      <4>1. m \in 0 .. n - 1
        BY <1>Shrinks, Zenon
      <4> HIDE DEF m
      <4> QED
        BY <4>1
    <3>2. Digits(n, b) = g[n] /\ g[0] = <<>> /\ \A k \in 1 .. n : g[k] = Append(g[k \div b], k % b)
      BY <1>DigitsOfNumber, Zenon
    <3> HIDE DEF m
    <3>3. Digits(m, b) = h[m] /\ h[0] = <<>> /\ \A k \in 1 .. m : h[k] = Append(h[k \div b], k % b)
      BY <3>1, <1>DigitsOfNumber, Zenon
    <3> HIDE DEF g, h
    <3>4. ASSUME NEW k \in Nat, \A j \in 0 .. k - 1 : j \in P PROVE k \in P
      <4>1. CASE k = 0
        BY <3>2, <3>3, <4>1
      <4>2. CASE k # 0 /\ k <= m
        <5>1. k \div b \in 0 .. k - 1
          BY <4>2, <1>Shrinks, Zenon
        <5>2. k \in 1 .. n /\ k \in 1 .. m
          BY <3>1, <4>2
        <5>3. g[k \div b] = h[k \div b]
          <6>1. ASSUME NEW j \in 0 .. k - 1 PROVE g[j] = h[j]
            <7>1. j \in P /\ j <= m /\ j \in Nat
              BY <3>1, <3>4, <4>2
            <7> QED
              BY <7>1
          <6> QED
            BY <5>1, <6>1, Zenon
        <5>4. g[k] = h[k]
          BY <3>2, <3>3, <5>2, <5>3, Zenon
        <5> QED
          BY <5>4
      <4>3. CASE ~(k <= m)
        BY <4>3
      <4> QED
        BY <4>1, <4>2, <4>3
    <3>5. m \in P
      <4> HIDE DEF P
      <4>1. Nat \subseteq P
        BY <3>4, <1>StrongInduction
      <4> QED
        BY <3>1, <4>1
    <3>6. g[m] = h[m]
      <4>1. m <= m
        BY <3>1
      <4> QED
        BY <3>5, <4>1
    <3>7. g[n] = Append(g[n \div b], n % b)
      BY <3>1, <3>2, Zenon
    <3> QED
      BY <3>2, <3>3, <3>6, <3>7, Zenon DEF m
  <2> QED
    BY <2>1, <2>2, Zenon
<1>AppendDigit.
    ASSUME NEW b \in Nat, NEW t \in Seq(0 .. b - 1), NEW d \in 0 .. b - 1
    PROVE  /\ Append(t, d) \in Seq(0 .. b - 1) /\ Append(t, d) # <<>>
           /\ t \in Seq(Nat) /\ d \in Nat /\ Len(Append(t, d)) = Len(t) + 1
           /\ t = <<>> => Append(t, d)[1] = d
           /\ t # <<>> => Append(t, d)[1] = t[1]
  BY SMTT(30)
(* The digits of a number have the value of that number, and begin with one *)
(* other than 0.                                                            *)
<1>DigitsFacts.
    ASSUME NEW b \in Nat, b >= 2, NEW n \in Nat
    PROVE  /\ Digits(n, b) \in Seq(0 .. b - 1)
           /\ Number(b, Digits(n, b)) = n
           /\ n # 0 => Digits(n, b) # <<>> /\ Digits(n, b)[1] # 0
  <2> USE <1>DigitsFacts
  <2> DEFINE D(k) == Digits(k, b)
             P == {k \in Nat : /\ D(k) \in Seq(0 .. b - 1) /\ Number(b, D(k)) = k
                               /\ k # 0 => D(k) # <<>> /\ D(k)[1] # 0}
  <2>1. ASSUME NEW k \in Nat, \A j \in 0 .. k - 1 : j \in P PROVE k \in P
    <3>1. CASE k = 0
      <4>1. D(k) = <<>> /\ Number(b, <<>>) = 0
        BY <3>1, <1>DigitsStep, <1>NumberEmpty
      <4>2. <<>> \in Seq(0 .. b - 1)
        OBVIOUS
      <4> HIDE DEF D
      <4> QED
        BY <3>1, <4>1, <4>2, Zenon
    <3>2. CASE k # 0
      <4> DEFINE q == k \div b
                 r == k % b
      <4>1. q \in 0 .. k - 1 /\ r \in 0 .. b - 1 /\ q \in Nat /\ k = b * q + r
        <5>1. k \in Nat \ {0} /\ b \in Nat \ {0}
          BY <3>2
        <5>2. q \in 0 .. k - 1 /\ r \in 0 .. b - 1
          BY <5>1, <1>Shrinks, Zenon
        <5>3. q \in Nat /\ k = b * q + r
          BY <5>1, DivMod, Zenon
        <5> QED
          BY <5>2, <5>3
      <4>2. D(k) = Append(D(q), r)
        BY <3>2, <1>DigitsStep, Zenon
      <4> HIDE DEF q, r
      <4>3. D(q) \in Seq(0 .. b - 1) /\ Number(b, D(q)) = q /\ (q # 0 => D(q) # <<>> /\ D(q)[1] # 0)
        <5>1. q \in P
          BY <2>1, <4>1
        <5> HIDE DEF D
        <5> QED
          BY <5>1
      <4>4. q = 0 => D(q) = <<>> /\ r # 0
        BY <3>2, <4>1, <1>DigitsStep
      <4> HIDE DEF D
      <4>5. /\ D(k) \in Seq(0 .. b - 1) /\ D(k) # <<>> /\ D(q) \in Seq(Nat) /\ r \in Nat
            /\ D(q) = <<>> => D(k)[1] = r
            /\ D(q) # <<>> => D(k)[1] = D(q)[1]
        <5> DEFINE t == D(q)
        <5>1. t \in Seq(0 .. b - 1) /\ r \in 0 .. b - 1 /\ D(k) = Append(t, r)
          BY <4>1, <4>2, <4>3
        <5> HIDE DEF t
        <5>2. /\ D(k) \in Seq(0 .. b - 1) /\ D(k) # <<>> /\ t \in Seq(Nat) /\ r \in Nat
              /\ t = <<>> => D(k)[1] = r
              /\ t # <<>> => D(k)[1] = t[1]
          <6>1. /\ Append(t, r) \in Seq(0 .. b - 1) /\ Append(t, r) # <<>> /\ t \in Seq(Nat) /\ r \in Nat
                /\ t = <<>> => Append(t, r)[1] = r
                /\ t # <<>> => Append(t, r)[1] = t[1]
            BY <5>1, <1>AppendDigit, SMTT(30)
          <6> QED
            BY <5>1, <6>1, Zenon
        <5> QED
          BY <5>2, Zenon DEF t
      <4>6. Number(b, D(k)) = q * b + r
        BY <4>2, <4>3, <4>5, <1>NumberAppend
      <4>7. q * b + r = k
        BY <4>1
      <4>8. D(k)[1] # 0
        BY <4>3, <4>4, <4>5, Zenon
      <4> QED
        BY <4>5, <4>6, <4>7, <4>8
    <3> QED
      BY <3>1, <3>2
  <2>2. n \in P
    <3> HIDE DEF P
    <3>1. Nat \subseteq P
      BY <2>1, <1>StrongInduction
    <3> QED
      BY <3>1
  <2> HIDE DEF D
  <2>3. /\ D(n) \in Seq(0 .. b - 1) /\ Number(b, D(n)) = n
        /\ n # 0 => D(n) # <<>> /\ D(n)[1] # 0
    BY <2>2
  <2> QED
    BY <2>3 DEF D
(* Digits that do not begin with 0 are those of their number.               *)
<1>NumberInverse.
    ASSUME NEW b \in Nat, b >= 2, NEW s \in Seq(0 .. b - 1), s = <<>> \/ s[1] # 0
    PROVE  Digits(Number(b, s), b) = s /\ (s # <<>> => Number(b, s) # 0)
  <2> USE <1>NumberInverse
  <2> DEFINE G(t) == Digits(Number(b, t), b) = t /\ (t # <<>> => Number(b, t) # 0)
             P == {k \in Nat : \A t \in Seq(0 .. b - 1) : Len(t) = k /\ (t = <<>> \/ t[1] # 0) => G(t)}
  <2>1. 0 \in P
    <3> SUFFICES ASSUME NEW t \in Seq(0 .. b - 1), Len(t) = 0 PROVE G(t)
      OBVIOUS
    <3>1. t = <<>>
      OBVIOUS
    <3>2. Number(b, <<>>) = 0 /\ Digits(0, b) = <<>>
      BY <1>NumberEmpty, <1>DigitsStep
    <3> QED
      BY <3>1, <3>2
  <2>2. ASSUME NEW k \in Nat, k \in P PROVE k + 1 \in P
    <3> SUFFICES ASSUME NEW t \in Seq(0 .. b - 1), Len(t) = k + 1, t[1] # 0 PROVE G(t)
      <4>1. \A t \in Seq(0 .. b - 1) : Len(t) = k + 1 => t # <<>>
        OBVIOUS
      <4> HIDE DEF G
      <4> QED
        BY <4>1
    <3> DEFINE u == SubSeq(t, 1, k)
               d == t[k + 1]
               q == Number(b, u)
    <3>1. /\ u \in Seq(0 .. b - 1) /\ Len(u) = k /\ d \in 0 .. b - 1 /\ t = Append(u, d)
          /\ u \in Seq(Nat) /\ d \in Nat
          /\ (u = <<>> => d # 0) /\ (u # <<>> => u[1] # 0)
      <4>1. u \in Seq(0 .. b - 1) /\ Len(u) = k /\ \A i \in 1 .. k : u[i] = t[i]
        OBVIOUS
      <4>2. d \in 0 .. b - 1
        OBVIOUS
      <4> HIDE DEF u, d
      <4>3. t = Append(u, d)
        <5>1. Append(u, d) \in Seq(0 .. b - 1) /\ Len(Append(u, d)) = k + 1 /\ Append(u, d)[k + 1] = d
              /\ \A i \in 1 .. k : Append(u, d)[i] = u[i]
          BY <4>1, <4>2
        <5>2. \A i \in 1 .. k + 1 : Append(u, d)[i] = t[i]
          BY <4>1, <5>1 DEF d
        <5> QED
          BY <5>1, <5>2, SMTT(30)
      <4>4. u \in Seq(Nat) /\ d \in Nat /\ (u = <<>> => t[1] = d) /\ (u # <<>> => t[1] = u[1])
        BY <4>1, <4>2, <4>3, <1>AppendDigit
      <4> QED
        BY <4>1, <4>2, <4>3, <4>4
    <3> HIDE DEF u, d
    <3>2. Digits(q, b) = u /\ (u # <<>> => q # 0)
      <4>1. G(u)
        <5> HIDE DEF G
        <5> QED
          BY <2>2, <3>1
      <4> QED
        BY <4>1
    <3>3. q \in Nat /\ Number(b, t) = q * b + d
      BY <3>1, <1>NumberAppend, Zenon
    <3> HIDE DEF q
    <3> DEFINE n == Number(b, t)
    <3>4. n \in Nat /\ n \div b = q /\ n % b = d
      <4>0. ASSUME NEW x \in Nat, NEW y \in Nat PROVE x * b + y \in Nat
        OBVIOUS
      <4>1. q * b + d \in Nat
        BY <3>1, <3>3, <4>0, Zenon
      <4>2. n \in Nat /\ n = q * b + d /\ b \in Nat \ {0}
        BY <3>3, <4>1
      <4> HIDE DEF n
      <4> QED
        BY <3>1, <3>3, <4>2, Quotient, Zenon
    <3>5. n # 0
      <4>1. CASE u = <<>>
        <5>1. d # 0 /\ q * b \in Nat /\ d \in Nat
          BY <3>1, <3>3, <4>1
        <5> QED
          BY <3>3, <5>1
      <4>2. CASE u # <<>>
        <5>1. q \in Nat \ {0} /\ d \in Nat
          BY <3>1, <3>2, <3>3, <4>2
        <5>2. q * b \in Nat \ {0}
          BY <5>1
        <5> QED
          BY <3>3, <5>1, <5>2
      <4> QED
        BY <4>1, <4>2
    <3> HIDE DEF n
    <3>6. Digits(n, b) = Append(u, d)
      BY <3>2, <3>4, <3>5, <1>DigitsStep, Zenon
    <3> QED
      BY <3>1, <3>5, <3>6 DEF n
  <2>3. Len(s) \in P
    <3>1. Len(s) \in Nat /\ Len(s) \in 0 .. Len(s)
      OBVIOUS
    <3> HIDE DEF P
    <3>2. \A k \in 0 .. Len(s) - 1 : k \in P => k + 1 \in P
      BY <2>2, <3>1
    <3>3. 0 .. Len(s) \subseteq P
      BY <2>1, <3>1, <3>2, Induction, Zenon
    <3> QED
      BY <3>1, <3>3
  <2>4. G(s)
    <3> HIDE DEF G
    <3> QED
      BY <2>3
  <2> QED
    BY <2>4
<1>LeadingZerosAre. \A s : LeadingZeros(s) = SubSeq(s, 1, Zeros(s))
  BY Zenon DEF LeadingZeros, Zeros, AreZeros
<1>ZerosExist.
    ASSUME NEW s \in Seq(Nat)
    PROVE  Zeros(s) \in 0 .. Len(s) /\ AreZeros(s, Zeros(s))
  <2> DEFINE T == {i \in 1 .. Len(s) : s[i] # 0}
  <2>0. Len(s) \in Nat
    OBVIOUS
  <2>1. \E k \in 0 .. Len(s) : AreZeros(s, k)
    <3>1. CASE T = {}
      <4>1. Len(s) \in 0 .. Len(s) /\ \A i \in 1 .. Len(s) : s[i] = 0
        BY <2>0, <3>1
      <4>2. AreZeros(s, Len(s))
        BY <2>0, <4>1 DEF AreZeros
      <4> QED
        BY <4>1, <4>2
    <3>2. CASE T # {}
      <4>1. PICK x \in T : \A y \in T : x <= y
        <5>1. T \subseteq Nat
          OBVIOUS
        <5> HIDE DEF T
        <5> QED
          BY <3>2, <5>1, Zenon DEF NatIsWellOrdered
      <4>2. x \in 1 .. Len(s) /\ s[x] # 0
        OBVIOUS
      <4>3. x - 1 \in 0 .. Len(s) /\ (x - 1) + 1 = x
        BY <2>0, <4>2
      <4>4. ASSUME NEW i \in 1 .. x - 1 PROVE s[i] = 0
        <5>1. i \in 1 .. Len(s) /\ ~(x <= i)
          BY <2>0, <4>2
        <5> QED
          BY <4>1, <5>1
      <4>5. AreZeros(s, x - 1)
        BY <4>2, <4>3, <4>4 DEF AreZeros
      <4> QED
        BY <4>3, <4>5
    <3> QED
      BY <3>1, <3>2
  <2> QED
    BY <2>1, Zenon DEF Zeros
<1>ZerosUnique.
    ASSUME NEW s \in Seq(Nat), NEW k \in 0 .. Len(s), AreZeros(s, k)
    PROVE  Zeros(s) = k
  <2> USE <1>ZerosUnique
  <2> DEFINE z == Zeros(s)
  <2>1. z \in 0 .. Len(s) /\ AreZeros(s, z)
    BY <1>ZerosExist
  <2> HIDE DEF z
  <2>2. Len(s) \in Nat
    OBVIOUS
  <2>3. ASSUME NEW x \in 0 .. Len(s), NEW y \in 0 .. Len(s), AreZeros(s, x), AreZeros(s, y), x < y
        PROVE  FALSE
    <3>1. x < Len(s) /\ x + 1 \in 1 .. y
      BY <2>2, <2>3
    <3>2. s[x + 1] # 0 /\ s[x + 1] = 0
      BY <2>3, <3>1 DEF AreZeros
    <3> QED
      BY <3>2
  <2>4. ~(z < k) /\ ~(k < z)
    BY <2>1, <2>3
  <2>5. z = k
    BY <2>1, <2>2, <2>4
  <2> QED
    BY <2>5 DEF z
<1>NumberSkipsZeros.
    ASSUME NEW b \in Nat, NEW s \in Seq(Nat), NEW k \in 0 .. Len(s), \A i \in 1 .. k : s[i] = 0
    PROVE  Number(b, s) = Number(b, SubSeq(s, k + 1, Len(s)))
  <2> USE <1>NumberSkipsZeros
  <2> DEFINE n == Len(s)
             u == SubSeq(s, k + 1, n)
             S == SumOf(b, s)
             U == SumOf(b, u)
             m == n - k
             P == {i \in 0 .. k : S[i] = 0}
             R == {i \in 0 .. m : S[k + i] = U[i]}
  <2>1. n \in Nat /\ k \in Nat /\ k <= n /\ m \in Nat /\ k + m = n
    OBVIOUS
  <2>2. u \in Seq(Nat) /\ Len(u) = m /\ \A i \in 1 .. m : u[i] = s[k + i]
    OBVIOUS
  <2>3. Number(b, s) = S[n] /\ S[0] = 0 /\ \A i \in 0 .. n - 1 : S[i + 1] = S[i] * b + s[i + 1]
    BY <1>NumberIsSum
  <2> HIDE DEF u, n, m
  <2>4. Number(b, u) = U[m] /\ U[0] = 0 /\ \A i \in 0 .. m - 1 : U[i + 1] = U[i] * b + u[i + 1]
    BY <2>2, <1>NumberIsSum, Zenon
  <2> HIDE DEF S, U
  <2>5. k \in P
    <3>1. 0 \in P
      BY <2>1, <2>3
    <3>2. ASSUME NEW i \in 0 .. k - 1, i \in P PROVE i + 1 \in P
      <4>1. i \in 0 .. n - 1 /\ i + 1 \in 1 .. k /\ i + 1 \in 0 .. k
        BY <2>1
      <4>2. S[i + 1] = S[i] * b + s[i + 1] /\ S[i] = 0 /\ s[i + 1] = 0
        BY <2>3, <3>2, <4>1
      <4>3. S[i + 1] = 0
        BY <4>2
      <4> QED
        BY <4>1, <4>3
    <3>3. k \in 0 .. k
      BY <2>1
    <3> HIDE DEF P
    <3>4. 0 .. k \subseteq P
      BY <2>1, <3>1, <3>2, Induction, Zenon
    <3> QED
      BY <3>3, <3>4
  <2>6. m \in R
    <3>1. 0 \in R
      <4>1. k + 0 = k /\ S[k] = 0 /\ 0 \in 0 .. m
        BY <2>1, <2>5
      <4> QED
        BY <2>4, <4>1
    <3>2. ASSUME NEW i \in 0 .. m - 1, i \in R PROVE i + 1 \in R
      <4>1. k + i \in 0 .. n - 1 /\ (k + i) + 1 = k + (i + 1) /\ i + 1 \in 1 .. m /\ i + 1 \in 0 .. m
        BY <2>1
      <4>2. S[k + (i + 1)] = S[k + i] * b + s[k + (i + 1)]
        BY <2>3, <4>1
      <4>3. U[i + 1] = U[i] * b + u[i + 1] /\ u[i + 1] = s[k + (i + 1)]
        BY <2>2, <2>4, <4>1
      <4>4. S[k + i] = U[i]
        BY <3>2
      <4>5. S[k + (i + 1)] = U[i + 1]
        BY <4>2, <4>3, <4>4, Zenon
      <4> QED
        BY <4>1, <4>5
    <3>3. m \in 0 .. m
      BY <2>1
    <3> HIDE DEF R
    <3>4. 0 .. m \subseteq R
      BY <2>1, <3>1, <3>2, Induction, Zenon
    <3> QED
      BY <3>3, <3>4
  <2>7. S[n] = U[m]
    <3>1. S[k + m] = U[m]
      BY <2>6
    <3> QED
      BY <2>1, <3>1
  <2>8. Number(b, s) = Number(b, u)
    BY <2>3, <2>4, <2>7
  <2> QED
    BY <2>8 DEF u, n
<1>DigitsAreNumbers.
    ASSUME NEW b \in Nat, NEW s \in Seq(0 .. b - 1)
    PROVE  s \in Seq(Nat) /\ Len(s) \in Nat /\ \A i \in 1 .. Len(s) : s[i] \in 0 .. b - 1
  OBVIOUS
<1>JoinParts.
    ASSUME NEW S, NEW a \in Seq(S), NEW b \in Seq(S)
    PROVE  IsJoin(S, a, b, a \o b)
  <2> DEFINE w == a \o b
  <2>1. /\ w \in Seq(S) /\ Len(w) = Len(a) + Len(b) /\ Len(a) \in Nat /\ Len(b) \in Nat
        /\ \A i \in 1 .. Len(a) : w[i] = a[i]
        /\ \A i \in 1 .. Len(b) : w[Len(a) + i] = b[i]
    OBVIOUS
  <2> HIDE DEF w
  <2>2. SubSeq(w, 1, Len(a)) = a
    <3>1. SubSeq(w, 1, Len(a)) \in Seq(S) /\ Len(SubSeq(w, 1, Len(a))) = Len(a)
          /\ \A i \in 1 .. Len(a) : SubSeq(w, 1, Len(a))[i] = w[i]
      BY <2>1
    <3> QED
      BY <2>1, <3>1
  <2>3. SubSeq(w, Len(a) + 1, Len(w)) = b
    <3>1. SubSeq(w, Len(a) + 1, Len(w)) = [i \in 1 .. Len(b) |-> w[Len(a) + i]]
      BY <2>1
    <3>2. b = [i \in 1 .. Len(b) |-> b[i]]
      BY <2>1
    <3> QED
      BY <2>1, <3>1, <3>2, Zenon
  <2>4. IsJoin(S, a, b, w)
    BY <2>1, <2>2, <2>3 DEF IsJoin
  <2> QED
    BY <2>4 DEF w
<1>SplitAt.
    ASSUME NEW S, NEW s \in Seq(S), NEW k \in 0 .. Len(s)
    PROVE  IsSplit(S, s, k)
  <2> DEFINE a == SubSeq(s, 1, k)
             b == SubSeq(s, k + 1, Len(s))
  <2>1. Len(s) \in Nat /\ k \in Nat /\ k <= Len(s)
    OBVIOUS
  <2>2. a \in Seq(S) /\ Len(a) = k /\ \A i \in 1 .. k : a[i] = s[i]
    OBVIOUS
  <2>3. b \in Seq(S) /\ Len(b) = Len(s) - k /\ \A i \in 1 .. Len(s) - k : b[i] = s[k + i]
    OBVIOUS
  <2> HIDE DEF a, b
  <2> DEFINE w == a \o b
  <2>4. /\ w \in Seq(S) /\ Len(w) = Len(s)
        /\ \A i \in 1 .. k : w[i] = a[i]
        /\ \A i \in 1 .. Len(s) - k : w[k + i] = b[i]
    <3>1. IsJoin(S, a, b, w)
      BY <2>2, <2>3, <1>JoinParts
    <3> HIDE DEF w
    <3>2. /\ w \in Seq(S) /\ Len(w) = k + (Len(s) - k)
          /\ \A i \in 1 .. k : w[i] = a[i]
          /\ \A i \in 1 .. Len(s) - k : w[k + i] = b[i]
      BY <2>2, <2>3, <3>1, Zenon DEF IsJoin
    <3> QED
      BY <2>1, <3>2
  <2> HIDE DEF w
  <2>5. ASSUME NEW i \in 1 .. Len(s) PROVE w[i] = s[i]
    <3>1. CASE i \in 1 .. k
      BY <2>2, <2>4, <3>1
    <3>2. CASE i > k
      <4>1. i - k \in 1 .. Len(s) - k /\ k + (i - k) = i
        BY <2>1, <3>2
      <4> QED
        BY <2>3, <2>4, <4>1, Zenon
    <3> QED
      BY <2>1, <3>1, <3>2
  <2>6. s = w
    BY <2>4, <2>5
  <2> QED
    BY <2>2, <2>3, <2>6, Zenon DEF a, b, w, IsSplit
(* A number with its leading zeros can be written in another base and back. *)
<1>ConvInverse.
    ASSUME NEW a \in Nat, NEW b \in Nat, a >= 2, b >= 2, NEW s \in Seq(0 .. a - 1)
    PROVE  /\ Conv(a, b, s) \in Seq(0 .. b - 1)
           /\ Conv(b, a, Conv(a, b, s)) = s
  <2> USE <1>ConvInverse
  <2> DEFINE k == Zeros(s)
             z == SubSeq(s, 1, k)
             u == SubSeq(s, k + 1, Len(s))
             N == Number(a, s)
             d == Digits(N, b)
             w == z \o d
  <2>1. s \in Seq(Nat) /\ Len(s) \in Nat /\ k \in 0 .. Len(s) /\ AreZeros(s, k)
    BY <1>DigitsAreNumbers, <1>ZerosExist
  <2>2. Conv(a, b, s) = w
    BY <1>LeadingZerosAre, Zenon DEF Conv
  <2> HIDE DEF k
  <2>3. /\ z \in Seq(0 .. a - 1) /\ Len(z) = k /\ \A i \in 1 .. k : z[i] = s[i]
        /\ u \in Seq(0 .. a - 1) /\ Len(u) = Len(s) - k /\ \A i \in 1 .. Len(s) - k : u[i] = s[k + i]
        /\ s = z \o u
    <3> DEFINE S == 0 .. a - 1
    <3>1. s \in Seq(S)
      OBVIOUS
    <3> HIDE DEF S
    <3>2. IsSplit(S, s, k)
      BY <2>1, <3>1, <1>SplitAt
    <3>3. /\ z \in Seq(S) /\ Len(z) = k /\ \A i \in 1 .. k : z[i] = s[i]
          /\ u \in Seq(S) /\ Len(u) = Len(s) - k /\ \A i \in 1 .. Len(s) - k : u[i] = s[k + i]
          /\ s = z \o u
      BY <3>2, Zenon DEF IsSplit
    <3> QED
      BY <3>3, Zenon DEF S
  <2>4. \A i \in 1 .. k : z[i] = 0
    BY <2>1, <2>3, Zenon DEF AreZeros
  <2>5. z \in Seq(0 .. b - 1)
    <3>1. z = [i \in 1 .. k |-> z[i]]
      BY <2>1, <2>3, SMTT(30)
    <3>2. 0 \in 0 .. b - 1 /\ k \in Nat
      BY <2>1
    <3>3. ASSUME NEW D, NEW f, f = [i \in 1 .. k |-> f[i]], \A i \in 1 .. k : f[i] = 0, 0 \in D
          PROVE  f \in Seq(D)
      BY <3>2, <3>3, SMTT(30)
    <3> HIDE DEF z
    <3> QED
      BY <2>4, <3>1, <3>2, <3>3, Zenon
  <2>6. u = <<>> \/ u[1] # 0
    <3>1. CASE k < Len(s)
      <4>1. 1 \in 1 .. Len(s) - k /\ s[k + 1] # 0
        BY <2>1, <3>1 DEF AreZeros
      <4> QED
        BY <2>3, <4>1, Zenon
    <3>2. CASE k = Len(s)
      BY <2>1, <2>3, <3>2
    <3> QED
      BY <2>1, <3>1, <3>2, SMTT(30)
  <2>7. N = Number(a, u)
    BY <2>1, <1>NumberSkipsZeros DEF AreZeros
  <2> HIDE DEF u, z
  <2>8. N \in Nat /\ Digits(N, a) = u
    <3>1. u \in Seq(Nat)
      BY <2>3, <1>DigitsAreNumbers
    <3>2. N \in Nat
      BY <2>7, <3>1, <1>NumberAppend
    <3>3. Digits(Number(a, u), a) = u
      BY <2>3, <2>6, <1>NumberInverse
    <3> QED
      BY <2>7, <3>2, <3>3
  <2> HIDE DEF N
  <2>9. d \in Seq(0 .. b - 1) /\ Number(b, d) = N /\ (N # 0 => d[1] # 0) /\ (N = 0 => d = <<>>)
    BY <2>8, <1>DigitsFacts, <1>DigitsStep, Zenon
  <2> HIDE DEF d
  <2>10. /\ w \in Seq(0 .. b - 1) /\ Len(w) = k + Len(d) /\ SubSeq(w, 1, k) = z
         /\ SubSeq(w, k + 1, Len(w)) = d
         /\ \A i \in 1 .. k : w[i] = z[i]
         /\ \A i \in 1 .. Len(d) : w[k + i] = d[i]
    <3>1. /\ w \in Seq(0 .. b - 1) /\ Len(w) = Len(z) + Len(d) /\ SubSeq(w, 1, Len(z)) = z
          /\ SubSeq(w, Len(z) + 1, Len(w)) = d
          /\ \A i \in 1 .. Len(z) : w[i] = z[i]
          /\ \A i \in 1 .. Len(d) : w[Len(z) + i] = d[i]
      <4> DEFINE S == 0 .. b - 1
      <4>1. z \in Seq(S) /\ d \in Seq(S)
        BY <2>5, <2>9
      <4> HIDE DEF S
      <4>2. IsJoin(S, z, d, w)
        BY <4>1, <1>JoinParts
      <4> HIDE DEF w
      <4> QED
        BY <4>2, Zenon DEF S, IsJoin
    <3>2. Len(z) = k
      BY <2>3
    <3> HIDE DEF w
    <3> QED
      BY <3>1, <3>2, Zenon
  <2> HIDE DEF w
  <2>11. w \in Seq(Nat) /\ Len(d) \in Nat /\ k \in 0 .. Len(w) /\ Len(w) \in Nat
    <3>1. w \in Seq(Nat) /\ Len(d) \in Nat
      BY <2>9, <2>10, <1>DigitsAreNumbers
    <3> QED
      BY <2>1, <2>10, <3>1
  <2>12. \A i \in 1 .. k : w[i] = 0
    BY <2>4, <2>10, ZenonT(60)
  <2>13. k < Len(w) => w[k + 1] # 0
    <3> SUFFICES ASSUME k < Len(w) PROVE w[k + 1] # 0
      OBVIOUS
    <3>1. 1 \in 1 .. Len(d) /\ d # <<>>
      BY <2>1, <2>10, <2>11
    <3>2. w[k + 1] = d[1]
      BY <2>10, <3>1
    <3> QED
      BY <2>9, <3>1, <3>2
  <2>14. Zeros(w) = k
    BY <2>11, <2>12, <2>13, <1>ZerosUnique DEF AreZeros
  <2>15. Number(b, w) = N
    <3>1. Number(b, w) = Number(b, SubSeq(w, k + 1, Len(w)))
      BY <2>11, <2>12, <1>NumberSkipsZeros
    <3> QED
      BY <2>9, <2>10, <3>1, Zenon
  <2>16. Conv(b, a, w) = SubSeq(w, 1, k) \o Digits(N, a)
    BY <2>14, <2>15, <1>LeadingZerosAre, Zenon DEF Conv
  <2> QED
    BY <2>2, <2>3, <2>8, <2>10, <2>16, Zenon
(* More digits make a number at least twice as large.                       *)
<1>PrefixGrows.
    ASSUME NEW b \in Nat, b >= 2, NEW s \in Seq(Nat), NEW t \in Seq(Nat), Len(s) < Len(t),
           \A i \in 1 .. Len(s) : t[i] = s[i]
    PROVE  Number(b, t) >= 2 * Number(b, s)
  <2> USE <1>PrefixGrows
  <2> DEFINE h == Len(s)
             n == Len(t)
             m == n - h - 1
             T == SumOf(b, t)
             x == Number(b, s)
             P == {j \in 0 .. m : T[(h + j) + 1] >= 2 * x}
  <2>1. h \in Nat /\ n \in Nat /\ m \in Nat /\ (h + m) + 1 = n /\ h + 0 = h /\ h <= n
    OBVIOUS
  <2>2. x \in Nat /\ T[h] = x
    <3>1. T[h] = x
      BY <1>SumOfStart, SMTT(30)
    <3>2. x \in Nat
      BY <1>NumberAppend, Zenon
    <3> QED
      BY <3>1, <3>2
  <2>3. /\ Number(b, t) = T[n]
        /\ \A i \in 0 .. n : T[i] \in Nat
        /\ \A i \in 0 .. n - 1 : t[i + 1] \in Nat /\ T[i + 1] = T[i] * b + t[i + 1]
    BY <1>NumberIsSum, SMTT(30)
  <2>4. ASSUME NEW y \in Nat, NEW d \in Nat, NEW z \in Nat, y >= z PROVE y * b + d >= 2 * z
    <3>1. (b - 2) * y \in Nat
      OBVIOUS
    <3>2. y * b >= 2 * y
      BY <3>1
    <3> QED
      BY <2>4, <3>2, SMTT(30)
  <2> HIDE DEF T, x, h, n, m
  <2>5. 0 \in P
    <3>1. h \in 0 .. n - 1 /\ 0 \in 0 .. m
      BY <2>1
    <3>2. t[h + 1] \in Nat /\ T[h + 1] = T[h] * b + t[h + 1]
      BY <2>3, <3>1
    <3>3. x >= x
      BY <2>2
    <3>4. x * b + t[h + 1] >= 2 * x
      BY <2>2, <2>4, <3>2, <3>3, Zenon
    <3>5. T[(h + 0) + 1] >= 2 * x
      BY <2>1, <2>2, <3>2, <3>4
    <3> QED
      BY <3>1, <3>5
  <2>6. ASSUME NEW j \in 0 .. m - 1, j \in P PROVE j + 1 \in P
    <3> DEFINE i == (h + j) + 1
    <3>1. i \in 0 .. n - 1 /\ i \in 0 .. n /\ (h + (j + 1)) + 1 = i + 1 /\ j + 1 \in 0 .. m
      BY <2>1
    <3>2. T[i] >= 2 * x
      BY <2>6
    <3> HIDE DEF i
    <3>3. t[i + 1] \in Nat /\ T[i + 1] = T[i] * b + t[i + 1] /\ T[i] \in Nat
      BY <2>3, <3>1
    <3>4. T[i] >= x
      BY <2>2, <3>2, <3>3, SMTT(30)
    <3>5. T[i] * b + t[i + 1] >= 2 * x
      BY <2>2, <2>4, <3>3, <3>4, Zenon
    <3>6. T[(h + (j + 1)) + 1] >= 2 * x
      BY <3>1, <3>3, <3>5
    <3> QED
      BY <3>1, <3>6
  <2>7. m \in P
    <3>1. m \in 0 .. m
      BY <2>1
    <3> HIDE DEF P
    <3>2. 0 .. m \subseteq P
      BY <2>1, <2>5, <2>6, Induction, Zenon
    <3> QED
      BY <3>1, <3>2
  <2>8. T[(h + m) + 1] >= 2 * x
    BY <2>7
  <2>9. Number(b, t) >= 2 * x
    BY <2>1, <2>3, <2>8, Zenon
  <2> QED
    BY <2>9 DEF x
(* Numbers of as many digits that begin alike differ by less than a factor  *)
(* of two.                                                                  *)
<1>SameLengthBound.
    ASSUME NEW b \in Nat, b >= 2, NEW s \in Seq(0 .. b - 1), Number(b, s) # 0,
           NEW u \in Seq(0 .. b - 1), NEW v \in Seq(0 .. b - 1), Len(u) = Len(v), Len(s) <= Len(u),
           \A i \in 1 .. Len(s) : u[i] = s[i] /\ v[i] = s[i]
    PROVE  Number(b, u) < 2 * Number(b, v)
  <2> USE <1>SameLengthBound
  <2> DEFINE h == Len(s)
             n == Len(u)
             m == n - h
             U == SumOf(b, u)
             V == SumOf(b, v)
             P == {j \in 0 .. m : U[h + j] < 2 * V[h + j]}
  <2>1. h \in Nat /\ n \in Nat /\ m \in Nat /\ h + m = n /\ h + 0 = h /\ h <= n /\ Len(v) = n
    OBVIOUS
  <2>2. s \in Seq(Nat) /\ u \in Seq(Nat) /\ v \in Seq(Nat) /\ \A i \in 1 .. n : u[i] \in 0 .. b - 1
    BY <1>DigitsAreNumbers
  <2>3. U[h] = Number(b, s) /\ V[h] = Number(b, s) /\ Number(b, s) \in Nat
    <3>1. U[h] = Number(b, s)
      BY <2>1, <2>2, <1>SumOfStart, Zenon
    <3>2. V[h] = Number(b, s)
      BY <2>1, <2>2, <1>SumOfStart, Zenon
    <3>3. Number(b, s) \in Nat
      BY <2>2, <1>NumberAppend, SMTT(30)
    <3> QED
      BY <3>1, <3>2, <3>3
  <2>4. /\ Number(b, u) = U[n]
        /\ \A i \in 0 .. n : U[i] \in Nat
        /\ \A i \in 0 .. n - 1 : U[i + 1] = U[i] * b + u[i + 1]
    BY <2>2, <1>NumberIsSum
  <2>5. /\ Number(b, v) = V[n]
        /\ \A i \in 0 .. n : V[i] \in Nat
        /\ \A i \in 0 .. n - 1 : v[i + 1] \in Nat /\ V[i + 1] = V[i] * b + v[i + 1]
    <3> HIDE DEF n
    <3> QED
      BY <2>1, <2>2, <1>NumberIsSum, Zenon
  <2>6. ASSUME NEW x \in Nat, NEW y \in Nat, NEW d \in 0 .. b - 1, NEW e \in Nat, x < 2 * y
        PROVE  x * b + d < 2 * (y * b + e)
    <3>1. d \in Nat /\ d < b /\ b \in Nat \ {0} /\ 2 * y \in Nat
      OBVIOUS
    <3>2. x * b + d < (2 * y) * b
      BY <2>6, <3>1, ProductBelow, Zenon
    <3>3. (2 * y) * b = 2 * (y * b) /\ y * b \in Nat /\ x * b \in Nat
      OBVIOUS
    <3> QED
      BY <3>1, <3>2, <3>3
  <2> HIDE DEF U, V, h, n, m
  <2>7. 0 \in P
    <3>1. 0 \in 0 .. m
      BY <2>1, SMTT(30)
    <3>2. U[h + 0] < 2 * V[h + 0]
      BY <2>1, <2>3
    <3> QED
      BY <3>1, <3>2
  <2>8. ASSUME NEW j \in 0 .. m - 1, j \in P PROVE j + 1 \in P
    <3> DEFINE i == h + j
    <3>1. i \in 0 .. n - 1 /\ i \in 0 .. n /\ i + 1 \in 1 .. n /\ h + (j + 1) = i + 1 /\ j + 1 \in 0 .. m
      BY <2>1
    <3>2. U[i] < 2 * V[i]
      BY <2>8, SMTT(30)
    <3> HIDE DEF i
    <3>3. /\ U[i] \in Nat /\ V[i] \in Nat /\ u[i + 1] \in 0 .. b - 1 /\ v[i + 1] \in Nat
          /\ U[i + 1] = U[i] * b + u[i + 1] /\ V[i + 1] = V[i] * b + v[i + 1]
      BY <2>2, <2>4, <2>5, <3>1
    <3>4. U[i] * b + u[i + 1] < 2 * (V[i] * b + v[i + 1])
      BY <2>6, <3>2, <3>3, Zenon
    <3>5. U[h + (j + 1)] < 2 * V[h + (j + 1)]
      BY <3>1, <3>3, <3>4, Zenon
    <3> QED
      BY <3>1, <3>5, SMTT(30)
  <2>9. m \in P
    <3>1. m \in 0 .. m
      BY <2>1
    <3> HIDE DEF P
    <3>2. 0 .. m \subseteq P
      BY <2>1, <2>7, <2>8, Induction, Zenon
    <3> QED
      BY <3>1, <3>2
  <2>10. U[h + m] < 2 * V[h + m]
    BY <2>9
  <2> QED
    BY <2>1, <2>4, <2>5, <2>10, Zenon
<1>KeyConstants.
    /\ Alphabet \in Nat /\ Alphabet >= 2 /\ Base \in Nat /\ Base >= 2
    /\ Seq(Symbol) \subseteq Seq(Byte) /\ Alphabet - 1 \in Byte
    /\ KeyCodec \in Seq(Byte) /\ DIDKeyPrefix \in Seq(Byte) /\ KeyCodec # <<>> /\ KeyCodec[1] # 0
    /\ KeyLen \in Nat \ {0}
  <2>1. Base \in Nat \ {0} /\ Base = 4 * Q /\ Q \in Nat \ {0}
    BY BaseIsPositive
  <2>2. Alphabet \in Nat /\ Alphabet >= 2 /\ Alphabet <= Base - 1
    BY <2>1, PayloadAssumption
  <2>3. Alphabet - 1 \in Byte
    BY <2>1, <2>2 DEF Byte
  <2>4. Base >= 2
    BY <2>1, <2>2
  <2>5. \A x \in Symbol : x \in Byte
    BY <2>1, <2>2 DEF Byte, Symbol
  <2>6. ASSUME NEW S, NEW T, S \subseteq T, NEW s \in Seq(S) PROVE s \in Seq(T)
    BY <2>6
  <2>7. Seq(Symbol) \subseteq Seq(Byte)
    BY <2>5, <2>6
  <2>8. /\ KeyCodec \in Seq(Byte) /\ DIDKeyPrefix \in Seq(Byte) /\ KeyCodec # <<>> /\ KeyCodec[1] # 0
        /\ KeyLen \in Nat \ {0}
    BY PayloadAssumption
  <2> QED
    BY <2>1, <2>2, <2>3, <2>4, <2>7, <2>8, SMTT(30)
(* base58btcDecode inverts base58btcEncode, and only what that gives is     *)
(* decoded.                                                                 *)
<1>Base58Encode.
    ASSUME NEW data \in Seq(Byte)
    PROVE  /\ base58btcEncode(data) \in Seq(Symbol)
           /\ base58btcDecode(base58btcEncode(data)) = [ok |-> TRUE, value |-> data]
  <2> DEFINE e == base58btcEncode(data)
  <2>1. e = Conv(Base, Alphabet, data)
    BY Zenon DEF base58btcEncode, Conv
  <2>2. Conv(Base, Alphabet, data) \in Seq(Symbol) /\ Conv(Alphabet, Base, Conv(Base, Alphabet, data)) = data
    <3>1. data \in Seq(0 .. Base - 1)
      BY SMTT(30) DEF Byte
    <3> QED
      BY <3>1, <1>KeyConstants, <1>ConvInverse DEF Symbol
  <2>3. e \in Seq(Symbol) /\ Conv(Alphabet, Base, e) = data
    BY <2>1, <2>2
  <2> HIDE DEF e
  <2>4. ~\E i \in DOMAIN e : e[i] >= Alphabet
    <3>1. \A i \in DOMAIN e : e[i] \in Symbol
      BY <2>3
    <3> QED
      BY <3>1, <1>KeyConstants DEF Symbol
  <2>5. base58btcDecode(e) = [ok |-> TRUE, value |-> Conv(Alphabet, Base, e)]
    BY <2>4, Zenon DEF base58btcDecode, Conv
  <2> QED
    BY <2>3, <2>5 DEF e
<1>Base58Accepted.
    ASSUME NEW s \in Seq(Byte), base58btcDecode(s).ok
    PROVE  base58btcDecode(s).value \in Seq(Byte) /\ base58btcEncode(base58btcDecode(s).value) = s
  <2> USE <1>Base58Accepted
  <2>1. ~\E i \in DOMAIN s : s[i] >= Alphabet
    BY DEF base58btcDecode, Error
  <2>2. s \in Seq(Symbol)
    <3>1. \A i \in DOMAIN s : s[i] \in Byte /\ DOMAIN s = 1 .. Len(s) /\ Len(s) \in Nat
      OBVIOUS
    <3>2. \A i \in DOMAIN s : s[i] \in Symbol
      <4>1. \A x \in Byte : ~(x >= Alphabet) => x \in Symbol
        BY <1>KeyConstants DEF Byte, Symbol
      <4> QED
        BY <2>1, <3>1, <4>1
    <3>3. ASSUME NEW S, \A i \in DOMAIN s : s[i] \in S PROVE s \in Seq(S)
      BY <3>3
    <3> QED
      BY <3>2, <3>3
  <2> DEFINE d == Conv(Alphabet, Base, s)
  <2>3. base58btcDecode(s) = [ok |-> TRUE, value |-> d]
    BY <2>1, Zenon DEF base58btcDecode, Conv
  <2>4. d \in Seq(0 .. Base - 1) /\ Conv(Base, Alphabet, d) = s
    BY <2>2, <1>KeyConstants, <1>ConvInverse DEF Symbol
  <2> HIDE DEF d
  <2>5. base58btcEncode(d) = Conv(Base, Alphabet, d)
    BY Zenon DEF base58btcEncode, Conv
  <2> QED
    BY <2>3, <2>4, <2>5, SMTT(30) DEF Byte
(* The text of bytes that do not begin with 0.                              *)
<1>KeyText.
    ASSUME NEW m \in Seq(Byte), m # <<>>, m[1] # 0
    PROVE  /\ Number(Base, m) \in Nat \ {0}
           /\ base58btcEncode(m) = Digits(Number(Base, m), Alphabet)
           /\ base58btcEncode(m) # <<>>
           /\ Number(Alphabet, base58btcEncode(m)) = Number(Base, m)
  <2> USE <1>KeyText
  <2> DEFINE N == Number(Base, m)
             d == Digits(N, Alphabet)
  <2>1. m \in Seq(0 .. Base - 1) /\ m \in Seq(Nat)
    <3>1. m \in Seq(0 .. Base - 1)
      BY DEF Byte
    <3> QED
      BY <3>1, <1>KeyConstants, <1>DigitsAreNumbers
  <2>2. N \in Nat \ {0}
    <3>1. N \in Nat
      BY <2>1, <1>KeyConstants, <1>NumberAppend, Zenon
    <3>2. N # 0
      BY <2>1, <1>KeyConstants, <1>NumberInverse
    <3> QED
      BY <3>1, <3>2
  <2>3. Zeros(m) = 0
    <3>1. 0 \in 0 .. Len(m) /\ AreZeros(m, 0)
      BY DEF AreZeros
    <3> QED
      BY <2>1, <3>1, <1>ZerosUnique
  <2>4. base58btcEncode(m) = SubSeq(m, 1, 0) \o d
    BY <2>3, <1>LeadingZerosAre, Zenon DEF base58btcEncode
  <2> HIDE DEF N
  <2>5. d \in Seq(Symbol) /\ d # <<>> /\ Number(Alphabet, d) = N
    BY <2>2, <1>KeyConstants, <1>DigitsFacts DEF Symbol
  <2>6. SubSeq(m, 1, 0) = <<>>
    OBVIOUS
  <2> HIDE DEF d
  <2>7. <<>> \o d = d
    BY <2>5
  <2>8. base58btcEncode(m) = d
    BY <2>4, <2>6, <2>7, Zenon
  <2> QED
    BY <2>2, <2>5, <2>8 DEF N, d
<1>KeyBytesAre.
    ASSUME NEW pub, IsKey(pub)
    PROVE  LET m == KeyBytes(pub)
           IN  /\ m \in Seq(Byte) /\ m # <<>> /\ m[1] # 0 /\ Len(m) = Len(KeyCodec) + KeyLen
               /\ \A i \in 1 .. Len(KeyCodec) : m[i] = KeyCodec[i]
               /\ Drop(m, Len(KeyCodec)) = pub /\ HasPrefix(m, KeyCodec)
  <2> USE <1>KeyBytesAre
  <2> DEFINE m == KeyBytes(pub)
  <2>1. pub \in Seq(Byte) /\ Len(pub) = KeyLen
    BY DEF IsKey
  <2>2. KeyCodec \in Seq(Byte) /\ KeyCodec # <<>> /\ KeyCodec[1] # 0 /\ KeyLen \in Nat
    BY <1>KeyConstants
  <2>3. /\ m \in Seq(Byte) /\ Len(m) = Len(KeyCodec) + Len(pub)
        /\ \A i \in 1 .. Len(KeyCodec) : m[i] = KeyCodec[i]
    BY <2>1, <2>2, ConcatFacts, ZenonT(60) DEF KeyBytes
  <2>4. SubSeq(m, 1, Len(KeyCodec)) = KeyCodec /\ Drop(m, Len(KeyCodec)) = pub
    BY <2>1, <2>2, ConcatParts DEF KeyBytes
  <2> HIDE DEF m
  <2>5. Len(KeyCodec) \in Nat \ {0} /\ 1 \in 1 .. Len(KeyCodec)
    BY <2>2
  <2>6. m # <<>> /\ m[1] # 0
    BY <2>1, <2>2, <2>3, <2>5, SMTT(30)
  <2>7. HasPrefix(m, KeyCodec)
    BY <2>1, <2>2, <2>3, <2>4, <2>5, SMTT(30) DEF HasPrefix
  <2> QED
    BY <2>1, <2>3, <2>4, <2>6, <2>7 DEF m
<1>KeyCharsAre.
    ASSUME NEW pub, IsKey(pub)
    PROVE  LET e == KeyChars(pub)
           IN  /\ e \in Seq(Byte) /\ e \in Seq(Nat) /\ Len(e) \in Nat \ {0}
               /\ Number(Alphabet, e) = Number(Base, KeyBytes(pub))
               /\ Number(Alphabet, e) \in Nat \ {0}
               /\ base58btcDecode(e) = [ok |-> TRUE, value |-> KeyBytes(pub)]
  <2> USE <1>KeyCharsAre
  <2> DEFINE e == KeyChars(pub)
             m == KeyBytes(pub)
  <2>1. m \in Seq(Byte) /\ m # <<>> /\ m[1] # 0
    BY <1>KeyBytesAre
  <2> HIDE DEF m
  <2>2. e = base58btcEncode(m)
    BY Zenon DEF KeyChars, m
  <2> HIDE DEF e
  <2>3. e \in Seq(Symbol) /\ base58btcDecode(e) = [ok |-> TRUE, value |-> m]
    BY <2>1, <2>2, <1>Base58Encode
  <2>4. e # <<>> /\ Number(Alphabet, e) = Number(Base, m) /\ Number(Base, m) \in Nat \ {0}
    BY <2>1, <2>2, <1>KeyText
  <2>5. e \in Seq(Nat) /\ e \in Seq(Byte)
    BY <2>3, <1>KeyConstants, <1>DigitsAreNumbers DEF Symbol
  <2>6. Len(e) \in Nat \ {0}
    BY <2>4, <2>5
  <2> QED
    BY <2>3, <2>4, <2>5, <2>6 DEF e, m
<1>HeadAndTail.
    ASSUME NEW x \in Byte, NEW e \in Seq(Byte)
    PROVE  LET y == <<x>> \o e
           IN  y \in Seq(Byte) /\ Len(y) = Len(e) + 1 /\ Head(y) = x /\ Tail(y) = e
  <2> DEFINE y == <<x>> \o e
  <2>1. <<x>> \in Seq(Byte) /\ Len(<<x>>) = 1 /\ <<x>>[1] = x /\ Len(e) \in Nat
    OBVIOUS
  <2>2. y \in Seq(Byte) /\ Len(y) = Len(<<x>>) + Len(e) /\ y[1] = x
    BY <2>1, ConcatFacts
  <2>3. Drop(y, Len(<<x>>)) = e
    BY <2>1, ConcatParts, Zenon
  <2> HIDE DEF y
  <2>4. Len(y) = Len(e) + 1 /\ y # <<>> /\ Head(y) = x
    BY <2>1, <2>2
  <2>5. Tail(y) = Drop(y, 1)
    BY <2>2, <2>4 DEF Drop
  <2> QED
    BY <2>1, <2>2, <2>3, <2>4, <2>5, SMTT(30) DEF y
<1>KeySent.
    ASSUME NEW pub, IsKey(pub)
    PROVE  /\ MakeDIDKey(pub) \in Seq(Byte)
           /\ ParseDIDKey(MakeDIDKey(pub)) = [ok |-> TRUE, value |-> pub]
  <2> USE <1>KeySent
  <2> DEFINE e == KeyChars(pub)
             y == <<Alphabet - 1>> \o e
             did == DIDKeyPrefix \o y
             m == KeyBytes(pub)
  <2>1. e \in Seq(Byte) /\ Len(e) \in Nat \ {0} /\ base58btcDecode(e) = [ok |-> TRUE, value |-> m]
    BY <1>KeyCharsAre
  <2>2. HasPrefix(m, KeyCodec) /\ Len(m) = Len(KeyCodec) + KeyLen /\ Drop(m, Len(KeyCodec)) = pub
    BY <1>KeyBytesAre
  <2>3. MakeDIDKey(pub) = did
    BY Zenon DEF MakeDIDKey, encodeMultibaseEd25519, KeyChars, KeyBytes
  <2> HIDE DEF e, m
  <2>4. y \in Seq(Byte) /\ Len(y) = Len(e) + 1 /\ Head(y) = Alphabet - 1 /\ Tail(y) = e
    BY <2>1, <1>KeyConstants, <1>HeadAndTail
  <2> HIDE DEF y
  <2>5. /\ did \in Seq(Byte) /\ Len(did) = Len(DIDKeyPrefix) + Len(y)
        /\ SubSeq(did, 1, Len(DIDKeyPrefix)) = DIDKeyPrefix /\ Drop(did, Len(DIDKeyPrefix)) = y
    BY <2>4, <1>KeyConstants, ConcatFacts, ConcatParts, Zenon
  <2> HIDE DEF did
  <2>6. Len(DIDKeyPrefix) \in Nat /\ Len(y) \in Nat
    BY <2>4, <1>KeyConstants
  <2>7. HasPrefix(did, DIDKeyPrefix)
    BY <2>5, <2>6 DEF HasPrefix
  <2>8. ~(Len(y) < 2)
    BY <2>1, <2>4
  <2>9. ParseDIDKey(did) = decodeMultibaseEd25519(y)
    BY <2>5, <2>7 DEF ParseDIDKey
  <2>10. decodeMultibaseEd25519(y) = [ok |-> TRUE, value |-> pub]
    <3> DEFINE raw == base58btcDecode(e)
    <3>1. raw.ok /\ raw.value = m
      BY <2>1
    <3>2. base58btcDecode(Tail(y)) = raw
      BY <2>4, Zenon
    <3> HIDE DEF raw
    <3>3. ~(~raw.ok \/ ~HasPrefix(raw.value, KeyCodec) \/ Len(raw.value) # Len(KeyCodec) + KeyLen)
          /\ Drop(raw.value, Len(KeyCodec)) = pub
      BY <2>2, <3>1
    <3> QED
      BY <2>4, <2>8, <3>2, <3>3, Zenon DEF decodeMultibaseEd25519
  <2> QED
    BY <2>3, <2>5, <2>9, <2>10, SMTT(30)
<1>KeyAccepted.
    ASSUME NEW did \in Seq(Byte), ParseDIDKey(did).ok
    PROVE  IsKey(ParseDIDKey(did).value) /\ MakeDIDKey(ParseDIDKey(did).value) = did
  <2> USE <1>KeyAccepted
  <2> DEFINE y == Drop(did, Len(DIDKeyPrefix))
             e == Tail(y)
             raw == base58btcDecode(e)
             m == raw.value
             pub == Drop(m, Len(KeyCodec))
  <2>1. HasPrefix(did, DIDKeyPrefix) /\ ParseDIDKey(did) = decodeMultibaseEd25519(y)
    BY DEF ParseDIDKey, Error
  <2> HIDE DEF y
  <2>2. decodeMultibaseEd25519(y).ok
    BY <2>1
  <2>3. /\ ~(Len(y) < 2) /\ Head(y) = Alphabet - 1 /\ raw.ok /\ HasPrefix(m, KeyCodec)
        /\ Len(m) = Len(KeyCodec) + KeyLen
        /\ decodeMultibaseEd25519(y) = [ok |-> TRUE, value |-> pub]
    <3>1. ~(Len(y) < 2 \/ Head(y) # Alphabet - 1)
      BY <2>2, ZenonT(60) DEF decodeMultibaseEd25519, Error
    <3>2. ~(~raw.ok \/ ~HasPrefix(m, KeyCodec) \/ Len(m) # Len(KeyCodec) + KeyLen)
      BY <2>2, <3>1 DEF decodeMultibaseEd25519, Error
    <3>3. decodeMultibaseEd25519(y) = [ok |-> TRUE, value |-> pub]
      BY <3>1, <3>2, Zenon DEF decodeMultibaseEd25519
    <3> QED
      BY <3>1, <3>2, <3>3, Zenon
  <2>4. did = DIDKeyPrefix \o y /\ y \in Seq(Byte)
    <3> DEFINE k == Len(DIDKeyPrefix)
    <3>1. k \in 0 .. Len(did) /\ SubSeq(did, 1, k) = DIDKeyPrefix
      BY <2>1, <1>KeyConstants DEF HasPrefix
    <3> HIDE DEF k
    <3>2. IsSplit(Byte, did, k)
      BY <3>1, <1>SplitAt
    <3>3. did = SubSeq(did, 1, k) \o y /\ y \in Seq(Byte)
      BY <3>2, Zenon DEF IsSplit, y, k, Drop
    <3> QED
      BY <3>1, <3>3, Zenon DEF k
  <2>5. y = <<Alphabet - 1>> \o e /\ e \in Seq(Byte)
    <3>1. ASSUME NEW s \in Seq(Byte), ~(Len(s) < 2) PROVE s = <<Head(s)>> \o Tail(s) /\ Tail(s) \in Seq(Byte)
      BY <3>1, SMTT(30)
    <3> QED
      BY <2>3, <2>4, <3>1
  <2> HIDE DEF e
  <2>6. m \in Seq(Byte) /\ base58btcEncode(m) = e
    BY <2>3, <2>5, <1>Base58Accepted
  <2> HIDE DEF m
  <2>7. m = KeyCodec \o pub /\ pub \in Seq(Byte) /\ Len(pub) = KeyLen
    <3> DEFINE k == Len(KeyCodec)
    <3>1. k \in 0 .. Len(m) /\ SubSeq(m, 1, k) = KeyCodec /\ Len(m) - k = KeyLen
      BY <2>3, <2>6, <1>KeyConstants DEF HasPrefix
    <3> HIDE DEF k
    <3>2. IsSplit(Byte, m, k)
      BY <2>6, <3>1, <1>SplitAt
    <3>3. m = SubSeq(m, 1, k) \o pub /\ pub \in Seq(Byte) /\ Len(pub) = Len(m) - k
      BY <3>2, Zenon DEF IsSplit, k, Drop
    <3> QED
      BY <3>1, <3>3, ZenonT(60) DEF k
  <2> HIDE DEF pub
  <2>8. ParseDIDKey(did).value = pub
    BY <2>1, <2>3
  <2>9. MakeDIDKey(pub) = DIDKeyPrefix \o (<<Alphabet - 1>> \o base58btcEncode(KeyCodec \o pub))
    BY Zenon DEF MakeDIDKey, encodeMultibaseEd25519
  <2>10. MakeDIDKey(pub) = did
    BY <2>4, <2>5, <2>6, <2>7, <2>9, Zenon
  <2> QED
    BY <2>7, <2>8, <2>10, ZenonT(60) DEF IsKey
<1>KeyTextAt.
    ASSUME NEW pub, IsKey(pub)
    PROVE  LET a == MakeDIDKey(pub)
               e == KeyChars(pub)
               h == Len(DIDKeyPrefix) + 1
           IN  /\ Len(a) = h + Len(e) /\ h \in Nat
               /\ \A i \in 1 .. Len(e) : a[h + i] = e[i]
  <2> USE <1>KeyTextAt
  <2> DEFINE e == KeyChars(pub)
             z == <<Alphabet - 1>>
             y == z \o e
             a == DIDKeyPrefix \o y
             p == Len(DIDKeyPrefix)
  <2>1. MakeDIDKey(pub) = a
    BY Zenon DEF MakeDIDKey, encodeMultibaseEd25519, KeyChars, KeyBytes
  <2>2. e \in Seq(Byte) /\ z \in Seq(Byte) /\ Len(z) = 1 /\ DIDKeyPrefix \in Seq(Byte) /\ p \in Nat
    BY <1>KeyCharsAre, <1>KeyConstants
  <2> HIDE DEF e, z
  <2>3. y \in Seq(Byte) /\ Len(y) = 1 + Len(e) /\ Len(e) \in Nat /\ \A i \in 1 .. Len(e) : y[1 + i] = e[i]
    <3>1. y \in Seq(Byte) /\ Len(y) = Len(z) + Len(e) /\ \A i \in 1 .. Len(e) : y[Len(z) + i] = e[i]
      BY <2>2, ConcatFacts, Zenon
    <3> HIDE DEF y
    <3> QED
      BY <2>2, <3>1
  <2> HIDE DEF y
  <2>4. Len(a) = p + Len(y) /\ \A i \in 1 .. Len(y) : a[p + i] = y[i]
    BY <2>2, <2>3, ConcatFacts, Zenon
  <2> HIDE DEF a, p
  <2>5. ASSUME NEW i \in 1 .. Len(e) PROVE a[(p + 1) + i] = e[i]
    <3>1. 1 + i \in 1 .. Len(y) /\ p + (1 + i) = (p + 1) + i
      BY <2>2, <2>3
    <3> QED
      BY <2>3, <2>4, <3>1
  <2>6. Len(a) = (p + 1) + Len(e) /\ p + 1 \in Nat
    BY <2>2, <2>3, <2>4
  <2> QED
    BY <2>1, <2>5, <2>6 DEF e, p
(* The did:key of a key does not begin with that of another.                *)
<1>KeysArePrefixFree.
    ASSUME NEW p, NEW q, IsKey(p), IsKey(q), Len(MakeDIDKey(p)) < Len(MakeDIDKey(q)),
           \A i \in 1 .. Len(MakeDIDKey(p)) : MakeDIDKey(q)[i] = MakeDIDKey(p)[i]
    PROVE  FALSE
  <2> USE <1>KeysArePrefixFree
  <2> DEFINE a == MakeDIDKey(p)
             b == MakeDIDKey(q)
             e == KeyChars(p)
             f == KeyChars(q)
             h == Len(DIDKeyPrefix) + 1
             M == Number(Alphabet, e)
             N == Number(Alphabet, f)
  <2>1. Len(a) = h + Len(e) /\ h \in Nat /\ \A i \in 1 .. Len(e) : a[h + i] = e[i]
    BY <1>KeyTextAt
  <2>2. Len(b) = h + Len(f) /\ \A i \in 1 .. Len(f) : b[h + i] = f[i]
    BY <1>KeyTextAt, SMTT(30)
  <2>3. e \in Seq(Nat) /\ Len(e) \in Nat /\ M \in Nat \ {0} /\ M = Number(Base, KeyBytes(p))
    BY <1>KeyCharsAre
  <2>4. f \in Seq(Nat) /\ Len(f) \in Nat /\ N \in Nat \ {0} /\ N = Number(Base, KeyBytes(q))
    BY <1>KeyCharsAre
  <2>5. Len(a) < Len(b) /\ \A i \in 1 .. Len(a) : b[i] = a[i]
    BY SMTT(30)
  <2> HIDE DEF a, b, e, f, h
  <2>6. Len(e) < Len(f)
    BY <2>1, <2>2, <2>3, <2>4, <2>5
  <2>7. ASSUME NEW i \in 1 .. Len(e) PROVE f[i] = e[i]
    <3>1. h + i \in 1 .. Len(a) /\ i \in 1 .. Len(f)
      BY <2>1, <2>3, <2>4, <2>6, SMTT(30)
    <3>2. a[h + i] = e[i] /\ b[h + i] = f[i] /\ b[h + i] = a[h + i]
      BY <2>1, <2>2, <2>5, <3>1, ZenonT(60)
    <3> QED
      BY <3>2, ZenonT(60)
  <2>8. N >= 2 * M
    BY <2>3, <2>4, <2>6, <2>7, <1>KeyConstants, <1>PrefixGrows, ZenonT(60)
  <2>9. N < 2 * M
    <3> DEFINE u == KeyBytes(q)
               v == KeyBytes(p)
    <3>1. u \in Seq(Byte) /\ Len(u) = Len(KeyCodec) + KeyLen /\ \A i \in 1 .. Len(KeyCodec) : u[i] = KeyCodec[i]
      BY <1>KeyBytesAre
    <3>2. v \in Seq(Byte) /\ Len(v) = Len(KeyCodec) + KeyLen /\ \A i \in 1 .. Len(KeyCodec) : v[i] = KeyCodec[i]
      BY <1>KeyBytesAre
    <3> HIDE DEF u, v
    <3>3. u \in Seq(0 .. Base - 1) /\ v \in Seq(0 .. Base - 1) /\ KeyCodec \in Seq(0 .. Base - 1)
      BY <3>1, <3>2, <1>KeyConstants DEF Byte
    <3>4. Number(Base, KeyCodec) # 0
      BY <3>3, <1>KeyConstants, <1>NumberInverse
    <3>5. Len(u) = Len(v) /\ Len(KeyCodec) <= Len(u)
      BY <3>1, <3>2, <1>KeyConstants
    <3>6. Number(Base, u) < 2 * Number(Base, v)
      BY <3>1, <3>2, <3>3, <3>4, <3>5, <1>KeyConstants, <1>SameLengthBound, Zenon
    <3> QED
      BY <2>3, <2>4, <3>6 DEF u, v
  <2> HIDE DEF M, N
  <2> QED
    BY <2>3, <2>4, <2>8, <2>9, SMTT(30)
<1>KeyDamaged.
    ASSUME NEW pub, IsKey(pub)
    PROVE  LET w == MakeDIDKey(pub)
           IN  /\ \A n \in 0 .. Len(w) - 1 : ~ParseDIDKey(SubSeq(w, 1, n)).ok
               /\ \A b \in Byte : ~ParseDIDKey(Append(w, b)).ok
  <2> USE <1>KeyDamaged
  <2> DEFINE w == MakeDIDKey(pub)
  <2>1. w \in Seq(Byte)
    BY <1>KeySent
  <2>2. ASSUME NEW n \in 0 .. Len(w) - 1 PROVE ~ParseDIDKey(SubSeq(w, 1, n)).ok
    <3> DEFINE c == SubSeq(w, 1, n)
               k == ParseDIDKey(c).value
    <3> SUFFICES ASSUME ParseDIDKey(c).ok PROVE FALSE
      OBVIOUS
    <3>1. c \in Seq(Byte) /\ Len(c) = n /\ Len(c) < Len(w) /\ \A i \in 1 .. Len(c) : w[i] = c[i]
      BY <2>1
    <3> HIDE DEF c
    <3>2. IsKey(k) /\ MakeDIDKey(k) = c
      BY <3>1, <1>KeyAccepted
    <3> HIDE DEF k
    <3> QED
      BY <3>1, <3>2, <1>KeysArePrefixFree
  <2>3. ASSUME NEW b \in Byte PROVE ~ParseDIDKey(Append(w, b)).ok
    <3> DEFINE c == Append(w, b)
               k == ParseDIDKey(c).value
    <3> SUFFICES ASSUME ParseDIDKey(c).ok PROVE FALSE
      OBVIOUS
    <3>1. c \in Seq(Byte) /\ Len(w) < Len(c) /\ \A i \in 1 .. Len(w) : c[i] = w[i]
      BY <2>1
    <3> HIDE DEF c
    <3>2. IsKey(k) /\ MakeDIDKey(k) = c
      BY <3>1, <1>KeyAccepted
    <3> HIDE DEF k
    <3> QED
      BY <3>1, <3>2, <1>KeysArePrefixFree
  <2> QED
    BY <2>2, <2>3
<1> QED
  BY <1>KeySent, <1>KeyAccepted, <1>KeyDamaged

=============================================================================
