---------------------------- MODULE IntegerProofs ----------------------------
(***************************************************************************)
(* What rests on the arithmetic of words, of any width: that a             *)
(* compare-and-swap that cannot see the word change and change back loses  *)
(* no update, whatever the number of harts and their operands, and that    *)
(* the upper words of products are those of the products of the integers.  *)
(***************************************************************************)
EXTENDS Atomics, HighProduct, TLAPS

(* A quotient and a remainder are known by the remainder's range.          *)
LEMMA QuotientIs ==
  ASSUME NEW m \in Nat \ {0}, NEW y \in Int, NEW k \in Int, NEW t \in Nat,
         y = m * k + t, t < m
  PROVE  y \div m = k /\ y % m = t
<1> DEFINE d == y \div m
           e == y % m
<1>1. d \in Int /\ e \in Nat /\ e < m /\ y = m * d + e
  BY SMT
<1> HIDE DEF d, e
<1>2. ASSUME NEW i \in Int, NEW j \in Int, i < j
      PROVE  m * j >= m * i + m
  <2>1. m * (j - i - 1) >= 0
    BY <1>2, SMT
  <2>2. m * (j - i - 1) = m * j - m * i - m
    BY SMT
  <2>3. m * j \in Int /\ m * i \in Int
    BY SMT
  <2> QED
    BY <2>1, <2>2, <2>3, SMT
<1>3. m * d \in Int /\ m * k \in Int
  BY <1>1, SMT
<1>4. ~ d < k
  BY <1>1, <1>2, <1>3, SMT
<1>5. ~ k < d
  BY <1>1, <1>2, <1>3, SMT
<1>6. d = k
  BY <1>1, <1>4, <1>5, SMT
<1> QED
  BY <1>1, <1>6, SMT DEF d, e

(* Reducing a number before adding to it changes nothing modulo Modulus.   *)
LEMMA SumOfRemainder ==
  ASSUME NEW x \in Nat, NEW n \in Nat, NEW m \in Nat \ {0}
  PROVE  ((x % m) + n) % m = (x + n) % m
<1> DEFINE q == x \div m
           r == x % m
           s == (r + n) \div m
           t == (r + n) % m
<1>1. q \in Nat /\ r \in Nat /\ r < m /\ x = m * q + r
  BY SMT
<1>2. s \in Nat /\ t \in Nat /\ t < m /\ r + n = m * s + t
  BY <1>1, SMT
<1> HIDE DEF q, r, s, t
<1>3. m * q + m * s = m * (q + s)
  BY <1>1, <1>2, SMT
<1>4. x + n = m * (q + s) + t
  BY <1>1, <1>2, <1>3, SMT
<1>5. (x + n) % m = t
  <2> DEFINE y == x + n
             k == q + s
  <2>1. y \in Nat /\ k \in Nat /\ y = m * k + t
    BY <1>1, <1>2, <1>4
  <2> HIDE DEF y, k
  <2>2. y % m = t
    BY <2>1, <1>2, QuotientIs
  <2> QED
    BY <2>2 DEF y
<1> QED
  BY <1>5 DEF r, t

Sequences == [pc : {"idle", "amo", "amo_swap", "lr", "sc"}, operand : Nat, lhs : Nat, stamp : Nat]

(* A swap can only find the word as loaded when that is what it is, and it *)
(* is, unless somebody has written since.                                  *)
AtomicsInv ==
  /\ word \in Nat /\ added \in Nat /\ writes \in Nat
  /\ atomic \in [Hart -> Sequences]
  /\ word = added % Modulus
  /\ \A h \in Hart : atomic[h].pc \in {"amo_swap", "sc"} =>
       /\ atomic[h].stamp =< writes
       /\ atomic[h].stamp = writes => atomic[h].lhs = word

(* The first word satisfies the invariant, and every step keeps it.        *)
LEMMA AtomicsInvInit == AtomicsInit => AtomicsInv
<1> SUFFICES ASSUME AtomicsInit
             PROVE  AtomicsInv
  OBVIOUS
<1>1. NoAtomic \in Sequences /\ NoAtomic.pc = "idle"
  BY DEF NoAtomic, Sequences
<1>2. 0 % Modulus = 0
  BY AtomicsAssumption
<1> QED
  BY <1>1, <1>2 DEF AtomicsInit, AtomicsInv

(* A step that leaves the word alone.                                      *)
LEMMA AtomicsQuiet ==
  ASSUME AtomicsInv, UNCHANGED << word, added, writes >>,
         NEW h \in Hart, NEW a \in Sequences,
         atomic' = [atomic EXCEPT ![h] = a],
         a.pc \in {"amo_swap", "sc"} => a.stamp = writes /\ a.lhs = word
  PROVE  AtomicsInv'
<1>1. atomic' \in [Hart -> Sequences] /\ \A g \in Hart : atomic'[g] = IF g = h THEN a ELSE atomic[g]
  BY DEF AtomicsInv
<1> QED
  BY <1>1 DEF AtomicsInv

(* A swap adds the operand to the sum of all updates, as the word it finds *)
(* is that sum; and writes moves past every reading.                       *)
LEMMA AtomicsSwap ==
  ASSUME AtomicsInv, NEW h \in Hart, Swap(h)
  PROVE  AtomicsInv'
<1>1. atomic[h] \in Sequences /\ NoAtomic \in Sequences /\ NoAtomic.pc = "idle"
  BY DEF AtomicsInv, NoAtomic, Sequences
<1>2. atomic[h].operand \in Nat /\ atomic[h].lhs = word /\ added \in Nat /\ writes \in Nat
  BY <1>1 DEF Swap, AtomicsInv, Sequences
<1>3. /\ atomic' \in [Hart -> Sequences]
      /\ atomic'[h].pc = "idle" /\ \A g \in Hart \ {h} : atomic'[g] = atomic[g]
  BY <1>1 DEF AtomicsInv, Swap
<1>4. added' = added + atomic[h].operand /\ writes' = writes + 1
  BY DEF Swap
<1>5. word' = ((added % Modulus) + atomic[h].operand) % Modulus
  BY <1>2 DEF Swap, Sum, AtomicsInv
<1>6. word' = added' % Modulus
  BY <1>2, <1>4, <1>5, SumOfRemainder, AtomicsAssumption
<1>7. word' \in Nat /\ added' \in Nat /\ writes' \in Nat
  BY <1>2, <1>4, <1>6, AtomicsAssumption
<1>8. \A g \in Hart : atomic'[g].pc \in {"amo_swap", "sc"} => atomic'[g].stamp < writes'
  <2> SUFFICES ASSUME NEW g \in Hart, atomic'[g].pc \in {"amo_swap", "sc"}
               PROVE  atomic'[g].stamp < writes'
    OBVIOUS
  <2>1. atomic'[g] = atomic[g] /\ atomic[g] \in Sequences
    BY <1>3 DEF AtomicsInv
  <2> QED
    BY <2>1, <1>2, <1>4 DEF AtomicsInv, Sequences
<1>9. \A g \in Hart : atomic'[g].stamp \in Nat
  BY <1>3 DEF Sequences
<1> QED
  BY <1>3, <1>6, <1>7, <1>8, <1>9 DEF AtomicsInv

LEMMA AtomicsInvNext == AtomicsInv /\ [AtomicsNext]_atomicVars => AtomicsInv'
<1> SUFFICES ASSUME AtomicsInv, [AtomicsNext]_atomicVars
             PROVE  AtomicsInv'
  OBVIOUS
<1>1. CASE UNCHANGED atomicVars
  BY <1>1 DEF atomicVars, AtomicsInv
<1>2. CASE AtomicsNext
  <2>1. PICK h \in Hart :
          amo(h) \/ amo_load(h) \/ amo_swap(h) \/ lr(h) \/ lr_load(h) \/ sc(h) \/ AtomicFails(h)
    BY <1>2 DEF AtomicsNext
  <2>2. atomic[h] \in Sequences /\ word \in Nat /\ writes \in Nat
    BY DEF AtomicsInv
  <2>3. CASE amo(h) \/ lr(h)
    <3>1. PICK pc \in {"amo", "lr"}, n \in Addends :
            atomic' = [atomic EXCEPT ![h] = [NoAtomic EXCEPT !.pc = pc, !.operand = n]]
      BY <2>3 DEF amo, lr, Begin
    <3>2. UNCHANGED << word, added, writes >>
      BY <2>3 DEF amo, lr, Begin
    <3> DEFINE a == [NoAtomic EXCEPT !.pc = pc, !.operand = n]
    <3>3. a \in Sequences /\ a.pc = pc
      BY AtomicsAssumption DEF NoAtomic, Sequences
    <3> QED
      BY <3>1, <3>2, <3>3, AtomicsQuiet
  <2>4. CASE amo_load(h) \/ lr_load(h)
    <3>1. PICK to \in {"amo_swap", "sc"} :
            atomic' = [atomic EXCEPT ![h].pc = to, ![h].lhs = word, ![h].stamp = writes]
      BY <2>4 DEF amo_load, lr_load, Load
    <3>2. UNCHANGED << word, added, writes >>
      BY <2>4 DEF amo_load, lr_load, Load
    <3> DEFINE a == [atomic[h] EXCEPT !.pc = to, !.lhs = word, !.stamp = writes]
    <3>3. a \in Sequences /\ a.stamp = writes /\ a.lhs = word
      BY <2>2 DEF Sequences
    <3>4. atomic' = [atomic EXCEPT ![h] = a]
      BY <3>1 DEF AtomicsInv
    <3> QED
      BY <3>2, <3>3, <3>4, AtomicsQuiet
  <2>5. CASE amo_swap(h) \/ sc(h)
    BY <2>5, AtomicsSwap DEF amo_swap, sc
  <2>6. CASE AtomicFails(h)
    <3> DEFINE a == [atomic[h] EXCEPT !.pc = IF @ = "sc" THEN "lr" ELSE "amo"]
    <3>1. a \in Sequences /\ a.pc \in {"lr", "amo"}
      BY <2>2 DEF Sequences
    <3>2. atomic' = [atomic EXCEPT ![h] = a] /\ UNCHANGED << word, added, writes >>
      BY <2>6 DEF AtomicFails, AtomicsInv
    <3> QED
      BY <3>1, <3>2, AtomicsQuiet
  <2> QED
    BY <2>1, <2>3, <2>4, <2>5, <2>6
<1> QED
  BY <1>1, <1>2

(* Updates of a word of guest memory through amoadd and through lr, add    *)
(* and sc are neither lost nor made twice, and a swap only fails when      *)
(* another hart has written since the load (hart.h cas, amo_int32).        *)
THEOREM NoUpdateIsLost == AtomicsSpec => []NoLostUpdate
<1>1. AtomicsInit => AtomicsInv
  BY AtomicsInvInit
<1>2. AtomicsInv /\ [AtomicsNext]_atomicVars => AtomicsInv'
  BY AtomicsInvNext
<1>3. AtomicsInv => NoLostUpdate
  BY DEF AtomicsInv, NoLostUpdate, Sequences
<1> QED
  BY <1>1, <1>2, <1>3, PTL DEF AtomicsSpec

-----------------------------------------------------------------------------
(* The upper words of products.  The invariant is inductive by itself: what *)
(* there is to prove is that the half words put together are the product.  *)

USE BaseAssumption

(* Two digits and a carry multiply to less than a word.                     *)
LEMMA ProductBound ==
  ASSUME NEW m \in Nat \ {0}, NEW i \in Nat, NEW j \in Nat, NEW k \in Nat, i < m, j < m, k < m
  PROVE  i * j \in Nat /\ i * j + k \in Nat /\ i * j + k < m * m
<1>1. i * j \in Nat /\ m * m \in Nat /\ m * j \in Nat
  BY SMT
<1>2. (m - 1 - i) * j >= 0
  BY SMT
<1>3. (m - 1 - i) * j = m * j - j - i * j
  BY SMT
<1>4. (m - 1) * (m - 1 - j) >= 0
  BY SMT
<1>5. (m - 1) * (m - 1 - j) = m * m - m - m * j - m + 1 + j
  BY SMT
<1> QED
  BY <1>1, <1>2, <1>3, <1>4, <1>5, SMT

(* A word is its two digits, each below Base.                               *)
LEMMA Digits ==
  ASSUME NEW x \in Words
  PROVE  /\ hi(x) \in Nat /\ lo(x) \in Nat /\ hi(x) < Base /\ lo(x) < Base
         /\ x \in Nat /\ x = Base * hi(x) + lo(x)
<1> DEFINE h == x \div Base
           l == x % Base
<1>1. x \in Nat /\ x < Base * Base /\ Base * Base \in Nat
  <2>1. Base * Base \in Nat
    BY SMT
  <2> QED
    BY <2>1 DEF Words, Word
<1>2. h \in Nat /\ l \in Nat /\ l < Base /\ x = Base * h + l
  BY <1>1, SMT
<1> HIDE DEF h, l
<1>3. h < Base
  <2> SUFFICES ASSUME h >= Base PROVE FALSE
    BY <1>2
  <2>1. Base * (h - Base) >= 0
    BY <1>2, SMT
  <2>2. Base * (h - Base) = Base * h - Base * Base
    BY <1>2, SMT
  <2>3. Base * h \in Nat
    BY <1>2, SMT
  <2> QED
    BY <1>1, <1>2, <2>1, <2>2, <2>3, SMT
<1> QED
  BY <1>1, <1>2, <1>3 DEF h, l, hi, lo

(* There are words.                                                         *)
LEMMA WordIs == Word \in Nat \ {0} /\ Word = Base * Base
<1>1. Base * Base \in Nat \ {0}
  BY SMT
<1> QED
  BY <1>1 DEF Word

(* What fits in a word wraps to itself.                                     *)
LEMMA WrapIs ==
  ASSUME NEW x \in Nat, x < Word
  PROVE  wrap(x) = x
BY WordIs, SMT DEF wrap

(* The schoolbook product of two digits by two, kept within a word.         *)
LEMMA MulhuIs ==
  ASSUME NEW a \in Words, NEW b \in Words
  PROVE  \E low \in Nat : low < Word /\ mulhu(a, b) \in Nat /\ a * b = Word * mulhu(a, b) + low
<1> DEFINE B == Base
           a1 == hi(a)
           a0 == lo(a)
           b1 == hi(b)
           b0 == lo(b)
           z == a0 * b0
           z1 == z \div B
           z0 == z % B
           t == a1 * b0 + z1
           t1 == t \div B
           t0 == t % B
           u == a0 * b1 + t0
           u1 == u \div B
           u0 == u % B
           r == a1 * b1 + t1 + u1
<1>1. /\ B \in Nat \ {0} /\ a1 \in Nat /\ a0 \in Nat /\ b1 \in Nat /\ b0 \in Nat
      /\ a1 < B /\ a0 < B /\ b1 < B /\ b0 < B
      /\ a = B * a1 + a0 /\ b = B * b1 + b0
  BY Digits
<1>0. B * B \in Nat /\ Word = B * B
  BY WordIs
<1> HIDE DEF B, a1, a0, b1, b0
<1>2. z \in Nat /\ z < B * B
  <2>1. z \in Nat /\ z + 0 \in Nat /\ z + 0 < B * B
    BY <1>1, ProductBound
  <2> QED
    BY <2>1
<1> HIDE DEF z
<1>3. z1 \in Nat /\ z0 \in Nat /\ z0 < B /\ z = B * z1 + z0
  BY <1>1, <1>2, SMT
<1>4. z1 < B
  <2> HIDE DEF z1, z0
  <2> SUFFICES ASSUME z1 >= B PROVE FALSE
    BY <1>1, <1>3
  <2>1. B * (z1 - B) >= 0
    BY <1>1, <1>3, SMT
  <2>2. B * (z1 - B) = B * z1 - B * B /\ B * z1 \in Nat
    BY <1>1, <1>3, SMT
  <2> QED
    BY <1>0, <1>2, <1>3, <2>1, <2>2, SMT
<1> HIDE DEF z1, z0
<1>5. t \in Nat /\ t < B * B /\ a1 * b0 \in Nat
  BY <1>1, <1>3, <1>4, ProductBound
<1>6. wrap(t) = t
  BY <1>0, <1>5, WrapIs
<1> HIDE DEF t
<1>7. t1 \in Nat /\ t0 \in Nat /\ t0 < B /\ t = B * t1 + t0
  BY <1>1, <1>5, SMT
<1> HIDE DEF t1, t0
<1>8. u \in Nat /\ u < B * B /\ a0 * b1 \in Nat
  BY <1>1, <1>7, ProductBound
<1>9. wrap(u) = u
  BY <1>0, <1>8, WrapIs
<1> HIDE DEF u
<1>10. u1 \in Nat /\ u0 \in Nat /\ u0 < B /\ u = B * u1 + u0
  BY <1>1, <1>8, SMT
<1> HIDE DEF u1, u0
<1>11. r \in Nat /\ a1 * b1 \in Nat
  BY <1>1, <1>7, <1>10, SMT
<1>12. u0 * B + z0 \in Nat /\ u0 * B + z0 < B * B
  <2>1. (B - 1 - u0) * B >= 0
    BY <1>1, <1>10, SMT
  <2>2. (B - 1 - u0) * B = B * B - B - u0 * B /\ u0 * B \in Nat
    BY <1>1, <1>10, SMT
  <2> QED
    BY <1>0, <1>1, <1>3, <2>1, <2>2, SMT
<1>13. a * b = (B * B) * r + (u0 * B + z0)
  <2>1. a * b = (B * a1 + a0) * (B * b1 + b0)
    BY <1>1
  <2>2. (B * a1 + a0) * (B * b1 + b0) = (B * B) * (a1 * b1) + B * (a1 * b0) + B * (a0 * b1) + a0 * b0
    BY <1>1, SMT
  <2>3. a1 * b0 = (B * t1 + t0) - z1
    BY <1>3, <1>5, <1>7 DEF t
  <2>4. a0 * b1 = (B * u1 + u0) - t0
    BY <1>7, <1>8, <1>10 DEF u
  <2>5. a0 * b0 = B * z1 + z0
    BY <1>3 DEF z
  <2>6. B * ((B * t1 + t0) - z1) + B * ((B * u1 + u0) - t0) + (B * z1 + z0)
          = (B * B) * t1 + (B * B) * u1 + (u0 * B + z0)
    BY <1>1, <1>3, <1>7, <1>10, SMT
  <2>7. (B * B) * r = (B * B) * (a1 * b1) + (B * B) * t1 + (B * B) * u1
    BY <1>0, <1>7, <1>10, <1>11, SMT
  <2>8. /\ (B * B) * (a1 * b1) \in Nat /\ (B * B) * t1 \in Nat /\ (B * B) * u1 \in Nat
        /\ B * (a1 * b0) \in Nat /\ B * (a0 * b1) \in Nat /\ B * z1 \in Nat /\ u0 * B \in Nat
    BY <1>0, <1>1, <1>3, <1>5, <1>7, <1>8, <1>10, <1>11, SMT
  <2>9. a * b = (B * B) * (a1 * b1) + B * (a1 * b0) + B * (a0 * b1) + a0 * b0
    BY <2>1, <2>2
  <2>10. a * b = (B * B) * (a1 * b1) + B * ((B * t1 + t0) - z1) + B * ((B * u1 + u0) - t0) + (B * z1 + z0)
    BY <2>9, <2>3, <2>4, <2>5
  <2> HIDE DEF r
  <2> QED
    BY <2>6, <2>7, <2>8, <2>10, <1>0, <1>1, <1>3, <1>7, <1>10, <1>11, SMT
<1>14. r < Word
  <2> SUFFICES ASSUME r >= B * B PROVE FALSE
    BY <1>0, <1>11
  <2> HIDE DEF r
  <2>1. a < B * B /\ b < B * B /\ a \in Nat /\ b \in Nat
    BY <1>0 DEF Words, Word
  <2>2. a * b < (B * B) * (B * B)
    <3>1. B * B \in Nat \ {0}
      BY <1>1, SMT
    <3> DEFINE m == B * B
    <3> HIDE DEF m
    <3>2. m \in Nat \ {0} /\ a < m /\ b < m /\ 0 < m
      BY <2>1, <3>1 DEF m
    <3>3. a * b \in Nat /\ a * b + 0 < m * m
      BY <2>1, <3>2, ProductBound
    <3> QED
      BY <3>3 DEF m
  <2>3. (B * B) * (r - B * B) >= 0
    BY <1>0, <1>11, SMT
  <2>4. (B * B) * (r - B * B) = (B * B) * r - (B * B) * (B * B) /\ (B * B) * r \in Nat
    BY <1>0, <1>11, SMT
  <2>5. a * b \in Nat /\ (B * B) * (B * B) \in Nat
    BY <1>0, <2>1, SMT
  <2> QED
    BY <1>12, <1>13, <2>2, <2>3, <2>4, <2>5, SMT
<1>15. mulhu(a, b) = wrap(r)
  <2>1. hi(z) = z1 /\ hi(t) = t1 /\ lo(t) = t0 /\ hi(u) = u1
    BY DEF z1, t1, t0, u1, hi, lo, B
  <2>2. mulhu(a, b) = LET v == wrap(a1 * b0 + hi(z))
                          w == wrap(a0 * b1 + lo(v))
                      IN  wrap(a1 * b1 + hi(v) + hi(w))
    BY DEF mulhu, a1, a0, b1, b0, z
  <2>3. wrap(a1 * b0 + hi(z)) = t
    BY <1>6, <2>1 DEF t
  <2>4. wrap(a0 * b1 + lo(t)) = u
    BY <1>9, <2>1 DEF u
  <2> QED
    BY <2>1, <2>2, <2>3, <2>4
<1>16. wrap(r) = r
  <2> HIDE DEF r
  <2> QED
    BY <1>11, <1>14, WrapIs
<1> HIDE DEF r
<1> QED
  BY <1>0, <1>11, <1>12, <1>13, <1>15, <1>16

(* mulhu is the quotient of the product by Word.                            *)
LEMMA MulhuHigh ==
  ASSUME NEW a \in Words, NEW b \in Words
  PROVE  /\ mulhu(a, b) \in Nat /\ mulhu(a, b) = (a * b) \div Word
         /\ \E low \in Nat : low < Word /\ a * b = Word * mulhu(a, b) + low
<1>1. PICK low \in Nat : low < Word /\ mulhu(a, b) \in Nat /\ a * b = Word * mulhu(a, b) + low
  BY MulhuIs
<1> DEFINE y == a * b
           q == mulhu(a, b)
<1>2. y \in Int
  <2>1. a \in Int /\ b \in Int
    BY Digits
  <2> QED
    BY <2>1, SMT
<1>3. q \in Int /\ y = Word * q + low
  BY <1>1
<1> HIDE DEF y, q
<1>4. y \div Word = q
  BY <1>1, <1>2, <1>3, QuotientIs, WordIs
<1> QED
  BY <1>1, <1>4 DEF y, q

(* A word has a sign bit.                                                   *)
LEMMA SignBit ==
  \E H \in Nat \ {0} : Word = 2 * H /\ Word \div 2 = H
<1> DEFINE k == Base \div 2
           H == k * Base
<1>1. k \in Nat /\ Base = 2 * k /\ k # 0
  BY SMT
<1> HIDE DEF k
<1>2. H \in Nat \ {0} /\ Base * Base = 2 * H
  BY <1>1, SMT
<1> HIDE DEF H
<1>3. (2 * H) \div 2 = H
  BY <1>2, SMT
<1> QED
  BY <1>2, <1>3 DEF Word

(* The upper word of a product that was taken for a negative one: one less  *)
(* than the complement of nothing but a whole number of words.              *)
LEMMA NegatedIs ==
  ASSUME NEW H \in Nat \ {0}, Word = 2 * H, Word \div 2 = H,
         NEW p \in Nat, NEW q \in Nat, NEW low \in Nat, p = Word * q + low, low < Word, q < H
  PROVE  /\ asInt(wrap(complement(q) + (IF wrap(-p) = 0 THEN 1 ELSE 0))) = (-p) \div Word
         /\ asInt(q) = p \div Word
<1>0. Word \in Nat \ {0}
  BY WordIs
<1>1. Word * q \in Nat
  BY <1>0, SMT
<1>2. p \div Word = q
  BY <1>0, QuotientIs
<1>3. asInt(q) = q
  BY DEF asInt
<1>4. CASE low = 0
  <2>1. Word * (-q) = -(Word * q)
    BY <1>0, SMT
  <2>2. -p \in Int /\ -q \in Int /\ -p = Word * (-q) + 0 /\ 0 < Word
    BY <1>0, <1>1, <1>4, <2>1
  <2>3. (-p) \div Word = -q /\ (-p) % Word = 0
    <3> DEFINE y == -p
               k == -q
    <3>1. Word \in Nat \ {0} /\ y \in Int /\ k \in Int /\ 0 \in Nat /\ y = Word * k + 0 /\ 0 < Word
      BY <1>0, <2>2
    <3> HIDE DEF y, k
    <3>2. y \div Word = k /\ y % Word = 0
      BY <3>1, QuotientIs
    <3> QED
      BY <3>2 DEF y, k
  <2>4. complement(q) + 1 = Word - q
    BY <1>0 DEF complement
  <2>5. CASE q = 0
    <3>1. Word % Word = 0
      <4>1. Word = Word * 1 + 0
        BY <1>0
      <4> QED
        BY <1>0, <4>1, QuotientIs
    <3>2. asInt(0) = 0
      BY <2>5 DEF asInt
    <3> QED
      BY <1>0, <1>2, <1>3, <2>3, <2>4, <2>5, <3>1, <3>2 DEF wrap
  <2>6. CASE q # 0
    <3>1. Word - q \in Nat /\ Word - q < Word /\ Word - q >= Word \div 2
      BY <1>0, <2>6
    <3>2. wrap(Word - q) = Word - q
      BY <3>1, WrapIs
    <3>3. asInt(Word - q) = -q
      BY <1>0, <3>1 DEF asInt
    <3> QED
      BY <1>2, <1>3, <2>3, <2>4, <3>2, <3>3 DEF wrap
  <2> QED
    BY <2>5, <2>6
<1>5. CASE low # 0
  <2>1. Word * (-q - 1) = -(Word * q) - Word
    BY <1>0, SMT
  <2>2. /\ -p \in Int /\ -q - 1 \in Int /\ Word - low \in Nat /\ Word - low < Word
        /\ -p = Word * (-q - 1) + (Word - low)
    BY <1>0, <1>1, <1>5, <2>1
  <2>3. (-p) \div Word = -q - 1 /\ (-p) % Word = Word - low
    <3> DEFINE y == -p
               k == -q - 1
               t == Word - low
    <3>1. Word \in Nat \ {0} /\ y \in Int /\ k \in Int /\ t \in Nat /\ y = Word * k + t /\ t < Word
      BY <1>0, <2>2
    <3> HIDE DEF y, k, t
    <3>2. y \div Word = k /\ y % Word = t
      BY <3>1, QuotientIs
    <3> QED
      BY <3>2 DEF y, k, t
  <2>4. complement(q) = Word - 1 - q /\ complement(q) + 0 = Word - 1 - q
    BY <1>0 DEF complement
  <2>5. Word - 1 - q \in Nat /\ Word - 1 - q < Word /\ Word - 1 - q >= Word \div 2
    BY <1>0
  <2>6. wrap(Word - 1 - q) = Word - 1 - q
    BY <2>5, WrapIs
  <2>7. asInt(Word - 1 - q) = -q - 1
    BY <1>0, <2>5 DEF asInt
  <2>8. wrap(-p) # 0
    BY <1>0, <1>5, <2>2, <2>3 DEF wrap
  <2> QED
    BY <1>2, <1>3, <2>3, <2>4, <2>6, <2>7, <2>8
<1> QED
  BY <1>4, <1>5

(* The magnitude of a signed word, times a word.                            *)
LEMMA MagnitudeProduct ==
  ASSUME NEW H \in Nat \ {0}, Word = 2 * H, Word \div 2 = H,
         NEW x \in Nat, x =< H, NEW y \in Words
  PROVE  \E p \in Nat, low \in Nat :
           /\ p = x * y /\ low < Word /\ mulhu(x, y) \in Nat /\ mulhu(x, y) < H
           /\ p = Word * mulhu(x, y) + low
<1>1. Word \in Nat \ {0} /\ y \in Nat /\ y < Word
  BY WordIs DEF Words
<1>2. x \in Words
  BY <1>1 DEF Words
<1>3. PICK low \in Nat : low < Word /\ mulhu(x, y) \in Nat /\ x * y = Word * mulhu(x, y) + low
  BY <1>2, MulhuHigh
<1> DEFINE q == mulhu(x, y)
<1> HIDE DEF q
<1>4. q \in Nat /\ x * y = Word * q + low
  BY <1>3 DEF q
<1>5. x * y \in Nat /\ Word * q \in Nat /\ Word * H \in Nat
  BY <1>1, <1>4, SMT
<1>6. q < H
  <2> SUFFICES ASSUME q >= H PROVE FALSE
    BY <1>4
  <2>1. Word * (q - H) >= 0 /\ Word * (q - H) = Word * q - Word * H
    BY <1>1, <1>4, SMT
  <2>2. (H - x) * y >= 0 /\ (H - x) * y = H * y - x * y /\ H * y \in Nat
    BY <1>1, SMT
  <2>3. H * (Word - 1 - y) >= 0 /\ H * (Word - 1 - y) = Word * H - H - H * y
    BY <1>1, SMT
  <2> QED
    BY <1>3, <1>4, <1>5, <2>1, <2>2, <2>3
<1> QED
  BY <1>3, <1>4, <1>5, <1>6 DEF q

(* The magnitude of a signed word fits in a word (arithmetic.h mulh()).     *)
LEMMA SignedIs ==
  ASSUME NEW H \in Nat \ {0}, Word = 2 * H, Word \div 2 = H, NEW u \in Words
  PROVE  /\ asInt(u) \in Int /\ -H =< asInt(u) /\ asInt(u) < H
         /\ abs(asInt(u)) = (IF asInt(u) < 0 THEN -asInt(u) ELSE asInt(u))
         /\ abs(asInt(u)) \in Nat /\ abs(asInt(u)) =< H /\ abs(asInt(u)) \in Words
<1> DEFINE a == asInt(u)
           x == IF a < 0 THEN -a ELSE a
<1>1. Word \in Nat \ {0} /\ u \in Nat /\ u < Word
  BY WordIs DEF Words
<1>2. a \in Int /\ -H =< a /\ a < H
  BY <1>1 DEF asInt
<1> HIDE DEF a
<1>3. x \in Nat /\ x =< H /\ x < Word
  BY <1>1, <1>2
<1>4. wrap(x) = x /\ x \in Words
  BY <1>1, <1>3, WrapIs DEF Words
<1>5. abs(a) = x
  BY <1>4 DEF abs
<1> QED
  BY <1>2, <1>3, <1>4, <1>5 DEF a

(* Signed by signed.                                                        *)
LEMMA MulhIs ==
  ASSUME NEW u \in Words, NEW v \in Words
  PROVE  mulh(asInt(u), asInt(v)) = (asInt(u) * asInt(v)) \div Word
<1> DEFINE a == asInt(u)
           b == asInt(v)
           x == abs(a)
           y == abs(b)
           q == mulhu(x, y)
<1>1. PICK H \in Nat \ {0} : Word = 2 * H /\ Word \div 2 = H
  BY SignBit
<1>2. /\ a \in Int /\ b \in Int /\ x \in Nat /\ x =< H /\ y \in Words /\ y \in Nat
      /\ x = (IF a < 0 THEN -a ELSE a) /\ y = (IF b < 0 THEN -b ELSE b)
  BY <1>1, SignedIs
<1> HIDE DEF a, b, x, y
<1>11. x \in Nat /\ x =< H /\ y \in Words
  BY <1>2
<1>12. \E p \in Nat, low \in Nat :
         /\ p = x * y /\ low < Word
         /\ mulhu(x, y) \in Nat /\ mulhu(x, y) < H /\ p = Word * mulhu(x, y) + low
  BY <1>1, <1>11, MagnitudeProduct
<1>3. PICK p \in Nat, low \in Nat :
        p = x * y /\ low < Word /\ q \in Nat /\ q < H /\ p = Word * q + low
  BY <1>12
<1> HIDE DEF q
<1>4. /\ asInt(wrap(complement(q) + (IF wrap(-p) = 0 THEN 1 ELSE 0))) = (-p) \div Word
      /\ asInt(q) = p \div Word
  BY <1>1, <1>3, NegatedIs
<1>5. a * b = IF (a < 0) # (b < 0) THEN -p ELSE p
  <2>1. CASE a < 0 /\ b < 0
    <3>1. (-a) * (-b) = a * b
      BY <1>2, SMT
    <3> QED
      BY <1>2, <1>3, <2>1, <3>1
  <2>2. CASE a < 0 /\ ~(b < 0)
    <3>1. (-a) * b = -(a * b) /\ a * b \in Int
      BY <1>2, SMT
    <3> QED
      BY <1>2, <1>3, <2>2, <3>1
  <2>3. CASE ~(a < 0) /\ b < 0
    <3>1. a * (-b) = -(a * b) /\ a * b \in Int
      BY <1>2, SMT
    <3> QED
      BY <1>2, <1>3, <2>3, <3>1
  <2>4. CASE ~(a < 0) /\ ~(b < 0)
    BY <1>2, <1>3, <2>4
  <2> QED
    BY <2>1, <2>2, <2>3, <2>4
<1>6. mulh(a, b) = asInt(IF (a < 0) # (b < 0) THEN negated(q, a, b) ELSE q)
  BY DEF mulh, q, x, y
<1>7. CASE (a < 0) # (b < 0)
  <2>1. a * b = -p
    BY <1>5, <1>7
  <2>2. negated(q, a, b) = wrap(complement(q) + (IF wrap(-p) = 0 THEN 1 ELSE 0))
    BY <2>1 DEF negated
  <2> QED
    BY <1>4, <1>6, <1>7, <2>1, <2>2 DEF a, b
<1>8. CASE ~((a < 0) # (b < 0))
  <2>1. a * b = p
    BY <1>5, <1>8
  <2> QED
    BY <1>4, <1>6, <1>8, <2>1 DEF a, b
<1> QED
  BY <1>7, <1>8

(* Signed by unsigned.                                                      *)
LEMMA MulhsuIs ==
  ASSUME NEW u \in Words, NEW v \in Words
  PROVE  mulhsu(asInt(u), v) = (asInt(u) * v) \div Word
<1> DEFINE a == asInt(u)
           x == abs(a)
           q == mulhu(x, v)
<1>1. PICK H \in Nat \ {0} : Word = 2 * H /\ Word \div 2 = H
  BY SignBit
<1>2. /\ a \in Int /\ x \in Nat /\ x =< H /\ v \in Nat
      /\ x = (IF a < 0 THEN -a ELSE a)
  BY <1>1, SignedIs, Digits
<1> HIDE DEF a, x
<1>3. PICK p \in Nat, low \in Nat :
        p = x * v /\ low < Word /\ q \in Nat /\ q < H /\ p = Word * q + low
  BY <1>1, <1>2, MagnitudeProduct
<1> HIDE DEF q
<1>4. /\ asInt(wrap(complement(q) + (IF wrap(-p) = 0 THEN 1 ELSE 0))) = (-p) \div Word
      /\ asInt(q) = p \div Word
  BY <1>1, <1>3, NegatedIs
<1>5. a * v = IF a < 0 THEN -p ELSE p
  <2>1. (-a) * v = -(a * v) /\ a * v \in Int
    BY <1>2, SMT
  <2> QED
    BY <1>2, <1>3, <2>1
<1>6. mulhsu(a, v) = asInt(IF a < 0 THEN negated(q, a, v) ELSE q)
  BY DEF mulhsu, q, x
<1>7. CASE a < 0
  <2>1. a * v = -p
    BY <1>5, <1>7
  <2>2. negated(q, a, v) = wrap(complement(q) + (IF wrap(-p) = 0 THEN 1 ELSE 0))
    BY <2>1 DEF negated
  <2> QED
    BY <1>4, <1>6, <1>7, <2>1, <2>2 DEF a
<1>8. CASE ~(a < 0)
  <2>1. a * v = p
    BY <1>5, <1>8
  <2> QED
    BY <1>4, <1>6, <1>8, <2>1 DEF a
<1> QED
  BY <1>7, <1>8

(* For words of any even number of values to a digit: the three            *)
(* instructions return the upper word of the exact product, signed or not, *)
(* and no partial product or sum overflows a word on the way               *)
(* (arithmetic.h mulhu(), mulh(), mulhsu()).                               *)
THEOREM HighProductsExact == ProductSpec => []HighProducts
<1>1. ProductInit => HighProducts
  BY DEF ProductInit, NoProduct, HighProducts
<1>2. HighProducts /\ [ProductNext]_product => HighProducts'
  <2> SUFFICES ASSUME HighProducts, [ProductNext]_product
               PROVE  HighProducts'
    OBVIOUS
  <2>1. ASSUME NEW u1 \in Words, NEW u2 \in Words, MULHU(u1, u2)
        PROVE  HighProducts'
    <3>1. product' = [op |-> "mulhu", u1 |-> u1, u2 |-> u2, value |-> (u1 * u2) \div Word]
      BY <2>1, MulhuHigh DEF MULHU, Compute
    <3> QED
      BY <3>1 DEF HighProducts
  <2>2. ASSUME NEW u1 \in Words, NEW u2 \in Words, MULH(u1, u2)
        PROVE  HighProducts'
    <3>1. product' = [op |-> "mulh", u1 |-> u1, u2 |-> u2, value |-> (asInt(u1) * asInt(u2)) \div Word]
      BY <2>2, MulhIs DEF MULH, Compute
    <3> QED
      BY <3>1 DEF HighProducts
  <2>3. ASSUME NEW u1 \in Words, NEW u2 \in Words, MULHSU(u1, u2)
        PROVE  HighProducts'
    <3>1. product' = [op |-> "mulhsu", u1 |-> u1, u2 |-> u2, value |-> (asInt(u1) * u2) \div Word]
      BY <2>3, MulhsuIs DEF MULHSU, Compute
    <3> QED
      BY <3>1 DEF HighProducts
  <2>4. CASE RetireProduct
    BY <2>4 DEF RetireProduct, NoProduct, HighProducts
  <2>5. CASE UNCHANGED product
    BY <2>5 DEF HighProducts
  <2> QED
    BY <2>1, <2>2, <2>3, <2>4, <2>5 DEF ProductNext
<1> QED
  BY <1>1, <1>2, PTL DEF ProductSpec
=============================================================================
