------------------------------ MODULE FloatProofs ------------------------------
(***************************************************************************)
(* Why comparisons, minima, maxima and classes agree with the one order of *)
(* the numbers (fle as less), for any formats and any bit patterns: the    *)
(* bits below the sign are a number that grows with the magnitude,         *)
(* whatever the exponent.                                                  *)
(***************************************************************************)
EXTENDS FloatOrder, TLAPS

(* A quotient is known by the range of its remainder.                       *)
LEMMA QuotientIs ==
  ASSUME NEW n \in Int, NEW d \in Nat \ {0}, NEW q \in Int, NEW r \in 0 .. (d - 1),
         n = d * q + r
  PROVE  n \div d = q /\ n % d = r
<1> DEFINE k == n \div d
           m == n % d
<1>1. k \in Int /\ m \in 0 .. (d - 1) /\ n = d * k + m
  BY SMT
<1> HIDE DEF k, m
<1>2. d * (q - k) = m - r
  <2> PICK x : x = d * q
    OBVIOUS
  <2> PICK y : y = d * k
    OBVIOUS
  <2>1. d * (q - k) = x - y
    BY <1>1, SMT
  <2> QED BY <1>1, <2>1
<1>3. q - k \in Int /\ d * (q - k) \in (1 - d) .. (d - 1)
  BY <1>1, <1>2
<1>4. q - k = 0
  <2> PICK x : x = q - k
    OBVIOUS
  <2>1. x \in Int /\ d * x \in (1 - d) .. (d - 1)
    BY <1>3
  <2>2. x >= 1 => d * x >= d
    BY <2>1, SMT
  <2>3. x <= -1 => d * x <= -d
    BY <2>1, SMT
  <2> QED BY <2>1, <2>2, <2>3
<1>5. k = q /\ m = r
  BY <1>1, <1>2, <1>4
<1> QED BY <1>5 DEF k, m

(* The formats the run is given.                                            *)
IsFormat(f) == f \in {Fmt16, Fmt32, Fmt64}

(* What tlapm knows of quotient and remainder.                              *)
LEMMA Divided ==
  ASSUME NEW n \in Nat, NEW d \in Nat \ {0}
  PROVE  n \div d \in Nat /\ n % d \in 0 .. (d - 1) /\ n = d * (n \div d) + (n % d)
BY SMT

(* The powers of two of a format.                                           *)
Sign(f) == 2^(word(f) - 1)
Inf(f)  == (2^f.exp - 1) * hidden(f)

(* Hence an infinity is all ones below the sign and above the fraction.     *)
LEMMA Powers ==
  ASSUME NEW f, IsFormat(f)
  PROVE  /\ Sign(f) \in Nat /\ 2^f.exp \in Nat /\ hidden(f) \in Nat /\ Inf(f) \in Nat
         /\ 2^f.exp >= 4 /\ hidden(f) >= 2
         /\ Sign(f) = 2^f.exp * hidden(f) /\ 2^word(f) = 2 * Sign(f)
         /\ Inf(f) = Sign(f) - hidden(f) /\ Inf(f) > hidden(f)
<1>1. /\ Sign(f) \in Nat /\ 2^f.exp \in Nat /\ hidden(f) \in Nat
      /\ 2^f.exp >= 4 /\ hidden(f) >= 2
      /\ Sign(f) = 2^f.exp * hidden(f) /\ 2^word(f) = 2 * Sign(f)
  BY OrderAssumption DEF IsFormat, PowersOfTwo, hidden, Sign
<1> PICK e : e = 2^f.exp
  OBVIOUS
<1> PICK h : h = hidden(f)
  OBVIOUS
<1>2. e \in Nat /\ h \in Nat /\ e >= 4 /\ h >= 2
  BY <1>1
<1>3. (e - 1) * h = e * h - h /\ e * h - h >= 3 * h /\ e * h - h \in Nat
  BY <1>2, SMT
<1>4. Inf(f) = (e - 1) * h
  BY DEF Inf
<1> QED BY <1>1, <1>2, <1>3, <1>4

(* A product distributed over a sum.                                        *)
LEMMA Regrouped ==
  ASSUME NEW e \in Int, NEW h \in Int, NEW q \in Int, NEW x \in Int, NEW r \in Int
  PROVE  h * (e * q + x) + r = (e * h) * q + (x * h + r)
BY SMT

(* A number of two digits, the upper below e and the lower below h.         *)
LEMMA TwoDigits ==
  ASSUME NEW e \in Nat \ {0}, NEW h \in Nat \ {0}, NEW x \in 0 .. (e - 1), NEW r \in 0 .. (h - 1)
  PROVE  x * h + r \in 0 .. (e * h - 1) /\ e * h \in Nat \ {0}
<1>1. x * h \in Int /\ 0 <= x * h /\ x * h <= (e - 1) * h
  BY SMT
<1>2. (e - 1) * h = e * h - h /\ e * h \in Int
  BY SMT
<1>3. e * h >= h
  BY SMT
<1> QED BY <1>1, <1>2, <1>3

(* Divided by a product: divided by one factor, then by the other.          *)
InDigits(a, e, h, w) ==
  /\ a \div w \in Nat
  /\ ((a \div h) % e) \in 0 .. (e - 1) /\ (a % h) \in 0 .. (h - 1)
  /\ a = w * (a \div w) + (a % w)
  /\ (a % w) \in 0 .. (w - 1)
  /\ (a % w) = ((a \div h) % e) * h + (a % h)

LEMMA Digits ==
  ASSUME NEW a \in Nat, NEW e \in Nat \ {0}, NEW h \in Nat \ {0}
  PROVE  InDigits(a, e, h, e * h)
<1> DEFINE d == a \div h
           r == a % h
           q == d \div e
           x == d % e
<1>1. d \in Nat /\ r \in 0 .. (h - 1) /\ a = h * d + r
  BY Divided
<1> HIDE DEF d, r
<1>2. q \in Nat /\ x \in 0 .. (e - 1) /\ d = e * q + x
  BY <1>1, Divided
<1> HIDE DEF q, x
<1>3. d \in Int /\ r \in Int /\ q \in Int /\ x \in Int /\ e \in Int /\ h \in Int
  BY <1>1, <1>2
<1>4. a = (e * h) * q + (x * h + r)
  <2>1. a = h * (e * q + x) + r
    BY <1>1, <1>2, Zenon
  <2>2. h * (e * q + x) + r = (e * h) * q + (x * h + r)
    BY <1>3, Regrouped
  <2> QED BY <2>1, <2>2, Zenon
<1>5. x * h + r \in 0 .. (e * h - 1) /\ e * h \in Nat \ {0}
  BY <1>1, <1>2, TwoDigits
<1>6. a \div (e * h) = q /\ a % (e * h) = x * h + r
  <2>1. a \in Int
    OBVIOUS
  <2> QED BY <1>3, <1>4, <1>5, <2>1, QuotientIs, Zenon
<1>7. a = (e * h) * (a \div (e * h)) + (a % (e * h))
  BY <1>4, <1>6, Zenon
<1> QED BY <1>1, <1>2, <1>5, <1>6, <1>7, Zenon DEF d, r, x, InDigits

(* A word divided by its sign.                                              *)
Halved(a, w, q, m) == a = (IF q = 1 THEN w ELSE 0) + m

(* A pattern of a word twice as large as its sign.                          *)
LEMMA SignAndRest ==
  ASSUME NEW w \in Nat \ {0}, NEW a \in 0 .. (2 * w - 1), NEW q \in Nat, NEW m \in 0 .. (w - 1),
         a = w * q + m
  PROVE  Halved(a, w, q, m)
<1>1. q \in {0, 1}
  <2>1. q >= 2 => w * q >= 2 * w
    BY SMT
  <2>2. w * q \in Int
    BY SMT
  <2> QED BY <2>1, <2>2
<1>2. q = 0 => w * q = 0
  BY SMT
<1>3. q = 1 => w * q = w
  BY SMT
<1> QED BY <1>1, <1>2, <1>3 DEF Halved

(* A pattern is its sign and its magnitude, and the magnitude its exponent  *)
(* and its fraction.                                                        *)
LEMMA Fields ==
  ASSUME NEW f, IsFormat(f), NEW a \in Patterns(f)
  PROVE  /\ magUI(f, a) \in 0 .. (Sign(f) - 1) /\ signUI(f, a) \in BOOLEAN
         /\ a = (IF signUI(f, a) THEN Sign(f) ELSE 0) + magUI(f, a)
         /\ expUI(f, a) \in 0 .. (2^f.exp - 1) /\ fracUI(f, a) \in 0 .. (hidden(f) - 1)
         /\ magUI(f, a) = expUI(f, a) * hidden(f) + fracUI(f, a)
<1>1. /\ 2^f.exp \in Nat \ {0} /\ hidden(f) \in Nat \ {0} /\ Sign(f) = 2^f.exp * hidden(f)
      /\ Sign(f) \in Nat \ {0} /\ a \in 0 .. (2 * Sign(f) - 1) /\ a \in Nat
  BY Powers DEF Patterns
<1>2. /\ a \div Sign(f) \in Nat
      /\ ((a \div hidden(f)) % 2^f.exp) \in 0 .. (2^f.exp - 1)
      /\ (a % hidden(f)) \in 0 .. (hidden(f) - 1)
      /\ a = Sign(f) * (a \div Sign(f)) + (a % Sign(f))
      /\ (a % Sign(f)) \in 0 .. (Sign(f) - 1)
      /\ (a % Sign(f)) = ((a \div hidden(f)) % 2^f.exp) * hidden(f) + (a % hidden(f))
  <2> PICK e : e = 2^f.exp
    OBVIOUS
  <2> PICK h : h = hidden(f)
    OBVIOUS
  <2>1. e \in Nat \ {0} /\ h \in Nat \ {0} /\ Sign(f) = e * h /\ a \in Nat
    BY <1>1, Zenon
  <2>2. InDigits(a, e, h, e * h)
    BY <2>1, Digits
  <2>3. InDigits(a, 2^f.exp, hidden(f), Sign(f))
    BY <2>1, <2>2, Zenon
  <2> QED BY <2>3, Zenon DEF InDigits
<1>3. a = (IF a \div Sign(f) = 1 THEN Sign(f) ELSE 0) + (a % Sign(f))
  <2> PICK w : w = Sign(f)
    OBVIOUS
  <2> PICK q : q = a \div w
    OBVIOUS
  <2> PICK m : m = (a % w)
    OBVIOUS
  <2>1. /\ w \in Nat \ {0} /\ a \in 0 .. (2 * w - 1) /\ q \in Nat /\ m \in 0 .. (w - 1)
        /\ a = w * q + m
    BY <1>1, <1>2, Zenon
  <2>2. Halved(a, w, q, m)
    BY <2>1, SignAndRest
  <2> QED BY <2>2, Zenon DEF Halved
<1> QED BY <1>2, <1>3, Zenon DEF expUI, fracUI, magUI, signUI, Sign

(* What a magnitude is tells where it stands between these two borders.     *)
LEMMA Kinds ==
  ASSUME NEW f, IsFormat(f), NEW a \in Patterns(f)
  PROVE  /\ isNaNUI(f, a) <=> magUI(f, a) > Inf(f)
         /\ expUI(f, a) = expMax(f) <=> magUI(f, a) >= Inf(f)
         /\ expUI(f, a) = 0 <=> magUI(f, a) < hidden(f)
         /\ expUI(f, a) = 0 => (fracUI(f, a) = 0 <=> magUI(f, a) = 0)
<1> PICK e : e = 2^f.exp
  OBVIOUS
<1> PICK h : h = hidden(f)
  OBVIOUS
<1> PICK x : x = expUI(f, a)
  OBVIOUS
<1> PICK r : r = fracUI(f, a)
  OBVIOUS
<1>1. e \in Nat /\ e >= 4 /\ h \in Nat /\ h >= 2 /\ x \in 0 .. (e - 1) /\ r \in 0 .. (h - 1)
  BY Powers, Fields
<1>2. magUI(f, a) = x * h + r /\ Inf(f) = (e - 1) * h /\ expMax(f) = e - 1
  BY Fields DEF Inf, expMax
<1>3. x >= 1 => x * h >= h
  BY <1>1, SMT
<1>4. x < e - 1 => x * h <= (e - 2) * h
  BY <1>1, SMT
<1>5. (e - 1) * h = (e - 2) * h + h
  BY <1>1, SMT
<1>6. x * h \in Int /\ (e - 2) * h \in Int /\ (e - 1) * h \in Int
  BY <1>1, SMT
<1>7. x = 0 => x * h = 0
  BY <1>1
<1>8. x = e - 1 => x * h = (e - 1) * h
  OBVIOUS
<1> PICK m : m = magUI(f, a)
  OBVIOUS
<1>9. m = x * h + r /\ Inf(f) = (e - 1) * h /\ expMax(f) = e - 1 /\ m \in Int
  BY <1>1, <1>2, <1>6
<1>10. x = e - 1 <=> m >= (e - 1) * h
  BY <1>1, <1>4, <1>5, <1>6, <1>8, <1>9
<1>11. x = 0 <=> m < h
  BY <1>1, <1>3, <1>6, <1>7, <1>9
<1>12. x = 0 => (r = 0 <=> m = 0)
  BY <1>1, <1>7, <1>9
<1>13. x = e - 1 /\ r # 0 <=> m > (e - 1) * h
  BY <1>1, <1>8, <1>6, <1>9, <1>10
<1> QED BY <1>9, <1>10, <1>11, <1>12, <1>13 DEF isNaNUI

(* What the functions that compare bit patterns return is the order of      *)
(* places.                                                                  *)
LEMMA Ordered ==
  ASSUME NEW f, IsFormat(f), NEW a \in Patterns(f), NEW b \in Patterns(f)
  PROVE  /\ equalUI(f, a, b) <=> Place(f, a) = Place(f, b)
         /\ lessUI(f, a, b) <=> Place(f, a) < Place(f, b)
         /\ lessEqualUI(f, a, b) <=> Place(f, a) <= Place(f, b)
<1> PICK w : w = Sign(f)
  OBVIOUS
<1> PICK m : m = magUI(f, a)
  OBVIOUS
<1> PICK n : n = magUI(f, b)
  OBVIOUS
<1> PICK s : s = signUI(f, a)
  OBVIOUS
<1> PICK t : t = signUI(f, b)
  OBVIOUS
<1>1. w \in Nat /\ m \in 0 .. (w - 1) /\ n \in 0 .. (w - 1) /\ s \in BOOLEAN /\ t \in BOOLEAN
  BY Powers, Fields
<1>2. a = (IF s THEN w ELSE 0) + m /\ b = (IF t THEN w ELSE 0) + n
  BY Fields
<1>3. /\ Place(f, a) = (IF s THEN -m ELSE m)
      /\ Place(f, b) = (IF t THEN -n ELSE n)
      /\ areZeros(f, a, b) = (m = 0 /\ n = 0)
  BY DEF Place, areZeros, isZeroUI
<1>4. /\ equalUI(f, a, b) <=> (a = b \/ (m = 0 /\ n = 0))
      /\ lessUI(f, a, b) <=> (IF s # t THEN s /\ ~ (m = 0 /\ n = 0) ELSE a # b /\ (s # (a < b)))
      /\ lessEqualUI(f, a, b) <=> (IF s # t THEN s \/ (m = 0 /\ n = 0) ELSE a = b \/ (s # (a < b)))
  BY <1>3, Zenon DEF equalUI, lessUI, lessEqualUI
<1>5. CASE s /\ t
  BY <1>1, <1>2, <1>3, <1>4, <1>5
<1>6. CASE s /\ ~ t
  BY <1>1, <1>2, <1>3, <1>4, <1>6
<1>7. CASE ~ s /\ t
  BY <1>1, <1>2, <1>3, <1>4, <1>7
<1>8. CASE ~ s /\ ~ t
  BY <1>1, <1>2, <1>3, <1>4, <1>8
<1> QED BY <1>1, <1>5, <1>6, <1>7, <1>8

(* No two patterns have one place when -0 is before 0.                      *)
LEMMA PlacesDiffer ==
  ASSUME NEW f, IsFormat(f), NEW a \in Patterns(f), NEW b \in Patterns(f)
  PROVE  /\ TotalPlace(f, a) \in Int /\ TotalPlace(f, b) \in Int
         /\ TotalPlace(f, a) = TotalPlace(f, b) <=> a = b
         /\ Place(f, a) \in Int
         /\ Place(f, a) < Place(f, b) => TotalPlace(f, a) < TotalPlace(f, b)
         /\ Place(f, a) = Place(f, b) /\ signUI(f, a) => TotalPlace(f, a) <= TotalPlace(f, b)
         /\ Place(f, a) = Place(f, b) /\ ~ signUI(f, a) => TotalPlace(f, b) <= TotalPlace(f, a)
<1> PICK w : w = Sign(f)
  OBVIOUS
<1> PICK m : m = magUI(f, a)
  OBVIOUS
<1> PICK n : n = magUI(f, b)
  OBVIOUS
<1>1. w \in Nat /\ m \in 0 .. (w - 1) /\ n \in 0 .. (w - 1)
  BY Powers, Fields
<1>2. /\ a = (IF signUI(f, a) THEN w ELSE 0) + m
      /\ b = (IF signUI(f, b) THEN w ELSE 0) + n
  BY Fields
<1>3. /\ Place(f, a) = (IF signUI(f, a) THEN -m ELSE m)
      /\ Place(f, b) = (IF signUI(f, b) THEN -n ELSE n)
      /\ TotalPlace(f, a) = (IF signUI(f, a) THEN -m - 1 ELSE m)
      /\ TotalPlace(f, b) = (IF signUI(f, b) THEN -n - 1 ELSE n)
  BY DEF Place, TotalPlace
<1> QED BY <1>1, <1>2, <1>3

(* Of two operands, one is a NaN or the other is.                           *)
LEMMA AnyOfTwo ==
  ASSUME NEW f, NEW a, NEW b
  PROVE  /\ anyNaN(f, {a, b}) <=> isNaNUI(f, a) \/ isNaNUI(f, b)
         /\ anySigNaN(f, {a, b}) <=> isSigNaNUI(f, a) \/ isSigNaNUI(f, b)
BY Zenon DEF anyNaN, anySigNaN

(* Each comparison returns what the order says, NaNs apart.                 *)
LEMMA Comparisons ==
  ASSUME NEW f, IsFormat(f), NEW a \in Patterns(f), NEW b \in Patterns(f)
  PROVE  /\ eq(f, a, b) = Compared(f, "eq", a, b)
         /\ eq_signaling(f, a, b) = Compared(f, "eq_signaling", a, b)
         /\ le(f, a, b) = Compared(f, "le", a, b)
         /\ le_quiet(f, a, b) = Compared(f, "le_quiet", a, b)
         /\ lt(f, a, b) = Compared(f, "lt", a, b)
         /\ lt_quiet(f, a, b) = Compared(f, "lt_quiet", a, b)
<1>1. eq(f, a, b) = Compared(f, "eq", a, b)
  <2>1. equalUI(f, a, b) <=> Place(f, a) = Place(f, b)
    BY Ordered
  <2>2. CASE isNaNUI(f, a) \/ isNaNUI(f, b)
    BY <2>2, AnyOfTwo, Zenon DEF eq, compared, Truth, Compared
  <2>3. CASE ~ (isNaNUI(f, a) \/ isNaNUI(f, b))
    BY <2>1, <2>3, AnyOfTwo, Zenon DEF eq, compared, Truth, Compared
  <2> QED BY <2>2, <2>3
<1>2. eq_signaling(f, a, b) = Compared(f, "eq_signaling", a, b)
  <2>1. equalUI(f, a, b) <=> Place(f, a) = Place(f, b)
    BY Ordered
  <2>2. CASE isNaNUI(f, a) \/ isNaNUI(f, b)
    BY <2>2, AnyOfTwo, Zenon DEF eq_signaling, compared, Truth, Compared
  <2>3. CASE ~ (isNaNUI(f, a) \/ isNaNUI(f, b))
    BY <2>1, <2>3, AnyOfTwo, Zenon DEF eq_signaling, compared, Truth, Compared
  <2> QED BY <2>2, <2>3
<1>3. le(f, a, b) = Compared(f, "le", a, b)
  <2>1. lessEqualUI(f, a, b) <=> Place(f, a) <= Place(f, b)
    BY Ordered
  <2>2. CASE isNaNUI(f, a) \/ isNaNUI(f, b)
    BY <2>2, AnyOfTwo, Zenon DEF le, compared, Truth, Compared
  <2>3. CASE ~ (isNaNUI(f, a) \/ isNaNUI(f, b))
    BY <2>1, <2>3, AnyOfTwo, Zenon DEF le, compared, Truth, Compared
  <2> QED BY <2>2, <2>3
<1>4. le_quiet(f, a, b) = Compared(f, "le_quiet", a, b)
  <2>1. lessEqualUI(f, a, b) <=> Place(f, a) <= Place(f, b)
    BY Ordered
  <2>2. CASE isNaNUI(f, a) \/ isNaNUI(f, b)
    BY <2>2, AnyOfTwo, Zenon DEF le_quiet, compared, Truth, Compared
  <2>3. CASE ~ (isNaNUI(f, a) \/ isNaNUI(f, b))
    BY <2>1, <2>3, AnyOfTwo, Zenon DEF le_quiet, compared, Truth, Compared
  <2> QED BY <2>2, <2>3
<1>5. lt(f, a, b) = Compared(f, "lt", a, b)
  <2>1. lessUI(f, a, b) <=> Place(f, a) < Place(f, b)
    BY Ordered
  <2>2. CASE isNaNUI(f, a) \/ isNaNUI(f, b)
    BY <2>2, AnyOfTwo, Zenon DEF lt, compared, Truth, Compared
  <2>3. CASE ~ (isNaNUI(f, a) \/ isNaNUI(f, b))
    BY <2>1, <2>3, AnyOfTwo, Zenon DEF lt, compared, Truth, Compared
  <2> QED BY <2>2, <2>3
<1>6. lt_quiet(f, a, b) = Compared(f, "lt_quiet", a, b)
  <2>1. lessUI(f, a, b) <=> Place(f, a) < Place(f, b)
    BY Ordered
  <2>2. CASE isNaNUI(f, a) \/ isNaNUI(f, b)
    BY <2>2, AnyOfTwo, Zenon DEF lt_quiet, compared, Truth, Compared
  <2>3. CASE ~ (isNaNUI(f, a) \/ isNaNUI(f, b))
    BY <2>1, <2>3, AnyOfTwo, Zenon DEF lt_quiet, compared, Truth, Compared
  <2> QED BY <2>2, <2>3
<1> QED BY <1>1, <1>2, <1>3, <1>4, <1>5, <1>6

(* Which of two operands is the extreme one.                                *)
Objections(f, a, b) == IF isSigNaNUI(f, a) \/ isSigNaNUI(f, b) THEN {"invalid"} ELSE {}

Numbers(f, a, b) == {x \in {a, b} : ~isNaNUI(f, x)}
First(f, op, a, b, x) == \A y \in Numbers(f, a, b) :
                           IF op = "min" THEN TotalPlace(f, x) <= TotalPlace(f, y)
                                         ELSE TotalPlace(f, x) >= TotalPlace(f, y)
Chosen(f, op, a, b) == CHOOSE x \in Numbers(f, a, b) : First(f, op, a, b, x)

(* Extreme, in the words above.                                             *)
LEMMA ExtremeOf ==
  ASSUME NEW f, NEW a, NEW b, NEW op
  PROVE  Extreme(f, op, a, b) =
           Result(IF Numbers(f, a, b) = {} THEN defaultNaNUI(f) ELSE Chosen(f, op, a, b),
                  Objections(f, a, b))
<1> DEFINE numbers == {x \in {a, b} : ~isNaNUI(f, x)}
           first(x) == \A y \in numbers :
                         IF op = "min" THEN TotalPlace(f, x) <= TotalPlace(f, y)
                                       ELSE TotalPlace(f, x) >= TotalPlace(f, y)
           chosen == CHOOSE x \in numbers : first(x)
           flags == IF anySigNaN(f, {a, b}) THEN {"invalid"} ELSE {}
<1>1. Extreme(f, op, a, b) = Result(IF numbers = {} THEN defaultNaNUI(f) ELSE chosen, flags)
  BY Zenon DEF Extreme
<1>2. numbers = Numbers(f, a, b) /\ chosen = Chosen(f, op, a, b)
  BY Zenon DEF Numbers, First, Chosen
<1>3. flags = Objections(f, a, b)
  BY AnyOfTwo, Zenon DEF Objections
<1> HIDE DEF numbers, first, chosen, flags
<1> QED BY <1>1, <1>2, <1>3

(* A number no other precedes is the one chosen, for places are distinct.   *)
LEMMA ExtremeIs ==
  ASSUME NEW f, IsFormat(f), NEW a \in Patterns(f), NEW b \in Patterns(f),
         NEW op \in {"min", "max"}, NEW v \in {a, b}, ~ isNaNUI(f, v),
         \A y \in {a, b} : ~ isNaNUI(f, y) =>
           IF op = "min" THEN TotalPlace(f, v) <= TotalPlace(f, y)
                         ELSE TotalPlace(f, v) >= TotalPlace(f, y)
  PROVE  Extreme(f, op, a, b) = Result(v, Objections(f, a, b))
<1> DEFINE numbers == Numbers(f, a, b)
           first(x) == First(f, op, a, b, x)
           chosen == Chosen(f, op, a, b)
<1>1. v \in numbers /\ first(v)
  BY Zenon DEF Numbers, First
<1>2. chosen \in numbers /\ first(chosen)
  BY <1>1, Zenon DEF Chosen
<1>3. chosen = v
  <2>1. chosen \in Patterns(f) /\ v \in Patterns(f)
    BY <1>1, <1>2, Zenon DEF Numbers
  <2>2. IF op = "min" THEN TotalPlace(f, chosen) <= TotalPlace(f, v)
                      ELSE TotalPlace(f, chosen) >= TotalPlace(f, v)
    BY <1>1, <1>2, Zenon DEF First
  <2>3. IF op = "min" THEN TotalPlace(f, v) <= TotalPlace(f, chosen)
                      ELSE TotalPlace(f, v) >= TotalPlace(f, chosen)
    BY <1>1, <1>2, Zenon DEF First
  <2> PICK c : c = chosen
    OBVIOUS
  <2>4. TotalPlace(f, c) \in Int /\ TotalPlace(f, v) \in Int
        /\ (TotalPlace(f, c) = TotalPlace(f, v) <=> c = v)
    BY <2>1, PlacesDiffer
  <2>5. /\ IF op = "min" THEN TotalPlace(f, c) <= TotalPlace(f, v)
                         ELSE TotalPlace(f, c) >= TotalPlace(f, v)
        /\ IF op = "min" THEN TotalPlace(f, v) <= TotalPlace(f, c)
                         ELSE TotalPlace(f, v) >= TotalPlace(f, c)
    BY <2>2, <2>3, Zenon
  <2>6. c = v
    BY <2>4, <2>5
  <2> QED BY <2>6, Zenon
<1>4. numbers # {}
  BY <1>1, Zenon
<1> QED BY <1>3, <1>4, ExtremeOf, Zenon

(* Of two NaNs neither is chosen.                                           *)
LEMMA NoNumber ==
  ASSUME NEW f, NEW a, NEW b, NEW op, isNaNUI(f, a), isNaNUI(f, b)
  PROVE  Extreme(f, op, a, b) = Result(defaultNaNUI(f), Objections(f, a, b))
<1>1. Numbers(f, a, b) = {}
  BY Zenon DEF Numbers
<1> QED BY <1>1, ExtremeOf, Zenon

(* What minOf() and maxOf() ask before they choose: a quiet comparison.     *)
LEMMA Asked ==
  ASSUME NEW f, IsFormat(f), NEW a \in Patterns(f), NEW b \in Patterns(f)
  PROVE  /\ lt_quiet(f, a, b).flags \union eq(f, a, b).flags = Objections(f, a, b)
         /\ isNaNUI(f, a) \/ isNaNUI(f, b) =>
              lt_quiet(f, a, b).ui = 0 /\ eq(f, a, b).ui = 0
         /\ ~ isNaNUI(f, a) /\ ~ isNaNUI(f, b) =>
              /\ lt_quiet(f, a, b).ui = 1 <=> Place(f, a) < Place(f, b)
              /\ eq(f, a, b).ui = 1 <=> Place(f, a) = Place(f, b)
<1>1. CASE isNaNUI(f, a) \/ isNaNUI(f, b)
  <2>1. lt_quiet(f, a, b) = Result(0, Objections(f, a, b)) /\ eq(f, a, b) = Result(0, Objections(f, a, b))
    BY <1>1, Zenon DEF lt_quiet, eq, compared, Truth, Objections
  <2> QED BY <1>1, <2>1 DEF Result
<1>2. CASE ~ (isNaNUI(f, a) \/ isNaNUI(f, b))
  <2>1. /\ lt_quiet(f, a, b) = Result(IF lessUI(f, a, b) THEN 1 ELSE 0, {})
        /\ eq(f, a, b) = Result(IF equalUI(f, a, b) THEN 1 ELSE 0, {})
    BY <1>2, Zenon DEF lt_quiet, eq, compared, Truth
  <2>2. Objections(f, a, b) = {}
    BY <1>2, Zenon DEF Objections, isSigNaNUI
  <2>3. /\ lessUI(f, a, b) <=> Place(f, a) < Place(f, b)
        /\ equalUI(f, a, b) <=> Place(f, a) = Place(f, b)
    BY Ordered
  <2> QED BY <1>2, <2>1, <2>2, <2>3 DEF Result
<1> QED BY <1>1, <1>2, Zenon

(* minOf() returns the operand whose place is least: -0 before 0.           *)
LEMMA Least ==
  ASSUME NEW f, IsFormat(f), NEW a \in Patterns(f), NEW b \in Patterns(f)
  PROVE  minOf(f, a, b) = Extreme(f, "min", a, b)
<1> DEFINE less == lt_quiet(f, a, b).ui = 1 \/ (eq(f, a, b).ui = 1 /\ signUI(f, a))
<1>1. minOf(f, a, b) =
        Result(IF isNaNUI(f, a) /\ isNaNUI(f, b) THEN defaultNaNUI(f)
               ELSE IF less \/ isNaNUI(f, b) THEN a ELSE b, Objections(f, a, b))
  BY Asked, Zenon DEF minOf
<1>2. CASE isNaNUI(f, a) /\ isNaNUI(f, b)
  BY <1>1, <1>2, NoNumber, Zenon
<1>3. CASE isNaNUI(f, a) /\ ~ isNaNUI(f, b)
  <2>1. ~ less
    BY <1>3, Asked
  <2>2. TotalPlace(f, b) <= TotalPlace(f, b)
    BY PlacesDiffer
  <2>3. Extreme(f, "min", a, b) = Result(b, Objections(f, a, b))
    BY <1>3, <2>2, ExtremeIs, Zenon
  <2> QED BY <1>1, <1>3, <2>1, <2>3, Zenon
<1>4. CASE ~ isNaNUI(f, a) /\ isNaNUI(f, b)
  <2>2. TotalPlace(f, a) <= TotalPlace(f, a)
    BY PlacesDiffer
  <2>3. Extreme(f, "min", a, b) = Result(a, Objections(f, a, b))
    BY <1>4, <2>2, ExtremeIs, Zenon
  <2> QED BY <1>1, <1>4, <2>3, Zenon
<1>5. CASE ~ isNaNUI(f, a) /\ ~ isNaNUI(f, b)
  <2>0. TotalPlace(f, a) <= TotalPlace(f, a) /\ TotalPlace(f, b) <= TotalPlace(f, b)
    BY PlacesDiffer
  <2>1. CASE less
    <3>1. TotalPlace(f, a) <= TotalPlace(f, b)
      BY <1>5, <2>1, Asked, PlacesDiffer
    <3>2. Extreme(f, "min", a, b) = Result(a, Objections(f, a, b))
      BY <1>5, <2>0, <3>1, ExtremeIs, Zenon
    <3> QED BY <1>1, <1>5, <2>1, <3>2, Zenon
  <2>2. CASE ~ less
    <3>1. Place(f, b) < Place(f, a) \/ (Place(f, a) = Place(f, b) /\ ~ signUI(f, a))
      BY <1>5, <2>2, Asked, PlacesDiffer
    <3>2. TotalPlace(f, b) <= TotalPlace(f, a)
      BY <3>1, PlacesDiffer
    <3>3. Extreme(f, "min", a, b) = Result(b, Objections(f, a, b))
      BY <1>5, <2>0, <3>2, ExtremeIs, Zenon
    <3> QED BY <1>1, <1>5, <2>2, <3>3, Zenon
  <2> QED BY <2>1, <2>2, Zenon
<1> QED BY <1>2, <1>3, <1>4, <1>5, Zenon

(* maxOf() returns the operand whose place is greatest.                     *)
LEMMA Greatest ==
  ASSUME NEW f, IsFormat(f), NEW a \in Patterns(f), NEW b \in Patterns(f)
  PROVE  maxOf(f, a, b) = Extreme(f, "max", a, b)
<1> DEFINE greater == lt_quiet(f, b, a).ui = 1 \/ (eq(f, b, a).ui = 1 /\ signUI(f, b))
<1>1. maxOf(f, a, b) =
        Result(IF isNaNUI(f, a) /\ isNaNUI(f, b) THEN defaultNaNUI(f)
               ELSE IF greater \/ isNaNUI(f, b) THEN a ELSE b, Objections(f, a, b))
  <2>1. Objections(f, b, a) = Objections(f, a, b)
    BY Zenon DEF Objections
  <2> QED BY <2>1, Asked, Zenon DEF maxOf
<1>2. CASE isNaNUI(f, a) /\ isNaNUI(f, b)
  BY <1>1, <1>2, NoNumber, Zenon
<1>3. CASE isNaNUI(f, a) /\ ~ isNaNUI(f, b)
  <2>1. ~ greater
    BY <1>3, Asked
  <2>2. TotalPlace(f, b) >= TotalPlace(f, b)
    BY PlacesDiffer
  <2>3. Extreme(f, "max", a, b) = Result(b, Objections(f, a, b))
    BY <1>3, <2>2, ExtremeIs, Zenon
  <2> QED BY <1>1, <1>3, <2>1, <2>3, Zenon
<1>4. CASE ~ isNaNUI(f, a) /\ isNaNUI(f, b)
  <2>1. TotalPlace(f, a) >= TotalPlace(f, a)
    BY PlacesDiffer
  <2>2. Extreme(f, "max", a, b) = Result(a, Objections(f, a, b))
    BY <1>4, <2>1, ExtremeIs, Zenon
  <2> QED BY <1>1, <1>4, <2>2, Zenon
<1>5. CASE ~ isNaNUI(f, a) /\ ~ isNaNUI(f, b)
  <2>0. TotalPlace(f, a) >= TotalPlace(f, a) /\ TotalPlace(f, b) >= TotalPlace(f, b)
    BY PlacesDiffer
  <2>1. CASE greater
    <3>1. TotalPlace(f, b) <= TotalPlace(f, a)
      BY <1>5, <2>1, Asked, PlacesDiffer
    <3>2. TotalPlace(f, a) >= TotalPlace(f, b)
      BY <3>1, PlacesDiffer
    <3>3. Extreme(f, "max", a, b) = Result(a, Objections(f, a, b))
      BY <1>5, <2>0, <3>2, ExtremeIs, Zenon
    <3> QED BY <1>1, <1>5, <2>1, <3>3, Zenon
  <2>2. CASE ~ greater
    <3>1. Place(f, a) < Place(f, b) \/ (Place(f, b) = Place(f, a) /\ ~ signUI(f, b))
      BY <1>5, <2>2, Asked, PlacesDiffer
    <3>2. TotalPlace(f, a) <= TotalPlace(f, b)
      BY <3>1, PlacesDiffer
    <3>3. TotalPlace(f, b) >= TotalPlace(f, a)
      BY <3>2, PlacesDiffer
    <3>4. Extreme(f, "max", a, b) = Result(b, Objections(f, a, b))
      BY <1>5, <2>0, <3>3, ExtremeIs, Zenon
    <3> QED BY <1>1, <1>5, <2>2, <3>4, Zenon
  <2> QED BY <2>1, <2>2, Zenon
<1> QED BY <1>2, <1>3, <1>4, <1>5, Zenon

(* The classes, by the borders between them.                                *)
LEMMA Classes ==
  ASSUME NEW f, IsFormat(f), NEW a \in Patterns(f)
  PROVE  classify(f, a) = ClassOf(f, a)
<1> PICK h : h = hidden(f)
  OBVIOUS
<1> PICK i : i = Inf(f)
  OBVIOUS
<1> PICK m : m = magUI(f, a)
  OBVIOUS
<1>1. h \in Nat /\ i \in Nat /\ m \in Nat /\ h >= 2 /\ i > h
  BY Powers, Fields
<1>2. infinityUI(f, FALSE) = i
  BY <1>1 DEF infinityUI, packToUI, expMax, Inf
<1>3. /\ isNaNUI(f, a) <=> m > i
      /\ expUI(f, a) = expMax(f) <=> m >= i
      /\ expUI(f, a) = 0 <=> m < h
      /\ expUI(f, a) = 0 => (fracUI(f, a) = 0 <=> m = 0)
  BY Kinds
<1> DEFINE limits == {1, h, i}
           above == {l \in limits : l <= m}
           rank == IF above = limits THEN 3 ELSE IF h \in above THEN 2
                   ELSE IF above # {} THEN 1 ELSE 0
           kind == IF m >= i THEN "infinite" ELSE IF m >= h THEN "normal"
                   ELSE IF m # 0 THEN "subnormal" ELSE "zero"
           bit == [infinite |-> 0, normal |-> 1, subnormal |-> 2, zero |-> 3]
<1>4. ClassOf(f, a) = IF isNaNUI(f, a) THEN IF isSigNaNUI(f, a) THEN 8 ELSE 9
                      ELSE IF signUI(f, a) THEN 3 - rank ELSE 4 + rank
  BY <1>2, Zenon DEF ClassOf
<1>5. classify(f, a) = IF isNaNUI(f, a) THEN IF isSigNaNUI(f, a) THEN 8 ELSE 9
                       ELSE IF signUI(f, a) THEN bit[kind] ELSE 7 - bit[kind]
  <2>1. (IF expUI(f, a) = expMax(f) THEN "infinite" ELSE IF expUI(f, a) # 0 THEN "normal"
         ELSE IF fracUI(f, a) # 0 THEN "subnormal" ELSE "zero") = kind
    BY <1>1, <1>3
  <2> QED BY <2>1, Zenon DEF classify
<1>6. bit[kind] = 3 - rank /\ 7 - bit[kind] = 4 + rank
  <2>1. CASE m >= i
    <3>1. above = limits
      BY <1>1, <2>1
    <3> QED BY <2>1, <3>1
  <2>2. CASE m >= h /\ m < i
    <3>1. h \in above /\ i \notin above /\ i \in limits
      BY <1>1, <2>2
    <3>2. rank = 2
      BY <3>1
    <3>3. kind = "normal"
      BY <1>1, <2>2
    <3> QED BY <3>2, <3>3
  <2>3. CASE m < h /\ m # 0
    <3>1. 1 \in above /\ h \notin above /\ h \in limits
      BY <1>1, <2>3
    <3>2. rank = 1
      BY <3>1
    <3>3. kind = "subnormal"
      BY <1>1, <2>3
    <3> QED BY <3>2, <3>3
  <2>4. CASE m = 0
    <3>1. above = {} /\ h \in limits
      BY <1>1, <2>4
    <3>2. rank = 0
      BY <3>1
    <3>3. kind = "zero"
      BY <1>1, <2>4
    <3> QED BY <3>2, <3>3
  <2> QED BY <1>1, <2>1, <2>2, <2>3, <2>4
<1> HIDE DEF rank, kind, bit
<1> QED BY <1>4, <1>5, <1>6

(* What OneOrder asks of one call.                                          *)
Agrees(f, op, a, b, r) ==
  /\ op \in CompareOps => r = Compared(f, op, a, b)
  /\ op = "fle" => r = Compared(f, "lt", a, b)
  /\ op \in {"min", "max"} => r = Extreme(f, op, a, b)
  /\ op = "classify" => r = Exact(ClassOf(f, a))
  /\ op = "isSignalingNaN" => (r.ui = 1 <=> ClassOf(f, a) = 8)

(* The calls that take two operands, in any one format.                     *)
Compares(f, a, b) ==
  {<<"eq", eq(f, a, b)>>, <<"eq_signaling", eq_signaling(f, a, b)>>,
   <<"le", le(f, a, b)>>, <<"le_quiet", le_quiet(f, a, b)>>,
   <<"lt", lt(f, a, b)>>, <<"lt_quiet", lt_quiet(f, a, b)>>, <<"fle", lt(f, a, b)>>,
   <<"min", minOf(f, a, b)>>, <<"max", maxOf(f, a, b)>>}

(* Whichever of the nine operations on two operands is called.             *)
LEMMA ComparesAgree ==
  ASSUME NEW f, IsFormat(f), NEW a \in Patterns(f), NEW b \in Patterns(f),
         NEW call \in Compares(f, a, b)
  PROVE  Agrees(f, call[1], a, b, call[2])
<1>1. PICK op, r : call = <<op, r>> /\ <<op, r>> \in Compares(f, a, b)
  BY Zenon DEF Compares
<1>2. \/ op = "eq" /\ r = eq(f, a, b)
      \/ op = "eq_signaling" /\ r = eq_signaling(f, a, b)
      \/ op = "le" /\ r = le(f, a, b)
      \/ op = "le_quiet" /\ r = le_quiet(f, a, b)
      \/ op = "lt" /\ r = lt(f, a, b)
      \/ op = "lt_quiet" /\ r = lt_quiet(f, a, b)
      \/ op = "fle" /\ r = lt(f, a, b)
      \/ op = "min" /\ r = minOf(f, a, b)
      \/ op = "max" /\ r = maxOf(f, a, b)
  BY <1>1 DEF Compares
<1>3. \/ op \in CompareOps /\ r = Compared(f, op, a, b)
      \/ op = "fle" /\ r = Compared(f, "lt", a, b)
      \/ op \in {"min", "max"} /\ r = Extreme(f, op, a, b)
  BY <1>2, Comparisons, Least, Greatest, Zenon DEF CompareOps
<1>4. Agrees(f, op, a, b, r)
  BY <1>3 DEF Agrees, CompareOps
<1>5. call[1] = op /\ call[2] = r
  BY <1>1
<1> QED BY <1>4, <1>5, Zenon

(* The calls that take one.                                                 *)
Classifies(f, a) ==
  {<<"classify", Exact(classify(f, a))>>, <<"isSignalingNaN", Truth(isSigNaNUI(f, a), {})>>}

(* A signaling NaN is the only number of its class.                         *)
LEMMA ClassifiesAgree ==
  ASSUME NEW f, IsFormat(f), NEW a \in Patterns(f), NEW call \in Classifies(f, a)
  PROVE  Agrees(f, call[1], a, a, call[2])
<1>1. ClassOf(f, a) = 8 <=> isSigNaNUI(f, a)
  <2> DEFINE limits == {1, hidden(f), infinityUI(f, FALSE)}
             above == {l \in limits : l <= magUI(f, a)}
             rank == IF above = limits THEN 3 ELSE IF hidden(f) \in above THEN 2
                     ELSE IF above # {} THEN 1 ELSE 0
  <2>1. ClassOf(f, a) = IF isNaNUI(f, a) THEN IF isSigNaNUI(f, a) THEN 8 ELSE 9
                        ELSE IF signUI(f, a) THEN 3 - rank ELSE 4 + rank
    BY Zenon DEF ClassOf
  <2>2. rank \in 0 .. 3
    OBVIOUS
  <2>3. isSigNaNUI(f, a) => isNaNUI(f, a)
    BY Zenon DEF isSigNaNUI
  <2> HIDE DEF rank
  <2> QED BY <2>1, <2>2, <2>3
<1>2. Truth(isSigNaNUI(f, a), {}).ui = 1 <=> isSigNaNUI(f, a)
  BY DEF Truth, Result
<1>3. CASE call = <<"classify", Exact(classify(f, a))>>
  <2>1. Exact(classify(f, a)) = Exact(ClassOf(f, a))
    BY Classes, Zenon
  <2>2. call[1] = "classify" /\ call[2] = Exact(ClassOf(f, a))
    BY <1>3, <2>1
  <2> QED BY <2>2 DEF Agrees, CompareOps
<1>4. CASE call = <<"isSignalingNaN", Truth(isSigNaNUI(f, a), {})>>
  <2>1. call[1] = "isSignalingNaN" /\ call[2] = Truth(isSigNaNUI(f, a), {})
    BY <1>4
  <2>2. call[2].ui = 1 <=> ClassOf(f, a) = 8
    BY <1>1, <1>2, <2>1, Zenon
  <2> QED BY <2>1, <2>2 DEF Agrees, CompareOps
<1> QED BY <1>3, <1>4, Zenon DEF Classifies

(* The verdict on a call that agrees with the order is right.               *)
LEMMA Recorded ==
  ASSUME NEW n, NEW a, NEW b, NEW call, Decide(n, a, b, call),
         Agrees(Formats[n], call[1], a, b, call[2])
  PROVE  OneOrder'
<1>1. verdict' = [f |-> n, op |-> call[1], a |-> a, b |-> b, result |-> call[2]]
  BY Zenon DEF Decide
<1>2. /\ verdict'.f = n /\ verdict'.op = call[1] /\ verdict'.a = a /\ verdict'.b = b
      /\ verdict'.result = call[2]
  BY <1>1
<1> QED BY <1>2, Zenon DEF OneOrder, Agrees

(* The operands given are bit patterns of the format they are given as.     *)
LEMMA Operands ==
  /\ Formats.f16 = Fmt16 /\ Formats.f32 = Fmt32 /\ Formats.f64 = Fmt64
  /\ Left.f16 \subseteq Patterns(Fmt16) /\ Right.f16 \subseteq Patterns(Fmt16)
  /\ Left.f32 \subseteq Patterns(Fmt32) /\ Right.f32 \subseteq Patterns(Fmt32)
  /\ Left.f64 \subseteq Patterns(Fmt64) /\ Right.f64 \subseteq Patterns(Fmt64)
<1>1. Formats.f16 = Fmt16 /\ Formats.f32 = Fmt32 /\ Formats.f64 = Fmt64
  BY DEF Formats
<1>2. "f16" \in DOMAIN Formats /\ "f32" \in DOMAIN Formats /\ "f64" \in DOMAIN Formats
  BY DEF Formats
<1> QED BY <1>1, <1>2, OrderAssumption, Zenon

(* feq, flt, every comparison of src/softfloat, and every minimum, maximum  *)
(* and class follows the one order of the numbers, in every format and for  *)
(* every operand; fle, as RV-CG.def has it, answers less.                   *)
THEOREM ComparisonsFollowOrder == OrderSpec => []OneOrder
<1>0. verdict = Undecided => OneOrder
  <2>1. Undecided.op = "none"
    BY DEF Undecided
  <2> QED BY <2>1 DEF OneOrder, CompareOps
<1>1. OrderInit => OneOrder
  BY <1>0, Zenon DEF OrderInit
<1>2. OneOrder /\ [OrderNext]_verdict => OneOrder'
  <2> SUFFICES ASSUME OneOrder, [OrderNext]_verdict
               PROVE  OneOrder'
    OBVIOUS
  <2>1. CASE CompareF16
    <3>1. PICK a \in Left.f16, b \in Right.f16 :
             \E call \in Compares(Fmt16, a, b) : Decide("f16", a, b, call)
      BY <2>1, Zenon DEF CompareF16, Compares, f16_eq, f16_eq_signaling, f16_le, f16_le_quiet,
                         f16_lt, f16_lt_quiet, f16_min, f16_max
    <3>2. PICK call \in Compares(Fmt16, a, b) : Decide("f16", a, b, call)
      BY <3>1, Zenon
    <3>3. a \in Patterns(Fmt16) /\ b \in Patterns(Fmt16) /\ IsFormat(Fmt16) /\ Formats.f16 = Fmt16
      BY Operands, Zenon DEF IsFormat
    <3>4. Agrees(Fmt16, call[1], a, b, call[2])
      BY <3>3, ComparesAgree, Zenon
    <3> QED BY <3>2, <3>3, <3>4, Recorded, Zenon
  <2>2. CASE CompareF32 \/ CompareSoftF32
    <3>1. PICK a \in Left.f32, b \in Right.f32 :
             \E call \in Compares(Fmt32, a, b) : Decide("f32", a, b, call)
      BY <2>2, Zenon DEF CompareF32, CompareSoftF32, Compares, f32_eq, f32_eq_signaling, f32_le,
                         f32_le_quiet, f32_lt, f32_lt_quiet, fle_s, fmin_s, fmax_s
    <3>2. PICK call \in Compares(Fmt32, a, b) : Decide("f32", a, b, call)
      BY <3>1, Zenon
    <3>3. a \in Patterns(Fmt32) /\ b \in Patterns(Fmt32) /\ IsFormat(Fmt32) /\ Formats.f32 = Fmt32
      BY Operands, Zenon DEF IsFormat
    <3>4. Agrees(Fmt32, call[1], a, b, call[2])
      BY <3>3, ComparesAgree, Zenon
    <3> QED BY <3>2, <3>3, <3>4, Recorded, Zenon
  <2>3. CASE CompareF64 \/ CompareSoftF64
    <3>1. PICK a \in Left.f64, b \in Right.f64 :
             \E call \in Compares(Fmt64, a, b) : Decide("f64", a, b, call)
      BY <2>3, Zenon DEF CompareF64, CompareSoftF64, Compares, f64_eq, f64_eq_signaling, f64_le,
                         f64_le_quiet, f64_lt, f64_lt_quiet, fle_d, fmin_d, fmax_d
    <3>2. PICK call \in Compares(Fmt64, a, b) : Decide("f64", a, b, call)
      BY <3>1, Zenon
    <3>3. a \in Patterns(Fmt64) /\ b \in Patterns(Fmt64) /\ IsFormat(Fmt64) /\ Formats.f64 = Fmt64
      BY Operands, Zenon DEF IsFormat
    <3>4. Agrees(Fmt64, call[1], a, b, call[2])
      BY <3>3, ComparesAgree, Zenon
    <3> QED BY <3>2, <3>3, <3>4, Recorded, Zenon
  <2>4. CASE ClassF16
    <3>1. PICK a \in Left.f16 :
             \E call \in Classifies(Fmt16, a) : Decide("f16", a, a, call)
      BY <2>4, Zenon DEF ClassF16, Classifies, f16_classify, f16_isSignalingNaN
    <3>2. PICK call \in Classifies(Fmt16, a) : Decide("f16", a, a, call)
      BY <3>1, Zenon
    <3>3. a \in Patterns(Fmt16) /\ IsFormat(Fmt16) /\ Formats.f16 = Fmt16
      BY Operands, Zenon DEF IsFormat
    <3>4. Agrees(Fmt16, call[1], a, a, call[2])
      BY <3>3, ClassifiesAgree, Zenon
    <3> QED BY <3>2, <3>3, <3>4, Recorded, Zenon
  <2>5. CASE ClassF32
    <3>1. PICK a \in Left.f32 :
             \E call \in Classifies(Fmt32, a) : Decide("f32", a, a, call)
      BY <2>5, Zenon DEF ClassF32, Classifies, f32_classify, f32_isSignalingNaN
    <3>2. PICK call \in Classifies(Fmt32, a) : Decide("f32", a, a, call)
      BY <3>1, Zenon
    <3>3. a \in Patterns(Fmt32) /\ IsFormat(Fmt32) /\ Formats.f32 = Fmt32
      BY Operands, Zenon DEF IsFormat
    <3>4. Agrees(Fmt32, call[1], a, a, call[2])
      BY <3>3, ClassifiesAgree, Zenon
    <3> QED BY <3>2, <3>3, <3>4, Recorded, Zenon
  <2>6. CASE ClassF64
    <3>1. PICK a \in Left.f64 :
             \E call \in Classifies(Fmt64, a) : Decide("f64", a, a, call)
      BY <2>6, Zenon DEF ClassF64, Classifies, f64_classify, f64_isSignalingNaN
    <3>2. PICK call \in Classifies(Fmt64, a) : Decide("f64", a, a, call)
      BY <3>1, Zenon
    <3>3. a \in Patterns(Fmt64) /\ IsFormat(Fmt64) /\ Formats.f64 = Fmt64
      BY Operands, Zenon DEF IsFormat
    <3>4. Agrees(Fmt64, call[1], a, a, call[2])
      BY <3>3, ClassifiesAgree, Zenon
    <3> QED BY <3>2, <3>3, <3>4, Recorded, Zenon
  <2>7. CASE RetireVerdict
    <3>1. (verdict = Undecided => OneOrder)'
      <4>1. Undecided.op = "none"
        BY DEF Undecided
      <4> QED BY <4>1 DEF OneOrder, CompareOps
    <3> QED BY <2>7, <3>1 DEF RetireVerdict, Undecided
  <2>8. CASE UNCHANGED verdict
    BY <2>8, Zenon DEF OneOrder
  <2> QED BY <2>1, <2>2, <2>3, <2>4, <2>5, <2>6, <2>7, <2>8, Zenon DEF OrderNext
<1> QED BY <1>1, <1>2, PTL DEF OrderSpec
================================================================================
