---------------------------- MODULE FloatReference ----------------------------
(***************************************************************************)
(* What floating point arithmetic promises, independently of how softfloat *)
(* goes about it: a number is m * 2^e with a sign, or infinite; the exact  *)
(* result of an operation is computed in integers, and rounded once, at    *)
(* the place that its size and the format allow.  Flags are as in IEEE     *)
(* 754, tininess being detected after rounding.                            *)
(***************************************************************************)
EXTENDS FloatEstimate

Value(f, ui) ==
    LET exp == expUI(f, ui)
    IN  [inf  |-> exp = expMax(f), sign |-> signUI(f, ui),
         m    |-> fracUI(f, ui) + (IF exp = 0 THEN 0 ELSE hidden(f)),
         e    |-> (IF exp = 0 THEN 1 ELSE exp) - bias(f) - f.frac]

Negated(x) == [x EXCEPT !.sign = ~@]

(* (m * 2^e), and a little more if `more', as a multiple of 2^q, rounded.   *)
RoundAt(q, sign, m, e, more, mode) ==
    LET d    == q - e
        n    == IF d <= 0 THEN m * 2^(-d) ELSE IF d > BitLength(m) THEN 0 ELSE m \div 2^d
        rest == IF d <= 0 THEN 0 ELSE IF d > BitLength(m) THEN m ELSE m % 2^d
        tie  == d \in 1..30 /\ d <= BitLength(m) /\ rest = 2^(d - 1) /\ ~more
        most == d \in 1..30 /\ d <= BitLength(m) /\ rest >= 2^(d - 1) /\ ~tie
        inexact == rest # 0 \/ more
        up == \/ mode \in {"near_even", "near_maxMag"} /\ most
              \/ mode = "near_maxMag" /\ tie
              \/ mode = "near_even" /\ tie /\ n % 2 = 1
              \/ mode = "max" /\ inexact /\ ~sign
              \/ mode = "min" /\ inexact /\ sign
              \/ mode = "odd" /\ inexact /\ n % 2 = 0
    IN  [n |-> IF up THEN n + 1 ELSE n, inexact |-> inexact]

(* The greatest finite number, or infinity when the mode leads there.      *)
Overflowed(f, sign, mode) ==
    Result(IF mode \in {"near_even", "near_maxMag", IF sign THEN "min" ELSE "max"}
           THEN infinityUI(f, sign) ELSE infinityUI(f, sign) - 1,
           {"overflow", "inexact"})

Rounded(f, sign, m, e, more, mode) ==
    LET least == 1 - bias(f) - f.frac            \* the last place of a subnormal
        free  == e + BitLength(m) - (f.frac + 1) \* the last place in any range
        q     == IF free < least THEN least ELSE free
        r     == RoundAt(q, sign, m, e, more, mode)
        mag   == (q - least) * hidden(f) + r.n
        tiny  == \/ free < least - 1
                 \/ /\ free = least - 1
                    /\ RoundAt(free, sign, m, e, more, mode).n < 2 * hidden(f)
    IN  IF mag >= infinityUI(f, FALSE) THEN Overflowed(f, sign, mode)
        ELSE Result(zeroUI(f, sign) + mag,
                    (IF r.inexact THEN {"inexact"} ELSE {})
                      \union (IF r.inexact /\ tiny THEN {"underflow"} ELSE {}))

RoundedOrZero(f, x, mode) ==
    IF x.m = 0 THEN Exact(zeroUI(f, x.sign))
               ELSE Rounded(f, x.sign, x.m, x.e, FALSE, mode)

-----------------------------------------------------------------------------
top(x) == x.e + BitLength(x.m)

(* Below every bit of the other that the rounding looks at: of it only     *)
(* that it is not zero counts.                                             *)
extraBits(f, x) == IF BitLength(x.m) < f.frac + 4 THEN f.frac + 4 - BitLength(x.m) ELSE 0
Negligible(f, big, small) ==
    big.m # 0 /\ small.m # 0 /\ top(small) <= big.e - extraBits(f, big)

(* The exact sum fits the integers it is computed in.                      *)
SumFits(f, x, y) ==
    \/ x.m = 0 \/ y.m = 0 \/ Negligible(f, x, y) \/ Negligible(f, y, x)
    \/ (IF top(x) > top(y) THEN top(x) ELSE top(y))
         - (IF x.e < y.e THEN x.e ELSE y.e) <= 29

ExactSum(x, y) ==
    LET e == IF x.e < y.e THEN x.e ELSE y.e
        n == (IF x.sign THEN -1 ELSE 1) * x.m * 2^(x.e - e)
               + (IF y.sign THEN -1 ELSE 1) * y.m * 2^(y.e - e)
    IN  [inf |-> FALSE, sign |-> n < 0, m |-> IF n < 0 THEN -n ELSE n, e |-> e]

NearlyBig(f, big, small, mode) ==
    LET k == extraBits(f, big)
    IN  Rounded(f, big.sign,
                big.m * 2^k - (IF big.sign # small.sign THEN 1 ELSE 0), big.e - k,
                TRUE, mode)

SumOf(f, x, y, mode) ==
    LET s == ExactSum(x, y)
    IN  IF x.inf /\ y.inf /\ x.sign # y.sign THEN Invalid(f)
        ELSE IF x.inf THEN Exact(infinityUI(f, x.sign))
        ELSE IF y.inf THEN Exact(infinityUI(f, y.sign))
        ELSE IF x.m = 0 /\ y.m = 0 /\ x.sign = y.sign THEN Exact(zeroUI(f, x.sign))
        ELSE IF x.m = 0 THEN RoundedOrZero(f, [y EXCEPT !.sign = IF y.m = 0 THEN mode = "min" ELSE @], mode)
        ELSE IF y.m = 0 THEN RoundedOrZero(f, x, mode)
        ELSE IF Negligible(f, x, y) THEN NearlyBig(f, x, y, mode)
        ELSE IF Negligible(f, y, x) THEN NearlyBig(f, y, x, mode)
        ELSE IF s.m = 0 THEN Exact(zeroUI(f, mode = "min"))
        ELSE RoundedOrZero(f, s, mode)

IsZero(x) == ~x.inf /\ x.m = 0

ProductOf(x, y) ==
    [inf |-> x.inf \/ y.inf, sign |-> x.sign # y.sign,
     m |-> IF x.inf \/ y.inf THEN 0 ELSE x.m * y.m, e |-> x.e + y.e]
ZeroByInfinity(x, y) == (x.inf /\ IsZero(y)) \/ (y.inf /\ IsZero(x))

(* With the leading bit of the significand in place.                       *)
Normal(f, x) ==
    LET k == f.frac + 1 - BitLength(x.m)
    IN  [x EXCEPT !.m = @ * 2^k, !.e = @ - k]

QuotientOf(f, x, y, mode) ==
    LET a == Normal(f, x)
        b == Normal(f, y)
        n == a.m * 2^(f.frac + 4)
        sign == x.sign # y.sign
    IN  IF (x.inf /\ y.inf) \/ (IsZero(x) /\ IsZero(y)) THEN Invalid(f)
        ELSE IF x.inf THEN Exact(infinityUI(f, sign))
        ELSE IF y.inf \/ IsZero(x) THEN Exact(zeroUI(f, sign))
        ELSE IF IsZero(y) THEN Result(infinityUI(f, sign), {"infinite"})
        ELSE Rounded(f, sign, n \div b.m, a.e - b.e - f.frac - 4, n % b.m # 0, mode)

RootOf(f, x, mode) ==
    LET a == Normal(f, x)
        k == f.frac + 5 + ((a.e + f.frac + 5) % 2)
        n == a.m * 2^k
        r == IntegerRoot(n)
    IN  IF IsZero(x) THEN Exact(zeroUI(f, x.sign))
        ELSE IF x.sign THEN Invalid(f)
        ELSE IF x.inf THEN Exact(infinityUI(f, FALSE))
        ELSE Rounded(f, FALSE, r, (a.e - k) \div 2, r * r # n, mode)

(* x - n*y for the integer n nearest x/y, even if there are two.           *)
RemainderFits(x, y) == x.inf \/ y.inf \/ x.m = 0 \/ y.m = 0 \/ top(x) - y.e <= 28

RemainderOf(f, x, y, mode) ==
    LET e == IF x.e < y.e THEN x.e ELSE y.e
        a == x.m * 2^(x.e - e)
        b == y.m * 2^(y.e - e)
        n == a \div b
        below == a - n * b
        nearer == \/ 2 * below < b
                  \/ 2 * below = b /\ n % 2 = 0
        rem  == IF nearer THEN below ELSE b - below
        sign == x.sign # ~nearer
    IN  IF x.inf \/ IsZero(y) THEN Invalid(f)
        ELSE IF y.inf \/ IsZero(x) \/ top(x) < y.e - 1 THEN RoundedOrZero(f, x, mode)
        ELSE IF rem = 0 THEN Exact(zeroUI(f, x.sign))
        ELSE RoundedOrZero(f, [inf |-> FALSE, sign |-> sign, m |-> rem, e |-> e], mode)

(* Any NaN gives the default NaN; invalid if one was signaling.            *)
anyNaN(f, args)    == \E a \in args : isNaNUI(f, a)
anySigNaN(f, args) == \E a \in args : isSigNaNUI(f, a)
NaNResult(f, args) == Result(defaultNaNUI(f), IF anySigNaN(f, args) THEN {"invalid"} ELSE {})

Reference(f, op, a, b, c, mode) ==
    LET x == Value(f, a)
        y == Value(f, b)
        z == Value(f, c)
    IN  IF op = "mulAdd"
        THEN IF ~anyNaN(f, {a, b}) /\ ZeroByInfinity(x, y) THEN Invalid(f)
             ELSE IF anyNaN(f, {a, b, c}) THEN NaNResult(f, {a, b, c})
             ELSE SumOf(f, ProductOf(x, y), z, mode)
        ELSE IF op = "sqrt"
        THEN IF anyNaN(f, {a}) THEN NaNResult(f, {a}) ELSE RootOf(f, x, mode)
        ELSE IF anyNaN(f, {a, b}) THEN NaNResult(f, {a, b})
        ELSE CASE op = "add" -> SumOf(f, x, y, mode)
               [] op = "sub" -> SumOf(f, x, Negated(y), mode)
               [] op = "mul" -> IF ZeroByInfinity(x, y) THEN Invalid(f)
                                ELSE IF x.inf \/ y.inf
                                THEN Exact(infinityUI(f, x.sign # y.sign))
                                ELSE RoundedOrZero(f, ProductOf(x, y), mode)
               [] op = "div" -> QuotientOf(f, x, y, mode)
               [] op = "rem" -> RemainderOf(f, x, y, mode)

ReferenceFits(f, op, a, b, c) ==
    LET x == Value(f, a)
        y == Value(f, b)
    IN  CASE op = "mulAdd" -> \/ anyNaN(f, {a, b, c}) \/ x.inf \/ y.inf
                              \/ expUI(f, c) = expMax(f)
                              \/ SumFits(f, ProductOf(x, y), Value(f, c))
          [] op = "rem" -> RemainderFits(x, y)
          [] OTHER -> TRUE

-----------------------------------------------------------------------------
(* Estimates: x * est, or x * est^2, differs from 1 by what an error of    *)
(* less than 1/128 in est makes of it.                                     *)

(* m * 2^e against n, an integer.                                          *)
ScaledLess(m, e, n) == IF e >= 0 THEN m * 2^e < n ELSE m \div 2^(-e) < n
ScaledMore(m, e, n) == IF e >= 0 THEN m * 2^e > n ELSE (m - 1) \div 2^(-e) >= n

(* The bits below the seven of the estimate are zero.                      *)
Estimated(f, ui) ==
    LET v == Value(f, ui)
        k == IF v.m % 2^(f.frac - 7) = 0 THEN f.frac - 7
             ELSE IF v.m % 2^(f.frac - 9) = 0 THEN f.frac - 9 ELSE 0
    IN  [v EXCEPT !.m = @ \div 2^k, !.e = @ + k]

RootEstimateClose(f, a, r) ==
    LET x == Value(f, a)
        v == Estimated(f, r.ui)
        m == x.m * v.m * v.m
        e == x.e + 2 * v.e + 14
    IN  IF isNaNUI(f, a) THEN r = NaNResult(f, {a})
        ELSE IF IsZero(x) THEN r = Result(infinityUI(f, x.sign), {"infinite"})
        ELSE IF x.sign THEN r = Invalid(f)
        ELSE IF x.inf THEN r = Exact(0)
        ELSE /\ r.flags = {} /\ ~v.sign /\ ~v.inf
             /\ ScaledMore(m, e, 127 * 127) /\ ScaledLess(m, e, 129 * 129)

RecipEstimateClose(f, a, r, mode) ==
    LET x == Value(f, a)
        v == Estimated(f, r.ui)
        m == x.m * v.m
        e == x.e + v.e + 7
    IN  IF isNaNUI(f, a) THEN r = NaNResult(f, {a})
        ELSE IF IsZero(x) THEN r = Result(infinityUI(f, x.sign), {"infinite"})
        ELSE IF x.inf THEN r = Exact(zeroUI(f, x.sign))
        ELSE IF top(x) <= -bias(f) - 1 THEN r = Overflowed(f, x.sign, mode)
        ELSE /\ r.flags = {} /\ v.sign = x.sign /\ ~v.inf
             /\ ScaledMore(m, e, 127) /\ ScaledLess(m, e, 129)

-----------------------------------------------------------------------------
(* Conversions.                                                            *)

(* The integer nearest the number in the mode; what does not fit becomes   *)
(* the nearest that does, a NaN the greatest.                              *)
IntegerOf(f, width, isSigned, a, mode) ==
    LET x == Value(f, a)
        r == RoundAt(0, x.sign, x.m, x.e, FALSE, mode)
        n == IF x.sign THEN -r.n ELSE r.n
        most  == IF isSigned THEN 2^(width - 1) - 1 ELSE 2^width - 1
        least == IF isSigned THEN -(2^(width - 1)) ELSE 0
        flags == IF r.inexact THEN {"inexact"} ELSE {}
    IN  IF isNaNUI(f, a) THEN Result(most, {"invalid"})
        ELSE IF x.inf \/ top(x) > 30 \/ n > most \/ n < least
        THEN Result(IF x.sign THEN least ELSE most, {"invalid"})
        ELSE Result(n, flags)

IntegralOf(f, a, mode) ==
    LET x == Value(f, a)
        r == RoundAt(0, x.sign, x.m, x.e, FALSE, mode)
    IN  IF isNaNUI(f, a) THEN NaNResult(f, {a})
        ELSE IF x.inf \/ x.e >= 0 THEN Exact(a)
        ELSE Result(RoundedOrZero(f, [x EXCEPT !.m = r.n, !.e = 0], mode).ui,
                    IF r.inexact THEN {"inexact"} ELSE {})

FromInteger(g, n, mode) ==
    RoundedOrZero(g, [sign |-> n < 0, m |-> IF n < 0 THEN -n ELSE n, e |-> 0], mode)

Converted(f, g, a, mode) ==
    LET x == Value(f, a)
    IN  IF isNaNUI(f, a)
        THEN Result(defaultNaNUI(g), IF isSigNaNUI(f, a) THEN {"invalid"} ELSE {})
        ELSE IF x.inf THEN Exact(infinityUI(g, x.sign))
        ELSE RoundedOrZero(g, x, mode)

-----------------------------------------------------------------------------
(* Order.                                                                  *)

(* Numbers in their order; the two zeros are one.                          *)
Place(f, a) == IF signUI(f, a) THEN -magUI(f, a) ELSE magUI(f, a)
(* The same with -0 before 0.                                              *)
TotalPlace(f, a) == IF signUI(f, a) THEN -magUI(f, a) - 1 ELSE magUI(f, a)

Compared(f, op, a, b) ==
    LET quiet == op \in {"eq", "le_quiet", "lt_quiet"}
        holds == IF op \in {"eq", "eq_signaling"} THEN Place(f, a) = Place(f, b)
                 ELSE IF op \in {"le", "le_quiet"} THEN Place(f, a) <= Place(f, b)
                 ELSE Place(f, a) < Place(f, b)
    IN  IF anyNaN(f, {a, b})
        THEN Result(0, IF ~quiet \/ anySigNaN(f, {a, b}) THEN {"invalid"} ELSE {})
        ELSE Result(IF holds THEN 1 ELSE 0, {})

Extreme(f, op, a, b) ==
    LET numbers == {x \in {a, b} : ~isNaNUI(f, x)}
        first(x) == \A y \in numbers :
                      IF op = "min" THEN TotalPlace(f, x) <= TotalPlace(f, y)
                                    ELSE TotalPlace(f, x) >= TotalPlace(f, y)
    IN  Result(IF numbers = {} THEN defaultNaNUI(f)
               ELSE CHOOSE x \in numbers : first(x),
               IF anySigNaN(f, {a, b}) THEN {"invalid"} ELSE {})

(* The classes are numbered in the order of the numbers in them.           *)
ClassOf(f, a) ==
    LET limits == {1, hidden(f), infinityUI(f, FALSE)}
        above  == {l \in limits : l <= magUI(f, a)}
        rank   == IF above = limits THEN 3
                  ELSE IF hidden(f) \in above THEN 2
                  ELSE IF above # {} THEN 1 ELSE 0
    IN  IF isNaNUI(f, a) THEN IF isSigNaNUI(f, a) THEN 8 ELSE 9
        ELSE IF signUI(f, a) THEN 3 - rank ELSE 4 + rank
=============================================================================
