----------------------------- MODULE FloatEstimate -----------------------------
(***************************************************************************)
(* The estimates of 1/x and 1/sqrt(x) to seven bits (fall_reciprocal.c):   *)
(* a table gives the leading bits of the result's fraction, the exponent   *)
(* is mirrored.  A format needs at least seven bits of fraction.           *)
(***************************************************************************)
EXTENDS FloatConvert

estimateBits == 7

rsqrte7Table == <<
     52,  51,  50,  48,  47,  46,  44,  43,  42,  41,  40,  39,  38,  36,  35,  34,
     33,  32,  31,  30,  30,  29,  28,  27,  26,  25,  24,  23,  23,  22,  21,  20,
     19,  19,  18,  17,  16,  16,  15,  14,  14,  13,  12,  12,  11,  10,  10,   9,
      9,   8,   7,   7,   6,   6,   5,   4,   4,   3,   3,   2,   2,   1,   1,   0,
    127, 125, 123, 121, 119, 118, 116, 114, 113, 111, 109, 108, 106, 105, 103, 102,
    100,  99,  97,  96,  95,  93,  92,  91,  90,  88,  87,  86,  85,  84,  83,  82,
     80,  79,  78,  77,  76,  75,  74,  73,  72,  71,  70,  70,  69,  68,  67,  66,
     65,  64,  63,  63,  62,  61,  60,  59,  59,  58,  57,  56,  56,  55,  54,  53 >>

recip7Table == <<
    127, 125, 123, 121, 119, 117, 116, 114, 112, 110, 109, 107, 105, 104, 102, 100,
     99,  97,  96,  94,  93,  91,  90,  88,  87,  85,  84,  83,  81,  80,  79,  77,
     76,  75,  74,  72,  71,  70,  69,  68,  66,  65,  64,  63,  62,  61,  60,  59,
     58,  57,  56,  55,  54,  53,  52,  51,  50,  49,  48,  47,  46,  45,  44,  43,
     42,  41,  40,  40,  39,  38,  37,  36,  35,  35,  34,  33,  32,  31,  31,  30,
     29,  28,  28,  27,  26,  25,  25,  24,  23,  23,  22,  21,  21,  20,  19,  19,
     18,  17,  17,  16,  15,  15,  14,  14,  13,  12,  12,  11,  11,  10,   9,   9,
      8,   8,   7,   7,   6,   5,   5,   4,   4,   3,   3,   2,   2,   1,   1,   0 >>

(* A subnormal is shifted until its leading bit can be dropped; each place *)
(* but the last is one off its exponent, which may become negative.        *)
estimateExp(f, ui) ==
    IF expUI(f, ui) = 0 THEN BitLength(fracUI(f, ui)) - f.frac ELSE expUI(f, ui)
estimateSig(f, ui) ==
    IF expUI(f, ui) = 0
    THEN (fracUI(f, ui) * 2^(f.frac - BitLength(fracUI(f, ui)) + 1)) % hidden(f)
    ELSE fracUI(f, ui)

tableSig(f, entry) == entry * 2^(f.frac - estimateBits)

rsqrte7(f, ui) ==
    LET exp == estimateExp(f, ui)
        idx == (exp % 2) * 2^(estimateBits - 1)
                 + estimateSig(f, ui) \div 2^(f.frac - estimateBits + 1)
    IN  packToUI(f, signUI(f, ui), (3 * bias(f) - 1 - exp) \div 2,
                 tableSig(f, rsqrte7Table[idx + 1]))

rsqrte(f, a) ==
    LET class == classify(f, a)
    IN  CASE class \in {0, 1, 2, 8} -> Invalid(f)
          [] class = 9 -> Exact(defaultNaNUI(f))
          [] class \in {3, 4} -> Result(infinityUI(f, class = 3), {"infinite"})
          [] class = 7 -> Exact(0)
          [] OTHER     -> Exact(rsqrte7(f, a))

(* Of a number too small for its reciprocal: infinity, or the greatest     *)
(* number if the mode leads there.                                         *)
tooSmall(f, ui) == expUI(f, ui) = 0 /\ estimateExp(f, ui) \notin {0, -1}
largest(f, sign, mode) ==
    infinityUI(f, sign)
      - (IF mode \in {"minMag", IF sign THEN "max" ELSE "min"} THEN 1 ELSE 0)

(* A reciprocal below the normal numbers is shifted down to its place.     *)
recip7(f, ui) ==
    LET out == 2 * bias(f) - 1 - estimateExp(f, ui)
        sig == tableSig(f, recip7Table[(estimateSig(f, ui) \div 2^(f.frac - estimateBits)) + 1])
        one == sig \div 2 + hidden(f) \div 2       \* with the leading bit
    IN  packToUI(f, signUI(f, ui), IF out = -1 THEN 0 ELSE out,
                 CASE out = 0 -> one [] out = -1 -> one \div 2 [] OTHER -> sig)

recip(f, a, mode) ==
    LET class == classify(f, a)
    IN  CASE class = 0 -> Exact(zeroUI(f, TRUE))
          [] class = 7 -> Exact(zeroUI(f, FALSE))
          [] class \in {3, 4} -> Result(infinityUI(f, class = 3), {"infinite"})
          [] class = 8 -> Invalid(f)
          [] class = 9 -> Exact(defaultNaNUI(f))
          [] OTHER -> IF tooSmall(f, a)
                      THEN Result(largest(f, signUI(f, a), mode), {"inexact", "overflow"})
                      ELSE Exact(recip7(f, a))

f16_rsqrte7(a) == rsqrte(F16, a)
f32_rsqrte7(a) == rsqrte(F32, a)
f64_rsqrte7(a) == rsqrte(F64, a)
f16_recip7(a, mode) == recip(F16, a, mode)
f32_recip7(a, mode) == recip(F32, a, mode)
f64_recip7(a, mode) == recip(F64, a, mode)
=============================================================================
