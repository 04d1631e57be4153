----------------------------- MODULE FloatConvert -----------------------------
(***************************************************************************)
(* The conversions and comparisons of src/softfloat: to an integral value, *)
(* to and from int32_t, int64_t and their unsigned forms, between formats, *)
(* the order of numbers, minimum and maximum, and the class of a number.   *)
(* As in SoftFloat, an operator of the format is the algorithm, and the    *)
(* functions named as in the source are its instances.                     *)
(*                                                                         *)
(* An integer is its value, in 0..2^w-1 if it is unsigned and in           *)
(* -2^(w-1)..2^(w-1)-1 if it is signed.                                    *)
(***************************************************************************)
EXTENDS SoftFloat

CONSTANT FracBits    \* bits below the point in what roundToI32 gets: 12

(* What a run states of FracBits (MCFloatUnit).                           *)
FracBitsAssumption == FracBits \in Nat \ {0, 1}

InexactIf(lost, exact) == IF lost /\ exact THEN {"inexact"} ELSE {}
signed(sign, z) == IF sign THEN -z ELSE z

fromPosOverflow(width, isSigned) == IF isSigned THEN 2^(width - 1) - 1 ELSE 2^width - 1
fromNegOverflow(width, isSigned) == IF isSigned THEN -(2^(width - 1)) ELSE 0

(* A NaN converts as what is too large does.                               *)
OutOfRange(width, isSigned, sign, isNaN) ==
    Result(IF sign /\ ~isNaN THEN fromNegOverflow(width, isSigned)
                             ELSE fromPosOverflow(width, isSigned), {"invalid"})

(* The magnitude z as an integer of that type, if there is one.            *)
InRange(width, isSigned, sign, z) ==
    IF isSigned THEN z < 2^(width - 1) + (IF sign THEN 1 ELSE 0)
                ELSE z < 2^width /\ (sign => z = 0)

ToRange(width, isSigned, sign, z, flags) ==
    IF InRange(width, isSigned, sign, z)
    THEN Result(signed(sign, z), flags)
    ELSE OutOfRange(width, isSigned, sign, FALSE)

-----------------------------------------------------------------------------
(* Rounding to an integer.                                                 *)

(* A number less than 1: the bits of 0 or 1, with its sign.                *)
roundFraction(f, uiA, mode) ==
    LET exp  == expUI(f, uiA)
        sign == signUI(f, uiA)
        up   == \/ /\ exp = bias(f) - 1
                   /\ mode \in {"near_even", "near_maxMag"}
                   /\ mode = "near_even" => fracUI(f, uiA) # 0
                \/ mode = "min" /\ sign
                \/ mode = "max" /\ ~sign
    IN  IF up THEN packToUI(f, sign, bias(f), 0) ELSE zeroUI(f, sign)

(* A carry out of the fraction goes into the exponent, as it should.       *)
roundToInt(f, uiA, mode, exact) ==
    LET exp  == expUI(f, uiA)
        bits == bias(f) + f.frac - exp
        uiZ  == 2^bits * RoundBits(uiA, signUI(f, uiA), bits, mode)
    IN  IF exp < bias(f)
        THEN IF isZeroUI(f, uiA) THEN Exact(uiA)
             ELSE Result(roundFraction(f, uiA, mode), InexactIf(TRUE, exact))
        ELSE IF bits <= 0
        THEN IF isNaNUI(f, uiA) THEN propagateNaN(f, uiA, 0) ELSE Exact(uiA)
        ELSE Result(uiZ, InexactIf(uiZ # uiA, exact))

f16_roundToInt(a, mode, exact) == roundToInt(F16, a, mode, exact)
f32_roundToInt(a, mode, exact) == roundToInt(F32, a, mode, exact)
f64_roundToInt(a, mode, exact) == roundToInt(F64, a, mode, exact)

(* sig is fixed point with FracBits bits below the point.                  *)
roundTo32(isSigned, sign, sig, mode, exact) ==
    ToRange(I32, isSigned, sign, RoundBits(sig, sign, FracBits, mode),
            InexactIf(sig % 2^FracBits # 0, exact))

softfloat_roundToI32(sign, sig, mode, exact)  == roundTo32(TRUE, sign, sig, mode, exact)
softfloat_roundToUI32(sign, sig, mode, exact) == roundTo32(FALSE, sign, sig, mode, exact)

(* Mutant: a tie rounds up even when that is odd. *)
roundTo64TieUp(isSigned, sign, sig, extra, mode, exact) ==
    LET up == CASE mode \in {"near_even", "near_maxMag"} -> extra \in {"half", "above"}
                [] mode = (IF sign THEN "min" ELSE "max") -> extra # "none"
                [] OTHER                                  -> FALSE
    IN  ToRange(I64, isSigned, sign, IF up THEN sig + 1 ELSE sig,
                InexactIf(extra # "none", exact))

(* sig is the integer part; extra is the rest against a half.              *)
roundTo64(isSigned, sign, sig, extra, mode, exact) ==
    LET doIncrement == CASE mode \in {"near_even", "near_maxMag"} -> extra \in {"half", "above"}
                         [] mode = (IF sign THEN "min" ELSE "max") -> extra # "none"
                         [] OTHER                                  -> FALSE
        z == IF ~doIncrement THEN sig
             ELSE IF mode = "near_even" /\ extra = "half" THEN 2 * ((sig + 1) \div 2)
             ELSE sig + 1
    IN  ToRange(I64, isSigned, sign, z, InexactIf(extra # "none", exact))

softfloat_roundToI64(sign, sig, extra, mode, exact) ==
    roundTo64(TRUE, sign, sig, extra, mode, exact)
softfloat_roundToUI64(sign, sig, extra, mode, exact) ==
    roundTo64(FALSE, sign, sig, extra, mode, exact)

(* The fraction with its leading bit, if the number is normal.             *)
sigUI(f, ui) == fracUI(f, ui) + (IF expUI(f, ui) = 0 THEN 0 ELSE hidden(f))

(* A NaN counts as positive, to overflow that way.                         *)
notNaNSign(f, ui) == signUI(f, ui) /\ ~isNaNUI(f, ui)

(* float32_t is first moved up by the width of the integer, so that the    *)
(* point is FracBits up when no shift is needed.                           *)
sigTo32(f, up, a) ==
    LET shiftDist == bias(f) + f.frac + up - FracBits - expUI(f, a)
        sig       == sigUI(f, a) * 2^up
    IN  IF shiftDist > 0 THEN shiftRightJam(sig, shiftDist) ELSE sig

f32_to_i32(a, mode, exact) ==
    softfloat_roundToI32(notNaNSign(F32, a), sigTo32(F32, I32, a), mode, exact)
f32_to_ui32(a, mode, exact) ==
    softfloat_roundToUI32(notNaNSign(F32, a), sigTo32(F32, I32, a), mode, exact)
f64_to_i32(a, mode, exact) ==
    softfloat_roundToI32(notNaNSign(F64, a), sigTo32(F64, 0, a), mode, exact)
f64_to_ui32(a, mode, exact) ==
    softfloat_roundToUI32(notNaNSign(F64, a), sigTo32(F64, 0, a), mode, exact)

(* The integer part of a number and the rest; a number of 2^I64 or more    *)
(* has none.                                                               *)
sigTo64(f, a) ==
    LET shiftDist == bias(f) + f.frac - expUI(f, a)
    IN  IF shiftDist <= 0 THEN [v |-> sigUI(f, a) * 2^(-shiftDist), extra |-> "none"]
                          ELSE shiftRightJamExtra(sigUI(f, a), shiftDist)
tooLargeFor64(f, a) == expUI(f, a) > bias(f) + I64 - 1

f32_to_i64(a, mode, exact) ==
    LET s == sigTo64(F32, a)
    IN  IF tooLargeFor64(F32, a)
        THEN OutOfRange(I64, TRUE, signUI(F32, a), isNaNUI(F32, a))
        ELSE softfloat_roundToI64(signUI(F32, a), s.v, s.extra, mode, exact)
f32_to_ui64(a, mode, exact) ==
    LET s == sigTo64(F32, a)
    IN  IF tooLargeFor64(F32, a)
        THEN OutOfRange(I64, FALSE, signUI(F32, a), isNaNUI(F32, a))
        ELSE softfloat_roundToUI64(signUI(F32, a), s.v, s.extra, mode, exact)
f64_to_i64(a, mode, exact) ==
    LET s == sigTo64(F64, a)
    IN  IF tooLargeFor64(F64, a)
        THEN OutOfRange(I64, TRUE, signUI(F64, a), isNaNUI(F64, a))
        ELSE softfloat_roundToI64(signUI(F64, a), s.v, s.extra, mode, exact)
f64_to_ui64(a, mode, exact) ==
    LET s == sigTo64(F64, a)
    IN  IF tooLargeFor64(F64, a)
        THEN OutOfRange(I64, FALSE, signUI(F64, a), isNaNUI(F64, a))
        ELSE softfloat_roundToUI64(signUI(F64, a), s.v, s.extra, mode, exact)

(* All finite float16_t fit int32_t: roundToI32 serves both widths.        *)
f16Shifted(a) ==
    LET shiftDist == expUI(F16, a) - (bias(F16) + F16.frac - FracBits)
    IN  IF expUI(F16, a) # 0 /\ shiftDist > 0
        THEN sigUI(F16, a) * 2^shiftDist ELSE sigUI(F16, a)
f16IsInteger(a) == expUI(F16, a) >= bias(F16) + F16.frac
f16Integer(a)   == sigUI(F16, a) * 2^(expUI(F16, a) - (bias(F16) + F16.frac))

f16_to_i(width, a, mode, exact) ==
    LET sign == signUI(F16, a)
    IN  IF expUI(F16, a) = expMax(F16)
        THEN OutOfRange(width, TRUE, sign, isNaNUI(F16, a))
        ELSE IF f16IsInteger(a) THEN Exact(signed(sign, f16Integer(a)))
        ELSE softfloat_roundToI32(sign, f16Shifted(a), mode, exact)
f16_to_ui(width, a, mode, exact) ==
    LET sign == signUI(F16, a)
    IN  IF expUI(F16, a) = expMax(F16)
        THEN OutOfRange(width, FALSE, sign, isNaNUI(F16, a))
        ELSE IF f16IsInteger(a) /\ ~sign THEN Exact(f16Integer(a))
        ELSE softfloat_roundToUI32(sign, f16Shifted(a), mode, exact)

f16_to_i32(a, mode, exact)  == f16_to_i(I32, a, mode, exact)
f16_to_i64(a, mode, exact)  == f16_to_i(I64, a, mode, exact)
f16_to_ui32(a, mode, exact) == f16_to_ui(I32, a, mode, exact)
f16_to_ui64(a, mode, exact) == f16_to_ui(I64, a, mode, exact)

(* A narrower integer, from the 32 bits: too large is invalid and nothing  *)
(* else.                                                                   *)
narrowed(width, isSigned, r) ==
    IF InRange(width, isSigned, r.ui < 0, IF r.ui < 0 THEN -r.ui ELSE r.ui)
    THEN r ELSE OutOfRange(width, isSigned, r.ui < 0, FALSE)

f16_to_i8(a, mode, exact)   == narrowed(I32 \div 4, TRUE, f16_to_i32(a, mode, exact))
f16_to_i16(a, mode, exact)  == narrowed(I32 \div 2, TRUE, f16_to_i32(a, mode, exact))
f32_to_i16(a, mode, exact)  == narrowed(I32 \div 2, TRUE, f32_to_i32(a, mode, exact))
f16_to_ui8(a, mode, exact)  == narrowed(I32 \div 4, FALSE, f16_to_ui32(a, mode, exact))
f16_to_ui16(a, mode, exact) == narrowed(I32 \div 2, FALSE, f16_to_ui32(a, mode, exact))
f32_to_ui16(a, mode, exact) == narrowed(I32 \div 2, FALSE, f32_to_ui32(a, mode, exact))

-----------------------------------------------------------------------------
(* Rounding towards zero, as casts in C do.  `fits' is the largest exponent *)
(* that is converted; beyond it only the least integer is.                 *)

truncated(f, a) ==
    LET shiftDist == bias(f) + f.frac - expUI(f, a)
    IN  IF shiftDist <= 0 THEN sigUI(f, a) * 2^(-shiftDist)
                          ELSE sigUI(f, a) \div 2^shiftDist
truncationLoses(f, a) ==
    LET shiftDist == bias(f) + f.frac - expUI(f, a)
    IN  shiftDist > 0 /\ sigUI(f, a) % 2^shiftDist # 0

toInt_r_minMag(f, width, isSigned, a, exact) ==
    LET exp  == expUI(f, a)
        sign == signUI(f, a)
        fits == bias(f) + width - (IF isSigned THEN 2 ELSE 1)
        isLeast == isSigned /\ sign /\ exp = fits + 1 /\ truncated(f, a) = 2^(width - 1)
    IN  IF exp < bias(f) THEN Result(0, InexactIf(~isZeroUI(f, a), exact))
        ELSE IF isLeast \/ (exp <= fits /\ (sign => isSigned))
        THEN Result(signed(sign, truncated(f, a)),
                    InexactIf(truncationLoses(f, a), exact))
        ELSE OutOfRange(width, isSigned, sign, isNaNUI(f, a))

(* Every finite float16_t fits: only its infinities and NaNs do not.       *)
f16ToInt_r_minMag(width, isSigned, a, exact) ==
    LET sign == signUI(F16, a)
    IN  IF expUI(F16, a) < bias(F16)
        THEN Result(0, InexactIf(~isZeroUI(F16, a), exact))
        ELSE IF expUI(F16, a) = expMax(F16) \/ (sign /\ ~isSigned)
        THEN OutOfRange(width, isSigned, sign, isNaNUI(F16, a))
        ELSE Result(signed(sign, truncated(F16, a)),
                    InexactIf(truncationLoses(F16, a), exact))

f16_to_i32_r_minMag(a, exact)  == f16ToInt_r_minMag(I32, TRUE, a, exact)
f16_to_ui32_r_minMag(a, exact) == f16ToInt_r_minMag(I32, FALSE, a, exact)
f16_to_i64_r_minMag(a, exact)  == f16ToInt_r_minMag(I64, TRUE, a, exact)
f16_to_ui64_r_minMag(a, exact) == f16ToInt_r_minMag(I64, FALSE, a, exact)
f32_to_i32_r_minMag(a, exact)  == toInt_r_minMag(F32, I32, TRUE, a, exact)
f32_to_ui32_r_minMag(a, exact) == toInt_r_minMag(F32, I32, FALSE, a, exact)
f32_to_i64_r_minMag(a, exact)  == toInt_r_minMag(F32, I64, TRUE, a, exact)
f32_to_ui64_r_minMag(a, exact) == toInt_r_minMag(F32, I64, FALSE, a, exact)
f64_to_i32_r_minMag(a, exact)  == toInt_r_minMag(F64, I32, TRUE, a, exact)
f64_to_ui32_r_minMag(a, exact) == toInt_r_minMag(F64, I32, FALSE, a, exact)
f64_to_i64_r_minMag(a, exact)  == toInt_r_minMag(F64, I64, TRUE, a, exact)
f64_to_ui64_r_minMag(a, exact) == toInt_r_minMag(F64, I64, FALSE, a, exact)
-----------------------------------------------------------------------------
(* From integers.                                                          *)

magnitude(a) == IF a < 0 THEN -a ELSE a

(* Into the fraction, if it fits, with its leading bit added to exp.       *)
packInteger(f, a) ==
    LET shiftDist == f.frac + 1 - BitLength(magnitude(a))
    IN  IF a = 0 THEN 0
        ELSE packToUI(f, a < 0, bias(f) + f.frac - 1 - shiftDist,
                      magnitude(a) * 2^shiftDist)

(* Into a fraction narrower than the integer.                              *)
fromWide(f, width, a) ==
    LET shiftDist == countLeadingZeros(width, magnitude(a)) - (width - f.frac - 1)
        up        == shiftDist + guard(f)
    IN  IF shiftDist >= 0 THEN Done(Exact(packInteger(f, a)))
        ELSE ToRound(a < 0, bias(f) + word(f) - 3 - up, shiftRightJam(magnitude(a), -up))

(* Into a format as wide as the integer.                                   *)
fromSameWidth(f, a) ==
    IF a >= leading(f) * 2
    THEN ToRound(FALSE, bias(f) + word(f) - 2, Jam(a \div 2, a % 2 = 1))
    ELSE normRoundPackTo(f, a < 0, bias(f) + word(f) - 3, magnitude(a))

i32_to_f16(a, mode)  == Finish16(fromWide(F16, I32, a), mode)
ui32_to_f16(a, mode) == Finish16(fromWide(F16, I32, a), mode)
i64_to_f16(a, mode)  == Finish16(fromWide(F16, I64, a), mode)
ui64_to_f16(a, mode) == Finish16(fromWide(F16, I64, a), mode)
i64_to_f32(a, mode)  == Finish32(fromWide(F32, I64, a), mode)
ui64_to_f32(a, mode) == Finish32(fromWide(F32, I64, a), mode)
i32_to_f64(a)        == Exact(packInteger(F64, a))
ui32_to_f64(a)       == Exact(packInteger(F64, a))

(* The least integer is packed at once.                                    *)
i32_to_f32(a, mode) ==
    IF a = 0 THEN Exact(0)
    ELSE IF a = -(2^(I32 - 1)) THEN Exact(packToUI(F32, TRUE, bias(F32) + I32 - 1, 0))
    ELSE Finish32(fromSameWidth(F32, a), mode)
i64_to_f64(a, mode) ==
    IF a = 0 THEN Exact(0)
    ELSE IF a = -(2^(I64 - 1)) THEN Exact(packToUI(F64, TRUE, bias(F64) + I64 - 1, 0))
    ELSE Finish64(fromSameWidth(F64, a), mode)
ui32_to_f32(a, mode) == IF a = 0 THEN Exact(0) ELSE Finish32(fromSameWidth(F32, a), mode)
ui64_to_f64(a, mode) == IF a = 0 THEN Exact(0) ELSE Finish64(fromSameWidth(F64, a), mode)

-----------------------------------------------------------------------------
(* Between formats.                                                        *)

widen(f, g, a) ==
    LET n   == normSubnormalSig(f, fracUI(f, a))
        exp == IF expUI(f, a) = 0 THEN n.exp - 1 ELSE expUI(f, a)
        sig == IF expUI(f, a) = 0 THEN n.sig ELSE fracUI(f, a)
    IN  IF isNaNUI(f, a) THEN commonNaN(f, a, g)
        ELSE IF isInfUI(f, a) THEN Exact(infinityUI(g, signUI(f, a)))
        ELSE IF isZeroUI(f, a) THEN Exact(zeroUI(g, signUI(f, a)))
        ELSE Exact(packToUI(g, signUI(f, a), exp + bias(g) - bias(f),
                            sig * 2^(g.frac - f.frac)))

(* A subnormal is far below the least number of the narrower format, so    *)
(* that the leading bit it gets here does no harm.                         *)
narrow(f, g, a) ==
    LET frac == shiftRightJam(fracUI(f, a), f.frac - (g.frac + guard(g)))
        sign == signUI(f, a)
    IN  IF isNaNUI(f, a) THEN Done(commonNaN(f, a, g))
        ELSE IF isInfUI(f, a) THEN Done(Exact(infinityUI(g, sign)))
        ELSE IF isZeroUI(f, a) THEN Done(Exact(zeroUI(g, sign)))
        ELSE ToRound(sign, expUI(f, a) - (bias(f) - bias(g) + 1), leading(g) + frac)

f16_to_f32(a) == widen(F16, F32, a)
f16_to_f64(a) == widen(F16, F64, a)
f32_to_f64(a) == widen(F32, F64, a)
f32_to_f16(a, mode) == Finish16(narrow(F32, F16, a), mode)
f64_to_f16(a, mode) == Finish16(narrow(F64, F16, a), mode)
f64_to_f32(a, mode) == Finish32(narrow(F64, F32, a), mode)

-----------------------------------------------------------------------------
(* Comparison: no order with a NaN; the two zeros are equal.               *)

areZeros(f, a, b) == isZeroUI(f, a) /\ isZeroUI(f, b)

equalUI(f, a, b) == a = b \/ areZeros(f, a, b)
(* Mutant: -0 is less than 0. *)
lessUIZeros(f, a, b) ==
    IF signUI(f, a) # signUI(f, b)
    THEN signUI(f, a)
    ELSE a # b /\ (signUI(f, a) # (a < b))

lessUI(f, a, b) ==
    IF signUI(f, a) # signUI(f, b)
    THEN signUI(f, a) /\ ~areZeros(f, a, b)
    ELSE a # b /\ (signUI(f, a) # (a < b))
lessEqualUI(f, a, b) ==
    IF signUI(f, a) # signUI(f, b)
    THEN signUI(f, a) \/ areZeros(f, a, b)
    ELSE a = b \/ (signUI(f, a) # (a < b))

Truth(holds, flags) == Result(IF holds THEN 1 ELSE 0, flags)

(* A signaling comparison objects to any NaN, a quiet one to signaling     *)
(* ones.                                                                   *)
compared(f, a, b, holds, signaling) ==
    IF isNaNUI(f, a) \/ isNaNUI(f, b)
    THEN Truth(FALSE, IF signaling \/ isSigNaNUI(f, a) \/ isSigNaNUI(f, b)
                      THEN {"invalid"} ELSE {})
    ELSE Truth(holds, {})

eq(f, a, b)           == compared(f, a, b, equalUI(f, a, b), FALSE)
eq_signaling(f, a, b) == compared(f, a, b, equalUI(f, a, b), TRUE)
le(f, a, b)           == compared(f, a, b, lessEqualUI(f, a, b), TRUE)
le_quiet(f, a, b)     == compared(f, a, b, lessEqualUI(f, a, b), FALSE)
lt(f, a, b)           == compared(f, a, b, lessUI(f, a, b), TRUE)
lt_quiet(f, a, b)     == compared(f, a, b, lessUI(f, a, b), FALSE)

f16_eq(a, b) == eq(F16, a, b)
f32_eq(a, b) == eq(F32, a, b)
f64_eq(a, b) == eq(F64, a, b)
f16_eq_signaling(a, b) == eq_signaling(F16, a, b)
f32_eq_signaling(a, b) == eq_signaling(F32, a, b)
f64_eq_signaling(a, b) == eq_signaling(F64, a, b)
f16_le(a, b) == le(F16, a, b)
f32_le(a, b) == le(F32, a, b)
f64_le(a, b) == le(F64, a, b)
f16_le_quiet(a, b) == le_quiet(F16, a, b)
f32_le_quiet(a, b) == le_quiet(F32, a, b)
f64_le_quiet(a, b) == le_quiet(F64, a, b)
f16_lt(a, b) == lt(F16, a, b)
f32_lt(a, b) == lt(F32, a, b)
f64_lt(a, b) == lt(F64, a, b)
f16_lt_quiet(a, b) == lt_quiet(F16, a, b)
f32_lt_quiet(a, b) == lt_quiet(F32, a, b)
f64_lt_quiet(a, b) == lt_quiet(F64, a, b)

(* The lesser, -0 before 0, a number before a NaN.                         *)
minOf(f, a, b) ==
    LET before == lt_quiet(f, a, b)
        same == eq(f, a, b)
        less == before.ui = 1 \/ (same.ui = 1 /\ signUI(f, a))
    IN  Result(IF isNaNUI(f, a) /\ isNaNUI(f, b) THEN defaultNaNUI(f)
               ELSE IF less \/ isNaNUI(f, b) THEN a ELSE b,
               before.flags \union same.flags)
maxOf(f, a, b) ==
    LET before == lt_quiet(f, b, a)
        same == eq(f, b, a)
        greater == before.ui = 1 \/ (same.ui = 1 /\ signUI(f, b))
    IN  Result(IF isNaNUI(f, a) /\ isNaNUI(f, b) THEN defaultNaNUI(f)
               ELSE IF greater \/ isNaNUI(f, b) THEN a ELSE b,
               before.flags \union same.flags)

f16_min(a, b) == minOf(F16, a, b)
f16_max(a, b) == maxOf(F16, a, b)
fmin_s(a, b)  == minOf(F32, a, b)
fmax_s(a, b)  == maxOf(F32, a, b)
fmin_d(a, b)  == minOf(F64, a, b)
fmax_d(a, b)  == maxOf(F64, a, b)

(* The bit of the class, as fclass.s and fclass.d give it.                 *)
classify(f, a) ==
    LET kind == IF expUI(f, a) = expMax(f) THEN "infinite"
                ELSE IF expUI(f, a) # 0 THEN "normal"
                ELSE IF fracUI(f, a) # 0 THEN "subnormal" ELSE "zero"
        bit  == [infinite |-> 0, normal |-> 1, subnormal |-> 2, zero |-> 3]
    IN  IF isNaNUI(f, a) THEN IF isSigNaNUI(f, a) THEN 8 ELSE 9
        ELSE IF signUI(f, a) THEN bit[kind] ELSE 7 - bit[kind]

f16_classify(a) == Exact(classify(F16, a))
f32_classify(a) == Exact(classify(F32, a))
f64_classify(a) == Exact(classify(F64, a))

f16_isSignalingNaN(a) == Truth(isSigNaNUI(F16, a), {})
f32_isSignalingNaN(a) == Truth(isSigNaNUI(F32, a), {})
f64_isSignalingNaN(a) == Truth(isSigNaNUI(F64, a), {})
=============================================================================
