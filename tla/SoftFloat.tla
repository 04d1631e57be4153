------------------------------ MODULE SoftFloat ------------------------------
(***************************************************************************)
(* The arithmetic of src/softfloat: rounding and packing, add, subtract,   *)
(* multiply, divide, square root, remainder, multiply-add.                 *)
(*                                                                         *)
(* A C function ends with its result, or hands a sign, an exponent and a   *)
(* significand to roundPackToF<n>.  The algorithm, the same for all        *)
(* formats, is an operator of the format that ends the same two ways, and  *)
(* the function of one format, named as in the source, finishes it.        *)
(***************************************************************************)
EXTENDS FloatFormat

Done(result) == [done |-> TRUE, result |-> result]
ToRound(sign, exp, sig) ==
    [done |-> FALSE, sign |-> sign, exp |-> exp, sig |-> sig]

-----------------------------------------------------------------------------
(* Rounding and packing.                                                   *)

(* With its leading bit, or the same number without it.                    *)
ToRoundLeading(f, sign, exp, sig) ==
    IF sig < leading(f) THEN ToRound(sign, exp - 1, 2 * sig) ELSE ToRound(sign, exp, sig)

(* Half of the last place is 2^(bits-1): what is added before the bits are *)
(* cut off.                                                                *)
roundIncrement(sign, bits, mode) ==
    CASE mode \in {"near_even", "near_maxMag"}    -> 2^(bits - 1)
      [] mode = (IF sign THEN "min" ELSE "max")   -> 2^bits - 1
      [] OTHER                                    -> 0

(* The significand is cut off by `bits' bits; a tie goes to even.          *)
RoundBits(sig, sign, bits, mode) ==
    LET z == (sig + roundIncrement(sign, bits, mode)) \div 2^bits
    IN  IF mode = "near_even" /\ sig % 2^bits = 2^(bits - 1) THEN 2 * (z \div 2) ELSE z

roundPackTo(f, sign, exp, sig, mode) ==
    LET increment == roundIncrement(sign, guard(f), mode)
        carries   == sig + increment >= 2^(word(f) - 1)
        isTiny    == exp < -1 \/ (exp = -1 /\ ~carries)
        s         == IF exp < 0 THEN shiftRightJam(sig, -exp) ELSE sig
        inexact   == s % 2^guard(f) # 0
        z         == IF mode = "odd" THEN Jam(s \div 2^guard(f), inexact)
                                     ELSE RoundBits(s, sign, guard(f), mode)
    IN  IF exp > expMax(f) - 2 \/ (exp = expMax(f) - 2 /\ carries)
        THEN Result(infinityUI(f, sign) - (IF increment = 0 THEN 1 ELSE 0),
                    {"overflow", "inexact"})
        ELSE Result(packToUI(f, sign, IF exp < 0 \/ z = 0 THEN 0 ELSE exp, z),
                    (IF inexact THEN {"inexact"} ELSE {})
                      \union (IF inexact /\ isTiny THEN {"underflow"} ELSE {}))

softfloat_roundPackToF16(sign, exp, sig, mode) == roundPackTo(F16, sign, exp, sig, mode)
softfloat_roundPackToF32(sign, exp, sig, mode) == roundPackTo(F32, sign, exp, sig, mode)
softfloat_roundPackToF64(sign, exp, sig, mode) == roundPackTo(F64, sign, exp, sig, mode)

Finish16(p, mode) ==
    IF p.done THEN p.result ELSE softfloat_roundPackToF16(p.sign, p.exp, p.sig, mode)
Finish32(p, mode) ==
    IF p.done THEN p.result ELSE softfloat_roundPackToF32(p.sign, p.exp, p.sig, mode)
Finish64(p, mode) ==
    IF p.done THEN p.result ELSE softfloat_roundPackToF64(p.sign, p.exp, p.sig, mode)

(* Normalises first; packs at once what has no bits to round.              *)
normRoundPackTo(f, sign, exp, sig) ==
    LET shiftDist == countLeadingZeros(word(f), sig) - 1
        expZ      == exp - shiftDist
    IN  IF guard(f) <= shiftDist /\ expZ \in 0..(expMax(f) - 3)
        THEN Done(Exact(packToUI(f, sign, IF sig = 0 THEN 0 ELSE expZ,
                                 sig * 2^(shiftDist - guard(f)))))
        ELSE ToRound(sign, expZ, sig * 2^shiftDist)

softfloat_normRoundPackToF16(sign, exp, sig, mode) ==
    Finish16(normRoundPackTo(F16, sign, exp, sig), mode)
softfloat_normRoundPackToF32(sign, exp, sig, mode) ==
    Finish32(normRoundPackTo(F32, sign, exp, sig), mode)
softfloat_normRoundPackToF64(sign, exp, sig, mode) ==
    Finish64(normRoundPackTo(F64, sign, exp, sig), mode)

-----------------------------------------------------------------------------
(* Addition and subtraction of magnitudes; signA is the sign of the first. *)

(* Mutant: a subnormal is taken to have exponent 0. *)
SignificandHalved(f, ui) ==
    IF expUI(f, ui) = 0 THEN fracUI(f, ui) ELSE hidden(f) + fracUI(f, ui)

(* A fraction with its leading bit, or twice the fraction when that is     *)
(* missing: its exponent is 1, and the caller shifts as if it were 0.      *)
Significand(f, ui) ==
    IF expUI(f, ui) = 0 THEN 2 * fracUI(f, ui) ELSE hidden(f) + fracUI(f, ui)

addMags(f, uiA, uiB, signA, packsExact) ==
    LET expA  == expUI(f, uiA)
        expB  == expUI(f, uiB)
        big   == IF expA < expB THEN uiB ELSE uiA
        small == IF expA < expB THEN uiA ELSE uiB
        expZ  == expUI(f, big)
        unit  == 2^(guard(f) - 1)
        sum   == 2 * hidden(f) + fracUI(f, uiA) + fracUI(f, uiB)
        sig   == unit * (hidden(f) + fracUI(f, big))
                   + shiftRightJam(unit * Significand(f, small), expZ - expUI(f, small))
    IN  IF isNaNUI(f, uiA) \/ isNaNUI(f, uiB) THEN Done(propagateNaN(f, uiA, uiB))
        ELSE IF isInfUI(f, big) THEN Done(Exact(infinityUI(f, signA)))
        ELSE IF expZ = 0 THEN Done(Exact(uiA + fracUI(f, uiB)))
        ELSE IF expA # expB
        THEN ToRoundLeading(f, signA, expZ, sig)
        ELSE IF packsExact /\ sum % 2 = 0 /\ expZ < expMax(f) - 1
        THEN Done(Exact(packToUI(f, signA, expZ, sum \div 2)))
        ELSE ToRound(signA, expZ, sum * unit)

(* Of two operands with one exponent: the difference is exact.             *)
subSameExp(f, uiA, uiB, signA, mode) ==
    LET sigDiff   == fracUI(f, uiA) - fracUI(f, uiB)
        magDiff   == IF sigDiff < 0 THEN -sigDiff ELSE sigDiff
        expA      == IF expUI(f, uiA) = 0 THEN 0 ELSE expUI(f, uiA) - 1
        shiftDist == countLeadingZeros(word(f), magDiff) - f.exp
        signZ     == signA # (sigDiff < 0)
    IN  IF sigDiff = 0 THEN Exact(zeroUI(f, mode = "min"))
        ELSE IF expA < shiftDist
        THEN Exact(packToUI(f, signZ, 0, magDiff * 2^expA))
        ELSE Exact(packToUI(f, signZ, expA - shiftDist, magDiff * 2^shiftDist))

subMags(f, uiA, uiB, signA, mode) ==
    LET expA  == expUI(f, uiA)
        expB  == expUI(f, uiB)
        big   == IF expA < expB THEN uiB ELSE uiA
        small == IF expA < expB THEN uiA ELSE uiB
        signZ == signA # (expA < expB)
        unit  == 2^guard(f)
    IN  IF isNaNUI(f, uiA) \/ isNaNUI(f, uiB) THEN Done(propagateNaN(f, uiA, uiB))
        ELSE IF isInfUI(f, uiA) /\ isInfUI(f, uiB) THEN Done(Invalid(f))
        ELSE IF isInfUI(f, big) THEN Done(Exact(infinityUI(f, signZ)))
        ELSE IF expA = expB THEN Done(subSameExp(f, uiA, uiB, signA, mode))
        ELSE normRoundPackTo(f, signZ, expUI(f, big) - 1,
               unit * (hidden(f) + fracUI(f, big))
                 - shiftRightJam(unit * Significand(f, small),
                                 expUI(f, big) - expUI(f, small)))

softfloat_addMagsF32(uiA, uiB, mode) ==
    Finish32(addMags(F32, uiA, uiB, signUI(F32, uiA), TRUE), mode)
softfloat_subMagsF32(uiA, uiB, mode) ==
    Finish32(subMags(F32, uiA, uiB, signUI(F32, uiA), mode), mode)
softfloat_addMagsF64(uiA, uiB, signA, mode) ==
    Finish64(addMags(F64, uiA, uiB, signA, FALSE), mode)
softfloat_subMagsF64(uiA, uiB, signA, mode) ==
    Finish64(subMags(F64, uiA, uiB, signA, mode), mode)

f32_add(a, b, mode) ==
    IF signUI(F32, a) # signUI(F32, b) THEN softfloat_subMagsF32(a, b, mode)
                                       ELSE softfloat_addMagsF32(a, b, mode)
f32_sub(a, b, mode) ==
    IF signUI(F32, a) # signUI(F32, b) THEN softfloat_addMagsF32(a, b, mode)
                                       ELSE softfloat_subMagsF32(a, b, mode)
f64_add(a, b, mode) ==
    IF signUI(F64, a) = signUI(F64, b)
    THEN softfloat_addMagsF64(a, b, signUI(F64, a), mode)
    ELSE softfloat_subMagsF64(a, b, signUI(F64, a), mode)
f64_sub(a, b, mode) ==
    IF signUI(F64, a) = signUI(F64, b)
    THEN softfloat_subMagsF64(a, b, signUI(F64, a), mode)
    ELSE softfloat_addMagsF64(a, b, signUI(F64, a), mode)

-----------------------------------------------------------------------------
(* float16_t aligns the operands in a word twice as wide, and takes a      *)
(* short way when the smaller is less than a quarter of the last place.    *)

(* uiZ plus (minus) something too small to show but in the rounding.       *)
addEpsilon(f, uiZ, mode) ==
    LET away  == mode = (IF signUI(f, uiZ) THEN "min" ELSE "max")
        z     == IF away THEN uiZ + 1 ELSE IF mode = "odd" THEN Jam(uiZ, TRUE) ELSE uiZ
    IN  Result(z, {"inexact"}
                    \union (IF away /\ isInfUI(f, z) THEN {"overflow"} ELSE {}))

subEpsilon(f, uiZ, mode) ==
    LET toZero == mode \in {"minMag", IF signUI(f, uiZ) THEN "max" ELSE "min"}
    IN  Result(IF toZero THEN uiZ - 1
               ELSE IF mode = "odd" THEN Jam(uiZ - 1, TRUE) ELSE uiZ, {"inexact"})

farApart(f) == f.frac + 3

(* The double word's upper half with the rest jammed into it, packed at    *)
(* once when no bit is left to round.                                      *)
RoundDouble(f, sign, exp, sigDouble) ==
    LET sig == shiftRightJam(sigDouble, word(f))
    IN  IF sigDouble % 2^(word(f) + guard(f)) = 0 /\ exp \in 0..(expMax(f) - 2)
        THEN Done(Exact(packToUI(f, sign, exp, sig \div 2^guard(f))))
        ELSE ToRound(sign, exp, sig)

softfloat_addMagsF16(uiA, uiB, mode) ==
    LET f     == F16
        expA  == expUI(f, uiA)
        expB  == expUI(f, uiB)
        signZ == signUI(f, uiA)
        big   == IF expA < expB THEN uiB ELSE uiA
        small == IF expA < expB THEN uiA ELSE uiB
        expZ  == expUI(f, big)
        dist  == expZ - expUI(f, small)
        sum   == 2 * hidden(f) + fracUI(f, uiA) + fracUI(f, uiB)
        far   == packToUI(f, signZ, expZ, fracUI(f, big))
        align == word(f) + 3
        sigDouble == (hidden(f) + fracUI(f, big)) * 2^align
                       + Significand(f, small) * 2^(align - dist)
    IN  IF isNaNUI(f, uiA) \/ isNaNUI(f, uiB) THEN propagateNaN(f, uiA, uiB)
        ELSE IF isInfUI(f, big) THEN Exact(infinityUI(f, signZ))
        ELSE IF expZ = 0 THEN Exact(uiA + fracUI(f, uiB))
        ELSE IF dist = 0
        THEN IF sum % 2 = 0 /\ expZ < expMax(f) - 1
             THEN Exact(packToUI(f, signZ, expZ, sum \div 2))
             ELSE softfloat_roundPackToF16(signZ, expZ, sum * 2^(guard(f) - 1), mode)
        ELSE IF dist >= farApart(f)
        THEN IF isZeroUI(f, small) THEN Exact(far) ELSE addEpsilon(f, far, mode)
        ELSE IF sigDouble < 2^(2 * word(f) - 2)
        THEN Finish16(RoundDouble(f, signZ, expZ - 1, 2 * sigDouble), mode)
        ELSE Finish16(RoundDouble(f, signZ, expZ, sigDouble), mode)

softfloat_subMagsF16(uiA, uiB, mode) ==
    LET f     == F16
        expA  == expUI(f, uiA)
        expB  == expUI(f, uiB)
        signZ == signUI(f, uiA) # (expA < expB)
        big   == IF expA < expB THEN uiB ELSE uiA
        small == IF expA < expB THEN uiA ELSE uiB
        dist  == expUI(f, big) - expUI(f, small)
        far   == packToUI(f, signZ, expUI(f, big), fracUI(f, big))
        diff  == (hidden(f) + fracUI(f, big)) * 2^dist - Significand(f, small)
        shiftDist == countLeadingZeros(2 * word(f), diff) - 1
    IN  IF isNaNUI(f, uiA) \/ isNaNUI(f, uiB) THEN propagateNaN(f, uiA, uiB)
        ELSE IF isInfUI(f, uiA) /\ isInfUI(f, uiB) THEN Invalid(f)
        ELSE IF isInfUI(f, big) THEN Exact(infinityUI(f, signZ))
        ELSE IF dist = 0 THEN subSameExp(f, uiA, uiB, signUI(f, uiA), mode)
        ELSE IF dist >= farApart(f)
        THEN IF isZeroUI(f, small) THEN Exact(far) ELSE subEpsilon(f, far, mode)
        ELSE Finish16(RoundDouble(f, signZ,
                                  expUI(f, small) + word(f) + 3 - shiftDist,
                                  diff * 2^shiftDist), mode)

f16_add(a, b, mode) ==
    IF signUI(F16, a) # signUI(F16, b) THEN softfloat_subMagsF16(a, b, mode)
                                       ELSE softfloat_addMagsF16(a, b, mode)
f16_sub(a, b, mode) ==
    IF signUI(F16, a) # signUI(F16, b) THEN softfloat_addMagsF16(a, b, mode)
                                       ELSE softfloat_subMagsF16(a, b, mode)
-----------------------------------------------------------------------------
(* Multiplication and division.                                            *)

mul(f, a, b) ==
    LET signZ == signUI(f, a) # signUI(f, b)
        A     == Unpack(f, a)
        B     == Unpack(f, b)
        expZ  == A.exp + B.exp - bias(f)
        sigZ  == shiftRightJam(A.sig * B.sig, f.frac + 2 - f.exp)
    IN  IF isNaNUI(f, a) \/ isNaNUI(f, b) THEN Done(propagateNaN(f, a, b))
        ELSE IF isInfUI(f, a) \/ isInfUI(f, b)
        THEN IF isZeroUI(f, a) \/ isZeroUI(f, b)
             THEN Done(Invalid(f)) ELSE Done(Exact(infinityUI(f, signZ)))
        ELSE IF isZeroUI(f, a) \/ isZeroUI(f, b) THEN Done(Exact(zeroUI(f, signZ)))
        ELSE ToRoundLeading(f, signZ, expZ, sigZ)

f16_mul(a, b, mode) == Finish16(mul(F16, a, b), mode)
f32_mul(a, b, mode) == Finish32(mul(F32, a, b), mode)
f64_mul(a, b, mode) == Finish64(mul(F64, a, b), mode)

(* A quotient or a root is estimated from a table to within a few units,   *)
(* then moved up so that it is not below the exact value.  Only when its   *)
(* low bits say that it may have passed a multiple of `half', where the    *)
(* rounding changes, is that multiple compared with the exact value:       *)
(* excess is negative, 0 or positive as it is below, at or above that.     *)
LowCleared(estimate, half) == half * (estimate \div half)

Corrected(estimate, half, near, down, excess) ==
    IF estimate % half >= near THEN estimate
    ELSE IF excess > 0 THEN LowCleared(estimate, half) - down
    ELSE Jam(LowCleared(estimate, half), excess < 0)

(* The operands of a division that need no division; TRUE if none of them. *)
DivSpecial(f, a, b) ==
    LET signZ == signUI(f, a) # signUI(f, b)
    IN  IF isNaNUI(f, a) \/ isNaNUI(f, b) THEN propagateNaN(f, a, b)
        ELSE IF isInfUI(f, a)
        THEN IF isInfUI(f, b) THEN Invalid(f) ELSE Exact(infinityUI(f, signZ))
        ELSE IF isInfUI(f, b) THEN Exact(zeroUI(f, signZ))
        ELSE IF isZeroUI(f, b)
        THEN IF isZeroUI(f, a) THEN Invalid(f)
                               ELSE Result(infinityUI(f, signZ), {"infinite"})
        ELSE Exact(zeroUI(f, signZ))

IsOrdinary(f, ui) == expUI(f, ui) # expMax(f) /\ ~isZeroUI(f, ui)

(* The quotient's sign and exponent, and the dividend shifted so that the  *)
(* quotient has its leading bit where roundPackTo wants it.                *)
DivScaled(f, a, b) ==
    LET A == Unpack(f, a)
        B == Unpack(f, b)
        less == IF A.sig < B.sig THEN 1 ELSE 0
    IN  [sign |-> signUI(f, a) # signUI(f, b),
         exp  |-> A.exp - B.exp + bias(f) - 1 - less,
         sigA |-> A.sig, sigB |-> B.sig,
         shift |-> word(f) - 2 + less]

(* The 64-bit division of SOFTFLOAT_FAST_DIV64TO32.                        *)
f32_div(a, b, mode) ==
    LET d == DivScaled(F32, a, b)
        q == (d.sigA * 2^d.shift) \div d.sigB
        half == 2^(guard(F32) - 1)
        sigZ == IF q % half = 0 THEN Jam(q, q * d.sigB # d.sigA * 2^d.shift) ELSE q
    IN  IF IsOrdinary(F32, a) /\ IsOrdinary(F32, b)
        THEN softfloat_roundPackToF32(d.sign, d.exp, sigZ, mode)
        ELSE DivSpecial(F32, a, b)

(* The source gets the quotient in two pieces of 32 bits and leaves out    *)
(* the last bits, none of which the rounding sees by themselves.  Here it  *)
(* is one number, and the error of the pieces is short: by how many units  *)
(* the estimate falls short of the greatest one below the quotient.        *)
f64_div(a, b, mode, short) ==
    LET d    == DivScaled(F64, a, b)
        q    == ((d.sigA * 2^d.shift - 1) \div d.sigB) - short + 4
        half == 2^(guard(F64) - 1)
        sigZ == Corrected(q, half, 4, 2,
                          LowCleared(q, half) * d.sigB - d.sigA * 2^d.shift)
    IN  IF IsOrdinary(F64, a) /\ IsOrdinary(F64, b)
        THEN softfloat_roundPackToF64(d.sign, d.exp, sigZ, mode)
        ELSE DivSpecial(F64, a, b)

approxRecip_1k0s == <<
    65476, 61630, 58211, 55151, 52397, 49904, 47638, 45569,
    43671, 41926, 40314, 38822, 37436, 36146, 34942, 33815 >>
approxRecip_1k1s == <<
    61681, 54828, 49057, 44151, 39946, 36315, 33157, 30394,
    27963, 25812, 23900, 22193, 20662, 19285, 18041, 16913 >>

(* With the tables, at the format's own width.                             *)
tableRecip(sigB) ==
    LET index == ((sigB \div 64) % 16) + 1
    IN  approxRecip_1k0s[index] - ((approxRecip_1k1s[index] * (sigB % 64)) \div 2^10)

refinedQuotient16(d, r0, z0) ==
    z0 + (((d.sigA * 2^d.shift - z0 * d.sigB) * r0) \div 2^26) + 1

quotient16(d, r0) == refinedQuotient16(d, r0, (d.sigA * r0) \div 2^(26 - d.shift))

Corrected16(d, z) ==
    Corrected(z, 8, 1, 2, LowCleared(z, 8) * d.sigB - d.sigA * 2^d.shift)

f16_div(a, b, mode) ==
    LET d == DivScaled(F16, a, b)
    IN  IF IsOrdinary(F16, a) /\ IsOrdinary(F16, b)
        THEN softfloat_roundPackToF16(d.sign, d.exp,
               Corrected16(d, quotient16(d, tableRecip(d.sigB))), mode)
        ELSE DivSpecial(F16, a, b)

-----------------------------------------------------------------------------
(* Square root.                                                            *)

SqrtSpecial(f, a) ==
    IF isNaNUI(f, a) THEN propagateNaN(f, a, 0)
    ELSE IF signUI(f, a) /\ ~isZeroUI(f, a) THEN Invalid(f)
    ELSE Exact(a)

IsPositive(f, a) == IsOrdinary(f, a) /\ ~signUI(f, a)

(* The root's exponent, and the number whose integer root has its leading  *)
(* bit where roundPackTo wants it; an even exponent takes a factor 2.      *)
SqrtScaled(f, a) ==
    LET A   == Unpack(f, a)
        odd == A.exp % 2
        up  == 2 * (word(f) - 2) - f.frac
    IN  [exp |-> (A.exp - bias(f)) \div 2 + bias(f) - 1, odd |-> odd, sig |-> A.sig,
         radicand |-> A.sig * 2^(IF odd = 1 THEN up ELSE up + 1)]

IntegerRoot(n) ==
    LET r[k \in 0..15] ==
          IF k = 0 THEN 0
          ELSE LET with == r[k - 1] + 2^(15 - k)
               IN  IF with * with <= n THEN with ELSE r[k - 1]
    IN  r[15]

f32_sqrt(a, mode, short) ==
    LET s == SqrtScaled(F32, a)
        estimate == IntegerRoot(s.radicand - 1) - short + 2
        half == 2^(guard(F32) - 1)
        sigZ == Corrected(estimate, half, 2, 1,
                          LowCleared(estimate, half)^2 - s.radicand)
    IN  IF IsPositive(F32, a)
        THEN softfloat_roundPackToF32(FALSE, s.exp, sigZ, mode)
        ELSE SqrtSpecial(F32, a)

f64_sqrt(a, mode, short) ==
    LET s == SqrtScaled(F64, a)
        estimate == IntegerRoot(s.radicand) - short + 4
        half == 2^(guard(F64) - 1)
        sigZ == Corrected(estimate, half, 5, 1,
                          LowCleared(estimate, half)^2 - s.radicand)
    IN  IF IsPositive(F64, a)
        THEN softfloat_roundPackToF64(FALSE, s.exp, sigZ, mode)
        ELSE SqrtSpecial(F64, a)

approxRecipSqrt_1k0s == <<
    46281, 65451, 43645, 61724, 41413, 58567, 39491, 55849,
    37813, 53477, 36333, 51383, 35014, 49517, 33828, 47841 >>
approxRecipSqrt_1k1s == <<
    42405, 59970, 35873, 50733, 30863, 43647, 26920, 38070,
    23751, 33589, 21158, 29922, 19006, 26878, 17195, 24317 >>

(* With the tables, at the format's own width: the products are split, as  *)
(* they do not all fit the model checker's integers.                       *)
rootHalf(odd, x) == IF odd = 1 THEN x \div 2 ELSE x

tableRecipSqrt(odd, sig) ==
    LET index == 2 * (((sig \div 64) % 16) \div 2) + odd + 1
    IN  approxRecipSqrt_1k0s[index] - ((approxRecipSqrt_1k1s[index] * (sig % 128)) \div 2^11)

(* By how much r0, squared, times sig, falls short of one.                 *)
sigma16(ESqrR0, sig) ==
    65535 - ((((ESqrR0 \div 2^16) * sig) + (((ESqrR0 % 2^16) * sig) \div 2^16)) % 65536)

refinedRecip16(r0, sigma0) ==
    r0 + (((r0 * (sigma0 \div 2^8)) + ((r0 * (sigma0 % 2^8)) \div 2^8)) \div 2^17)

rootEstimate16(odd, sig, recip) ==
    rootHalf(odd, (sig * (IF recip < 32768 THEN 32768 ELSE recip)) \div 2^11) + 1

recipSqrt16(odd, sig, r0) ==
    refinedRecip16(r0, sigma16(rootHalf(odd, (r0 \div 2) * (r0 + (r0 % 2))), sig))

f16_sqrt(a, mode) ==
    LET s     == SqrtScaled(F16, a)
        recip == recipSqrt16(s.odd, s.sig, tableRecipSqrt(s.odd, s.sig))
        Packed(estimate) ==
          softfloat_roundPackToF16(FALSE, s.exp,
            Corrected(estimate, 8, 1, 1, LowCleared(estimate, 8)^2 - s.radicand), mode)
    IN  IF IsPositive(F16, a)
        THEN Packed(rootEstimate16(s.odd, s.sig, recip))
        ELSE SqrtSpecial(F16, a)
-----------------------------------------------------------------------------
(* Remainder: a minus the multiple of b nearest to it, the even one of two *)
(* equally near.                                                           *)

(* sigA * 2^n by long division: the remainder, and whether the quotient is *)
(* odd.  The loop of the source divides 29 bits at a time, with estimates  *)
(* that the last, exact, steps put right.                                  *)
LongDivision(sigA, sigB, n) ==
    LET r[k \in 0..n] == IF k = 0 THEN sigA % (2 * sigB)
                                  ELSE (2 * r[k - 1]) % (2 * sigB)
    IN  [rem |-> r[n] % sigB, odd |-> r[n] >= sigB]

RemSpecial(f, a, b) ==
    IF isNaNUI(f, a) \/ isNaNUI(f, b) THEN propagateNaN(f, a, b)
    ELSE IF isInfUI(f, a) \/ isZeroUI(f, b) THEN Invalid(f)
    ELSE Exact(a)

remNeedsWork(f, a, b) ==
    /\ IsOrdinary(f, a) /\ IsOrdinary(f, b)
    /\ Unpack(f, a).exp >= Unpack(f, b).exp - 1

(* altRem is left by a quotient that is odd or not, the next remainder by  *)
(* the quotient after it: the sign, exponent and significand of the nearer *)
(* one, as normRoundPackToF<n> gets them.                                  *)
remNearest(f, sign, B, altRem, odd) ==
    LET next == altRem - B.sig * 2^(guard(f) - 1)
        rem  == IF next + altRem < 0 \/ (next + altRem = 0 /\ ~odd) THEN altRem ELSE next
    IN  [sign |-> sign # (rem < 0), exp |-> B.exp, sig |-> IF rem < 0 THEN -rem ELSE rem]

remDivided(f, sign, B, d) == remNearest(f, sign, B, d.rem * 2^(guard(f) - 1), d.odd)

remUnpacked(f, sign, A, B) ==
    IF A.exp < B.exp
    THEN remNearest(f, sign, B, A.sig * 2^(guard(f) - 2), FALSE)
    ELSE remDivided(f, sign, B, LongDivision(A.sig, B.sig, A.exp - B.exp))

remParts(f, a, b) == remUnpacked(f, signUI(f, a), Unpack(f, a), Unpack(f, b))

f16_rem(a, b, mode) ==
    LET r == remParts(F16, a, b)
    IN  IF remNeedsWork(F16, a, b)
        THEN softfloat_normRoundPackToF16(r.sign, r.exp, r.sig, mode)
        ELSE RemSpecial(F16, a, b)
f32_rem(a, b, mode) ==
    LET r == remParts(F32, a, b)
    IN  IF remNeedsWork(F32, a, b)
        THEN softfloat_normRoundPackToF32(r.sign, r.exp, r.sig, mode)
        ELSE RemSpecial(F32, a, b)
f64_rem(a, b, mode) ==
    LET r == remParts(F64, a, b)
    IN  IF remNeedsWork(F64, a, b)
        THEN softfloat_normRoundPackToF64(r.sign, r.exp, r.sig, mode)
        ELSE RemSpecial(F64, a, b)

-----------------------------------------------------------------------------
(* a * b + c with one rounding; op may negate c ("subC") or the product    *)
(* ("subProd").                                                            *)

mulAddSignC(f, c, op) == signUI(f, c) # (op = "subC")
mulAddSignProd(f, a, b, op) == (signUI(f, a) # signUI(f, b)) # (op = "subProd")

mulAddHasProduct(f, a, b, c) ==
    IsOrdinary(f, a) /\ IsOrdinary(f, b) /\ expUI(f, c) # expMax(f)

mulAddSpecial(f, a, b, c, op, mode) ==
    LET signC    == mulAddSignC(f, c, op)
        signProd == mulAddSignProd(f, a, b, op)
        isProdNaN == isNaNUI(f, a) \/ isNaNUI(f, b)
        ab       == propagateNaN(f, a, b)
        abc      == propagateNaN(f, ab.ui, c)
        invalidC == propagateNaN(f, defaultNaNUI(f), c)
    IN  IF isProdNaN THEN Result(abc.ui, ab.flags \union abc.flags)
        ELSE IF isInfUI(f, a) \/ isInfUI(f, b)
        THEN IF isZeroUI(f, a) \/ isZeroUI(f, b)
             THEN Result(invalidC.ui, {"invalid"})
             ELSE IF isNaNUI(f, c) THEN propagateNaN(f, infinityUI(f, signProd), c)
             ELSE IF isInfUI(f, c) /\ signProd # signC
             THEN Result(invalidC.ui, {"invalid"})
             ELSE Exact(infinityUI(f, signProd))
        ELSE IF isNaNUI(f, c) THEN propagateNaN(f, 0, c)
        ELSE IF expUI(f, c) # expMax(f) /\ isZeroUI(f, c) /\ signProd # signC
        THEN Exact(zeroUI(f, mode = "min"))
        ELSE Exact(c)

(* What is added: the product with its leading bit next to the highest of  *)
(* a word twice as wide, and c with its own next to the highest of a word. *)
mulAddTerms(f, a, b, c, op) ==
    LET A == Unpack(f, a)
        B == Unpack(f, b)
        C == Unpack(f, c)
        product == A.sig * B.sig * 2^(2 * guard(f))
        short   == IF product < 2^(2 * word(f) - 3) THEN 1 ELSE 0
    IN  [signProd |-> mulAddSignProd(f, a, b, op), signC |-> mulAddSignC(f, c, op),
         expProd  |-> A.exp + B.exp - bias(f) + 1 - short, expC |-> C.exp,
         sigProd  |-> product * 2^short, sigC |-> C.sig * 2^(guard(f) - 1),
         zeroC    |-> isZeroUI(f, c)]

(* float16_t and float32_t: the product in a word twice as wide.           *)
mulAddSameSigns(f, t, expDiff) ==
    IF expDiff <= 0
    THEN ToRoundLeading(f, t.signProd, t.expC,
           t.sigC + shiftRightJam(t.sigProd, word(f) - expDiff))
    ELSE ToRoundLeading(f, t.signProd, t.expProd,
           shiftRightJam(t.sigProd + shiftRightJam(t.sigC * 2^word(f), expDiff), word(f)))

mulAddDiff(f, t, expDiff) ==
    IF expDiff < 0 THEN t.sigC * 2^word(f) - shiftRightJam(t.sigProd, -expDiff)
                   ELSE t.sigProd - shiftRightJam(t.sigC * 2^word(f), expDiff)

mulAddNormalised(f, sign, exp, sig) ==
    LET shiftDist == countLeadingZeros(2 * word(f), sig) - 1
    IN  ToRound(sign, exp - shiftDist, shiftRightJam(sig, word(f) - shiftDist))

(* diff is negative only when it is the product less c.                    *)
mulAddOppositeSigns(f, t, expDiff, diff, mode) ==
    IF diff = 0 THEN Done(Exact(zeroUI(f, mode = "min")))
    ELSE mulAddNormalised(f, IF expDiff < 0 THEN t.signC ELSE t.signProd # (diff < 0),
                          IF expDiff <= 0 THEN t.expC ELSE t.expProd,
                          IF diff < 0 THEN -diff ELSE diff)

mulAddFinite(f, t, mode) ==
    LET expDiff == t.expProd - t.expC
    IN  CASE t.zeroC -> ToRound(t.signProd, t.expProd - 1,
                                shiftRightJam(t.sigProd, word(f) - 1))
          [] ~t.zeroC /\ t.signProd = t.signC -> mulAddSameSigns(f, t, expDiff)
          [] OTHER -> mulAddOppositeSigns(f, t, expDiff, mulAddDiff(f, t, expDiff), mode)

mulAdd(f, a, b, c, op, mode) ==
    IF mulAddHasProduct(f, a, b, c)
    THEN mulAddFinite(f, mulAddTerms(f, a, b, c, op), mode)
    ELSE Done(mulAddSpecial(f, a, b, c, op, mode))

(* float64_t: in two words, v64 above v0.                                  *)
v64(f, x) == x \div 2^word(f)
v0(f, x)  == x % 2^word(f)
lowJammed(f, x) == Jam(v64(f, x), v0(f, x) # 0)

(* The product aligned with c.  Where its exponent is below that of c, the *)
(* upper word is shifted and the lower left as it is.                      *)
mulAddProd64(f, t, expDiff) ==
    IF expDiff >= 0 THEN t.sigProd
    ELSE IF t.signProd = t.signC \/ expDiff < -1
    THEN shiftRightJam(v64(f, t.sigProd), -expDiff) * 2^word(f) + v0(f, t.sigProd)
    ELSE shiftRightJam(t.sigProd, 1)

mulAddC64(f, t, expDiff) ==
    shiftRightJam(t.sigC * 2^word(f), IF expDiff > 0 THEN expDiff ELSE 0)

mulAddDiff64(f, t, expDiff) ==
    LET d == mulAddProd64(f, t, expDiff) - mulAddC64(f, t, expDiff)
    IN  IF expDiff < 0 THEN -d ELSE d

(* mag has something in its upper word.                                    *)
mulAddShifted64(f, sign, exp, mag, shiftDist) ==
    ToRound(sign, exp - shiftDist,
            IF shiftDist < 0 THEN Jam(shiftRightJam(v64(f, mag), 1), v0(f, mag) # 0)
                             ELSE lowJammed(f, mag * 2^shiftDist))

mulAddNormalised64(f, sign, exp, mag) ==
    mulAddShifted64(f, sign, exp, mag, countLeadingZeros(word(f), v64(f, mag)) - 1)

mulAddMagnitude64(f, sign, exp, mag) ==
    IF v64(f, mag) = 0 THEN mulAddNormalised64(f, sign, exp - word(f), mag * 2^word(f))
                       ELSE mulAddNormalised64(f, sign, exp, mag)

mulAddOppositeSigns64(f, t, expDiff, expZ, diff, mode) ==
    IF diff = 0 THEN Done(Exact(zeroUI(f, mode = "min")))
    ELSE mulAddMagnitude64(f, IF expDiff < 0 THEN t.signC ELSE t.signProd # (diff < 0),
                           expZ, IF diff < 0 THEN -diff ELSE diff)

mulAddFinite64(f, t, mode) ==
    LET expDiff == t.expProd - t.expC
        expZ    == IF expDiff < 0 THEN t.expC ELSE t.expProd
    IN  CASE t.zeroC -> ToRound(t.signProd, t.expProd - 1,
                                Jam(2 * v64(f, t.sigProd), v0(f, t.sigProd) # 0))
          [] ~t.zeroC /\ t.signProd = t.signC ->
               ToRoundLeading(f, t.signProd, expZ,
                 lowJammed(f, mulAddProd64(f, t, expDiff) + mulAddC64(f, t, expDiff)))
          [] OTHER ->
               mulAddOppositeSigns64(f, t, expDiff, expZ, mulAddDiff64(f, t, expDiff), mode)

mulAdd64(f, a, b, c, op, mode) ==
    IF mulAddHasProduct(f, a, b, c)
    THEN mulAddFinite64(f, mulAddTerms(f, a, b, c, op), mode)
    ELSE Done(mulAddSpecial(f, a, b, c, op, mode))

softfloat_mulAddF16(a, b, c, op, mode) == Finish16(mulAdd(F16, a, b, c, op, mode), mode)
softfloat_mulAddF32(a, b, c, op, mode) == Finish32(mulAdd(F32, a, b, c, op, mode), mode)
softfloat_mulAddF64(a, b, c, op, mode) == Finish64(mulAdd64(F64, a, b, c, op, mode), mode)

f16_mulAdd(a, b, c, mode) == softfloat_mulAddF16(a, b, c, "none", mode)
f32_mulAdd(a, b, c, mode) == softfloat_mulAddF32(a, b, c, "none", mode)
f64_mulAdd(a, b, c, mode) == softfloat_mulAddF64(a, b, c, "none", mode)
=============================================================================
