----------------------------- MODULE FloatFormat -----------------------------
(***************************************************************************)
(* Bit patterns of the floating point formats of src/softfloat and the     *)
(* primitives its algorithms are built from.  A number is its bit pattern, *)
(* an integer (`ui' in the source): sign, biased exponent, fraction.  A    *)
(* format is the widths of the last two, so that the same algorithm serves *)
(* float16_t, float32_t and float64_t, as it does in the source, where     *)
(* each function is written out once per format with other constants:      *)
(*   word(f)   bits in the word             16, 32, 64                     *)
(*   guard(f)  bits below the fraction in the significand that is rounded, *)
(*             which has its leading bit at word(f) - 2       4,  7, 10    *)
(* The run gives the formats small widths.                                 *)
(***************************************************************************)
EXTENDS Integers

CONSTANTS F16, F32, F64,   \* formats: [exp |-> width, frac |-> width]
          I32, I64         \* widths of int32_t and int64_t

(* What a run states of its formats (MCFloatUnit).                         *)
FormatAssumption ==
    /\ \A f \in {F16, F32, F64} : f.exp \in Nat \ {0, 1} /\ f.frac \in Nat \ {0}
    /\ {I32, I64} \subseteq Nat \ {0, 1, 2}

Formats == [f16 |-> F16, f32 |-> F32, f64 |-> F64]

Modes == {"near_even", "minMag", "min", "max", "near_maxMag", "odd"}
Flags == {"inexact", "underflow", "overflow", "infinite", "invalid"}

word(f)   == 1 + f.exp + f.frac
guard(f)  == f.exp - 1
hidden(f) == 2^f.frac                  \* the leading bit of a normal number
expMax(f) == 2^f.exp - 1               \* exponent of infinities and NaNs
bias(f)   == 2^(f.exp - 1) - 1
leading(f) == 2^(word(f) - 2)          \* the leading bit of a `sig' to round

signUI(f, ui) == ui \div 2^(word(f) - 1) = 1
expUI(f, ui)  == (ui \div hidden(f)) % 2^f.exp
fracUI(f, ui) == ui % hidden(f)
magUI(f, ui)  == ui % 2^(word(f) - 1)  \* all but the sign

(* sig is added, not or-ed: a carry out of it goes into the exponent.      *)
packToUI(f, sign, exp, sig) ==
    (IF sign THEN 2^(word(f) - 1) ELSE 0) + exp * hidden(f) + sig

infinityUI(f, sign) == packToUI(f, sign, expMax(f), 0)
zeroUI(f, sign) == packToUI(f, sign, 0, 0)

isNaNUI(f, ui) == expUI(f, ui) = expMax(f) /\ fracUI(f, ui) # 0

(* The quiet bit is the highest of the fraction.                           *)
defaultNaNUI(f) == packToUI(f, FALSE, expMax(f), hidden(f) \div 2)
isSigNaNUI(f, ui) == isNaNUI(f, ui) /\ fracUI(f, ui) < hidden(f) \div 2

(* What a function returns: the bits, and the exception flags it raises.   *)
(* The caller or-s them into softfloat_exceptionFlags.                     *)
Result(ui, flags) == [ui |-> ui, flags |-> flags]
Exact(ui) == Result(ui, {})
Invalid(f) == Result(defaultNaNUI(f), {"invalid"})

propagateNaN(f, uiA, uiB) ==
    IF isSigNaNUI(f, uiA) \/ isSigNaNUI(f, uiB)
    THEN Invalid(f)
    ELSE Exact(defaultNaNUI(f))

(* Converting a NaN to another format: default there, invalid if signaling. *)
commonNaN(f, ui, g) ==
    IF fracUI(f, ui) < hidden(f) \div 2 THEN Invalid(g) ELSE Exact(defaultNaNUI(g))

Jam(x, lost) == IF lost THEN 2 * (x \div 2) + 1 ELSE x

(* Shifted right, the lowest bit set if any bit lost was; a negative       *)
(* distance is a shift left.                                               *)
shiftRightJam(x, dist) ==
    CASE dist <= 0  -> x * 2^(-dist)
      [] dist \in 1..30 -> Jam(x \div 2^dist, x % 2^dist # 0)
      [] OTHER      -> IF x = 0 THEN 0 ELSE 1

(* The integer part, and what is lost against a half of its unit: all that *)
(* is asked of the 64 bits of `extra'.                                     *)
shiftRightJamExtra(x, dist) ==
    LET lost == IF dist > 30 THEN x ELSE x % 2^dist
    IN  [v     |-> IF dist > 30 THEN 0 ELSE x \div 2^dist,
         extra |-> CASE lost = 0                          -> "none"
                     [] lost # 0 /\ dist > 30             -> "below"
                     [] dist \in 1..30 /\ lost = 2^(dist - 1) -> "half"
                     [] dist \in 1..30 /\ lost > 2^(dist - 1) -> "above"
                     [] OTHER                             -> "below"]

BitLength(x) ==
    IF x = 0 THEN 0 ELSE CHOOSE n \in 1..31 : x \div 2^(n - 1) = 1
countLeadingZeros(width, x) == width - BitLength(x)

normSubnormalSig(f, sig) ==
    LET shiftDist == countLeadingZeros(word(f), sig) - f.exp
    IN  [exp |-> 1 - shiftDist, sig |-> sig * 2^shiftDist]

(* A finite nonzero operand as mul, div, sqrt, rem and mulAdd take it:     *)
(* subnormals normalised, the leading bit made explicit.                   *)
Unpack(f, ui) ==
    LET e == expUI(f, ui)
        n == IF e = 0 THEN normSubnormalSig(f, fracUI(f, ui))
                      ELSE [exp |-> e, sig |-> fracUI(f, ui)]
    IN  [exp |-> n.exp, sig |-> hidden(f) + (n.sig % hidden(f))]

isInfUI(f, ui)  == expUI(f, ui) = expMax(f) /\ fracUI(f, ui) = 0
isZeroUI(f, ui) == magUI(f, ui) = 0
=============================================================================
