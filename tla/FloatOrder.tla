------------------------------ MODULE FloatOrder ------------------------------
(***************************************************************************)
(* The execution of one instruction that compares floating point numbers,  *)
(* takes the lesser or greater, or tells the class of one, as src/opcodes/ *)
(* RV-CG.def writes them: without `srm', since nothing is rounded, and     *)
(* without `sfx'.  The comparisons of softfloat that no instruction calls  *)
(* (all of float16_t; le, the quiet and the signaling variants) are called *)
(* in the same way.                                                        *)
(***************************************************************************)
EXTENDS Integers

CONSTANTS Fmt16, Fmt32, Fmt64,  \* formats of float16_t, float32_t, float64_t
          Left, Right           \* format -> bit patterns of the operands

VARIABLE verdict          \* what the last instruction was given and returned

(* No integer type is compared.                                            *)
INSTANCE FloatReference WITH
    F16 <- Fmt16, F32 <- Fmt32, F64 <- Fmt64, I32 <- 32, I64 <- 64, FracBits <- 12

Patterns(f) == 0..(2^word(f) - 1)

(* What arithmetic says of a format's powers of two.                       *)
PowersOfTwo(f) ==
    /\ {2^f.exp, 2^f.frac, 2^(word(f) - 1), 2^word(f)} \subseteq Nat
    /\ 2^f.exp >= 4 /\ 2^f.frac >= 2
    /\ 2^(word(f) - 1) = 2^f.exp * 2^f.frac
    /\ 2^word(f) = 2 * 2^(word(f) - 1)

ASSUME OrderAssumption ==
    /\ FormatAssumption
    /\ \A f \in {Fmt16, Fmt32, Fmt64} : PowersOfTwo(f)
    /\ \A n \in DOMAIN Formats :
          Left[n] \subseteq Patterns(Formats[n]) /\ Right[n] \subseteq Patterns(Formats[n])

Undecided == [op |-> "none"]

Decide(f, a, b, call) ==
    verdict' = [f |-> f, op |-> call[1], a |-> a, b |-> b, result |-> call[2]]

CompareF16 ==
    /\ verdict = Undecided
    /\ \E a \in Left.f16, b \in Right.f16 :
         \E call \in {<<"eq", f16_eq(a, b)>>, <<"eq_signaling", f16_eq_signaling(a, b)>>,
                      <<"le", f16_le(a, b)>>, <<"le_quiet", f16_le_quiet(a, b)>>,
                      <<"lt", f16_lt(a, b)>>, <<"lt_quiet", f16_lt_quiet(a, b)>>,
                      <<"min", f16_min(a, b)>>, <<"max", f16_max(a, b)>>} :
           Decide("f16", a, b, call)

(* fle calls the function of flt, not that of less or equal.               *)
fle_s(a, b) == f32_lt(a, b)

CompareF32 ==
    /\ verdict = Undecided
    /\ \E a \in Left.f32, b \in Right.f32 :
         \E call \in {<<"eq", f32_eq(a, b)>>, <<"lt", f32_lt(a, b)>>, <<"fle", fle_s(a, b)>>,
                      <<"min", fmin_s(a, b)>>, <<"max", fmax_s(a, b)>>} :
           Decide("f32", a, b, call)

(* What the header offers besides.                                         *)
CompareSoftF32 ==
    /\ verdict = Undecided
    /\ \E a \in Left.f32, b \in Right.f32 :
         \E call \in {<<"eq_signaling", f32_eq_signaling(a, b)>>,
                      <<"le", f32_le(a, b)>>, <<"le_quiet", f32_le_quiet(a, b)>>,
                      <<"lt_quiet", f32_lt_quiet(a, b)>>} :
           Decide("f32", a, b, call)

fle_d(a, b) == f64_lt(a, b)

CompareF64 ==
    /\ verdict = Undecided
    /\ \E a \in Left.f64, b \in Right.f64 :
         \E call \in {<<"eq", f64_eq(a, b)>>, <<"lt", f64_lt(a, b)>>, <<"fle", fle_d(a, b)>>,
                      <<"min", fmin_d(a, b)>>, <<"max", fmax_d(a, b)>>} :
           Decide("f64", a, b, call)

(* What the header offers besides.                                         *)
CompareSoftF64 ==
    /\ verdict = Undecided
    /\ \E a \in Left.f64, b \in Right.f64 :
         \E call \in {<<"eq_signaling", f64_eq_signaling(a, b)>>,
                      <<"le", f64_le(a, b)>>, <<"le_quiet", f64_le_quiet(a, b)>>,
                      <<"lt_quiet", f64_lt_quiet(a, b)>>} :
           Decide("f64", a, b, call)

ClassF16 ==
    /\ verdict = Undecided
    /\ \E a \in Left.f16 :
         \E call \in {<<"classify", f16_classify(a)>>, <<"isSignalingNaN", f16_isSignalingNaN(a)>>} :
           Decide("f16", a, a, call)

ClassF32 ==
    /\ verdict = Undecided
    /\ \E a \in Left.f32 :
         \E call \in {<<"classify", f32_classify(a)>>, <<"isSignalingNaN", f32_isSignalingNaN(a)>>} :
           Decide("f32", a, a, call)

ClassF64 ==
    /\ verdict = Undecided
    /\ \E a \in Left.f64 :
         \E call \in {<<"classify", f64_classify(a)>>, <<"isSignalingNaN", f64_isSignalingNaN(a)>>} :
           Decide("f64", a, a, call)

RetireVerdict ==
    /\ verdict # Undecided
    /\ verdict' = Undecided

OrderInit == verdict = Undecided
OrderNext ==
    \/ CompareF16 \/ CompareF32 \/ CompareSoftF32 \/ CompareF64 \/ CompareSoftF64
    \/ ClassF16 \/ ClassF32 \/ ClassF64
    \/ RetireVerdict
OrderSpec == OrderInit /\ [][OrderNext]_verdict

-----------------------------------------------------------------------------
CompareOps == {"eq", "eq_signaling", "le", "le_quiet", "lt", "lt_quiet"}

(* feq, flt, minima, maxima, classes and all comparisons of softfloat       *)
(* follow the one order of values, zeros of both signs being equal and NaNs *)
(* unordered (softfloat/f*_lt.c and its like, f*_classify.c, RV-CG.def).    *)
(* fle follows it as less, where its name says less or equal: of two equal  *)
(* numbers it is false (RV-CG.def).                                         *)
OneOrder ==
    LET f == Formats[verdict.f]
        a == verdict.a
        b == verdict.b
    IN  /\ verdict.op \in CompareOps => verdict.result = Compared(f, verdict.op, a, b)
        /\ verdict.op = "fle" => verdict.result = Compared(f, "lt", a, b)
        /\ verdict.op \in {"min", "max"} => verdict.result = Extreme(f, verdict.op, a, b)
        /\ verdict.op = "classify" => verdict.result = Exact(ClassOf(f, a))
        /\ verdict.op = "isSignalingNaN" => (verdict.result.ui = 1 <=> ClassOf(f, a) = 8)
=============================================================================
