------------------------------- MODULE FloatUnit -------------------------------
(***************************************************************************)
(* The execution of one floating point instruction, as src/opcodes/        *)
(* RV-CG.def writes it: `srm' gives softfloat the rounding mode, the       *)
(* function computes bits and flags, `sfx' takes the flags away.  The      *)
(* functions of softfloat that no instruction names (float16_t, rem,       *)
(* roundToInt, the other roundings) are called in the same way.            *)
(*                                                                         *)
(* Operands come from the samples that the run gives.  Comparisons and     *)
(* classes, which neither round nor look at a mode, are in FloatOrder.     *)
(***************************************************************************)
EXTENDS FloatReference

CONSTANTS Operations,     \* [format, op] pairs the run asks for
          UnitModes,      \* rounding modes
          First, Second, Third,  \* format -> sample of bit patterns
          Integer32, Integer64   \* samples of the bits of integers

VARIABLE unit

BinaryOps  == {"add", "sub", "mul", "div", "rem"}
ToInt32Ops == {"to_i32", "to_ui32", "to_i32_r_minMag", "to_ui32_r_minMag"}
ToInt64Ops == {"to_i64", "to_ui64", "to_i64_r_minMag", "to_ui64_r_minMag"}
ToSmallOps == {"to_i8", "to_ui8", "to_i16", "to_ui16"}
FromIntOps == {"from_i32", "from_ui32", "from_i64", "from_ui64"}
ConvertOps == {"to_f16", "to_f32", "to_f64"}
EstimateOps == {"rsqrte7", "recip7"}

Idle == [phase |-> "idle"]

Init == unit = Idle

(* srm, once the instruction is decoded.                                   *)
SetRoundingMode ==
    /\ unit = Idle
    /\ \E o \in Operations, mode \in UnitModes :
          unit' = [phase |-> "ready", f |-> o[1], op |-> o[2], mode |-> mode]

Finish(a, b, c, result) ==
    unit' = [phase |-> "done", f |-> unit.f, op |-> unit.op, mode |-> unit.mode,
             a |-> a, b |-> b, c |-> c, ui |-> result.ui, flags |-> result.flags]

Ready(ops) == unit.phase = "ready" /\ unit.op \in ops

(* By how much the estimates of the table may fall short.                  *)
Shortfalls(f, op) ==
    CASE f = "f32" /\ op = "sqrt"           -> 0..1
      [] f = "f64" /\ op \in {"div", "sqrt"} -> 0..3
      [] OTHER                              -> {0}

Binary(f, op, a, b, mode, short) ==
    CASE f = "f16" ->
           (CASE op = "add" -> f16_add(a, b, mode)
              [] op = "sub" -> f16_sub(a, b, mode)
              [] op = "mul" -> f16_mul(a, b, mode)
              [] op = "div" -> f16_div(a, b, mode)
              [] op = "rem" -> f16_rem(a, b, mode))
      [] f = "f32" ->
           (CASE op = "add" -> f32_add(a, b, mode)
              [] op = "sub" -> f32_sub(a, b, mode)
              [] op = "mul" -> f32_mul(a, b, mode)
              [] op = "div" -> f32_div(a, b, mode)
              [] op = "rem" -> f32_rem(a, b, mode))
      [] f = "f64" ->
           (CASE op = "add" -> f64_add(a, b, mode)
              [] op = "sub" -> f64_sub(a, b, mode)
              [] op = "mul" -> f64_mul(a, b, mode)
              [] op = "div" -> f64_div(a, b, mode, short)
              [] op = "rem" -> f64_rem(a, b, mode))

ExecuteBinary ==
    /\ Ready(BinaryOps)
    /\ \E a \in First[unit.f], b \in Second[unit.f] :
          /\ ReferenceFits(Formats[unit.f], unit.op, a, b, 0)
          /\ \E short \in Shortfalls(unit.f, unit.op) :
                Finish(a, b, 0, Binary(unit.f, unit.op, a, b, unit.mode, short))

SquareRoot(f, a, mode, short) ==
    CASE f = "f16" -> f16_sqrt(a, mode)
      [] f = "f32" -> f32_sqrt(a, mode, short)
      [] f = "f64" -> f64_sqrt(a, mode, short)

ExecuteSquareRoot ==
    /\ Ready({"sqrt"})
    /\ \E a \in First[unit.f], short \in Shortfalls(unit.f, "sqrt") :
          Finish(a, 0, 0, SquareRoot(unit.f, a, unit.mode, short))

MulAdd(f, a, b, c, mode) ==
    CASE f = "f16" -> f16_mulAdd(a, b, c, mode)
      [] f = "f32" -> f32_mulAdd(a, b, c, mode)
      [] f = "f64" -> f64_mulAdd(a, b, c, mode)

ExecuteMulAdd ==
    /\ Ready({"mulAdd"})
    /\ \E a, b \in Third[unit.f], c \in Second[unit.f] :
          /\ ReferenceFits(Formats[unit.f], "mulAdd", a, b, c)
          /\ Finish(a, b, c, MulAdd(unit.f, a, b, c, unit.mode))

RoundToInt(f, a, mode) ==
    CASE f = "f16" -> f16_roundToInt(a, mode, TRUE)
      [] f = "f32" -> f32_roundToInt(a, mode, TRUE)
      [] f = "f64" -> f64_roundToInt(a, mode, TRUE)

ExecuteRoundToInt ==
    /\ Ready({"roundToInt"})
    /\ \E a \in First[unit.f] : Finish(a, 0, 0, RoundToInt(unit.f, a, unit.mode))

ToInt32(f, op, a, mode) ==
    CASE f = "f16" ->
           (CASE op = "to_i32"  -> f16_to_i32(a, mode, TRUE)
              [] op = "to_ui32" -> f16_to_ui32(a, mode, TRUE)
              [] op = "to_i32_r_minMag"  -> f16_to_i32_r_minMag(a, TRUE)
              [] op = "to_ui32_r_minMag" -> f16_to_ui32_r_minMag(a, TRUE))
      [] f = "f32" ->
           (CASE op = "to_i32"  -> f32_to_i32(a, mode, TRUE)
              [] op = "to_ui32" -> f32_to_ui32(a, mode, TRUE)
              [] op = "to_i32_r_minMag"  -> f32_to_i32_r_minMag(a, TRUE)
              [] op = "to_ui32_r_minMag" -> f32_to_ui32_r_minMag(a, TRUE))
      [] f = "f64" ->
           (CASE op = "to_i32"  -> f64_to_i32(a, mode, TRUE)
              [] op = "to_ui32" -> f64_to_ui32(a, mode, TRUE)
              [] op = "to_i32_r_minMag"  -> f64_to_i32_r_minMag(a, TRUE)
              [] op = "to_ui32_r_minMag" -> f64_to_ui32_r_minMag(a, TRUE))

ToInt64(f, op, a, mode) ==
    CASE f = "f16" ->
           (CASE op = "to_i64"  -> f16_to_i64(a, mode, TRUE)
              [] op = "to_ui64" -> f16_to_ui64(a, mode, TRUE)
              [] op = "to_i64_r_minMag"  -> f16_to_i64_r_minMag(a, TRUE)
              [] op = "to_ui64_r_minMag" -> f16_to_ui64_r_minMag(a, TRUE))
      [] f = "f32" ->
           (CASE op = "to_i64"  -> f32_to_i64(a, mode, TRUE)
              [] op = "to_ui64" -> f32_to_ui64(a, mode, TRUE)
              [] op = "to_i64_r_minMag"  -> f32_to_i64_r_minMag(a, TRUE)
              [] op = "to_ui64_r_minMag" -> f32_to_ui64_r_minMag(a, TRUE))
      [] f = "f64" ->
           (CASE op = "to_i64"  -> f64_to_i64(a, mode, TRUE)
              [] op = "to_ui64" -> f64_to_ui64(a, mode, TRUE)
              [] op = "to_i64_r_minMag"  -> f64_to_i64_r_minMag(a, TRUE)
              [] op = "to_ui64_r_minMag" -> f64_to_ui64_r_minMag(a, TRUE))

ToSmall(f, op, a, mode) ==
    CASE f = "f16" ->
           (CASE op = "to_i8"   -> f16_to_i8(a, mode, TRUE)
              [] op = "to_ui8"  -> f16_to_ui8(a, mode, TRUE)
              [] op = "to_i16"  -> f16_to_i16(a, mode, TRUE)
              [] op = "to_ui16" -> f16_to_ui16(a, mode, TRUE))
      [] f = "f32" ->
           (CASE op = "to_i16"  -> f32_to_i16(a, mode, TRUE)
              [] op = "to_ui16" -> f32_to_ui16(a, mode, TRUE))

ExecuteToInteger ==
    /\ Ready(ToInt32Ops \union ToInt64Ops \union ToSmallOps)
    /\ \E a \in First[unit.f] :
          Finish(a, 0, 0,
                 IF unit.op \in ToInt32Ops THEN ToInt32(unit.f, unit.op, a, unit.mode)
                 ELSE IF unit.op \in ToInt64Ops THEN ToInt64(unit.f, unit.op, a, unit.mode)
                 ELSE ToSmall(unit.f, unit.op, a, unit.mode))

FromInt(f, op, n, mode) ==
    CASE f = "f16" ->
           (CASE op = "from_i32"  -> i32_to_f16(n, mode)
              [] op = "from_ui32" -> ui32_to_f16(n, mode)
              [] op = "from_i64"  -> i64_to_f16(n, mode)
              [] op = "from_ui64" -> ui64_to_f16(n, mode))
      [] f = "f32" ->
           (CASE op = "from_i32"  -> i32_to_f32(n, mode)
              [] op = "from_ui32" -> ui32_to_f32(n, mode)
              [] op = "from_i64"  -> i64_to_f32(n, mode)
              [] op = "from_ui64" -> ui64_to_f32(n, mode))
      [] f = "f64" ->
           (CASE op = "from_i32"  -> i32_to_f64(n)
              [] op = "from_ui32" -> ui32_to_f64(n)
              [] op = "from_i64"  -> i64_to_f64(n, mode)
              [] op = "from_ui64" -> ui64_to_f64(n, mode))

asSigned(width, n) == IF n >= 2^(width - 1) THEN n - 2^width ELSE n

ExecuteFromInteger ==
    /\ Ready(FromIntOps)
    /\ \E bits \in IF unit.op \in {"from_i32", "from_ui32"} THEN Integer32 ELSE Integer64 :
          LET n == CASE unit.op = "from_i32" -> asSigned(I32, bits)
                     [] unit.op = "from_i64" -> asSigned(I64, bits)
                     [] OTHER                -> bits
          IN  Finish(n, 0, 0, FromInt(unit.f, unit.op, n, unit.mode))

Convert(f, op, a, mode) ==
    CASE f = "f16" /\ op = "to_f32" -> f16_to_f32(a)
      [] f = "f16" /\ op = "to_f64" -> f16_to_f64(a)
      [] f = "f32" /\ op = "to_f16" -> f32_to_f16(a, mode)
      [] f = "f32" /\ op = "to_f64" -> f32_to_f64(a)
      [] f = "f64" /\ op = "to_f16" -> f64_to_f16(a, mode)
      [] f = "f64" /\ op = "to_f32" -> f64_to_f32(a, mode)

ExecuteConvert ==
    /\ Ready(ConvertOps)
    /\ \E a \in First[unit.f] : Finish(a, 0, 0, Convert(unit.f, unit.op, a, unit.mode))

Estimate(f, op, a, mode) ==
    CASE f = "f16" -> IF op = "rsqrte7" THEN f16_rsqrte7(a) ELSE f16_recip7(a, mode)
      [] f = "f32" -> IF op = "rsqrte7" THEN f32_rsqrte7(a) ELSE f32_recip7(a, mode)
      [] f = "f64" -> IF op = "rsqrte7" THEN f64_rsqrte7(a) ELSE f64_recip7(a, mode)

ExecuteEstimate ==
    /\ Ready(EstimateOps)
    /\ \E a \in First[unit.f] : Finish(a, 0, 0, Estimate(unit.f, unit.op, a, unit.mode))

(* sfx, and the next instruction.                                          *)
Retire ==
    /\ unit.phase = "done"
    /\ unit' = Idle

-----------------------------------------------------------------------------
done == unit.phase = "done"
result == [ui |-> unit.ui, flags |-> unit.flags]

(* Every arithmetic function returns the exact result rounded once, with   *)
(* exactly the flags IEEE 754 gives it, for all modes, over the borders of *)
(* the subnormal, normal and infinite numbers.                             *)
ArithmeticRounded ==
    done /\ unit.op \in BinaryOps \union {"sqrt", "mulAdd"} =>
      result = Reference(Formats[unit.f], unit.op, unit.a, unit.b, unit.c, unit.mode)

(* The estimates are within 1/128 of what they estimate, for every         *)
(* magnitude, subnormal operands and results included.                     *)
EstimatesClose ==
    LET f == Formats[unit.f]
    IN  done =>
          CASE unit.op = "rsqrte7" -> RootEstimateClose(f, unit.a, result)
            [] unit.op = "recip7"  -> RecipEstimateClose(f, unit.a, result, unit.mode)
            [] OTHER -> TRUE

IntegerWidth(op) ==
    CASE op \in ToInt32Ops -> I32
      [] op \in ToInt64Ops -> I64
      [] op \in {"to_i8", "to_ui8"} -> I32 \div 4
      [] op \in {"to_i16", "to_ui16"} -> I32 \div 2
IsSigned(op) == op \in {"to_i8", "to_i16", "to_i32", "to_i64", "to_i32_r_minMag", "to_i64_r_minMag"}
Truncates(op) == op \in {"to_i32_r_minMag", "to_ui32_r_minMag", "to_i64_r_minMag", "to_ui64_r_minMag"}

(* A conversion gives the number it was given, rounded once to what its    *)
(* type can hold; what is out of range is invalid, and saturates.          *)
ConversionRounded ==
    LET f == Formats[unit.f]
    IN  done =>
          CASE unit.op = "roundToInt" -> result = IntegralOf(f, unit.a, unit.mode)
            [] unit.op \in ToInt32Ops \union ToInt64Ops \union ToSmallOps ->
                 result = IntegerOf(f, IntegerWidth(unit.op), IsSigned(unit.op), unit.a,
                                    IF Truncates(unit.op) THEN "minMag" ELSE unit.mode)
            [] unit.op \in FromIntOps -> result = FromInteger(f, unit.a, unit.mode)
            [] unit.op = "to_f16" -> result = Converted(f, F16, unit.a, unit.mode)
            [] unit.op = "to_f32" -> result = Converted(f, F32, unit.a, unit.mode)
            [] unit.op = "to_f64" -> result = Converted(f, F64, unit.a, unit.mode)
            [] OTHER -> TRUE
=============================================================================
