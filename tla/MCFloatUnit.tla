------------------------------ MODULE MCFloatUnit ------------------------------
(***************************************************************************)
(* FloatUnit on five sets of formats.  Rounding is about where a bit       *)
(* pattern stands between powers of two, so each is small enough for its   *)
(* patterns, or those on both sides of every border, to be tried in pairs, *)
(* and large enough that no width the algorithm relies on disappears:      *)
(*   half     float16_t as it is, with the real tables of f16_div and      *)
(*            f16_sqrt, and integers and float32_t in its proportions      *)
(*   arith    float32_t of 7 bits, all of them, and float64_t of 14        *)
(*   conv     integers as wide as the formats, three formats apart enough  *)
(*            for a narrower one to overflow and underflow                 *)
(*   halfInts float16_t as it is, with integers wider than it              *)
(*   estim    the two estimates, with tables addressed by 7 bits           *)
(* `words' is the high half of a product, of words of two digits; `order'  *)
(* compares, with the formats the .cfg names (Order16 and so on).          *)
(***************************************************************************)
EXTENDS HighProduct, FloatOrder

VARIABLES setup, unit
vars == <<setup, unit, product, verdict>>

IEEEModes == {"near_even", "minMag", "min", "max", "near_maxMag"}
AllModes  == IEEEModes \union {"odd"}

fmt(e, fr) == [exp |-> e, frac |-> fr]
width(e, fr) == 1 + e + fr
WithSigns(w, mags) == mags \union {m + 2^(w - 1) : m \in mags}
All(e, fr) == 0..(2^width(e, fr) - 1)

(* The patterns where something changes: zero, subnormals, the least       *)
(* normal, the neighbours of one, the greatest, infinity, the two NaNs.    *)
Borders(e, fr) ==
    LET h   == 2^fr
        one == (2^(e - 1) - 1) * h
        inf == (2^e - 1) * h
    IN  WithSigns(width(e, fr),
          {0, 1, h - 1, h, h + 1, 2 * h + 1, one - 1, one, one + 1, one + (h \div 2),
           one + h + 3, inf - 1, inf, inf + 1, inf + (h \div 2)})
Few(e, fr) ==
    LET h   == 2^fr
        one == (2^(e - 1) - 1) * h
        inf == (2^e - 1) * h
    IN  {0, 1, h + 1, one - 1, one + (h \div 2), inf - 1, inf}

Integers2(w) ==     \* the borders of an integer type, and of every power of two
    LET powers == {2^i : i \in 0..(w - 1)}
    IN  {0} \union powers \union {p - 1 : p \in powers} \union {p + 1 : p \in powers \ {2^(w - 1)}}
          \union {2^w - 1, 2^w - 2, 2^(w - 1) + 1} \union {p + (p \div 2) - 1 : p \in powers}

arithmetic == {"add", "sub", "mul", "div", "rem", "sqrt", "mulAdd"}
toInts   == {"to_i32", "to_ui32", "to_i32_r_minMag", "to_ui32_r_minMag",
             "to_i64", "to_ui64", "to_i64_r_minMag", "to_ui64_r_minMag"}
fromInts == {"from_i32", "from_ui32", "from_i64", "from_ui64"}

Half == INSTANCE FloatUnit WITH
    F16 <- fmt(5, 10), F32 <- fmt(7, 16), F64 <- fmt(8, 16),
    I32 <- 20, I64 <- 24, FracBits <- 12, UnitModes <- AllModes,
    Operations <- {"f16"} \X arithmetic,
    First   <- [f16 |-> Borders(5, 10) \union {13779, 16968, 18725, 20005, 29000}],
    Second  <- [f16 |-> Borders(5, 10)],
    Third   <- [f16 |-> Few(5, 10)],
    Integer32 <- {}, Integer64 <- {}

HalfInts == INSTANCE FloatUnit WITH
    F16 <- fmt(5, 10), F32 <- fmt(7, 16), F64 <- fmt(8, 16),
    I32 <- 20, I64 <- 24, FracBits <- 12, UnitModes <- IEEEModes,
    Operations <- ({"f16"} \X (toInts \union fromInts
                     \union {"roundToInt", "to_f32", "to_i8", "to_ui8", "to_i16", "to_ui16"}))
                  \union {<<"f32", "to_f16">>},
    First   <- [f16 |-> Borders(5, 10) \union {i * 337 : i \in 0..194},
                f32 |-> Borders(7, 16) \union {i * 21773 : i \in 0..770}],
    Second  <- [f16 |-> Borders(5, 10)], Third <- {},
    Integer32 <- Integers2(20), Integer64 <- Integers2(24)

Arith == INSTANCE FloatUnit WITH
    F16 <- fmt(4, 2), F32 <- fmt(4, 2), F64 <- fmt(5, 8),
    I32 <- 7, I64 <- 14, FracBits <- 2, UnitModes <- AllModes,
    Operations <- {"f32", "f64"} \X arithmetic,
    First   <- [f32 |-> All(4, 2), f64 |-> Borders(5, 8) \union {613, 2741, 4777, 12888}],
    Second  <- [f32 |-> Borders(4, 2), f64 |-> Borders(5, 8)],
    Third   <- [f32 |-> Few(4, 2), f64 |-> Few(5, 8)],
    Integer32 <- {}, Integer64 <- {}

Conv == INSTANCE FloatUnit WITH
    F16 <- fmt(4, 1), F32 <- fmt(6, 2), F64 <- fmt(7, 11),
    I32 <- 9, I64 <- 19, FracBits <- 2, UnitModes <- IEEEModes,
    Operations <- ({"f32", "f64"} \X (toInts \union fromInts \union {"roundToInt"}))
                  \union {<<"f32", "to_i16">>, <<"f32", "to_ui16">>,
                          <<"f16", "to_f32">>, <<"f16", "to_f64">>, <<"f32", "to_f16">>,
                          <<"f32", "to_f64">>, <<"f64", "to_f16">>, <<"f64", "to_f32">>},
    First   <- [f16 |-> All(4, 1), f32 |-> All(6, 2),
                f64 |-> Borders(7, 11) \union {i * 1021 : i \in 0..512}],
    Second  <- [f16 |-> {}, f32 |-> Borders(6, 2), f64 |-> Borders(7, 11)], Third <- {},
    Integer32 <- 0..511, Integer64 <- Integers2(19)

Estim == INSTANCE FloatUnit WITH
    F16 <- fmt(5, 10), F32 <- fmt(6, 11), F64 <- fmt(7, 12),
    I32 <- 20, I64 <- 24, FracBits <- 12, UnitModes <- IEEEModes,
    Operations <- {"f16", "f32", "f64"} \X {"rsqrte7", "recip7"},
    First   <- [f16 |-> Borders(5, 10) \union 0..1100 \union {i * 5 : i \in 0..13107},
                f32 |-> Borders(6, 11) \union {i * 191 : i \in 0..1372},
                f64 |-> Borders(7, 12) \union {i * 751 : i \in 0..1396}],
    Second  <- {}, Third <- {}, Integer32 <- {}, Integer64 <- {}

Order16 == fmt(5, 10)
Order32 == fmt(6, 2)
Order64 == fmt(7, 11)
OrderLeft == [f16 |-> Borders(5, 10) \union {i * 337 : i \in 0..194}, f32 |-> All(6, 2),
              f64 |-> Borders(7, 11) \union {i * 1021 : i \in 0..512}]
OrderRight == [f16 |-> Borders(5, 10), f32 |-> Borders(6, 2), f64 |-> Borders(7, 11)]

(* The instances meet what their modules assume of the constants.          *)
ASSUME SetupsAssumption ==
    /\ Half!FormatAssumption /\ Half!FracBitsAssumption
    /\ HalfInts!FormatAssumption /\ HalfInts!FracBitsAssumption
    /\ Arith!FormatAssumption /\ Arith!FracBitsAssumption
    /\ Conv!FormatAssumption /\ Conv!FracBitsAssumption
    /\ Estim!FormatAssumption /\ Estim!FracBitsAssumption

Init ==
    /\ setup \in {"half", "halfInts", "arith", "conv", "estim", "words", "order"}
    /\ unit = [phase |-> "idle"]
    /\ ProductInit /\ OrderInit

HalfNext ==
    /\ setup = "half"
    /\ \/ Half!SetRoundingMode
       \/ Half!ExecuteBinary
       \/ Half!ExecuteSquareRoot
       \/ Half!ExecuteMulAdd
       \/ Half!Retire
HalfIntsNext ==
    /\ setup = "halfInts"
    /\ \/ HalfInts!SetRoundingMode
       \/ HalfInts!ExecuteRoundToInt
       \/ HalfInts!ExecuteToInteger
       \/ HalfInts!ExecuteFromInteger
       \/ HalfInts!ExecuteConvert
       \/ HalfInts!Retire
ArithNext ==
    /\ setup = "arith"
    /\ \/ Arith!SetRoundingMode
       \/ Arith!ExecuteBinary
       \/ Arith!ExecuteSquareRoot
       \/ Arith!ExecuteMulAdd
       \/ Arith!Retire
ConvNext ==
    /\ setup = "conv"
    /\ \/ Conv!SetRoundingMode
       \/ Conv!ExecuteRoundToInt
       \/ Conv!ExecuteToInteger
       \/ Conv!ExecuteFromInteger
       \/ Conv!ExecuteConvert
       \/ Conv!Retire
EstimNext ==
    /\ setup = "estim"
    /\ \/ Estim!SetRoundingMode
       \/ Estim!ExecuteEstimate
       \/ Estim!Retire
WordsNext ==
    /\ setup = "words"
    /\ ProductNext
OrdersNext ==
    /\ setup = "order"
    /\ OrderNext
Next ==
    \/ (HalfNext \/ HalfIntsNext \/ ArithNext \/ ConvNext \/ EstimNext)
         /\ UNCHANGED <<setup, product, verdict>>
    \/ WordsNext /\ UNCHANGED <<setup, unit, verdict>>
    \/ OrdersNext /\ UNCHANGED <<setup, unit, product>>
Spec == Init /\ [][Next]_vars

(* Arithmetic gives the exact result rounded once, in every mode, with the *)
(* flags that go with it, and the estimates of 1/x and 1/sqrt(x) are good   *)
(* to seven bits (softfloat/f*_add.c to f*_mulAdd.c, fall_reciprocal.c).    *)
CorrectlyRounded ==
    /\ setup = "half" => Half!ArithmeticRounded
    /\ setup = "arith" => Arith!ArithmeticRounded
    /\ setup = "estim" => Estim!EstimatesClose

(* So do conversions between formats and to and from integers; those that   *)
(* overflow saturate (softfloat/f*_to_*.c, *_to_f*.c, f*_roundToInt.c).     *)
ConversionsRounded ==
    /\ setup = "halfInts" => HalfInts!ConversionRounded
    /\ setup = "conv" => Conv!ConversionRounded
=============================================================================
