------------------------------ MODULE HighProduct ------------------------------
(***************************************************************************)
(* The upper half of a product (arithmetic.h), put together from products  *)
(* of half words, for the instructions mulhu, mulh and mulhsu of           *)
(* src/opcodes/RV-CG.def.  A word is two digits in base Base: 2^32 in the  *)
(* source, where a word has 64 bits.                                       *)
(***************************************************************************)
EXTENDS Integers

CONSTANT Base

ASSUME BaseAssumption == Base \in Nat \ {0} /\ Base % 2 = 0

VARIABLE product

Word  == Base * Base
Words == 0..(Word - 1)
lo(x) == x % Base
hi(x) == x \div Base
wrap(x) == x % Word
asInt(x) == IF x >= Word \div 2 THEN x - Word ELSE x

(* Mutant: the carry out of the middle products is lost. *)
mulhuNoCarry(a, b) ==
    LET t1 == wrap(hi(a) * lo(b) + hi(lo(a) * lo(b)))
        t2 == lo(wrap(lo(a) * hi(b) + lo(t1)))
    IN  wrap(hi(a) * hi(b) + hi(t1) + hi(t2))

mulhu(a, b) ==
    LET t1 == wrap(hi(a) * lo(b) + hi(lo(a) * lo(b)))
        t2 == wrap(lo(a) * hi(b) + lo(t1))
    IN  wrap(hi(a) * hi(b) + hi(t1) + hi(t2))

(* Of a negative product the words are the complement of its magnitude's,  *)
(* plus one: a carry into the upper word only when the lower word is zero. *)
(* a * b wraps, and so does -a for the least a, as the host's do.          *)
complement(x)  == Word - 1 - x
negated(res, a, b) == wrap(complement(res) + (IF wrap(a * b) = 0 THEN 1 ELSE 0))
abs(a) == wrap(IF a < 0 THEN -a ELSE a)

mulh(a, b) ==
    LET res == mulhu(abs(a), abs(b))
    IN  asInt(IF (a < 0) # (b < 0) THEN negated(res, a, b) ELSE res)

mulhsu(a, b) ==
    LET res == mulhu(abs(a), b)
    IN  asInt(IF a < 0 THEN negated(res, a, b) ELSE res)

NoProduct == [op |-> "none"]

Compute(op, u1, u2, value) ==
    /\ product = NoProduct
    /\ product' = [op |-> op, u1 |-> u1, u2 |-> u2, value |-> value]

MULHU(u1, u2)  == Compute("mulhu", u1, u2, mulhu(u1, u2))
MULH(u1, u2)   == Compute("mulh", u1, u2, mulh(asInt(u1), asInt(u2)))
MULHSU(u1, u2) == Compute("mulhsu", u1, u2, mulhsu(asInt(u1), u2))
RetireProduct == product # NoProduct /\ product' = NoProduct

ProductInit == product = NoProduct
ProductNext ==
    \/ \E u1, u2 \in Words : MULHU(u1, u2)
    \/ \E u1, u2 \in Words : MULH(u1, u2)
    \/ \E u1, u2 \in Words : MULHSU(u1, u2)
    \/ RetireProduct
ProductSpec == ProductInit /\ [][ProductNext]_product

(* The three instructions return the upper word of the product of their    *)
(* operands, each read as signed or unsigned as the instruction says       *)
(* (arithmetic.h mulhu(), mulh(), mulhsu()).                               *)
HighProducts ==
    CASE product.op = "mulhu"  -> product.value = (product.u1 * product.u2) \div Word
      [] product.op = "mulh"   -> product.value = (asInt(product.u1) * asInt(product.u2)) \div Word
      [] product.op = "mulhsu" -> product.value = (asInt(product.u1) * product.u2) \div Word
      [] OTHER                 -> TRUE
=============================================================================
