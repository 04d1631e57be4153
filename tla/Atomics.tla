-------------------------------- MODULE Atomics --------------------------------
(***************************************************************************)
(* Guest atomics on one word of memory.  An amo is a loop of a load and a  *)
(* compare-and-swap (hart.h amo_int32(), amo_int64()).  An sc, with the lr *)
(* and the branch before it, is a compare-and-swap that expects the value  *)
(* that the branch compared with (cas(), substitute_cas()); lr is a plain  *)
(* load, and nothing watches the word in between.                          *)
(***************************************************************************)
EXTENDS Integers, HartSet

CONSTANTS
  Modulus,   (* of the word's arithmetic: 2^32 or 2^64                      *)
  Addends,   (* operands of amoadd and of the add between lr and sc        *)
  MaxOps     (* bound on the operations of each hart                       *)

ASSUME AtomicsAssumption ==
  Modulus \in Nat \ {0} /\ MaxOps \in Nat /\ Addends \subseteq Nat

VARIABLES
  word,      (* the word of guest memory                                   *)
  atomic,    (* atomic[h]: the instruction sequence that h is in           *)
  ops,       (* how many h has begun                                       *)
  added,     (* the sum of what successful swaps have added                *)
  writes     (* how often the word has been written                        *)

atomicVars == << word, atomic, ops, added, writes >>

NoAtomic == [pc |-> "idle", operand |-> 0, lhs |-> 0, stamp |-> 0]

AtomicsInit ==
  /\ word = 0
  /\ atomic = [h \in Hart |-> NoAtomic]
  /\ ops = [h \in Hart |-> 0]
  /\ added = 0
  /\ writes = 0

Begin(h, pc) ==
  /\ atomic[h].pc = "idle"
  /\ ops[h] < MaxOps
  /\ ops' = [ops EXCEPT ![h] = @ + 1]
  /\ \E n \in Addends : atomic' = [atomic EXCEPT ![h] = [NoAtomic EXCEPT !.pc = pc, !.operand = n]]
  /\ UNCHANGED << word, added, writes >>

(* lhs = *ptr, in the loop of an amo; and lr.                               *)
Load(h, from, to) ==
  /\ atomic[h].pc = from
  /\ atomic' = [atomic EXCEPT ![h].pc = to, ![h].lhs = word, ![h].stamp = writes]
  /\ UNCHANGED << word, ops, added, writes >>

amo(h) == Begin(h, "amo")
amo_load(h) == Load(h, "amo", "amo_swap")
lr(h) == Begin(h, "lr")
lr_load(h) == Load(h, "lr", "sc")

Sum(h) == (atomic[h].lhs + atomic[h].operand) % Modulus

(* Mutant: the store is not conditional (the sc of caveat --show).          *)
SwapAlways(h) ==
  /\ word' = Sum(h)
  /\ writes' = writes + 1
  /\ added' = added + atomic[h].operand
  /\ atomic' = [atomic EXCEPT ![h] = NoAtomic]
  /\ UNCHANGED ops

(* __sync_val_compare_and_swap().                                           *)
Swap(h) ==
  /\ word = atomic[h].lhs
  /\ word' = Sum(h)
  /\ writes' = writes + 1
  /\ added' = added + atomic[h].operand
  /\ atomic' = [atomic EXCEPT ![h] = NoAtomic]
  /\ UNCHANGED ops

amo_swap(h) == atomic[h].pc = "amo_swap" /\ Swap(h)

sc(h) == atomic[h].pc = "sc" /\ Swap(h)

(* The amo loads again, the sc sets its flag and the guest starts over.     *)
AtomicFails(h) ==
  /\ atomic[h].pc \in {"amo_swap", "sc"}
  /\ word # atomic[h].lhs
  /\ atomic' = [atomic EXCEPT ![h].pc = IF @ = "sc" THEN "lr" ELSE "amo"]
  /\ UNCHANGED << word, ops, added, writes >>

AtomicsNext ==
  \E h \in Hart :
    amo(h) \/ amo_load(h) \/ amo_swap(h) \/ lr(h) \/ lr_load(h) \/ sc(h) \/ AtomicFails(h)

AtomicsSpec == AtomicsInit /\ [][AtomicsNext]_atomicVars

----------------------------------------------------------------------------
(* Updates through amoadd and through lr, add and sc are never lost or made *)
(* twice, though the compare-and-swap cannot see that the word has changed  *)
(* and changed back: the word is what all successful updates add up to, in  *)
(* its width.  And nobody goes round in vain: where a swap is going to      *)
(* fail, another hart has swapped since the load (hart.h cas, amo_int32).   *)
NoLostUpdate ==
  /\ word = added % Modulus
  /\ \A h \in Hart :
       (atomic[h].pc \in {"amo_swap", "sc"} /\ word # atomic[h].lhs)
         => writes > atomic[h].stamp
================================================================================
