----------------------------- MODULE GuestMachine ------------------------------
(***************************************************************************)
(* The reference machine: the loop of `caveat --show` (caveat.cc, main),   *)
(* which decodes the instruction at s.pc afresh every time and executes    *)
(* it.  It keeps no translation cache, so it is what every other way of    *)
(* running the guest must agree with.                                      *)
(***************************************************************************)
EXTENDS GuestCode

VARIABLES
  pc,       (* hart_t::s.pc                                                *)
  retired   (* the instruction last executed, and where: what is observed  *)

vars == << pc, retired >>

NoInsn == [at |-> 0, insn |-> "none"]

Init ==
  /\ pc = Entry
  /\ retired = NoInsn

(* One turn of the loop.  At an unmapped pc decoder() faults: no step.      *)
Step ==
  /\ pc \in Mapped
  /\ \E taken \in BOOLEAN :
       /\ MayReturn(Code[pc], taken)
       /\ pc' \in NextPC(pc, Code[pc], taken)
  /\ retired' = [at |-> pc, insn |-> Code[pc]]

Next == Step

Spec == Init /\ [][Next]_vars

(* Nothing in the loop waits for anyone.                                    *)
FairSpec == Spec /\ WF_vars(Next)
================================================================================
