------------------------------- MODULE GuestCode -------------------------------
(***************************************************************************)
(* The guest program as the simulator sees it: what decoder() returns at   *)
(* each mapped address, reduced to what the control flow depends on.  The  *)
(* attributes come from the third column of opcodes/RV-CG.def, from which  *)
(* opcodes/crunch.py generates the tables stop_before, stop_after and ATTR *)
(* that hart.cc reads.                                                     *)
(*                                                                         *)
(*    class      opcodes                             attributes            *)
(*    "plain"    arithmetic, loads, stores, lr, ...  none of <, >, cj, uj  *)
(*    "branch"   beq, bne, ..., c.beqz, c.bnez       cj,>                  *)
(*    "jump"     j, jal, jr, jalr, ret, c.j, ...     uj,>                  *)
(*    "serial"   ecall, fence, fence.i, csrr*        <,>                   *)
(*    "amo"      amoadd.w, amoswap.d, ...            >                     *)
(*    "sc"       sc.w, sc.d in the lr-bne-sc pattern >                     *)
(*    "lone_sc"  sc.w, sc.d outside that pattern     >                     *)
(*    "cas"      cas.w, cas.d: an sc rewritten by substitute_cas           *)
(***************************************************************************)
EXTENDS Naturals

CONSTANTS
  Code,    (* Code[a]: the instruction decoded at guest address a          *)
  Entry    (* where emulate_execve() sets the program counter              *)

Class == {"plain", "branch", "jump", "serial", "amo", "sc", "lone_sc", "cas"}

(* len: 2 if compressed(), else 4.  dest: the values a taken branch or jump *)
(* can put in s.pc, whatever the registers hold.                            *)
Insn == [class : Class, len : {2, 4}, dest : SUBSET Nat]

Mapped == DOMAIN Code

(* Page zero is never mapped.  Nothing is assumed of where a branch or a    *)
(* jump goes, nor of what follows an instruction.                           *)
ASSUME CodeAssumption ==
  /\ Mapped \subseteq Nat \ {0}
  /\ \A a \in Mapped : Code[a] \in Insn
  /\ Entry \in Mapped

stop_before(insn) == insn.class = "serial"
stop_after(insn)  == insn.class # "plain"
conditional(insn) == insn.class = "branch"

(* Whether execute_instruction() returns `taken` for the instruction.       *)
MayReturn(insn, taken) ==
  IF taken THEN insn.class \in {"branch", "jump"}
           ELSE insn.class # "jump"

(* The program counters execute_instruction() can leave behind.             *)
NextPC(a, insn, taken) ==
  IF taken THEN insn.dest ELSE {a + insn.len}

(* substitute_cas(): a store conditional becomes a compare-and-swap of the  *)
(* same length; every other instruction is cached as decoded.               *)
Predecode(insn) ==
  IF insn.class = "sc" THEN [insn EXCEPT !.class = "cas"] ELSE insn
================================================================================
