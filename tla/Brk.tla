---------------------------------- MODULE Brk ----------------------------------
(***************************************************************************)
(* The guest's break (loader.cc emulate_brk()).  It is tested and set      *)
(* without a lock, with a system call to the host in between.  A step is   *)
(* one access to current.brk, or one call of the host.                     *)
(***************************************************************************)
EXTENDS Integers, HartSet

CONSTANTS
  PageSize,  (* RISCV_PGSIZE                                               *)
  brk_min,
  brk_max,
  BrkAddrs   (* what guests ask for                                        *)

ASSUME BrkAssumption ==
  /\ PageSize \in Nat \ {0}
  /\ brk_min \in Nat \ {0} /\ brk_max \in Nat
  /\ brk_min =< brk_max
  /\ BrkAddrs \subseteq Nat

VARIABLES
  brk,       (* current.brk; 0 until the first call                        *)
  mapped,    (* the addresses of the pages mapped for the break            *)
  brkcall,   (* brkcall[h]: the emulate_brk() that h is in                 *)
  granted,   (* what the last call returned                                *)
  overlapped (* two calls have been under way at once                      *)

brkVars == << brk, mapped, brkcall, granted, overlapped >>

RoundUp(a) == ((a + PageSize - 1) \div PageSize) * PageSize

(* Mutant: the upper limit is not tested.                                   *)
ClampLow(addr) == IF addr < brk_min THEN brk_min ELSE addr

(* CLAMP(addr, brk_min, brk_max), as its if and else if spell it.           *)
Clamp(addr) ==
  IF addr < brk_min THEN brk_min ELSE IF addr > brk_max THEN brk_max ELSE addr

Pages(from, to) == {a \in from .. (to - 1) : a % PageSize = 0}

NoBrkCall == [pc |-> "idle", newbrk |-> 0, seen |-> 0]

BrkInit ==
  /\ brk = 0
  /\ mapped = {}
  /\ brkcall = [h \in Hart |-> NoBrkCall]
  /\ granted = brk_min
  /\ overlapped = FALSE

(* Entry, and the test of brk against 0.                                    *)
EnterBrk(h) ==
  /\ brkcall[h].pc = "idle"
  /\ \E addr \in BrkAddrs :
       brkcall' = [brkcall EXCEPT ![h] =
                     [pc |-> IF brk = 0 THEN "first" ELSE "compare",
                      newbrk |-> Clamp(addr), seen |-> brk]]
  /\ overlapped' = (overlapped \/ \E g \in Hart : brkcall[g].pc # "idle")
  /\ UNCHANGED << brk, mapped, granted >>

FirstBrk(h) ==
  /\ brkcall[h].pc = "first"
  /\ brk' = RoundUp(brk_min)
  /\ brkcall' = [brkcall EXCEPT ![h].pc = "compare", ![h].seen = RoundUp(brk_min)]
  /\ UNCHANGED << mapped, granted, overlapped >>

(* The comparisons with the page of the new break.  The build may read brk  *)
(* again or use what it knows of it.                                        *)
CompareBrk(h) ==
  /\ brkcall[h].pc = "compare"
  /\ \E old \in {brkcall[h].seen, brk} :
       brkcall' = [brkcall EXCEPT ![h].pc = "remap", ![h].seen = old]
  /\ UNCHANGED << brk, mapped, granted, overlapped >>

(* Mutant: a break that shrinks keeps its pages.                            *)
RemapGrow(h) ==
  LET old  == brkcall[h].seen
      page == RoundUp(brkcall[h].newbrk)
  IN  /\ brkcall[h].pc = "remap"
      /\ mapped' = mapped \cup Pages(old, page)
      /\ brkcall' = [brkcall EXCEPT ![h].pc = IF old < page THEN "assert" ELSE "store"]
      /\ UNCHANGED << brk, granted, overlapped >>

(* munmap() or mmap() of what lies between, or neither.  mmap() returns the *)
(* address it was given.                                                    *)
Remap(h) ==
  LET old  == brkcall[h].seen
      page == RoundUp(brkcall[h].newbrk)
  IN  /\ brkcall[h].pc = "remap"
      /\ mapped' = (mapped \ Pages(page, old)) \cup Pages(old, page)
      /\ brkcall' = [brkcall EXCEPT ![h].pc = IF old < page THEN "assert" ELSE "store"]
      /\ UNCHANGED << brk, granted, overlapped >>

(* The assertion reads brk again: when another hart has moved it since, it  *)
(* ends the process.                                                        *)
AssertBrk(h) ==
  /\ brkcall[h].pc = "assert"
  /\ brkcall' = [brkcall EXCEPT ![h].pc = IF brk = brkcall[h].seen THEN "store" ELSE "aborted"]
  /\ UNCHANGED << brk, mapped, granted, overlapped >>

(* brk = newbrk_page; return newbrk.                                        *)
StoreBrk(h) ==
  /\ brkcall[h].pc = "store"
  /\ brk' = RoundUp(brkcall[h].newbrk)
  /\ granted' = brkcall[h].newbrk
  /\ brkcall' = [brkcall EXCEPT ![h] = NoBrkCall]
  /\ UNCHANGED << mapped, overlapped >>

BrkNext ==
  /\ \A h \in Hart : brkcall[h].pc # "aborted"
  /\ \E h \in Hart :
       \/ EnterBrk(h) \/ FirstBrk(h) \/ CompareBrk(h)
       \/ Remap(h) \/ AssertBrk(h) \/ StoreBrk(h)

BrkSpec == BrkInit /\ [][BrkNext]_brkVars

----------------------------------------------------------------------------
(* As long as no two calls have been under way at once, the pages mapped    *)
(* between calls are those below the break, and the address returned last   *)
(* lies in the last of them (emulate_brk(): none leaked by a break that     *)
(* shrinks, none missing after one that grows, whatever the order); and the *)
(* assertion ends no process.                                               *)
BreakMapsExactly ==
  ~overlapped =>
    /\ \A h \in Hart : brkcall[h].pc # "aborted"
    /\ (\A h \in Hart : brkcall[h].pc = "idle") =>
         /\ brk # 0 => mapped = Pages(RoundUp(brk_min), brk)
         /\ brk = 0 => mapped = {}
         /\ brk # 0 => RoundUp(granted) = brk

(* Whatever the interleaving, also when calls do overlap and the pages end  *)
(* up wrong: the break stays between its limits, no page outside them is    *)
(* mapped, and a hart about to remap has only readings within them.         *)
BreakStaysInRegion ==
  LET Breaks == {a \in RoundUp(brk_min) .. RoundUp(brk_max) : a % PageSize = 0}
  IN  /\ brk \in Breaks \cup {0}
      /\ mapped \subseteq Pages(RoundUp(brk_min), RoundUp(brk_max))
      /\ granted \in brk_min .. brk_max
      /\ \A h \in Hart :
           /\ brkcall[h].pc # "idle" => brkcall[h].newbrk \in brk_min .. brk_max
           /\ brkcall[h].pc \in {"compare", "remap"} =>
                brkcall[h].seen \in Breaks
================================================================================
