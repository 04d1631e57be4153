----------------------------- MODULE MCBlockInterp -----------------------------
(* Guest programs for model checking BlockInterp; the cfgs give the sizes.  *)
EXTENDS BlockInterp, TLC

I(class, len, dest) == [class |-> class, len |-> len, dest |-> dest]

Run(from, len, n) == [a \in {from + len * k : k \in 0 .. n - 1} |-> I("plain", len, {})]

(* A program with every kind of instruction, around a jump register that    *)
(* goes to the start and into the middle of a block, to a store conditional *)
(* out of its pattern, to code that runs off the program text, to two runs  *)
(* longer than a block may be (in words and in bytes), and to null.         *)
MixedCode ==
     4 :> I("plain", 2, {})
  @@ 6 :> I("plain", 4, {})
  @@ 10 :> I("branch", 4, {6, 26})
  @@ 14 :> I("plain", 4, {})
  @@ 18 :> I("serial", 4, {})
  @@ 22 :> I("sc", 4, {})
  @@ 26 :> I("jump", 2, {4, 14, 28, 32, 66, 74, 100, 0})
  @@ 28 :> I("lone_sc", 4, {})
  @@ 32 :> I("plain", 4, {})
  @@ Run(66, 2, 10)
  @@ 86 :> I("branch", 2, {4, 26})
  @@ 88 :> I("jump", 4, {26})
  @@ Run(100, 4, 7)
  @@ 128 :> I("jump", 4, {26})

(* The same with one more way into the run of two-byte instructions, from   *)
(* where it makes a block that only just does not fit a tiny cache.         *)
TinyCode == [MixedCode EXCEPT ![26] = I("jump", 2, {4, 14, 28, 32, 66, 68, 74, 100, 0})]
================================================================================
