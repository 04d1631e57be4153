------------------------------- MODULE MCPipeSim -------------------------------
(* The pipeline simulator with rings of 4 and latencies below, at and above *)
(* that: what the options set by default (3, 1 and 10 of 16) and beyond.    *)
EXTENDS PipeSim

MixedInsns ==
  {[attr |-> {}, rd |-> 1, srcs |-> {2}],
   [attr |-> {"ld"}, rd |-> 2, srcs |-> {1}],
   [attr |-> {"ld"}, rd |-> 3, srcs |-> {NOREG}],
   [attr |-> {"st"}, rd |-> NOREG, srcs |-> {1, 3}],
   [attr |-> {"fp"}, rd |-> 3, srcs |-> {3}],
   [attr |-> {"uj"}, rd |-> NOREG, srcs |-> {NOREG}]}
================================================================================
