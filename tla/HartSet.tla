-------------------------------- MODULE HartSet --------------------------------
(***************************************************************************)
(* The harts that share one process, for the modules about what they share *)
(* beside the list of harts itself (that is module Harts).                 *)
(***************************************************************************)
EXTENDS FiniteSets

CONSTANT Hart

ASSUME HartSetAssumption == IsFiniteSet(Hart)
================================================================================
