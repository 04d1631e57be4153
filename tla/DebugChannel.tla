------------------------------ MODULE DebugChannel ------------------------------
(***************************************************************************)
(* What the debugger's link promises: commands are numbered as they are    *)
(* asked, each is done once, in order, and told to the debugger once.      *)
(***************************************************************************)
EXTENDS Naturals

VARIABLES
  asked,     (* commands the debugger has asked for                        *)
  done,      (* the last one done                                          *)
  told       (* the last one whose answer the debugger has                 *)

channelVars == << asked, done, told >>

ChannelInit == asked = 0 /\ done = 0 /\ told = 0

Ask  == told = asked /\ asked' = asked + 1 /\ UNCHANGED << done, told >>
Do   == done < asked /\ done' = done + 1 /\ UNCHANGED << asked, told >>
Tell == told < done /\ told' = done /\ UNCHANGED << asked, done >>

ChannelNext == Ask \/ Do \/ Tell

ChannelSpec == ChannelInit /\ [][ChannelNext]_channelVars
================================================================================
