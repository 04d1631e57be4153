-------------------------------- MODULE PipeSim --------------------------------
(***************************************************************************)
(* The pipeline simulator (pipesim.cc) and the display that drives it      *)
(* (display.cc): one instruction is issued per cycle, into one of three    *)
(* pipelines, unless a register of it is busy.  A pipeline is a ring of    *)
(* max_pipe_depth stages, whose entries point into the ring of history     *)
(* entries; each stage counts down the time until its register is free.    *)
(* The object comes from the zeroed pool: all stages are empty at first.   *)
(***************************************************************************)
EXTENDS Integers, FiniteSets

CONSTANTS
  Insns,       (* [attr, rd, srcs]: what decoder() may return: the         *)
               (* attributes, and the registers the issue logic looks at   *)
  max_pipe_depth,
  HISTORY,
  conf_iu, conf_fpu, conf_mem,
  Keys,        (* keys that are pressed                                    *)
  MaxCycle     (* bound on cycle                                           *)

NOREG == 0
Units == {"iu", "fpu", "mem"}
depth(u) == CASE u = "iu" -> conf_iu [] u = "fpu" -> conf_fpu [] u = "mem" -> conf_mem

(* With a latency of 0 a register would never be free.  From                *)
(* max_pipe_depth + 2 on, index() is negative in the first cycles, and the  *)
(* memory before the ring taken for a stage.                                *)
ASSUME PipeAssumption ==
  /\ max_pipe_depth \in Nat \ {0} /\ HISTORY \in Nat /\ MaxCycle \in Nat
  /\ \A u \in Units : depth(u) \in 1 .. (max_pipe_depth + 1)
  /\ HISTORY >= max_pipe_depth
  /\ \A i \in Insns : i.rd \in Nat /\ i.srcs \subseteq Nat

VARIABLES
  insn,        (* the instruction at the pc                                *)
  busy,        (* the busy registers                                       *)
  stage,       (* stage[u]: ring of indexes into history, or Empty         *)
  countdown,
  history,     (* ring of [cycle, rd]                                      *)
  executed,
  cycle,
  stalled,     (* cycles in which insn has been refused                    *)
  snapshot,    (* ring of windows: the cycle each one shows                *)
  stop_cycle,
  behind

pipeVars == << insn, busy, stage, countdown, history, executed, cycle, stalled >>
displayVars == << snapshot, stop_cycle, behind >>
vars == << pipeVars, displayVars >>

Ring == 0 .. (max_pipe_depth - 1)
Empty == -1
Forever == MaxCycle + 1   (* LLONG_MAX *)

Init ==
  /\ insn \in Insns
  /\ busy = {}
  /\ stage = [u \in Units |-> [s \in Ring |-> Empty]]
  /\ countdown = [u \in Units |-> [s \in Ring |-> 0]]
  /\ history = [i \in 0 .. (HISTORY - 1) |-> [cycle |-> 0, rd |-> NOREG]]
  /\ executed = 0 /\ cycle = 0 /\ stalled = 0
  /\ snapshot = [i \in 0 .. (HISTORY - 1) |-> 0]
  /\ stop_cycle = 0 /\ behind = 1

----------------------------------------------------------------------------
(* clock_pipeline(): the stages that the loop over depth(u) visits, some    *)
(* twice if it is longer than the ring, count down; at 0 the register is    *)
(* free and the stage empty.                                                *)
index(k) == (cycle - k + max_pipe_depth) % max_pipe_depth

(* Mutant: the loop ends one stage early.                                   *)
VisitsShort(u, s) == Cardinality({k \in 0 .. (depth(u) - 2) : index(k) = s})

Visits(u, s) == Cardinality({k \in 0 .. (depth(u) - 1) : index(k) = s})

Finishes(u, s) ==
  /\ stage[u][s] # Empty
  /\ Visits(u, s) > 0
  /\ countdown[u][s] =< Visits(u, s)

StagesClocked ==
  [u \in Units |-> [s \in Ring |-> IF Finishes(u, s) THEN Empty ELSE stage[u][s]]]

CountdownClocked ==
  [u \in Units |-> [s \in Ring |->
     IF stage[u][s] = Empty THEN countdown[u][s]
     ELSE IF Finishes(u, s) THEN 0
     ELSE countdown[u][s] - Visits(u, s)]]

BusyClocked ==
  busy \ {history[stage[f[1]][f[2]]].rd : f \in {f \in Units \X Ring : Finishes(f[1], f[2])}}

(* Mutant: the destination may be busy.                                     *)
RegsRead(i) == i.srcs \ {NOREG}

(* issue().                                                                 *)
Regs(i) == ({i.rd} \cup i.srcs) \ {NOREG}

UnitOf(i) ==
  CASE "fp" \in i.attr                      -> "fpu"
    [] "fp" \notin i.attr /\ i.attr \cap {"ld", "st", "rmw"} # {} -> "mem"
    [] OTHER                                -> "iu"

Refuse ==
  /\ stage' = StagesClocked /\ countdown' = CountdownClocked /\ busy' = BusyClocked
  /\ stalled' = stalled + 1
  /\ UNCHANGED << insn, history, executed >>

Enter ==
  LET u == UnitOf(insn)
      s == (cycle + 1) % max_pipe_depth
      h == executed % HISTORY
  IN  /\ stage' = [StagesClocked EXCEPT ![u][s] = h]
      /\ countdown' = [CountdownClocked EXCEPT ![u][s] = depth(u)]
      /\ busy' = (BusyClocked \cup {insn.rd}) \ {NOREG}
      /\ history' = [history EXCEPT ![h] = [cycle |-> cycle, rd |-> insn.rd]]
      /\ executed' = executed + 1
      /\ stalled' = 0
      /\ insn' \in Insns

(* One turn of the loop in interactive(): all pipelines are clocked, the    *)
(* cycle is counted, the instruction at the pc is issued or refused, and    *)
(* the state painted.                                                       *)
Advance ==
  /\ cycle =< stop_cycle /\ cycle < MaxCycle
  /\ cycle' = cycle + 1
  /\ \/ Regs(insn) \cap BusyClocked = {} /\ Enter
     \/ Regs(insn) \cap BusyClocked # {} /\ Refuse
  /\ snapshot' = [snapshot EXCEPT ![(cycle' - behind) % HISTORY] = cycle']
  /\ UNCHANGED << stop_cycle, behind >>

(* Mutant: one picture too far.                                             *)
GoBackTooFar ==
  /\ "b" \in Keys
  /\ behind' = IF behind =< HISTORY /\ cycle - behind > 0 THEN behind + 1 ELSE behind
  /\ stop_cycle' = 0
  /\ UNCHANGED << pipeVars, snapshot >>

----------------------------------------------------------------------------
(* The keys.                                                                *)
GoBack ==
  /\ "b" \in Keys
  /\ behind' = IF behind < HISTORY /\ cycle - behind > 0 THEN behind + 1 ELSE behind
  /\ stop_cycle' = 0
  /\ UNCHANGED << pipeVars, snapshot >>

(* Mutant: past the latest picture.                                         *)
GoForwardPast ==
  /\ "f" \in Keys
  /\ behind' = behind - 1
  /\ stop_cycle' = IF behind - 1 =< 0 THEN cycle ELSE 0
  /\ UNCHANGED << pipeVars, snapshot >>

GoForward ==
  /\ "f" \in Keys
  /\ behind' = IF behind - 1 =< 0 THEN 1 ELSE behind - 1
  /\ stop_cycle' = IF behind - 1 =< 0 THEN cycle ELSE 0
  /\ UNCHANGED << pipeVars, snapshot >>

(* c and C; number is what was typed before.                                *)
Continue ==
  /\ "c" \in Keys
  /\ \E number \in 0 .. MaxCycle :
       stop_cycle' = IF number # 0 THEN number ELSE Forever
  /\ behind' = 1
  /\ UNCHANGED << pipeVars, snapshot >>

OtherKey ==
  /\ "x" \in Keys
  /\ stop_cycle' = 0
  /\ UNCHANGED << pipeVars, snapshot, behind >>

Next == Advance \/ GoBack \/ GoForward \/ Continue \/ OtherKey

Spec == Init /\ [][Next]_vars

----------------------------------------------------------------------------
InFlight == {f \in Units \X Ring : stage[f[1]][f[2]] # Empty}
Target(f) == history[stage[f[1]][f[2]]].rd

TypeOK ==
  /\ insn \in Insns
  /\ \A u \in Units, s \in Ring :
       stage[u][s] \in 0 .. (HISTORY - 1) \cup {Empty} /\ countdown[u][s] \in 0 .. depth(u)
  /\ behind \in 1 .. HISTORY
  /\ cycle \in 0 .. MaxCycle /\ stop_cycle \in 0 .. Forever

(* The busy registers are those that instructions in flight will write,     *)
(* each register that of one instruction only, through every refusal, and   *)
(* though a stage finds its register in an entry of the history that has    *)
(* long been some other instruction's turn to use (pipesim.cc issue(),      *)
(* clock_pipeline()).                                                       *)
BusyIsInFlight ==
  /\ busy = {Target(f) : f \in InFlight} \ {NOREG}
  /\ \A f, g \in InFlight :
       f # g => \/ Target(f) = NOREG
                \/ Target(f) # Target(g)

Latest(a, b) == IF a > b THEN a ELSE b
MaxLatency == Latest(conf_iu, Latest(conf_fpu, conf_mem))

(* An instruction waits less than the longest latency, whatever was issued  *)
(* before it (pipesim.cc issue(), pipesim.h index()).                       *)
StallsEnd == stalled < MaxLatency

(* The window on the screen shows the state of behind - 1 cycles ago, as    *)
(* far back as the ring goes and whatever the keys pressed, and no state is *)
(* painted before an instruction has been executed (display.cc              *)
(* interactive(), paint_state()).  Unless a key was pressed before the      *)
(* first cycle: there is no window then.                                    *)
ShowsThatCycle ==
  cycle > 0 =>
    /\ snapshot[(cycle - behind) % HISTORY] = cycle - behind + 1
    /\ executed > 0
================================================================================
