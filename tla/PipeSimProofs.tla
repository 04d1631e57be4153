----------------------------- MODULE PipeSimProofs -----------------------------
(***************************************************************************)
(* What the pipeline simulator and its display promise, for any            *)
(* instructions, any depth of the pipelines and any sizes of the rings.    *)
(***************************************************************************)
EXTENDS PipeSim, FiniteSetTheorems, TLAPS

Entries == [cycle : Nat, rd : Nat]

Types ==
  /\ insn \in Insns
  /\ busy \subseteq Nat
  /\ stage \in [Units -> [Ring -> 0 .. (HISTORY - 1) \cup {Empty}]]
  /\ countdown \in [Units -> [Ring -> Nat]]
  /\ \A u \in Units, s \in Ring : countdown[u][s] =< depth(u)
  /\ history \in [0 .. (HISTORY - 1) -> Entries]
  /\ executed \in Nat /\ cycle \in 0 .. MaxCycle /\ stalled \in Nat
  /\ snapshot \in [0 .. (HISTORY - 1) -> Nat]
  /\ stop_cycle \in 0 .. Forever /\ behind \in 1 .. HISTORY

(* Cycles since the instruction in stage s of u was issued.                *)
Age(u, s) == cycle - 1 - history[stage[u][s]].cycle

(* The time it takes: no stage is visited after the ring has come round.   *)
Shorter(u) == IF depth(u) =< max_pipe_depth THEN depth(u) ELSE max_pipe_depth
Remaining(u, age) == IF age = 0 THEN depth(u) ELSE Shorter(u) - age

(* An instruction in flight is in the stage of its cycle, counts down from *)
(* it, and its entry of the history is not yet another's.                  *)
InStage(u, s) ==
  /\ Age(u, s) \in 0 .. (Shorter(u) - 1)
  /\ (cycle - Age(u, s)) % max_pipe_depth = s
  /\ countdown[u][s] = Remaining(u, Age(u, s))
  /\ \E x \in Nat : /\ x < executed /\ executed =< x + Age(u, s) + 1
                    /\ stage[u][s] = x % HISTORY
  /\ stalled =< Age(u, s)

FlightInv == \A u \in Units, s \in Ring : stage[u][s] # Empty => InStage(u, s)

DisplayInv ==
  /\ cycle = 0 => behind = 1
  /\ cycle > 0 => behind =< cycle /\ executed > 0
  /\ cycle =< stop_cycle => behind = 1
  /\ \A j \in Nat : j < cycle /\ cycle =< j + HISTORY => snapshot[j % HISTORY] = j + 1

PipeInv == Types /\ FlightInv /\ BusyIsInFlight /\ StallsEnd /\ DisplayInv

----------------------------------------------------------------------------
(* Places in a ring.                                                        *)

LEMMA MultiplesApart ==
  ASSUME NEW m \in Nat \ {0}, NEW i \in Nat, NEW j \in Nat, i < j
  PROVE  m * j >= m * i + m /\ m * j \in Nat /\ m * i \in Nat
<1>1. m * (j - i - 1) >= 0
  BY SMT
<1>2. m * (j - i - 1) = m * j - m * i - m
  BY SMT
<1>3. m * j \in Nat /\ m * i \in Nat
  BY SMT
<1> QED
  BY <1>1, <1>2, <1>3, SMT

LEMMA DivisionIs ==
  ASSUME NEW m \in Nat \ {0}, NEW x \in Nat
  PROVE  x % m \in 0 .. (m - 1) /\ \E q \in Nat : m * q \in Nat /\ x = m * q + (x % m)
<1> DEFINE q == x \div m
<1>1. q \in Nat /\ x % m \in 0 .. (m - 1) /\ x = m * q + (x % m)
  BY SMT
<1>2. m * q \in Nat
  BY <1>1, SMT
<1> QED
  BY <1>1, <1>2

LEMMA RemainderIs ==
  ASSUME NEW m \in Nat \ {0}, NEW y \in Nat, NEW k \in Nat, NEW t \in Nat,
         y = m * k + t, t < m
  PROVE  y % m = t
<1>1. PICK d \in Nat : m * d \in Nat /\ y = m * d + (y % m)
  BY DivisionIs
<1>2. y % m \in 0 .. (m - 1)
  BY DivisionIs
<1>3. ~ d < k /\ ~ k < d
  BY <1>1, <1>2, MultiplesApart
<1>4. d = k
  BY <1>3
<1>5. m * k \in Nat
  BY <1>1, <1>4
<1> QED
  BY <1>1, <1>2, <1>4, <1>5

(* The place m further on is the same,                                     *)
LEMMA FullTurn ==
  ASSUME NEW m \in Nat \ {0}, NEW x \in Nat
  PROVE  (x + m) % m = x % m
<1>1. PICK q \in Nat : m * q \in Nat /\ x = m * q + (x % m)
  BY DivisionIs
<1>2. x % m \in Nat /\ x % m < m
  BY DivisionIs
<1>3. m * (q + 1) = m * q + m
  BY <1>1, SMT
<1> DEFINE y == x + m
           k == q + 1
           t == x % m
<1>4. y \in Nat /\ k \in Nat /\ t \in Nat /\ t < m /\ y = m * k + t
  BY <1>1, <1>2, <1>3
<1> HIDE DEF y, k, t
<1>5. y % m = t
  BY <1>4, RemainderIs
<1> QED
  BY <1>5 DEF y, t

(* and the only one before that.                                           *)
LEMMA OnePerTurn ==
  ASSUME NEW m \in Nat \ {0}, NEW x \in Nat, NEW y \in Nat, x =< y, y < x + m,
         x % m = y % m
  PROVE  x = y
<1>1. PICK q \in Nat : m * q \in Nat /\ x = m * q + (x % m)
  BY DivisionIs
<1>2. PICK r \in Nat : m * r \in Nat /\ y = m * r + (y % m)
  BY DivisionIs
<1>3. x % m \in 0 .. (m - 1)
  BY DivisionIs
<1>4. ~ q < r /\ ~ r < q
  BY <1>1, <1>2, <1>3, MultiplesApart
<1>5. q = r
  BY <1>4
<1> QED
  BY <1>1, <1>2, <1>5

LEMMA Sizes ==
  /\ max_pipe_depth \in Nat \ {0} /\ HISTORY \in Nat \ {0} /\ max_pipe_depth =< HISTORY
  /\ MaxCycle \in Nat /\ MaxLatency \in Nat
  /\ Ring = 0 .. (max_pipe_depth - 1)
  /\ \A u \in Units : /\ depth(u) \in Nat \ {0} /\ depth(u) =< max_pipe_depth + 1
                      /\ Shorter(u) \in Nat \ {0} /\ Shorter(u) =< depth(u)
                      /\ Shorter(u) =< max_pipe_depth
                      /\ depth(u) > max_pipe_depth => Shorter(u) = max_pipe_depth
                      /\ depth(u) =< max_pipe_depth => Shorter(u) = depth(u)
                      /\ depth(u) =< MaxLatency
<1>1. \A u \in Units : depth(u) \in 1 .. (max_pipe_depth + 1)
  BY PipeAssumption
<1>2. MaxLatency \in Nat /\ \A u \in Units : depth(u) =< MaxLatency
  <2>1. depth("iu") = conf_iu /\ depth("fpu") = conf_fpu /\ depth("mem") = conf_mem
    BY DEF depth
  <2>2. conf_iu \in Nat /\ conf_fpu \in Nat /\ conf_mem \in Nat
    BY <1>1, <2>1, PipeAssumption DEF Units
  <2>3. MaxLatency \in Nat /\ conf_iu =< MaxLatency /\ conf_fpu =< MaxLatency /\ conf_mem =< MaxLatency
    BY <2>2 DEF MaxLatency, Latest
  <2> QED
    BY <2>1, <2>3 DEF Units
<1> HIDE DEF depth
<1> QED
  BY <1>1, <1>2, PipeAssumption DEF Ring, Shorter

(* The stage of an instruction is visited once in a cycle; in the first     *)
(* cycle twice, if the pipeline is longer than the ring.                    *)
LEMMA VisitsAre ==
  ASSUME Types, NEW u \in Units, NEW s \in Ring, stage[u][s] # Empty, InStage(u, s)
  PROVE  Visits(u, s) = IF Age(u, s) = 0 /\ depth(u) > max_pipe_depth THEN 2 ELSE 1
<1> DEFINE D == max_pipe_depth
           L == depth(u)
           a == Age(u, s)
           K == {k \in 0 .. (L - 1) : index(k) = s}
<1>1. /\ D \in Nat \ {0} /\ L \in Nat \ {0} /\ L =< D + 1 /\ cycle \in Nat
      /\ a \in Nat /\ a < D /\ a < L
      /\ cycle - a \in Nat /\ (cycle - a) % D = s
  <2>1. history[stage[u][s]].cycle \in Nat
    BY DEF Types, Entries
  <2>2. a \in 0 .. (Shorter(u) - 1) /\ (cycle - a) % D = s
    BY DEF InStage
  <2>3. cycle \in Nat
    BY Sizes DEF Types
  <2>4. cycle - a = history[stage[u][s]].cycle + 1
    BY <2>1, <2>3 DEF Age
  <2>5. /\ D \in Nat \ {0} /\ L \in Nat \ {0} /\ L =< D + 1
        /\ Shorter(u) \in Nat /\ Shorter(u) =< D /\ Shorter(u) =< L
    BY Sizes
  <2> HIDE DEF a, D, L
  <2> QED
    BY <2>1, <2>2, <2>3, <2>4, <2>5 DEF D
<1> HIDE DEF D, L, a
<1>2. ASSUME NEW k \in 0 .. (L - 1)
      PROVE  (cycle - k + D) % D = s <=> k = a \/ (k = D /\ a = 0)
  <2> DEFINE e == cycle - a
             y == cycle - k + D
  <2>1. e \in Nat /\ e + D \in Nat /\ y \in Nat /\ e % D = s /\ (e + D) % D = s
    <3>1. e \in Nat /\ e + D \in Nat /\ y \in Nat /\ e % D = s
      BY <1>1
    <3> HIDE DEF e
    <3> QED
      BY <3>1, <1>1, FullTurn
  <2>2. CASE k = a
    BY <2>1, <2>2, <1>1
  <2>3. CASE k = D /\ a = 0
    BY <2>1, <2>3, <1>1
  <2>4. CASE ~(k = a \/ (k = D /\ a = 0))
    <3> SUFFICES ASSUME y % D = s
                 PROVE  FALSE
      BY <2>4
    <3>1. CASE k < a
      <4>1. e + D =< y /\ y < e + D + D
        BY <1>1, <3>1
      <4>2. y = e + D
        <5> HIDE DEF e, y
        <5> QED
          BY <2>1, <4>1, <1>1, OnePerTurn
      <4> QED
        BY <4>2, <3>1, <1>1
    <3>2. CASE a < k
      <4>1. y =< e + D /\ e + D < y + D
        BY <1>1, <2>4, <3>2
      <4>2. y = e + D
        <5> HIDE DEF e, y
        <5> QED
          BY <2>1, <4>1, <1>1, OnePerTurn
      <4> QED
        BY <4>2, <3>2, <1>1
    <3> QED
      BY <3>1, <3>2, <2>4, <1>1
  <2> QED
    BY <2>2, <2>3, <2>4
<1>3. Visits(u, s) = Cardinality(K) /\ K = {k \in 0 .. (L - 1) : (cycle - k + D) % D = s}
  BY DEF Visits, index, D, L
<1> HIDE DEF K
<1>4. CASE a = 0 /\ L > D
  <2>1. K = {0, D}
    <3>1. D \in Nat \ {0} /\ L \in Nat /\ L = D + 1 /\ K = {k \in 0 .. (L - 1) : (cycle - k + D) % D = s}
      BY <1>1, <1>3, <1>4
    <3>2. ASSUME NEW k \in 0 .. (L - 1) PROVE k \in K <=> k = 0 \/ k = D
      BY <1>2, <1>4, <3>1, Zenon
    <3>3. 0 \in 0 .. (L - 1) /\ D \in 0 .. (L - 1) /\ K \subseteq 0 .. (L - 1)
      BY <3>1
    <3> QED
      BY <3>2, <3>3, Zenon
  <2>2. {0, D} = {0} \cup {D} /\ D \notin {0}
    BY <1>1
  <2>3. IsFiniteSet({0}) /\ Cardinality({0}) = 1
    BY FS_Singleton
  <2>4. Cardinality({0} \cup {D}) = 2
    <3>1. Cardinality({0} \cup {D}) = Cardinality({0}) + 1
      BY <2>2, <2>3, FS_AddElement, Zenon
    <3> QED
      BY <2>3, <3>1
  <2> QED
    BY <1>3, <1>4, <2>1, <2>2, <2>4 DEF a, L, D
<1>5. CASE ~(a = 0 /\ L > D)
  <2>1. K = {a}
    BY <1>1, <1>2, <1>3, <1>5
  <2>2. Cardinality({a}) = 1
    BY FS_Singleton
  <2> QED
    BY <1>3, <1>5, <2>1, <2>2 DEF a, L, D
<1> QED
  BY <1>4, <1>5

LEMMA AgeIs ==
  ASSUME Types, NEW u \in Units, NEW s \in Ring, stage[u][s] # Empty, InStage(u, s)
  PROVE  /\ Age(u, s) \in Nat /\ Age(u, s) + 1 =< Shorter(u) /\ cycle \in Nat
         /\ stage[u][s] \in 0 .. (HISTORY - 1)
         /\ history[stage[u][s]] \in Entries /\ history[stage[u][s]].cycle \in Nat
         /\ Age(u, s) = cycle - 1 - history[stage[u][s]].cycle
         /\ cycle > 0
<1>1. Age(u, s) \in 0 .. (Shorter(u) - 1)
  BY DEF InStage
<1>2. stage[u][s] \in 0 .. (HISTORY - 1) \cup {Empty} /\ cycle \in Nat
  BY Sizes DEF Types
<1>3. history[stage[u][s]] \in Entries
  BY <1>2 DEF Types
<1>4. history[stage[u][s]].cycle \in Nat
  BY <1>3 DEF Entries
<1>5. Age(u, s) = cycle - 1 - history[stage[u][s]].cycle
  BY DEF Age
<1>6. Shorter(u) \in Nat
  BY Sizes
<1> HIDE DEF Age
<1> QED
  BY <1>1, <1>2, <1>3, <1>4, <1>5, <1>6

(* The clock takes out what has been in flight for as long as it takes.    *)
LEMMA Clocking ==
  ASSUME Types, NEW u \in Units, NEW s \in Ring, stage[u][s] # Empty, InStage(u, s)
  PROVE  /\ Finishes(u, s) <=> Age(u, s) + 1 = Shorter(u)
         /\ ~Finishes(u, s) => CountdownClocked[u][s] = Remaining(u, Age(u, s) + 1)
<1> DEFINE a == Age(u, s)
           v == Visits(u, s)
<1>1. a \in Nat /\ a + 1 =< Shorter(u)
  BY AgeIs
<1>2. v = IF a = 0 /\ depth(u) > max_pipe_depth THEN 2 ELSE 1
  BY VisitsAre
<1>3. countdown[u][s] = Remaining(u, a)
  BY DEF InStage
<1>4. Finishes(u, s) <=> v > 0 /\ countdown[u][s] =< v
  BY DEF Finishes
<1>5. ~Finishes(u, s) => CountdownClocked[u][s] = countdown[u][s] - v
  BY DEF CountdownClocked
<1>6. /\ depth(u) \in Nat \ {0} /\ depth(u) =< max_pipe_depth + 1 /\ max_pipe_depth \in Nat \ {0}
      /\ Shorter(u) \in Nat \ {0}
      /\ depth(u) > max_pipe_depth => Shorter(u) = max_pipe_depth
      /\ depth(u) =< max_pipe_depth => Shorter(u) = depth(u)
  BY Sizes
<1> HIDE DEF a, v
<1>7. Remaining(u, a) = (IF a = 0 THEN depth(u) ELSE Shorter(u) - a) /\ Remaining(u, a + 1) = Shorter(u) - (a + 1)
  BY <1>1 DEF Remaining
<1>8. CASE a = 0 /\ depth(u) > max_pipe_depth
  <2>1. v = 2 /\ countdown[u][s] = max_pipe_depth + 1 /\ Shorter(u) = max_pipe_depth
    BY <1>2, <1>3, <1>6, <1>7, <1>8
  <2> QED
    BY <2>1, <1>1, <1>4, <1>5, <1>6, <1>7, <1>8 DEF a
<1>9. CASE ~(a = 0 /\ depth(u) > max_pipe_depth)
  <2>1. v = 1 /\ countdown[u][s] = Shorter(u) - a
    BY <1>1, <1>2, <1>3, <1>6, <1>7, <1>9
  <2> QED
    BY <2>1, <1>1, <1>4, <1>5, <1>6, <1>7 DEF a
<1> QED
  BY <1>8, <1>9

Kept == {f \in Units \X Ring : StagesClocked[f[1]][f[2]] # Empty}

(* What stays in flight.                                                    *)
LEMMA KeptAre ==
  ASSUME PipeInv
  PROVE  /\ StagesClocked \in [Units -> [Ring -> 0 .. (HISTORY - 1) \cup {Empty}]]
         /\ CountdownClocked \in [Units -> [Ring -> Nat]]
         /\ \A u \in Units, s \in Ring : CountdownClocked[u][s] =< depth(u)
         /\ \A u \in Units, s \in Ring : StagesClocked[u][s] # Empty =>
              /\ stage[u][s] # Empty /\ StagesClocked[u][s] = stage[u][s]
              /\ Age(u, s) + 1 < Shorter(u)
              /\ CountdownClocked[u][s] = Remaining(u, Age(u, s) + 1)
         /\ Kept \subseteq InFlight
         /\ BusyClocked = {Target(f) : f \in Kept} \ {NOREG}
<1>1. /\ stage \in [Units -> [Ring -> 0 .. (HISTORY - 1) \cup {Empty}]]
      /\ countdown \in [Units -> [Ring -> Nat]]
      /\ \A u \in Units, s \in Ring : countdown[u][s] \in Nat /\ countdown[u][s] =< depth(u) /\ depth(u) \in Nat
  BY Sizes DEF PipeInv, Types
<1>2. \A u \in Units, s \in Ring :
        StagesClocked[u][s] = IF Finishes(u, s) THEN Empty ELSE stage[u][s]
  BY DEF StagesClocked
<1>3. StagesClocked \in [Units -> [Ring -> 0 .. (HISTORY - 1) \cup {Empty}]]
  BY <1>1 DEF StagesClocked
<1>4. ASSUME NEW u \in Units, NEW s \in Ring
      PROVE  /\ StagesClocked[u][s] # Empty =>
                  /\ stage[u][s] # Empty /\ StagesClocked[u][s] = stage[u][s]
                  /\ Age(u, s) + 1 < Shorter(u)
                  /\ CountdownClocked[u][s] = Remaining(u, Age(u, s) + 1)
             /\ CountdownClocked[u][s] \in Nat /\ CountdownClocked[u][s] =< depth(u)
  <2>1. CASE stage[u][s] = Empty
    BY <1>1, <1>2, <2>1 DEF CountdownClocked, Finishes
  <2>2. CASE stage[u][s] # Empty
    <3>1. Types /\ InStage(u, s)
      BY <2>2 DEF PipeInv, FlightInv
    <3>2. /\ Finishes(u, s) <=> Age(u, s) + 1 = Shorter(u)
          /\ ~Finishes(u, s) => CountdownClocked[u][s] = Remaining(u, Age(u, s) + 1)
      BY <2>2, <3>1, Clocking
    <3>3. Age(u, s) \in Nat /\ Age(u, s) + 1 =< Shorter(u)
      BY <2>2, <3>1, AgeIs
    <3>4. Shorter(u) \in Nat /\ Shorter(u) =< depth(u) /\ depth(u) \in Nat
      BY Sizes
    <3>5. CASE Finishes(u, s)
      <4>1. CountdownClocked[u][s] = 0
        BY <2>2, <3>5 DEF CountdownClocked
      <4> QED
        BY <4>1, <1>2, <3>4, <3>5
    <3>6. CASE ~Finishes(u, s)
      <4>1. Remaining(u, Age(u, s) + 1) = Shorter(u) - (Age(u, s) + 1)
        BY <3>3 DEF Remaining
      <4> HIDE DEF Age, Shorter
      <4> QED
        BY <4>1, <1>2, <2>2, <3>2, <3>3, <3>4, <3>6
    <3> QED
      BY <3>5, <3>6
  <2> QED
    BY <2>1, <2>2
<1>5. CountdownClocked \in [Units -> [Ring -> Nat]]
  <2>1. CountdownClocked = [u \in Units |-> [s \in Ring |-> CountdownClocked[u][s]]]
    BY DEF CountdownClocked
  <2> QED
    BY <1>4, <2>1
<1>6. Kept \subseteq InFlight
  BY <1>4 DEF Kept, InFlight
<1>7. BusyClocked = {Target(f) : f \in Kept} \ {NOREG}
  <2>1. /\ busy = {Target(f) : f \in InFlight} \ {NOREG}
        /\ \A f, g \in InFlight : f # g => Target(f) = NOREG \/ Target(f) # Target(g)
    BY DEF PipeInv, BusyIsInFlight
  <2>2. {f \in Units \X Ring : Finishes(f[1], f[2])} = InFlight \ Kept
    BY <1>2 DEF InFlight, Kept, Finishes
  <2>3. BusyClocked = busy \ {Target(f) : f \in {f \in Units \X Ring : Finishes(f[1], f[2])}}
    BY DEF BusyClocked, Target
  <2>4. BusyClocked = busy \ {Target(f) : f \in InFlight \ Kept}
    BY <2>2, <2>3
  <2> QED
    BY <1>6, <2>1, <2>4
<1> QED
  BY <1>3, <1>4, <1>5, <1>6, <1>7

----------------------------------------------------------------------------
LEMMA PipeInvInit == Init => PipeInv
<1> SUFFICES ASSUME Init
             PROVE  PipeInv
  OBVIOUS
<1>1. /\ HISTORY \in Nat \ {0} /\ max_pipe_depth \in Nat \ {0} /\ MaxCycle \in Nat
      /\ \A u \in Units : depth(u) \in Nat \ {0} /\ depth(u) =< MaxLatency
  BY Sizes
<1>2. Types
  <2>1. stage \in [Units -> [Ring -> 0 .. (HISTORY - 1) \cup {Empty}]]
    BY DEF Init
  <2>2. countdown \in [Units -> [Ring -> Nat]] /\ \A u \in Units, s \in Ring : countdown[u][s] =< depth(u)
    BY <1>1 DEF Init
  <2>3. history \in [0 .. (HISTORY - 1) -> Entries] /\ snapshot \in [0 .. (HISTORY - 1) -> Nat]
    BY DEF Init, Entries, NOREG
  <2>4. cycle \in 0 .. MaxCycle /\ stop_cycle \in 0 .. Forever /\ behind \in 1 .. HISTORY
    BY <1>1 DEF Init, Forever
  <2> QED
    BY <2>1, <2>2, <2>3, <2>4 DEF Init, Types
<1>3. \A u \in Units, s \in Ring : stage[u][s] = Empty
  BY DEF Init
<1>4. FlightInv /\ BusyIsInFlight
  BY <1>3 DEF FlightInv, BusyIsInFlight, InFlight, Init
<1>5. StallsEnd
  <2>1. "iu" \in Units /\ stalled = 0
    BY DEF Units, Init
  <2>2. MaxLatency \in Nat
    BY Sizes
  <2> QED
    BY <1>1, <2>1, <2>2 DEF StallsEnd
<1>6. DisplayInv
  BY DEF Init, DisplayInv
<1> QED
  BY <1>2, <1>4, <1>5, <1>6 DEF PipeInv

(* A cycle in which the instruction at the pc is refused: it waits for one  *)
(* that is in flight for longer than it waits.                              *)
LEMMA PipeInvRefuse ==
  ASSUME PipeInv, cycle < MaxCycle, cycle' = cycle + 1, Regs(insn) \cap BusyClocked # {}, Refuse
  PROVE  /\ stage' \in [Units -> [Ring -> 0 .. (HISTORY - 1) \cup {Empty}]]
         /\ countdown' \in [Units -> [Ring -> Nat]]
         /\ \A u \in Units, s \in Ring : countdown'[u][s] =< depth(u)
         /\ busy' \subseteq Nat /\ insn' \in Insns
         /\ history' \in [0 .. (HISTORY - 1) -> Entries]
         /\ executed' \in Nat /\ stalled' \in Nat /\ (executed > 0 => executed' > 0)
         /\ FlightInv' /\ BusyIsInFlight' /\ StallsEnd'
         /\ cycle = 0 => executed' > 0
<1> USE DEF PipeInv
<1>1. /\ stage' = StagesClocked /\ countdown' = CountdownClocked /\ busy' = BusyClocked
      /\ stalled' = stalled + 1 /\ UNCHANGED << insn, history, executed >>
  BY DEF Refuse
<1>2. Types /\ stalled \in Nat /\ cycle \in Nat /\ executed \in Nat
  BY Sizes DEF Types
<1>3. InFlight' = Kept /\ \A f \in Kept : Target(f)' = Target(f)
  <2>1. InFlight' = Kept
    BY <1>1 DEF InFlight, Kept
  <2>2. \A f \in Kept : f[1] \in Units /\ f[2] \in Ring
    BY DEF Kept
  <2>3. \A f \in Kept : StagesClocked[f[1]][f[2]] = stage[f[1]][f[2]]
    BY <2>2, KeptAre DEF Kept
  <2> QED
    BY <1>1, <2>1, <2>3 DEF Target
<1>4. BusyIsInFlight'
  <2>1. \A f, g \in Kept : f # g => Target(f) = NOREG \/ Target(f) # Target(g)
    BY KeptAre DEF BusyIsInFlight
  <2>2. busy' = {Target(f) : f \in Kept} \ {NOREG}
    BY <1>1, KeptAre
  <2>3. busy' = {Target(f)' : f \in InFlight'} \ {NOREG}
    BY <1>3, <2>2
  <2>4. \A f, g \in InFlight' : f # g => Target(f)' = NOREG \/ Target(f)' # Target(g)'
    BY <1>3, <2>1
  <2> QED
    BY <2>3, <2>4 DEF BusyIsInFlight
<1>5. ASSUME NEW u \in Units, NEW s \in Ring, stage'[u][s] # Empty
      PROVE  InStage(u, s)'
  <2> DEFINE a == Age(u, s)
  <2>1. /\ stage[u][s] # Empty /\ stage'[u][s] = stage[u][s]
        /\ a + 1 < Shorter(u)
        /\ countdown'[u][s] = Remaining(u, a + 1)
    BY <1>1, <1>5, KeptAre
  <2>2. InStage(u, s)
    BY <2>1 DEF FlightInv
  <2>3. Age(u, s)' = a + 1 /\ a \in Nat
    <3>1. /\ history[stage[u][s]].cycle \in Nat /\ a = cycle - 1 - history[stage[u][s]].cycle
          /\ a \in Nat
      BY <1>2, <2>1, <2>2, AgeIs
    <3>2. Age(u, s)' = cycle' - 1 - history[stage[u][s]].cycle
      BY <1>1, <2>1 DEF Age
    <3> HIDE DEF a
    <3> QED
      BY <1>2, <3>1, <3>2
  <2>4. Shorter(u) \in Nat
    BY Sizes
  <2>5. (cycle' - (a + 1)) % max_pipe_depth = s
    <3>1. cycle' - (a + 1) = cycle - a
      BY <1>2, <2>3
    <3> QED
      BY <2>2, <3>1 DEF InStage
  <2>6. \E x \in Nat : /\ x < executed' /\ executed' =< x + (a + 1) + 1
                       /\ stage'[u][s] = x % HISTORY
    <3>1. PICK x \in Nat : /\ x < executed /\ executed =< x + a + 1
                           /\ stage[u][s] = x % HISTORY
      BY <2>2 DEF InStage
    <3> HIDE DEF a
    <3> QED
      BY <1>1, <1>2, <2>1, <2>3, <3>1
  <2>7. stalled' =< a + 1
    <3>1. stalled =< a
      BY <2>2 DEF InStage
    <3> HIDE DEF a
    <3> QED
      BY <1>1, <1>2, <2>3, <3>1
  <2>8. a + 1 \in 0 .. (Shorter(u) - 1)
    BY <2>1, <2>3, <2>4
  <2> HIDE DEF a
  <2> QED
    BY <2>1, <2>3, <2>5, <2>6, <2>7, <2>8 DEF InStage
<1>6. FlightInv'
  BY <1>5 DEF FlightInv
<1>7. PICK r : r \in Regs(insn) /\ r \in BusyClocked
  OBVIOUS
<1>8. PICK f \in Kept : Target(f) = r
  BY <1>7, KeptAre
<1>9. StallsEnd'
  <2>1. f[1] \in Units /\ f[2] \in Ring /\ StagesClocked[f[1]][f[2]] # Empty
    BY <1>8 DEF Kept
  <2>2. Age(f[1], f[2]) + 1 < Shorter(f[1]) /\ stage[f[1]][f[2]] # Empty
    BY <2>1, KeptAre
  <2>3. InStage(f[1], f[2])
    BY <2>1, <2>2 DEF FlightInv
  <2>4. stalled =< Age(f[1], f[2]) /\ Age(f[1], f[2]) \in Nat
    BY <1>2, <2>1, <2>2, <2>3, AgeIs DEF InStage
  <2>5. Shorter(f[1]) \in Nat /\ Shorter(f[1]) =< depth(f[1]) /\ depth(f[1]) =< MaxLatency /\ depth(f[1]) \in Nat
    BY <2>1, Sizes
  <2>6. MaxLatency \in Nat
    BY Sizes
  <2> QED
    BY <1>1, <1>2, <2>2, <2>4, <2>5, <2>6 DEF StallsEnd
<1>10. cycle > 0 /\ executed > 0
  <2>1. f[1] \in Units /\ f[2] \in Ring /\ StagesClocked[f[1]][f[2]] # Empty
    BY <1>8 DEF Kept
  <2>2. stage[f[1]][f[2]] # Empty
    BY <2>1, KeptAre
  <2>3. InStage(f[1], f[2])
    BY <2>1, <2>2 DEF FlightInv
  <2>4. cycle > 0
    BY <1>2, <2>1, <2>2, <2>3, AgeIs
  <2> QED
    BY <2>4 DEF DisplayInv
<1>11. busy' \subseteq Nat
  BY <1>1, <1>2 DEF Types, BusyClocked
<1> QED
  BY <1>1, <1>2, <1>4, <1>6, <1>9, <1>10, <1>11, KeptAre DEF Types

(* A cycle in which it enters: the stage has just become empty, and the     *)
(* entry of the history is of nothing that is still in flight.              *)
LEMMA PipeInvEnter ==
  ASSUME PipeInv, cycle < MaxCycle, cycle' = cycle + 1, Regs(insn) \cap BusyClocked = {}, Enter
  PROVE  /\ stage' \in [Units -> [Ring -> 0 .. (HISTORY - 1) \cup {Empty}]]
         /\ countdown' \in [Units -> [Ring -> Nat]]
         /\ \A u \in Units, s \in Ring : countdown'[u][s] =< depth(u)
         /\ busy' \subseteq Nat /\ insn' \in Insns
         /\ history' \in [0 .. (HISTORY - 1) -> Entries]
         /\ executed' \in Nat /\ stalled' \in Nat /\ executed' > 0
         /\ FlightInv' /\ BusyIsInFlight' /\ StallsEnd'
<1> USE DEF PipeInv
<1>2. Types /\ stalled \in Nat /\ cycle \in Nat /\ executed \in Nat /\ insn \in Insns
  BY Sizes DEF Types
<1>3. /\ HISTORY \in Nat \ {0} /\ max_pipe_depth \in Nat \ {0} /\ max_pipe_depth =< HISTORY
      /\ Ring = 0 .. (max_pipe_depth - 1)
  BY Sizes
<1>4. PICK v \in Units : v = UnitOf(insn)
  BY DEF UnitOf, Units
<1>5. PICK t \in Ring, h \in 0 .. (HISTORY - 1) :
        t = (cycle + 1) % max_pipe_depth /\ h = executed % HISTORY
  <2>1. cycle + 1 \in Nat
    BY <1>2
  <2> QED
    BY <1>2, <1>3, <2>1, DivisionIs
<1>1. /\ stage' = [StagesClocked EXCEPT ![v][t] = h]
      /\ countdown' = [CountdownClocked EXCEPT ![v][t] = depth(v)]
      /\ busy' = (BusyClocked \cup {insn.rd}) \ {NOREG}
      /\ history' = [history EXCEPT ![h] = [cycle |-> cycle, rd |-> insn.rd]]
      /\ executed' = executed + 1 /\ stalled' = 0 /\ insn' \in Insns
  BY <1>4, <1>5 DEF Enter
<1>6. insn.rd \in Nat
  BY <1>2, PipeAssumption
<1>7. /\ StagesClocked \in [Units -> [Ring -> 0 .. (HISTORY - 1) \cup {Empty}]]
      /\ CountdownClocked \in [Units -> [Ring -> Nat]]
      /\ \A u \in Units, s \in Ring : CountdownClocked[u][s] =< depth(u) /\ depth(u) \in Nat
  BY KeptAre, Sizes
<1>8. \A u \in Units, s \in Ring :
        /\ stage'[u][s] = IF u = v /\ s = t THEN h ELSE StagesClocked[u][s]
        /\ countdown'[u][s] = IF u = v /\ s = t THEN depth(v) ELSE CountdownClocked[u][s]
  BY <1>1, <1>4, <1>5, <1>7
<1>9. /\ stage' \in [Units -> [Ring -> 0 .. (HISTORY - 1) \cup {Empty}]]
      /\ countdown' \in [Units -> [Ring -> Nat]]
      /\ \A u \in Units, s \in Ring : countdown'[u][s] =< depth(u)
  <2>1. stage' \in [Units -> [Ring -> 0 .. (HISTORY - 1) \cup {Empty}]]
    BY <1>1, <1>4, <1>5, <1>7
  <2>2. countdown' \in [Units -> [Ring -> Nat]]
    BY <1>1, <1>4, <1>5, <1>7
  <2>3. \A u \in Units, s \in Ring : countdown'[u][s] =< depth(u)
    BY <1>7, <1>8
  <2> QED
    BY <2>1, <2>2, <2>3
<1>10. [cycle |-> cycle, rd |-> insn.rd] \in Entries
  BY <1>2, <1>6 DEF Entries
<1>11. /\ history' \in [0 .. (HISTORY - 1) -> Entries]
       /\ \A i \in 0 .. (HISTORY - 1) :
            history'[i] = IF i = h THEN [cycle |-> cycle, rd |-> insn.rd] ELSE history[i]
  BY <1>1, <1>2, <1>5, <1>10 DEF Types
(* What stays in flight has another entry of the history, and if it is in   *)
(* the same pipeline another stage.                                         *)
<1>12. ASSUME NEW u \in Units, NEW s \in Ring, StagesClocked[u][s] # Empty
       PROVE  /\ ~(u = v /\ s = t)
              /\ stage'[u][s] = stage[u][s] /\ stage[u][s] \in 0 .. (HISTORY - 1) /\ stage[u][s] # h
              /\ history'[stage[u][s]] = history[stage[u][s]]
              /\ InStage(u, s)'
  <2> DEFINE a == Age(u, s)
  <2>1. /\ stage[u][s] # Empty /\ StagesClocked[u][s] = stage[u][s]
        /\ a + 1 < Shorter(u)
        /\ CountdownClocked[u][s] = Remaining(u, a + 1)
    BY <1>12, KeptAre
  <2>2. InStage(u, s)
    BY <2>1 DEF FlightInv
  <2>3. /\ history[stage[u][s]].cycle \in Nat /\ a = cycle - 1 - history[stage[u][s]].cycle
        /\ a \in Nat /\ stage[u][s] \in 0 .. (HISTORY - 1)
    BY <1>2, <2>1, <2>2, AgeIs
  <2>4. Shorter(u) \in Nat /\ Shorter(u) =< max_pipe_depth
    BY Sizes
  <2>5. (cycle - a) % max_pipe_depth = s
    BY <2>2 DEF InStage
  <2>6. PICK x \in Nat : /\ x < executed /\ executed =< x + a + 1
                         /\ stage[u][s] = x % HISTORY
    BY <2>2 DEF InStage
  <2>7. stalled =< a
    BY <2>2 DEF InStage
  <2> HIDE DEF a
  <2>17. a + 1 < max_pipe_depth /\ a + 1 < HISTORY
    BY <1>3, <2>1, <2>3, <2>4
  <2>18. cycle - a \in Nat
    BY <1>2, <2>3
  <2>8. ~(u = v /\ s = t)
    <3> SUFFICES ASSUME s = t
                 PROVE  FALSE
      OBVIOUS
    <3> DEFINE y == cycle - a
               z == cycle + 1
    <3>1. y \in Nat /\ z \in Nat /\ y =< z /\ z < y + max_pipe_depth /\ y # z
      <4>1. cycle \in Nat /\ max_pipe_depth \in Nat
        BY <1>2, <1>3
      <4> QED
        BY <4>1, <2>3, <2>17, <2>18
    <3>2. y % max_pipe_depth = z % max_pipe_depth
      BY <1>5, <2>5
    <3> HIDE DEF y, z
    <3> QED
      BY <1>3, <3>1, <3>2, OnePerTurn
  <2>9. stage[u][s] # h
    <3> SUFFICES ASSUME x % HISTORY = executed % HISTORY
                 PROVE  FALSE
      BY <1>5, <2>6
    <3>1. x =< executed /\ executed < x + HISTORY
      <4>1. executed \in Nat /\ HISTORY \in Nat /\ a \in Nat
        BY <1>2, <1>3, <2>3
      <4>2. x < executed /\ executed =< x + a + 1
        BY <2>6
      <4> QED
        BY <4>1, <4>2, <2>17
    <3>2. x = executed
      <4> DEFINE e == executed
      <4>1. e \in Nat /\ x =< e /\ e < x + HISTORY /\ x % HISTORY = e % HISTORY
        BY <1>2, <3>1
      <4> HIDE DEF e
      <4>2. x = e
        BY <1>3, <4>1, OnePerTurn
      <4> QED
        BY <4>2 DEF e
    <3> QED
      BY <1>2, <2>6, <3>2
  <2>10. stage'[u][s] = stage[u][s] /\ countdown'[u][s] = Remaining(u, a + 1)
    BY <1>8, <2>1, <2>8
  <2>11. history'[stage[u][s]] = history[stage[u][s]]
    BY <1>11, <2>3, <2>9
  <2>12. Age(u, s)' = a + 1
    <3>1. Age(u, s)' = cycle' - 1 - history[stage[u][s]].cycle
      BY <2>10, <2>11 DEF Age
    <3> QED
      BY <1>2, <2>3, <3>1
  <2>13. (cycle' - (a + 1)) % max_pipe_depth = s
    <3>1. cycle' - (a + 1) = cycle - a
      BY <1>2, <2>3
    <3> QED
      BY <2>5, <3>1
  <2>14. executed' =< x + (a + 1) + 1 /\ x < executed' /\ stalled' =< a + 1
    BY <1>1, <1>2, <2>3, <2>6
  <2>15. a + 1 \in 0 .. (Shorter(u) - 1)
    BY <2>1, <2>3, <2>4
  <2>16. InStage(u, s)'
    BY <2>6, <2>10, <2>12, <2>13, <2>14, <2>15 DEF InStage
  <2> QED
    BY <2>3, <2>8, <2>9, <2>10, <2>11, <2>16
<1>13. InStage(v, t)'
  <2>1. stage'[v][t] = h /\ countdown'[v][t] = depth(v) /\ history'[h].cycle = cycle
    BY <1>4, <1>5, <1>8, <1>11
  <2>2. Age(v, t)' = 0
    <3>1. Age(v, t)' = cycle' - 1 - cycle
      BY <2>1 DEF Age
    <3> QED
      BY <1>2, <3>1
  <2>3. 0 \in 0 .. (Shorter(v) - 1) /\ Remaining(v, 0) = depth(v)
    BY <1>4, Sizes DEF Remaining
  <2>4. (cycle' - 0) % max_pipe_depth = t
    <3>1. cycle' - 0 = cycle + 1
      BY <1>2
    <3> QED
      BY <1>5, <3>1
  <2>5. executed < executed' /\ executed' =< executed + 0 + 1 /\ stalled' =< 0
    BY <1>1, <1>2
  <2> QED
    BY <1>2, <1>5, <2>1, <2>2, <2>3, <2>4, <2>5 DEF InStage
<1>14. FlightInv'
  <2> SUFFICES ASSUME NEW u \in Units, NEW s \in Ring, stage'[u][s] # Empty
               PROVE  InStage(u, s)'
    BY DEF FlightInv
  <2> QED
    BY <1>8, <1>12, <1>13
<1> DEFINE new == << v, t >>
<1>15. /\ InFlight' = Kept \cup {new} /\ new \notin Kept
       /\ Target(new)' = insn.rd
       /\ \A f \in Kept : Target(f)' = Target(f)
  <2>1. \A f \in Kept : /\ f[1] \in Units /\ f[2] \in Ring /\ StagesClocked[f[1]][f[2]] # Empty
                        /\ f = << f[1], f[2] >>
    BY DEF Kept
  <2>2. new \in Units \X Ring /\ new[1] = v /\ new[2] = t
    BY <1>4, <1>5
  <2>3. new \notin Kept
    BY <1>12, <2>1, <2>2
  <2>4. h # Empty
    BY <1>3, <1>5 DEF Empty
  <2>5. InFlight' = Kept \cup {new}
    <3>1. \A f \in Units \X Ring : f \in InFlight' <=> f \in Kept \/ f = new
      <4> SUFFICES ASSUME NEW u \in Units, NEW s \in Ring
                   PROVE  << u, s >> \in InFlight' <=> << u, s >> \in Kept \/ << u, s >> = new
        OBVIOUS
      <4>1. << u, s >> \in InFlight' <=> stage'[u][s] # Empty
        BY DEF InFlight
      <4>2. << u, s >> \in Kept <=> StagesClocked[u][s] # Empty
        BY DEF Kept
      <4> QED
        BY <1>8, <2>4, <4>1, <4>2
    <3>2. InFlight' \subseteq Units \X Ring /\ Kept \subseteq Units \X Ring
      BY DEF InFlight, Kept
    <3> QED
      BY <2>2, <3>1, <3>2
  <2>6. Target(new)' = insn.rd
    BY <1>4, <1>5, <1>8, <1>11, <2>2 DEF Target
  <2>7. \A f \in Kept : Target(f)' = Target(f)
    BY <1>12, <2>1 DEF Target
  <2> QED
    BY <2>3, <2>5, <2>6, <2>7
<1> HIDE DEF new
<1>16. BusyIsInFlight'
  <2>1. \A f, g \in Kept : f # g => Target(f) = NOREG \/ Target(f) # Target(g)
    BY KeptAre DEF BusyIsInFlight
  <2>2. BusyClocked = {Target(f) : f \in Kept} \ {NOREG}
    BY KeptAre
  <2>3. \A f \in Kept : insn.rd = NOREG \/ Target(f) # insn.rd
    BY <2>2 DEF Regs
  <2>4. busy' = {Target(f)' : f \in InFlight'} \ {NOREG}
    BY <1>1, <1>15, <2>2
  <2>5. \A f, g \in InFlight' : f # g => Target(f)' = NOREG \/ Target(f)' # Target(g)'
    BY <1>15, <2>1, <2>3
  <2> QED
    BY <2>4, <2>5 DEF BusyIsInFlight
<1>17. StallsEnd'
  <2>1. depth(v) \in Nat \ {0} /\ depth(v) =< MaxLatency /\ MaxLatency \in Nat
    BY <1>4, Sizes
  <2> QED
    BY <1>1, <2>1 DEF StallsEnd
<1>18. busy' \subseteq Nat
  BY <1>1, <1>2, <1>6 DEF Types, BusyClocked
<1> QED
  BY <1>1, <1>2, <1>9, <1>11, <1>14, <1>16, <1>17, <1>18

(* One turn of the loop in interactive().                                   *)
LEMMA PipeInvAdvance ==
  ASSUME PipeInv, Advance
  PROVE  PipeInv'
<1> DEFINE j == cycle' - 1
<1>1. /\ cycle =< stop_cycle /\ cycle < MaxCycle /\ cycle' = cycle + 1
      /\ snapshot' = [snapshot EXCEPT ![(cycle' - behind) % HISTORY] = cycle']
      /\ UNCHANGED << stop_cycle, behind >>
  BY DEF Advance
<1>2. /\ Types /\ DisplayInv /\ cycle \in Nat /\ executed \in Nat /\ stop_cycle \in 0 .. Forever
      /\ snapshot \in [0 .. (HISTORY - 1) -> Nat] /\ behind \in 1 .. HISTORY
  BY Sizes DEF PipeInv, Types
<1>3. HISTORY \in Nat \ {0} /\ MaxCycle \in Nat
  BY Sizes
<1>4. /\ stage' \in [Units -> [Ring -> 0 .. (HISTORY - 1) \cup {Empty}]]
      /\ countdown' \in [Units -> [Ring -> Nat]]
      /\ \A u \in Units, s \in Ring : countdown'[u][s] =< depth(u)
      /\ busy' \subseteq Nat /\ insn' \in Insns
      /\ history' \in [0 .. (HISTORY - 1) -> Entries]
      /\ executed' \in Nat /\ stalled' \in Nat
      /\ FlightInv' /\ BusyIsInFlight' /\ StallsEnd'
      /\ (executed > 0 \/ cycle = 0) => executed' > 0
  BY <1>1, PipeInvEnter, PipeInvRefuse DEF Advance
<1>5. behind = 1
  BY <1>1, <1>2 DEF DisplayInv
<1>6. cycle % HISTORY \in 0 .. (HISTORY - 1)
  BY <1>2, <1>3, DivisionIs
<1>7. /\ snapshot' \in [0 .. (HISTORY - 1) -> Nat]
      /\ \A i \in 0 .. (HISTORY - 1) :
           snapshot'[i] = IF i = cycle % HISTORY THEN cycle + 1 ELSE snapshot[i]
  <2>1. cycle' - behind = cycle
    BY <1>1, <1>2, <1>5
  <2>2. snapshot' = [snapshot EXCEPT ![cycle % HISTORY] = cycle + 1]
    BY <1>1, <2>1
  <2> QED
    BY <1>2, <1>6, <2>2
<1>8. Types'
  <2>1. cycle' \in 0 .. MaxCycle
    BY <1>1, <1>2, <1>3
  <2> QED
    BY <1>1, <1>2, <1>4, <1>7, <2>1 DEF Types
<1>9. ASSUME NEW i \in Nat, i < cycle', cycle' =< i + HISTORY
      PROVE  snapshot'[i % HISTORY] = i + 1
  <2>1. i % HISTORY \in 0 .. (HISTORY - 1)
    BY <1>3, DivisionIs
  <2>2. CASE i = cycle
    BY <1>7, <2>1, <2>2
  <2>3. CASE i # cycle
    <3>1. i < cycle /\ cycle < i + HISTORY /\ cycle =< i + HISTORY
      BY <1>1, <1>2, <1>3, <1>9, <2>3
    <3>2. i % HISTORY # cycle % HISTORY
      <4> DEFINE c == cycle
      <4>1. c \in Nat /\ i =< c /\ c < i + HISTORY /\ i # c
        BY <1>2, <2>3, <3>1
      <4> HIDE DEF c
      <4>2. i % HISTORY # c % HISTORY
        BY <1>3, <4>1, OnePerTurn
      <4> QED
        BY <4>2 DEF c
    <3>3. snapshot[i % HISTORY] = i + 1
      BY <1>2, <3>1 DEF DisplayInv
    <3> QED
      BY <1>7, <2>1, <3>2, <3>3
  <2> QED
    BY <2>2, <2>3
<1>10. DisplayInv'
  <2>1. executed' > 0
    BY <1>2, <1>4 DEF DisplayInv
  <2> QED
    BY <1>1, <1>2, <1>5, <1>9, <2>1 DEF DisplayInv
<1> QED
  BY <1>4, <1>8, <1>10 DEF PipeInv

(* The keys.                                                                *)
LEMMA PipeInvKeys ==
  ASSUME PipeInv, GoBack \/ GoForward \/ Continue \/ OtherKey
  PROVE  PipeInv'
<1>1. UNCHANGED << pipeVars, snapshot >>
  BY DEF GoBack, GoForward, Continue, OtherKey
<1>2. /\ DisplayInv /\ cycle \in 0 .. MaxCycle /\ behind \in 1 .. HISTORY
      /\ HISTORY \in Nat \ {0} /\ MaxCycle \in Nat /\ Forever = MaxCycle + 1
  BY Sizes DEF PipeInv, Types, Forever
<1>3. /\ stop_cycle' \in 0 .. Forever /\ behind' \in 1 .. HISTORY
      /\ cycle = 0 => behind' = 1
      /\ cycle > 0 => behind' =< cycle
      /\ cycle =< stop_cycle' => behind' = 1
  <2>1. CASE GoBack
    BY <1>2, <2>1 DEF GoBack, DisplayInv
  <2>2. CASE GoForward
    BY <1>2, <2>2 DEF GoForward, DisplayInv
  <2>3. CASE Continue
    BY <1>2, <2>3 DEF Continue, DisplayInv
  <2>4. CASE OtherKey
    BY <1>2, <2>4 DEF OtherKey, DisplayInv
  <2> QED
    BY <2>1, <2>2, <2>3, <2>4
<1>4. Types'
  BY <1>1, <1>3 DEF PipeInv, Types, pipeVars
<1>5. FlightInv'
  BY <1>1 DEF PipeInv, FlightInv, InStage, Age, pipeVars
<1>6. BusyIsInFlight'
  BY <1>1 DEF PipeInv, BusyIsInFlight, InFlight, Target, pipeVars
<1>7. StallsEnd'
  BY <1>1 DEF PipeInv, StallsEnd, pipeVars
<1>8. DisplayInv'
  BY <1>1, <1>2, <1>3 DEF DisplayInv, pipeVars
<1> QED
  BY <1>4, <1>5, <1>6, <1>7, <1>8 DEF PipeInv

LEMMA PipeInvStays ==
  ASSUME PipeInv, UNCHANGED vars
  PROVE  PipeInv'
<1>1. Types'
  BY DEF PipeInv, Types, vars, pipeVars, displayVars
<1>2. FlightInv'
  BY DEF PipeInv, FlightInv, InStage, Age, vars, pipeVars, displayVars
<1>3. BusyIsInFlight'
  BY DEF PipeInv, BusyIsInFlight, InFlight, Target, vars, pipeVars, displayVars
<1>4. StallsEnd' /\ DisplayInv'
  BY DEF PipeInv, StallsEnd, DisplayInv, vars, pipeVars, displayVars
<1> QED
  BY <1>1, <1>2, <1>3, <1>4 DEF PipeInv

(* What is in flight is where its issue and its latency put it, however the *)
(* rings wrap and whatever is typed (pipesim.cc, display.cc).               *)
THEOREM PipeInvAlways == Spec => []PipeInv
<1>1. PipeInv /\ [Next]_vars => PipeInv'
  BY PipeInvAdvance, PipeInvKeys, PipeInvStays DEF Next
<1> QED
  BY <1>1, PipeInvInit, PTL DEF Spec

(* Indexes and times stay in their ranges (pipesim.cc, display.cc).         *)
THEOREM PipeSimTypeCorrect == Spec => []TypeOK
<1>1. PipeInv => TypeOK
  <2> SUFFICES ASSUME PipeInv, NEW u \in Units, NEW s \in Ring
               PROVE  countdown[u][s] \in 0 .. depth(u)
    BY DEF PipeInv, Types, TypeOK
  <2> QED
    BY Sizes DEF PipeInv, Types
<1> QED
  BY <1>1, PipeInvAlways, PTL

(* The busy registers are those of the instructions in flight, each of one  *)
(* (issue(), clock_pipeline()).                                             *)
THEOREM BusyRegistersInFlight == Spec => []BusyIsInFlight
<1>1. PipeInv => BusyIsInFlight
  BY DEF PipeInv
<1> QED
  BY <1>1, PipeInvAlways, PTL

(* No instruction waits as long as the longest latency (issue()).           *)
THEOREM EveryStallEnds == Spec => []StallsEnd
<1>1. PipeInv => StallsEnd
  BY DEF PipeInv
<1> QED
  BY <1>1, PipeInvAlways, PTL

(* The window shows the cycle it should (interactive(), paint_state()).     *)
THEOREM WindowShowsItsCycle == Spec => []ShowsThatCycle
<1>1. PipeInv => ShowsThatCycle
  <2> SUFFICES ASSUME PipeInv, cycle > 0
               PROVE  snapshot[(cycle - behind) % HISTORY] = cycle - behind + 1 /\ executed > 0
    BY DEF ShowsThatCycle
  <2> DEFINE j == cycle - behind
  <2>1. /\ cycle \in Nat /\ behind \in 1 .. HISTORY /\ HISTORY \in Nat /\ DisplayInv
        /\ behind =< cycle /\ executed > 0
    BY Sizes DEF PipeInv, Types, DisplayInv
  <2>2. j \in Nat /\ j < cycle /\ cycle =< j + HISTORY
    BY <2>1
  <2> HIDE DEF j
  <2>3. snapshot[j % HISTORY] = j + 1
    BY <2>1, <2>2 DEF DisplayInv
  <2> QED
    BY <2>1, <2>3 DEF j
<1> QED
  BY <1>1, PipeInvAlways, PTL
================================================================================
