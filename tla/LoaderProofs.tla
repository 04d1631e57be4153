------------------------------ MODULE LoaderProofs ------------------------------
(***************************************************************************)
(* Why the loader leaves every file where its headers say, and a stack     *)
(* that reads back as it was meant, for any files that are linked as       *)
(* Linked() says, any page size and any arguments.                         *)
(* The loops over the program headers, the host's auxiliary vector and the *)
(* strings are recursive functions: that they are defined, and what they   *)
(* keep from turn to turn, is shown by induction, which is derived here    *)
(* for sets from the well-foundedness of the natural numbers.              *)
(***************************************************************************)
EXTENDS Loader, WellFoundedInduction, FiniteSetTheorems, SequenceTheorems, TLAPS

(* A set of natural numbers has a least one.                                *)
LEMMA LeastNatural ==
  ASSUME NEW T, T \subseteq Nat, T # {}
  PROVE  \E m \in T : \A k \in T : m <= k
<1>1. \E x \in T : \A y \in T : ~ (<< y, x >> \in OpToRel(<, Nat))
  BY WFMin, NatLessThanWellFounded, Zenon
<1>2. PICK x \in T : \A y \in T : ~ (<< y, x >> \in OpToRel(<, Nat))
  BY <1>1
<1>3. ASSUME NEW y \in T PROVE x <= y
  <2>1. << y, x >> \notin OpToRel(<, Nat)
    BY <1>2
  <2>2. ~ (y < x)
    BY <2>1 DEF OpToRel
  <2> QED BY <2>2
<1> QED BY <1>3

(* Induction, about a set: what holds of 0 and is handed on holds of all.    *)
LEMMA Induction ==
  ASSUME NEW P, 0 \in P, \A n \in Nat : n \in P => n + 1 \in P
  PROVE  Nat \subseteq P
<1>1. SUFFICES ASSUME Nat \ P # {} PROVE FALSE
  OBVIOUS
<1>2. \E m \in Nat \ P : \A k \in Nat \ P : m <= k
  BY <1>1, LeastNatural, Zenon
<1>3. PICK m \in Nat \ P : \A k \in Nat \ P : m <= k
  BY <1>2
<1>4. m - 1 \in Nat /\ m - 1 \notin Nat \ P
  BY <1>3
<1> QED BY <1>3, <1>4

(* The numbers of a list have an upper bound.                               *)
LEMMA Bounded ==
  ASSUME NEW N \in Nat, NEW v \in [1 .. N -> Nat]
  PROVE  \E u \in Nat : \A i \in 1 .. N : v[i] <= u
<1> DEFINE P == {n \in Nat : \E u \in Nat : \A i \in 1 .. N : i <= n => v[i] <= u}
<1>1. 0 \in P
  OBVIOUS
<1>2. ASSUME NEW n \in Nat, n \in P PROVE n + 1 \in P
  <2>1. PICK u \in Nat : \A i \in 1 .. N : i <= n => v[i] <= u
    BY <1>2
  <2>2. CASE n + 1 \in 1 .. N
    <3>1. PICK w \in Nat : w >= u /\ w >= v[n + 1]
      BY <2>2
    <3>2. \A i \in 1 .. N : i <= n + 1 => v[i] <= w
      BY <2>1, <3>1
    <3> QED BY <3>2
  <2>3. CASE n + 1 \notin 1 .. N
    BY <2>1, <2>3
  <2> QED BY <2>2, <2>3
<1>3. Nat \subseteq P
  <2> HIDE DEF P
  <2> QED BY <1>1, <1>2, Induction, Zenon
<1>4. N \in P
  BY <1>3
<1> QED BY <1>4

(* The largest of them.                                                     *)
LEMMA Greatest ==
  ASSUME NEW S, S \subseteq Nat, S # {}, NEW u \in Nat, \A x \in S : x <= u
  PROVE  \E m \in S : \A x \in S : m >= x
<1> DEFINE T == {b \in Nat : \A x \in S : x <= b}
<1>1. T \subseteq Nat /\ u \in T
  OBVIOUS
<1>2. \E b \in T : \A k \in T : b <= k
  BY <1>1, LeastNatural, Zenon
<1>3. PICK b \in T : \A k \in T : b <= k
  BY <1>2
<1>4. b \in S
  <2> SUFFICES ASSUME b \notin S PROVE FALSE
    OBVIOUS
  <2>1. \A x \in S : x \in Nat /\ x <= b /\ x # b
    OBVIOUS
  <2>2. PICK y \in S : TRUE
    OBVIOUS
  <2>3. b - 1 \in Nat /\ \A x \in S : x <= b - 1
    BY <2>1, <2>2
  <2> QED BY <2>3, <1>3
<1> QED BY <1>3, <1>4

(* A multiple of a number leaves no trace in the remainder.                 *)
LEMMA SameRemainder ==
  ASSUME NEW P \in Nat \ {0}, NEW v \in Nat, NEW b \in Nat, b % P = 0
  PROVE  (v + b) % P = v % P
<1> DEFINE q == b \div P
           d == v \div P
           e == (v + b) \div P
           r == v % P
           s == (v + b) % P
<1>1. /\ q \in Nat /\ d \in Nat /\ e \in Nat /\ r \in 0 .. P - 1 /\ s \in 0 .. P - 1
      /\ b = P * q /\ v = P * d + r /\ v + b = P * e + s
  BY SMT
<1> HIDE DEF q, d, e, r, s
<1>2. P * (e - d - q) = r - s
  <2>1. P * (e - d - q) = P * e - P * d - P * q
    BY <1>1, SMT
  <2> QED BY <1>1, <2>1, SMT
<1>3. ASSUME NEW z \in Int, P * z > 0 - P, P * z < P PROVE z = 0
  <2>1. ~ (z >= 1)
    <3>1. z >= 1 => P * (z - 1) >= 0 /\ P * (z - 1) = P * z - P
      BY SMT
    <3> QED BY <3>1, <1>3, SMT
  <2>2. ~ (z <= -1)
    <3>1. z <= -1 => P * (-1 - z) >= 0 /\ P * (-1 - z) = 0 - P - P * z
      BY SMT
    <3> QED BY <3>1, <1>3, SMT
  <2> QED BY <2>1, <2>2, SMT
<1>4. e - d - q = 0
  BY <1>1, <1>2, <1>3, SMT
<1>5. r = s
  BY <1>1, <1>2, <1>4, SMT
<1> QED BY <1>5 DEF r, s

(* The index of a multiple is found by dividing.                             *)
LEMMA Counted ==
  ASSUME NEW W \in Nat \ {0}, NEW i \in Nat
  PROVE  (i * W) \div W = i
  OBVIOUS

--------------------------------------------------------------------------------
(* The loop over the program headers: what the memory is after each turn.    *)
LEMMA ReadsInTurn ==
  ASSUME NEW mem, NEW f, NEW bias, Len(File[f].ph) \in Nat
  PROVE  \E r : /\ ReadSegments(mem, f, bias) = r[Len(File[f].ph)]
               /\ r[0] = mem
               /\ \A i \in 1 .. Len(File[f].ph) :
                    r[i] = IF File[f].ph[i].type = "PT_LOAD"
                           THEN ReadSegment(r[i - 1], f, bias, File[f].ph[i]) ELSE r[i - 1]
<1> DEFINE ph == File[f].ph
           N == Len(ph)
           Turn(g, i) == IF i = 0 THEN mem
                         ELSE IF ph[i].type = "PT_LOAD" THEN ReadSegment(g[i - 1], f, bias, ph[i])
                         ELSE g[i - 1]
           P == {n \in Nat : \E g : g = [i \in 0 .. n |-> Turn(g, i)]}
<1>1. 0 \in P
  <2> DEFINE g == [i \in 0 .. 0 |-> mem]
  <2>1. g = [i \in 0 .. 0 |-> Turn(g, i)]
    OBVIOUS
  <2> QED BY <2>1
<1>2. ASSUME NEW n \in Nat, n \in P PROVE n + 1 \in P
  <2>1. PICK g : g = [i \in 0 .. n |-> Turn(g, i)]
    BY <1>2
  <2> DEFINE h == [i \in 0 .. n + 1 |-> IF i <= n THEN g[i] ELSE Turn(g, n + 1)]
  <2>2. ASSUME NEW i \in 0 .. n + 1 PROVE h[i] = Turn(h, i)
    <3>1. i # 0 => h[i - 1] = g[i - 1]
      OBVIOUS
    <3>2. Turn(h, i) = Turn(g, i)
      BY <3>1
    <3>3. CASE i <= n
      <4>1. i \in 0 .. n /\ h[i] = g[i]
        BY <3>3
      <4>2. g[i] = Turn(g, i)
        <5> HIDE DEF Turn, h
        <5> QED BY <2>1, <4>1
      <4> QED BY <4>1, <4>2, <3>2
    <3>4. CASE ~ (i <= n)
      <4>1. i = n + 1
        BY <3>4
      <4> QED BY <4>1, <3>4, <3>2
    <3> QED BY <3>3, <3>4
  <2>3. h = [i \in 0 .. n + 1 |-> Turn(h, i)]
    <3>1. h = [i \in 0 .. n + 1 |-> h[i]]
      OBVIOUS
    <3> HIDE DEF Turn, h
    <3> QED BY <3>1, <2>2
  <2>4. \E k : k = [i \in 0 .. n + 1 |-> Turn(k, i)]
    <3> HIDE DEF Turn, h
    <3> QED BY <2>3
  <2> QED BY <2>4
<1>3. Nat \subseteq P
  <2> HIDE DEF P
  <2> QED BY <1>1, <1>2, Induction, Zenon
<1> DEFINE r == CHOOSE g : g = [i \in 0 .. N |-> Turn(g, i)]
<1>4. r = [i \in 0 .. N |-> Turn(r, i)]
  <2>1. \E g : g = [i \in 0 .. N |-> Turn(g, i)]
    BY <1>3
  <2> HIDE DEF Turn, N
  <2> QED BY <2>1
<1>5. ReadSegments(mem, f, bias) = r[N]
  BY DEF ReadSegments
<1>6. \A i \in 0 .. N : r[i] = Turn(r, i)
  <2> HIDE DEF Turn, N, r
  <2> QED BY <1>4
<1>7. r[0] = mem /\ \A i \in 1 .. N : r[i] = Turn(r, i) /\ i # 0
  BY <1>6
<1> HIDE DEF r
<1> QED BY <1>5, <1>7

InSegment(a, bias, q) == a - (q.vaddr + bias) \in 0 .. (q.memsz - 1)
ByteOf(f, bias, q, a) ==
  IF a - (q.vaddr + bias) < q.filesz THEN << f, q.offset + (a - (q.vaddr + bias)) >> ELSE Zero

(* What it means for a file to be as linkers make them, segment by segment.  *)
LEMMA LinkedHeaders ==
  ASSUME NEW f, Linked(f)
  PROVE  /\ Len(File[f].ph) \in Nat /\ DOMAIN File[f].ph = 1 .. Len(File[f].ph)
         /\ Loads(f) = {File[f].ph[i] : i \in {j \in 1 .. Len(File[f].ph) :
                                                 File[f].ph[j].type = "PT_LOAD"}}
         /\ Loads(f) # {} /\ File[f].e_phoff \in Nat /\ File[f].e_entry \in Nat
<1> DEFINE ph == File[f].ph
<1>1. ph \in Seq(ToSet(ph)) /\ Loads(f) # {} /\ File[f].e_phoff \in Nat /\ File[f].e_entry \in Nat
  BY DEF Linked
<1>2. Len(ph) \in Nat /\ DOMAIN ph = 1 .. Len(ph)
  <2> HIDE DEF ph
  <2> QED BY <1>1
<1>3. Loads(f) = {ph[i] : i \in {j \in 1 .. Len(ph) : ph[j].type = "PT_LOAD"}}
  BY <1>2 DEF Loads, Headers, ToSet
<1> QED BY <1>1, <1>2, <1>3

(* The same of the segments themselves.                                      *)
LEMMA LinkedSegments ==
  ASSUME NEW f, Linked(f)
  PROVE  /\ \A q \in Loads(f) : /\ q.vaddr \in Nat /\ q.offset \in Nat
                                /\ q.filesz \in Nat /\ q.memsz \in Nat /\ q.filesz <= q.memsz
         /\ \A q, r \in Loads(f) : q # r => \/ q.vaddr + q.memsz <= r.vaddr
                                            \/ r.vaddr + r.memsz <= q.vaddr
<1> DEFINE ph == File[f].ph
           Loaded == {i \in DOMAIN ph : ph[i].type = "PT_LOAD"}
<1>1. Loads(f) = {ph[i] : i \in Loaded}
  BY LinkedHeaders
<1>2. \A i \in Loaded :
           /\ {ph[i].vaddr, ph[i].offset, ph[i].filesz, ph[i].memsz} \subseteq Nat
           /\ ph[i].filesz <= ph[i].memsz
           /\ \A j \in Loaded \ {i} : \/ ph[i].vaddr + ph[i].memsz <= ph[j].vaddr
                                     \/ ph[j].vaddr + ph[j].memsz <= ph[i].vaddr
  BY DEF Linked
<1> HIDE DEF ph, Loaded
<1>3. ASSUME NEW q \in Loads(f)
      PROVE  /\ q.vaddr \in Nat /\ q.offset \in Nat
             /\ q.filesz \in Nat /\ q.memsz \in Nat /\ q.filesz <= q.memsz
  BY <1>1, <1>2
<1>4. ASSUME NEW q \in Loads(f), NEW r \in Loads(f), q # r
      PROVE  q.vaddr + q.memsz <= r.vaddr \/ r.vaddr + r.memsz <= q.vaddr
  <2>1. PICK i \in Loaded : q = ph[i]
    BY <1>1
  <2>2. PICK j \in Loaded : r = ph[j]
    BY <1>1
  <2>3. j \in Loaded \ {i}
    BY <1>4, <2>1, <2>2
  <2> QED BY <1>2, <2>1, <2>2, <2>3
<1> QED BY <1>3, <1>4

(* So no byte is in two of them.                                             *)
LEMMA SegmentsApart ==
  ASSUME NEW f, Linked(f), NEW bias \in Nat, NEW a \in Int,
         NEW q \in Loads(f), NEW r \in Loads(f), InSegment(a, bias, q), InSegment(a, bias, r)
  PROVE  q = r
<1>1. /\ q.vaddr \in Nat /\ q.memsz \in Nat /\ r.vaddr \in Nat /\ r.memsz \in Nat
      /\ q # r => q.vaddr + q.memsz <= r.vaddr \/ r.vaddr + r.memsz <= q.vaddr
  BY LinkedSegments
<1> QED BY <1>1 DEF InSegment

(* One turn writes the bytes of its segment, and no other.                   *)
LEMMA SegmentRead ==
  ASSUME NEW f, Linked(f), NEW bias \in Nat, NEW q \in Loads(f),
         NEW mem, DOMAIN mem \subseteq Int
  PROVE  /\ DOMAIN ReadSegment(mem, f, bias, q) = DOMAIN mem
         /\ \A a \in DOMAIN mem :
              ReadSegment(mem, f, bias, q)[a] =
                IF InSegment(a, bias, q) THEN ByteOf(f, bias, q, a) ELSE mem[a]
<1>1. q.vaddr \in Nat /\ q.offset \in Nat /\ q.filesz \in Nat /\ q.memsz \in Nat /\ q.filesz <= q.memsz
  BY LinkedSegments
<1>2. DOMAIN ReadSegment(mem, f, bias, q) = DOMAIN mem
  BY DEF ReadSegment
<1>3. ASSUME NEW a \in DOMAIN mem
      PROVE  ReadSegment(mem, f, bias, q)[a] =
                IF InSegment(a, bias, q) THEN ByteOf(f, bias, q, a) ELSE mem[a]
  <2> DEFINE k == a - (q.vaddr + bias)
  <2>1. k \in Int
    BY <1>1
  <2>2. ReadSegment(mem, f, bias, q)[a] =
          IF k \in 0 .. (q.filesz - 1) THEN << f, q.offset + k >>
          ELSE IF k \in q.filesz .. (q.memsz - 1) THEN Zero ELSE mem[a]
    BY DEF ReadSegment
  <2>3. InSegment(a, bias, q) <=> k \in 0 .. (q.memsz - 1)
    BY DEF InSegment
  <2>4. ByteOf(f, bias, q, a) = IF k < q.filesz THEN << f, q.offset + k >> ELSE Zero
    BY DEF ByteOf
  <2> HIDE DEF k
  <2> QED BY <1>1, <2>1, <2>2, <2>3, <2>4
<1> QED BY <1>2, <1>3

(* The whole loop: every byte of every segment is what the file says, and    *)
(* every other is as it was (load_elf_file()).                               *)
LEMMA SegmentsRead ==
  ASSUME NEW f, Linked(f), NEW bias \in Nat, NEW mem, DOMAIN mem \subseteq Int
  PROVE  /\ DOMAIN ReadSegments(mem, f, bias) = DOMAIN mem
         /\ \A q \in Loads(f) : \A a \in DOMAIN mem :
              InSegment(a, bias, q) => ReadSegments(mem, f, bias)[a] = ByteOf(f, bias, q, a)
         /\ \A a \in DOMAIN mem :
              (\A q \in Loads(f) : ~ InSegment(a, bias, q)) =>
                ReadSegments(mem, f, bias)[a] = mem[a]
<1> DEFINE ph == File[f].ph
           N == Len(ph)
<1>1. /\ N \in Nat
      /\ Loads(f) = {ph[i] : i \in {j \in 1 .. N : ph[j].type = "PT_LOAD"}}
  BY LinkedHeaders
<1>2. \E r : /\ ReadSegments(mem, f, bias) = r[N] /\ r[0] = mem
             /\ \A i \in 1 .. N :
                  r[i] = IF ph[i].type = "PT_LOAD" THEN ReadSegment(r[i - 1], f, bias, ph[i])
                         ELSE r[i - 1]
  BY <1>1, ReadsInTurn
<1>3. PICK r : /\ ReadSegments(mem, f, bias) = r[N] /\ r[0] = mem
               /\ \A i \in 1 .. N :
                    r[i] = IF ph[i].type = "PT_LOAD" THEN ReadSegment(r[i - 1], f, bias, ph[i])
                           ELSE r[i - 1]
  BY <1>2
<1> HIDE DEF ph, N
<1> DEFINE Is(m, n) ==
             /\ DOMAIN m = DOMAIN mem
             /\ \A j \in 1 .. n : ph[j].type = "PT_LOAD" =>
                  \A a \in DOMAIN mem : InSegment(a, bias, ph[j]) => m[a] = ByteOf(f, bias, ph[j], a)
             /\ \A a \in DOMAIN mem :
                  (\A j \in 1 .. n : ph[j].type = "PT_LOAD" => ~ InSegment(a, bias, ph[j]))
                    => m[a] = mem[a]
           P == {n \in Nat : n <= N => Is(r[n], n)}
<1>4. 0 \in P
  BY <1>3
<1>5. ASSUME NEW n \in Nat, n \in P PROVE n + 1 \in P
  <2> SUFFICES ASSUME n + 1 <= N PROVE Is(r[n + 1], n + 1)
    OBVIOUS
  <2>1. n + 1 \in 1 .. N /\ (n + 1) - 1 = n /\ n <= N
    BY <1>1
  <2>2. Is(r[n], n)
    BY <1>5, <2>1
  <2>3. r[n + 1] = IF ph[n + 1].type = "PT_LOAD" THEN ReadSegment(r[n], f, bias, ph[n + 1])
                   ELSE r[n]
    BY <1>3, <2>1
  <2>4. \A j \in 1 .. n + 1 : j \in 1 .. n \/ j = n + 1
    OBVIOUS
  <2>5. CASE ph[n + 1].type # "PT_LOAD"
    BY <2>2, <2>3, <2>4, <2>5
  <2>6. CASE ph[n + 1].type = "PT_LOAD"
    <3> DEFINE q == ph[n + 1]
    <3>1. q \in Loads(f)
      BY <1>1, <2>1, <2>6
    <3>2. \A j \in 1 .. n : ph[j].type = "PT_LOAD" => ph[j] \in Loads(f)
      BY <1>1, <2>1
    <3>3. DOMAIN r[n] = DOMAIN mem
      BY <2>2
    <3>4. /\ DOMAIN r[n + 1] = DOMAIN mem
          /\ \A a \in DOMAIN mem :
               r[n + 1][a] = IF InSegment(a, bias, q) THEN ByteOf(f, bias, q, a) ELSE r[n][a]
      <4> HIDE DEF q
      <4>1. DOMAIN r[n] \subseteq Int
        BY <3>3
      <4>2. r[n + 1] = ReadSegment(r[n], f, bias, q)
        BY <2>3, <2>6 DEF q
      <4> QED BY <3>1, <3>3, <4>1, <4>2, SegmentRead
    <3>5. ASSUME NEW j \in 1 .. n + 1, ph[j].type = "PT_LOAD", NEW a \in DOMAIN mem,
                 InSegment(a, bias, ph[j])
          PROVE  r[n + 1][a] = ByteOf(f, bias, ph[j], a)
      <4>1. CASE InSegment(a, bias, q)
        <5>1. ph[j] \in Loads(f)
          BY <2>4, <3>1, <3>2, <3>5
        <5>2. ph[j] = q
          <6> HIDE DEF q
          <6> QED BY <3>1, <3>5, <4>1, <5>1, SegmentsApart
        <5> QED BY <3>4, <4>1, <5>2
      <4>2. CASE ~ InSegment(a, bias, q)
        <5>1. j \in 1 .. n
          BY <2>4, <3>5, <4>2
        <5> QED BY <2>2, <3>4, <3>5, <4>2, <5>1
      <4> QED BY <4>1, <4>2
    <3>6. ASSUME NEW a \in DOMAIN mem,
                 \A j \in 1 .. n + 1 : ph[j].type = "PT_LOAD" => ~ InSegment(a, bias, ph[j])
          PROVE  r[n + 1][a] = mem[a]
      <4>1. ~ InSegment(a, bias, q)
        BY <2>6, <3>6
      <4>2. \A j \in 1 .. n : ph[j].type = "PT_LOAD" => ~ InSegment(a, bias, ph[j])
        BY <3>6
      <4> QED BY <2>2, <3>4, <4>1, <4>2
    <3> QED BY <3>4, <3>5, <3>6
  <2> QED BY <2>5, <2>6
<1>6. Nat \subseteq P
  <2> HIDE DEF P
  <2> QED BY <1>4, <1>5, Induction, Zenon
<1>7. Is(r[N], N)
  BY <1>1, <1>6
<1> QED BY <1>1, <1>3, <1>7

--------------------------------------------------------------------------------
(* The range of addresses one file takes.                                    *)
LEMMA LowestSegment ==
  ASSUME NEW f, Linked(f)
  PROVE  Lowest(f) \in Loads(f) /\ \A q \in Loads(f) : Lowest(f).vaddr <= q.vaddr
<1> DEFINE S == {q.vaddr : q \in Loads(f)}
<1>1. \A q \in Loads(f) : q.vaddr \in Nat
  BY LinkedSegments
<1>2. S \subseteq Nat /\ S # {}
  BY <1>1, LinkedHeaders
<1>3. \E m \in S : \A k \in S : m <= k
  <2> HIDE DEF S
  <2> QED BY <1>2, LeastNatural
<1>4. \E q \in Loads(f) : \A r \in Loads(f) : q.vaddr <= r.vaddr
  BY <1>3
<1> QED BY <1>4 DEF Lowest

(* The lowest address is that of the lowest segment.                         *)
LEMMA LowEndIs ==
  ASSUME NEW f, Linked(f), NEW bias \in Nat
  PROVE  /\ LowEnd(f, bias) = Lowest(f).vaddr + bias /\ LowEnd(f, bias) \in Nat
         /\ \A q \in Loads(f) : LowEnd(f, bias) <= q.vaddr + bias
<1> DEFINE S == {q.vaddr + bias : q \in Loads(f)}
           x == Lowest(f).vaddr + bias
<1>1. \A q \in Loads(f) : q.vaddr \in Nat
  BY LinkedSegments
<1>2. x \in S /\ S \subseteq Nat /\ \A y \in S : x <= y
  BY <1>1, LowestSegment
<1>3. LowEnd(f, bias) = Min(S)
  BY DEF LowEnd
<1> HIDE DEF S, x
<1>4. Min(S) = x
  <2>1. \E m \in S : \A y \in S : m <= y
    BY <1>2
  <2>2. Min(S) \in S /\ \A y \in S : Min(S) <= y
    BY <2>1 DEF Min
  <2> DEFINE m == Min(S)
  <2>3. m \in S /\ \A y \in S : m <= y
    BY <2>2
  <2> HIDE DEF m
  <2>4. m \in Nat /\ x \in Nat /\ m <= x /\ x <= m
    BY <1>2, <2>3
  <2>5. m = x
    BY <2>4
  <2> QED BY <2>5 DEF m
<1>5. \A q \in Loads(f) : q.vaddr + bias \in S
  BY DEF S
<1> QED BY <1>2, <1>3, <1>4, <1>5 DEF x

(* The highest address is the end of some segment.                           *)
LEMMA HighEndIs ==
  ASSUME NEW f, Linked(f), NEW bias \in Nat
  PROVE  /\ HighEnd(f, bias) \in Nat
         /\ \A q \in Loads(f) : q.vaddr + q.memsz + bias <= HighEnd(f, bias)
<1> DEFINE ph == File[f].ph
           N == Len(ph)
           Ends == {q.vaddr + q.memsz + bias : q \in Loads(f)}
           v == [i \in 1 .. N |-> IF ph[i].type = "PT_LOAD"
                                  THEN ph[i].vaddr + ph[i].memsz + bias ELSE 0]
<1>1. \A q \in Loads(f) : q.vaddr \in Nat /\ q.memsz \in Nat
  BY LinkedSegments
<1>2. /\ N \in Nat /\ Loads(f) # {}
      /\ Loads(f) = {ph[i] : i \in {j \in 1 .. N : ph[j].type = "PT_LOAD"}}
  BY LinkedHeaders
<1> HIDE DEF ph, N
<1>3. v \in [1 .. N -> Nat]
  BY <1>1, <1>2
<1>4. \E u \in Nat : \A i \in 1 .. N : v[i] <= u
  <2> HIDE DEF v
  <2> QED BY <1>2, <1>3, Bounded
<1>5. PICK u \in Nat : \A i \in 1 .. N : v[i] <= u
  BY <1>4
<1>6. Ends \subseteq Nat /\ Ends # {} /\ \A x \in Ends : x <= u
  <2>1. Ends \subseteq Nat /\ Ends # {}
    BY <1>1, <1>2
  <2>2. ASSUME NEW q \in Loads(f) PROVE q.vaddr + q.memsz + bias <= u
    <3>1. PICK i \in 1 .. N : ph[i].type = "PT_LOAD" /\ q = ph[i]
      BY <1>2
    <3>2. v[i] = q.vaddr + q.memsz + bias
      BY <3>1
    <3> QED BY <1>5, <3>2
  <2> QED BY <2>1, <2>2
<1>7. \E m \in Ends : \A x \in Ends : m >= x
  <2> HIDE DEF Ends
  <2> QED BY <1>6, Greatest
<1>8. Max(Ends) \in Ends /\ \A x \in Ends : Max(Ends) >= x
  <2> HIDE DEF Ends
  <2> QED BY <1>7 DEF Max
<1>9. HighEnd(f, bias) = Max(Ends)
  BY DEF HighEnd
<1> DEFINE m == Max(Ends)
<1> HIDE DEF m
<1>10. m \in Nat /\ \A q \in Loads(f) : q.vaddr + q.memsz + bias <= m
  <2>1. m \in Ends /\ \A x \in Ends : m >= x
    BY <1>8 DEF m
  <2> QED BY <2>1, <1>6, <1>1
<1> QED BY <1>9, <1>10 DEF m

(* An address is in its page.                                                *)
LEMMA PagesAround ==
  ASSUME NEW a \in Nat
  PROVE  /\ UpToPage(a) \in Nat /\ a <= UpToPage(a)
         /\ a - (a % RISCV_PGSIZE) \in Nat /\ a - (a % RISCV_PGSIZE) <= a
         /\ a % RISCV_PGSIZE \in Nat
<1> DEFINE P == RISCV_PGSIZE
           b == a + P - 1
           q == b \div P
           r == b % P
<1>1. P \in Nat \ {0}
  BY LoaderAssumption
<1>2. UpToPage(a) = q * P
  BY DEF UpToPage
<1> HIDE DEF P
<1>3. b \in Nat
  BY <1>1
<1>4. q \in Nat /\ r \in Nat /\ r <= P - 1 /\ b = P * q + r
  <2> HIDE DEF b
  <2> QED BY <1>1, <1>3, SMT
<1>5. q * P = P * q /\ P * q \in Nat
  <2> HIDE DEF q
  <2> QED BY <1>1, <1>4, SMT
<1>6. q * P \in Nat /\ a <= q * P
  <2>1. b = a + P - 1
    OBVIOUS
  <2> HIDE DEF q, r, b
  <2> QED BY <1>1, <1>4, <1>5, <2>1, SMT
<1>7. a % P \in 0 .. (P - 1) /\ a % P <= a
  <2> DEFINE d == a \div P
             e == a % P
  <2>1. d \in Nat /\ e \in 0 .. (P - 1) /\ a = P * d + e
    BY <1>1, SMT
  <2>2. P * d >= 0
    <3> HIDE DEF d, e
    <3> QED BY <1>1, <2>1, SMT
  <2> HIDE DEF d
  <2> QED BY <1>1, <2>1, <2>2, SMT
<1> QED BY <1>1, <1>2, <1>6, <1>7 DEF P

Pages(f, bias) == MapBase(f, bias) .. (UpToPage(HighEnd(f, bias)) - 1)

(* The file is mapped from the page its lowest segment begins in, up to the  *)
(* end of the page its highest one ends in, and so with all its segments.    *)
LEMMA SegmentsMapped ==
  ASSUME NEW f, Linked(f), NEW bias \in Nat
  PROVE  /\ MapBase(f, bias) \in Nat /\ UpToPage(HighEnd(f, bias)) \in Nat
         /\ MapBase(f, bias) + (LowEnd(f, bias) % RISCV_PGSIZE) = LowEnd(f, bias)
         /\ LowEnd(f, bias) % RISCV_PGSIZE \in Nat
         /\ \A q \in Loads(f) : \A a \in Int :
              InSegment(a, bias, q) => a \in Pages(f, bias) /\ a >= LowEnd(f, bias)
<1>1. LowEnd(f, bias) \in Nat /\ \A q \in Loads(f) : LowEnd(f, bias) <= q.vaddr + bias
  BY LowEndIs
<1>2. HighEnd(f, bias) \in Nat /\ \A q \in Loads(f) : q.vaddr + q.memsz + bias <= HighEnd(f, bias)
  BY HighEndIs
<1>3. /\ MapBase(f, bias) \in Nat /\ MapBase(f, bias) <= LowEnd(f, bias)
      /\ LowEnd(f, bias) % RISCV_PGSIZE \in Nat
      /\ MapBase(f, bias) = LowEnd(f, bias) - (LowEnd(f, bias) % RISCV_PGSIZE)
  BY <1>1, PagesAround DEF MapBase
<1>4. UpToPage(HighEnd(f, bias)) \in Nat /\ HighEnd(f, bias) <= UpToPage(HighEnd(f, bias))
  BY <1>2, PagesAround
<1>5. ASSUME NEW q \in Loads(f), NEW a \in Int, InSegment(a, bias, q)
      PROVE  a \in Pages(f, bias) /\ a >= LowEnd(f, bias)
  <2>1. q.vaddr \in Nat /\ q.memsz \in Nat
    BY LinkedSegments
  <2>2. a >= q.vaddr + bias /\ a < q.vaddr + q.memsz + bias
    BY <1>5, <2>1 DEF InSegment
  <2>3. a >= LowEnd(f, bias) /\ a < HighEnd(f, bias)
    BY <1>1, <1>2, <2>1, <2>2
  <2> QED BY <1>1, <1>2, <1>3, <1>4, <2>3 DEF Pages
<1> QED BY <1>1, <1>3, <1>4, <1>5

LoadedInto(mem, f, bias) == ZeroSections(ReadSegments(MapPages(mem, f, bias), f, bias), f, bias)

(* .bss and .sbss are what their segment has beyond its part of the file.    *)
LEMMA SectionsAreZero ==
  ASSUME NEW f, Linked(f), NEW bias \in Nat, NEW a \in Int,
         NEW i \in DOMAIN File[f].sh, File[f].sh[i].name \in {".bss", ".sbss"},
         a - bias - File[f].sh[i].addr \in 0 .. (File[f].sh[i].size - 1)
  PROVE  \E q \in Loads(f) : InSegment(a, bias, q) /\ ByteOf(f, bias, q, a) = Zero
<1> DEFINE s == File[f].sh[i]
<1>1. /\ s.addr \in Nat /\ s.size \in Nat
      /\ \E q \in Loads(f) : /\ q.vaddr + q.filesz <= s.addr
                             /\ s.addr + s.size <= q.vaddr + q.memsz
  BY DEF Linked
<1>2. PICK q \in Loads(f) : /\ q.vaddr + q.filesz <= s.addr
                            /\ s.addr + s.size <= q.vaddr + q.memsz
  BY <1>1
<1>3. q.vaddr \in Nat /\ q.filesz \in Nat /\ q.memsz \in Nat /\ q.filesz <= q.memsz
  BY LinkedSegments
<1>4. a - bias - s.addr \in 0 .. (s.size - 1)
  OBVIOUS
<1> HIDE DEF s
<1>5. a - (q.vaddr + bias) \in q.filesz .. (q.memsz - 1)
  BY <1>1, <1>2, <1>3, <1>4
<1>6. InSegment(a, bias, q)
  BY <1>3, <1>5 DEF InSegment
<1>7. ByteOf(f, bias, q, a) = Zero
  BY <1>3, <1>5 DEF ByteOf
<1> QED BY <1>6, <1>7

(* What loading a file makes of the memory: its segments are what the file   *)
(* says, what lay elsewhere is untouched, and the pages before the first     *)
(* segment have the beginning of the file.                                   *)
HasLoaded(after, mem, f, bias) ==
  /\ DOMAIN after = DOMAIN mem \cup Pages(f, bias)
  /\ \A q \in Loads(f) : \A a \in Int :
       InSegment(a, bias, q) => after[a] = ByteOf(f, bias, q, a)
  /\ \A a \in DOMAIN mem \ Pages(f, bias) : after[a] = mem[a]
  /\ \A a \in Pages(f, bias) : a < LowEnd(f, bias) => after[a] = << f, a - MapBase(f, bias) >>

(* Loading one file (load_elf_file()).                                       *)
LEMMA FileLoaded ==
  ASSUME NEW f, Linked(f), NEW bias \in Nat, NEW mem, DOMAIN mem \subseteq Int
  PROVE  HasLoaded(LoadedInto(mem, f, bias), mem, f, bias)
<1> DEFINE mapped == MapPages(mem, f, bias)
           read == ReadSegments(mapped, f, bias)
           all == LoadedInto(mem, f, bias)
           D == DOMAIN mem \cup Pages(f, bias)
<1>1. /\ MapBase(f, bias) \in Nat /\ UpToPage(HighEnd(f, bias)) \in Nat
      /\ LowEnd(f, bias) \in Nat
      /\ \A q \in Loads(f) : \A a \in Int :
           InSegment(a, bias, q) => a \in Pages(f, bias) /\ a >= LowEnd(f, bias)
  BY SegmentsMapped, LowEndIs
<1>2. D \subseteq Int
  BY <1>1 DEF Pages
<1>3. /\ DOMAIN mapped = D
      /\ \A a \in D : mapped[a] = IF a \notin Pages(f, bias) THEN mem[a]
                                  ELSE IF a < LowEnd(f, bias) THEN << f, a - MapBase(f, bias) >>
                                  ELSE Zero
  BY DEF MapPages, Pages
<1> HIDE DEF mapped
<1>4. /\ DOMAIN read = D
      /\ \A q \in Loads(f) : \A a \in D :
           InSegment(a, bias, q) => read[a] = ByteOf(f, bias, q, a)
      /\ \A a \in D : (\A q \in Loads(f) : ~ InSegment(a, bias, q)) => read[a] = mapped[a]
  BY <1>2, <1>3, SegmentsRead
<1>5. all = ZeroSections(read, f, bias)
  BY DEF LoadedInto, mapped
<1> HIDE DEF read, all, D
<1> DEFINE InSections(a) == \E i \in {j \in DOMAIN File[f].sh : File[f].sh[j].name \in {".bss", ".sbss"}} :
                              a - bias - File[f].sh[i].addr \in 0 .. (File[f].sh[i].size - 1)
<1>6. DOMAIN all = D /\ \A a \in D : all[a] = IF InSections(a) THEN Zero ELSE read[a]
  BY <1>4, <1>5 DEF ZeroSections
<1>7. ASSUME NEW a \in Int, InSections(a)
      PROVE  \E q \in Loads(f) : InSegment(a, bias, q) /\ ByteOf(f, bias, q, a) = Zero
  BY <1>7, SectionsAreZero
<1> HIDE DEF InSections
<1>8. ASSUME NEW q \in Loads(f), NEW a \in Int, InSegment(a, bias, q)
      PROVE  all[a] = ByteOf(f, bias, q, a)
  <2>1. a \in D
    BY <1>1, <1>8 DEF D
  <2>2. CASE InSections(a)
    <3>1. PICK r \in Loads(f) : InSegment(a, bias, r) /\ ByteOf(f, bias, r, a) = Zero
      BY <1>7, <2>2
    <3>2. r = q
      BY <1>8, <3>1, SegmentsApart
    <3> QED BY <1>6, <2>1, <2>2, <3>1, <3>2
  <2>3. CASE ~ InSections(a)
    BY <1>4, <1>6, <1>8, <2>1, <2>3
  <2> QED BY <2>2, <2>3
<1>9. ASSUME NEW a \in D, a \notin Pages(f, bias) \/ a < LowEnd(f, bias)
      PROVE  all[a] = mapped[a]
  <2>1. a \in Int
    BY <1>2
  <2>2. \A q \in Loads(f) : ~ InSegment(a, bias, q)
    BY <1>1, <1>9, <2>1
  <2>3. ~ InSections(a)
    BY <1>7, <2>1, <2>2
  <2> QED BY <1>4, <1>6, <2>2, <2>3
<1>10. ASSUME NEW a \in DOMAIN mem \ Pages(f, bias) PROVE all[a] = mem[a]
  BY <1>3, <1>9 DEF D
<1>11. ASSUME NEW a \in Pages(f, bias), a < LowEnd(f, bias)
       PROVE  all[a] = << f, a - MapBase(f, bias) >>
  BY <1>3, <1>9, <1>11 DEF D
<1>12. DOMAIN all = DOMAIN mem \cup Pages(f, bias)
  BY <1>6 DEF D
<1> QED BY <1>8, <1>10, <1>11, <1>12 DEF all, HasLoaded

(* A number to add to addresses that leaves pages as they are.               *)
Biases == {0, MEM_END}

(* phdrs leads to the headers, which lie at the beginning of the file.       *)
LEMMA HeadersThere ==
  ASSUME NEW f, Linked(f), NEW bias \in Biases, NEW mem, DOMAIN mem \subseteq Int,
         NEW k \in 0 .. (Len(File[f].ph) - 1)
  PROVE  LoadedInto(mem, f, bias)[MapBase(f, bias) + File[f].e_phoff + k] = << f, File[f].e_phoff + k >>
<1> DEFINE low == Lowest(f)
<1>1. bias \in Nat /\ bias % RISCV_PGSIZE = 0 /\ RISCV_PGSIZE \in Nat \ {0}
  BY LoaderAssumption DEF Biases
<1>2. /\ File[f].e_phoff \in Nat /\ Len(File[f].ph) \in Nat
      /\ low \in Loads(f) /\ low.vaddr \in Nat /\ low.offset \in Nat
      /\ low.filesz \in Nat /\ low.memsz \in Nat /\ low.filesz <= low.memsz
  BY LinkedHeaders, LowestSegment, LinkedSegments
<1>3. /\ low.offset = low.vaddr % RISCV_PGSIZE
      /\ File[f].e_phoff + Len(File[f].ph) <= low.offset + low.filesz
  BY DEF Linked
<1>4. LowEnd(f, bias) = low.vaddr + bias /\ LowEnd(f, bias) \in Nat
  BY <1>1, LowEndIs
<1> HIDE DEF low
<1>5. LowEnd(f, bias) % RISCV_PGSIZE = low.offset
  <2>1. (low.vaddr + bias) % RISCV_PGSIZE = low.vaddr % RISCV_PGSIZE
    BY <1>1, <1>2, SameRemainder
  <2> QED BY <1>3, <1>4, <2>1
<1>6. /\ MapBase(f, bias) \in Nat
      /\ MapBase(f, bias) + low.offset = LowEnd(f, bias)
      /\ \A r \in Int : InSegment(r, bias, low) => r \in Pages(f, bias)
      /\ UpToPage(HighEnd(f, bias)) \in Nat
  <2>1. bias \in Nat /\ low \in Loads(f)
    BY <1>1, <1>2
  <2>2. /\ MapBase(f, bias) \in Nat /\ UpToPage(HighEnd(f, bias)) \in Nat
        /\ MapBase(f, bias) + (LowEnd(f, bias) % RISCV_PGSIZE) = LowEnd(f, bias)
        /\ \A q \in Loads(f) : \A r \in Int : InSegment(r, bias, q) => r \in Pages(f, bias)
    BY <2>1, SegmentsMapped
  <2> QED BY <1>5, <2>1, <2>2
<1>7. PICK base, N, off, size, e :
        base = MapBase(f, bias) /\ N = Len(File[f].ph) /\ off = low.offset /\ size = low.filesz
        /\ e = File[f].e_phoff
  OBVIOUS
<1>8. /\ base \in Nat /\ e \in Nat /\ off \in Nat /\ size \in Nat
      /\ k \in Nat /\ e + k < off + size
  <2>1. N \in Nat /\ e \in Nat /\ off \in Nat /\ size \in Nat /\ e + N <= off + size /\ base \in Nat
    BY <1>2, <1>3, <1>6, <1>7
  <2>2. k \in 0 .. (N - 1)
    BY <1>7
  <2> QED BY <2>1, <2>2
<1>9. PICK x, a : x = e + k /\ a = base + x
  OBVIOUS
<1>10. /\ x \in Nat /\ x < off + size /\ a \in Int
       /\ MapBase(f, bias) + File[f].e_phoff + k = a /\ File[f].e_phoff + k = x
  <2>1. x \in Nat /\ x < off + size /\ a \in Int /\ base + e + k = a
    BY <1>8, <1>9
  <2> QED BY <1>7, <1>9, <2>1
<1>11. PICK after : after = LoadedInto(mem, f, bias)
  OBVIOUS
<1>12. HasLoaded(after, mem, f, bias)
  BY <1>1, <1>11, FileLoaded
<1>13. low.vaddr + bias = base + off /\ LowEnd(f, bias) = base + off
  BY <1>4, <1>6, <1>7
<1>14. ASSUME a >= base + off
       PROVE  after[a] = << f, x >>
  <2>1. a - (base + off) = x - off /\ x - off \in 0 .. (size - 1) /\ off + (x - off) = x
    BY <1>8, <1>9, <1>10, <1>14
  <2>2. a - (low.vaddr + bias) \in 0 .. (low.filesz - 1) /\ low.offset + (a - (low.vaddr + bias)) = x
    BY <1>7, <1>13, <2>1
  <2>3. InSegment(a, bias, low)
    BY <1>2, <2>2 DEF InSegment
  <2>4. ByteOf(f, bias, low, a) = << f, x >>
    BY <1>2, <2>2 DEF ByteOf
  <2>5. after[a] = ByteOf(f, bias, low, a)
    BY <1>2, <1>10, <1>12, <2>3 DEF HasLoaded
  <2> QED BY <2>4, <2>5
<1>15. ASSUME a < base + off
       PROVE  after[a] = << f, x >>
  <2>1. low.vaddr + low.memsz + bias <= HighEnd(f, bias) /\ HighEnd(f, bias) \in Nat
    BY <1>1, <1>2, HighEndIs
  <2>2. HighEnd(f, bias) <= UpToPage(HighEnd(f, bias))
    BY <2>1, PagesAround
  <2>3. LowEnd(f, bias) <= HighEnd(f, bias)
    BY <1>1, <1>2, <1>4, <2>1
  <2>4. PICK u, z : u = UpToPage(HighEnd(f, bias)) /\ z = HighEnd(f, bias)
    OBVIOUS
  <2>5. base + off <= z /\ z <= u /\ u \in Nat /\ z \in Nat
    BY <1>6, <1>13, <2>1, <2>2, <2>3, <2>4
  <2>6. a \in base .. (u - 1) /\ a - base = x
    BY <1>8, <1>9, <1>10, <1>15, <2>5
  <2>7. a \in Pages(f, bias) /\ a < LowEnd(f, bias)
    BY <1>7, <1>13, <1>15, <2>4, <2>6 DEF Pages
  <2>8. after[a] = << f, a - MapBase(f, bias) >>
    BY <1>12, <2>7 DEF HasLoaded
  <2> QED BY <1>7, <2>6, <2>8
<1>16. after[a] = << f, x >>
  <2>1. a \in Int /\ base + off \in Int
    BY <1>8, <1>10
  <2> QED BY <1>14, <1>15, <2>1
<1> QED BY <1>10, <1>11, <1>16

--------------------------------------------------------------------------------
(* The steps of emulate_execve().                                            *)

InPlaceIn(mem, f, bias) ==
  \A q \in Loads(f) : \A k \in 0 .. (q.memsz - 1) :
    mem[bias + q.vaddr + k] = IF k < q.filesz THEN << f, q.offset + k >> ELSE Zero

(* What is in place is what ByteOf says of the addresses of each segment.    *)
LEMMA InPlaceIs ==
  ASSUME NEW f, Linked(f), NEW bias \in Nat, NEW mem
  PROVE  InPlaceIn(mem, f, bias) <=> \A q \in Loads(f) : \A a \in Int :
                          InSegment(a, bias, q) => mem[a] = ByteOf(f, bias, q, a)
<1>1. \A q \in Loads(f) : q.vaddr \in Nat /\ q.memsz \in Nat
  BY LinkedSegments
<1>4. ASSUME InPlaceIn(mem, f, bias), NEW q \in Loads(f), NEW a \in Int, InSegment(a, bias, q)
      PROVE  mem[a] = ByteOf(f, bias, q, a)
  <2> DEFINE k == a - (q.vaddr + bias)
  <2>1. k \in 0 .. (q.memsz - 1) /\ a = bias + q.vaddr + k
    BY <1>1, <1>4 DEF InSegment
  <2>2. ByteOf(f, bias, q, a) = IF k < q.filesz THEN << f, q.offset + k >> ELSE Zero
    BY DEF ByteOf
  <2> HIDE DEF k
  <2> QED BY <1>4, <2>1, <2>2 DEF InPlaceIn
<1>5. ASSUME \A q \in Loads(f) : \A a \in Int :
               InSegment(a, bias, q) => mem[a] = ByteOf(f, bias, q, a),
             NEW q \in Loads(f), NEW k \in 0 .. (q.memsz - 1)
      PROVE  mem[bias + q.vaddr + k] = IF k < q.filesz THEN << f, q.offset + k >> ELSE Zero
  <2> DEFINE a == bias + q.vaddr + k
  <2>1. a \in Int /\ a - (q.vaddr + bias) = k
    BY <1>1
  <2>2. InSegment(a, bias, q)
    BY <2>1 DEF InSegment
  <2>3. ByteOf(f, bias, q, a) = IF k < q.filesz THEN << f, q.offset + k >> ELSE Zero
    BY <2>1 DEF ByteOf
  <2>4. mem[a] = ByteOf(f, bias, q, a)
    <3> HIDE DEF a
    <3> QED BY <1>5, <2>1, <2>2
  <2> QED BY <2>3, <2>4
<1> QED BY <1>4, <1>5 DEF InPlaceIn

(* The files of a program, and the biases they get.                          *)
LEMMA FilesOfProgram ==
  ASSUME program \in Programs
  PROVE  /\ Linked(program.file) /\ Bias(program.file, 0) \in Biases
         /\ \A lib \in Interps(program.file) :
              /\ Linked(lib) /\ lib # program.file /\ Interps(program.file) = {lib}
              /\ Bias(lib, INTERP_BASE) = MEM_END
         /\ INTERP_BASE = MEM_END /\ MEM_END \in Biases /\ Biases \subseteq Nat
<1>1. Linked(program.file)
  BY LoaderAssumption
<1>2. ASSUME NEW lib \in Interps(program.file)
      PROVE  Linked(lib) /\ Interps(program.file) = {lib} /\ Interps(lib) = {}
  BY LoaderAssumption
<1>3. \A lib \in Interps(program.file) : lib # program.file
  BY <1>2
<1>4. Bias(program.file, 0) \in Biases /\ INTERP_BASE = MEM_END /\ MEM_END \in Biases
  BY DEF Bias, Biases, INTERP_BASE
<1>5. \A lib \in Interps(program.file) : Bias(lib, INTERP_BASE) = MEM_END
  BY DEF Bias, INTERP_BASE
<1>6. Biases \subseteq Nat
  BY LoaderAssumption DEF Biases
<1> QED BY <1>1, <1>2, <1>3, <1>4, <1>5, <1>6

EntryIn(mem, f, bias) ==
  \E q \in Loads(f) :
    mem[File[f].e_entry + bias] = << f, q.offset + (File[f].e_entry + bias) - bias - q.vaddr >>

(* The first instruction is a byte of the file that entry is of.             *)
LEMMA EntryThere ==
  ASSUME NEW f, Linked(f), NEW bias \in Nat, NEW mem, InPlaceIn(mem, f, bias)
  PROVE  File[f].e_entry + bias \in Nat /\ EntryIn(mem, f, bias)
<1> DEFINE e == File[f].e_entry
<1>1. e \in Nat /\ \E q \in Loads(f) : e - q.vaddr \in 0 .. (q.filesz - 1)
  BY DEF Linked
<1>2. PICK q \in Loads(f) : e - q.vaddr \in 0 .. (q.filesz - 1)
  BY <1>1
<1>3. q.vaddr \in Nat /\ q.offset \in Nat /\ q.filesz \in Nat /\ q.memsz \in Nat /\ q.filesz <= q.memsz
  BY LinkedSegments
<1> DEFINE k == e - q.vaddr
<1>4. k \in 0 .. (q.memsz - 1) /\ k < q.filesz
  BY <1>2, <1>3
<1>5. \A j \in 0 .. (q.memsz - 1) :
        mem[bias + q.vaddr + j] = IF j < q.filesz THEN << f, q.offset + j >> ELSE Zero
  BY DEF InPlaceIn
<1>6. mem[bias + q.vaddr + k] = << f, q.offset + k >>
  <2> HIDE DEF k
  <2> QED BY <1>4, <1>5
<1>7. bias + q.vaddr + k = e + bias /\ q.offset + k = q.offset + (e + bias) - bias - q.vaddr
  BY <1>1, <1>3
<1> QED BY <1>1, <1>6, <1>7 DEF EntryIn

(* One call of load_elf_file(), as its callers see it.                       *)
LEMMA FileInPlace ==
  ASSUME NEW f, Linked(f), NEW bias \in Biases, NEW mem, DOMAIN mem \subseteq Int
  PROVE  /\ InPlaceIn(LoadedInto(mem, f, bias), f, bias)
         /\ DOMAIN LoadedInto(mem, f, bias) = DOMAIN mem \cup Pages(f, bias)
         /\ Pages(f, bias) \subseteq Int
<1>1. bias \in Nat
  BY LoaderAssumption DEF Biases
<1>2. /\ DOMAIN LoadedInto(mem, f, bias) = DOMAIN mem \cup Pages(f, bias)
      /\ \A q \in Loads(f) : \A a \in Int :
           InSegment(a, bias, q) => LoadedInto(mem, f, bias)[a] = ByteOf(f, bias, q, a)
  <2>1. HasLoaded(LoadedInto(mem, f, bias), mem, f, bias)
    BY <1>1, FileLoaded
  <2> QED BY <2>1 DEF HasLoaded
<1>3. MapBase(f, bias) \in Nat /\ UpToPage(HighEnd(f, bias)) \in Nat
  BY <1>1, SegmentsMapped
<1>4. Pages(f, bias) \subseteq Int
  BY <1>3 DEF Pages
<1>5. InPlaceIn(LoadedInto(mem, f, bias), f, bias)
  <2> PICK after : after = LoadedInto(mem, f, bias)
    OBVIOUS
  <2>1. \A q \in Loads(f) : \A a \in Int : InSegment(a, bias, q) => after[a] = ByteOf(f, bias, q, a)
    BY <1>2
  <2>2. InPlaceIn(after, f, bias)
    BY <1>1, <2>1, InPlaceIs
  <2> QED BY <2>2
<1> QED BY <1>2, <1>4, <1>5

(* What another file leaves alone stays in place.                            *)
LEMMA StaysInPlace ==
  ASSUME NEW f, Linked(f), NEW g, Linked(g), NEW bias \in Biases, NEW other \in Biases,
         NEW mem, DOMAIN mem \subseteq Int, InPlaceIn(mem, g, other),
         Pages(g, other) \subseteq DOMAIN mem, Pages(g, other) \cap Pages(f, bias) = {}
  PROVE  InPlaceIn(LoadedInto(mem, f, bias), g, other)
<1>1. bias \in Nat /\ other \in Nat
  BY LoaderAssumption DEF Biases
<1>2. \A a \in DOMAIN mem \ Pages(f, bias) : LoadedInto(mem, f, bias)[a] = mem[a]
  <2>1. HasLoaded(LoadedInto(mem, f, bias), mem, f, bias)
    BY <1>1, FileLoaded
  <2> QED BY <2>1 DEF HasLoaded
<1>3. \A q \in Loads(g) : \A a \in Int : InSegment(a, other, q) => a \in Pages(g, other)
  BY <1>1, SegmentsMapped
<1>4. \A q \in Loads(g) : \A a \in Int : InSegment(a, other, q) => mem[a] = ByteOf(g, other, q, a)
  BY <1>1, InPlaceIs
<1>5. \A q \in Loads(g) : \A a \in Int :
        InSegment(a, other, q) => LoadedInto(mem, f, bias)[a] = ByteOf(g, other, q, a)
  BY <1>2, <1>3, <1>4
<1>6. InPlaceIn(LoadedInto(mem, f, bias), g, other)
  <2> PICK after : after = LoadedInto(mem, f, bias)
    OBVIOUS
  <2>1. \A q \in Loads(g) : \A a \in Int : InSegment(a, other, q) => after[a] = ByteOf(g, other, q, a)
    BY <1>5
  <2>2. InPlaceIn(after, g, other)
    BY <1>1, <2>1, InPlaceIs
  <2> QED BY <2>2
<1> QED BY <1>6

(* emulate_execve() is called with nothing loaded.                           *)
LEMMA LoaderStarts == LoaderInit => LInv
<1> SUFFICES ASSUME LoaderInit PROVE LInv
  OBVIOUS
<1> USE DEF LoaderInit
<1>1. FilesRecorded
  BY DEF FilesRecorded
<1>2. InterpLoaded
  BY DEF InterpLoaded
<1>3. ImageLoaded
  BY DEF ImageLoaded
<1>4. StackLaid
  BY DEF StackLaid
<1> QED BY <1>1, <1>2, <1>3, <1>4 DEF LInv

(* The dynamic loader, into an empty memory.                                 *)
LEMMA LoadInterpStep ==
  ASSUME LInv, LoadInterp
  PROVE  LInv'
<1>1. /\ loading = "interp" /\ loading' = "program" /\ program' = program /\ sp' = sp
      /\ program \in Programs /\ DOMAIN image \subseteq Int /\ DOMAIN info = {}
  BY DEF LoadInterp, LInv, FilesRecorded
<1>2. PICK lib \in Interps(program.file) :
        load_elf_file(lib, INTERP_BASE) /\ pc' = File[lib].e_entry + INTERP_BASE
  BY DEF LoadInterp
<1>3. /\ Linked(lib) /\ lib # program.file /\ Interps(program.file) = {lib}
      /\ Bias(lib, INTERP_BASE) = MEM_END /\ INTERP_BASE = MEM_END /\ MEM_END \in Biases
  BY <1>1, FilesOfProgram
<1>4. image' = LoadedInto(image, lib, MEM_END)
  BY <1>2, <1>3 DEF load_elf_file, LoadedInto
<1>5. DOMAIN info' = {lib} /\ info'[lib] = pinfo(lib, MEM_END)
  BY <1>1, <1>2, <1>3 DEF load_elf_file
<1>6. info'[lib].bias = MEM_END
  BY <1>5 DEF pinfo
<1>7. /\ InPlaceIn(image', lib, MEM_END) /\ DOMAIN image' = DOMAIN image \cup Pages(lib, MEM_END)
      /\ Pages(lib, MEM_END) \subseteq Int
  BY <1>1, <1>3, <1>4, FileInPlace
<1>8. FilesRecorded'
  <2>1. DOMAIN info' = Interps(program'.file)
    BY <1>1, <1>3, <1>5
  <2>2. \A f \in DOMAIN info' :
          info'[f] = pinfo(f, IF f = program'.file THEN Bias(f, 0) ELSE INTERP_BASE)
    BY <1>1, <1>3, <1>5
  <2> QED BY <1>1, <1>7, <2>1, <2>2 DEF FilesRecorded
<1>9. InterpLoaded'
  <2>1. PagesOf(lib)' = Pages(lib, MEM_END)
    BY <1>6 DEF PagesOf, Pages
  <2>2. InPlace(lib)'
    BY <1>6, <1>7 DEF InPlace, InPlaceIn
  <2> QED BY <1>1, <1>2, <1>3, <1>7, <2>1, <2>2 DEF InterpLoaded
<1>10. ImageLoaded' /\ StackLaid'
  BY <1>1 DEF ImageLoaded, StackLaid
<1> QED BY <1>8, <1>9, <1>10 DEF LInv

(* The program, where the dynamic loader may be already.                     *)
LEMMA LoadProgramStep ==
  ASSUME LInv, LoadProgram
  PROVE  LInv'
<1> PICK main : main = program.file
  OBVIOUS
<1> PICK bias : bias = Bias(main, 0)
  OBVIOUS
<1>1. /\ loading = "program" /\ loading' = "stack" /\ program' = program /\ sp' = sp
      /\ program \in Programs /\ DOMAIN image \subseteq Int /\ DOMAIN info = Interps(main)
      /\ \A f \in DOMAIN info : info[f] = pinfo(f, IF f = main THEN bias ELSE INTERP_BASE)
  BY DEF LoadProgram, LInv, FilesRecorded
<1>2. /\ load_elf_file(main, 0)
      /\ pc' = IF pc # Unset THEN pc ELSE info'[main].entry
  BY DEF LoadProgram
<1>3. /\ Linked(main) /\ bias \in Biases /\ INTERP_BASE = MEM_END /\ MEM_END \in Biases
      /\ Biases \subseteq Nat
      /\ \A lib \in Interps(main) : Linked(lib) /\ lib # main /\ Interps(main) = {lib}
  BY <1>1, FilesOfProgram
<1>4. /\ image' = LoadedInto(image, main, bias)
      /\ phdrs' = MapBase(main, bias) + File[main].e_phoff
      /\ DOMAIN info' = DOMAIN info \cup {main}
      /\ info'[main] = pinfo(main, bias)
      /\ \A f \in DOMAIN info \ {main} : info'[f] = info[f]
  BY <1>2 DEF load_elf_file, LoadedInto
<1>5. /\ info'[main].bias = bias /\ info'[main].entry = File[main].e_entry + bias
      /\ info'[main].brk_min = HighEnd(main, bias)
  BY <1>4 DEF pinfo
<1>6. /\ DOMAIN info' = {main} \cup Interps(main)
      /\ \A lib \in Interps(main) : info'[lib] = pinfo(lib, MEM_END)
  BY <1>1, <1>3, <1>4
<1>7. \A lib \in Interps(main) : info'[lib].bias = MEM_END
  BY <1>6 DEF pinfo
<1>8. /\ InPlaceIn(image', main, bias) /\ DOMAIN image' = DOMAIN image \cup Pages(main, bias)
      /\ Pages(main, bias) \subseteq Int
  <2>1. /\ InPlaceIn(LoadedInto(image, main, bias), main, bias)
        /\ DOMAIN LoadedInto(image, main, bias) = DOMAIN image \cup Pages(main, bias)
        /\ Pages(main, bias) \subseteq Int
    <3>1. Linked(main) /\ bias \in Biases /\ DOMAIN image \subseteq Int
      BY <1>1, <1>3
    <3> QED BY <3>1, FileInPlace
  <2> QED BY <1>4, <2>1
<1>9. PagesOf(main)' = Pages(main, bias) /\ \A lib \in Interps(main) : PagesOf(lib)' = Pages(lib, MEM_END)
  BY <1>1, <1>5, <1>7 DEF PagesOf, Pages
<1>10. /\ InPlace(main)' <=> InPlaceIn(image', main, bias)
       /\ \A lib \in Interps(main) : InPlace(lib)' <=> InPlaceIn(image', lib, MEM_END)
  <2>1. InPlace(main)' <=> InPlaceIn(image', main, bias)
    BY <1>1, <1>5 DEF InPlace, InPlaceIn
  <2>2. ASSUME NEW lib \in Interps(main)
        PROVE  InPlace(lib)' <=> InPlaceIn(image', lib, MEM_END)
    BY <1>1, <1>7 DEF InPlace, InPlaceIn
  <2> QED BY <2>1, <2>2
<1>11. ASSUME NEW lib \in Interps(main)
       PROVE  /\ Pages(lib, MEM_END) \subseteq DOMAIN image
              /\ InPlaceIn(image, lib, MEM_END) /\ pc = File[lib].e_entry + MEM_END
  <2>1. PagesOf(lib) \subseteq DOMAIN image /\ InPlace(lib) /\ pc = File[lib].e_entry + MEM_END
    BY <1>1, <1>3, <1>11 DEF LInv, InterpLoaded
  <2>2. info[lib].bias = MEM_END
    BY <1>1, <1>3, <1>11 DEF pinfo
  <2> QED BY <2>1, <2>2 DEF PagesOf, Pages, InPlace, InPlaceIn
<1>12. ASSUME NEW lib \in Interps(main), Pages(lib, MEM_END) \cap Pages(main, bias) = {}
       PROVE  InPlaceIn(image', lib, MEM_END)
  BY <1>1, <1>3, <1>4, <1>11, <1>12, StaysInPlace
<1>13. MapBase(main, bias) \in Nat /\ UpToPage(HighEnd(main, bias)) \in Nat
  BY <1>3, SegmentsMapped
<1>14. FilesRecorded'
  <2>1. \A f \in DOMAIN info' : info'[f] = pinfo(f, IF f = main THEN bias ELSE INTERP_BASE)
    BY <1>3, <1>4, <1>6
  <2> QED BY <1>1, <1>6, <1>8, <2>1 DEF FilesRecorded
<1>15. ImageLoaded'
  <2> DEFINE Starts == IF Interps(main) = {} THEN {main} ELSE Interps(main)
             Whole(f) == \A g \in DOMAIN info' \ {f} : PagesOf(f)' \cap PagesOf(g)' = {}
  <2>1. \A f \in DOMAIN info' : f = main \/ Whole(f) => InPlace(f)'
    <3> SUFFICES ASSUME NEW f \in DOMAIN info', f = main \/ Whole(f) PROVE InPlace(f)'
      OBVIOUS
    <3>1. CASE f = main
      BY <1>8, <1>10, <3>1
    <3>2. CASE f # main
      <4>1. f \in Interps(main) /\ main \in DOMAIN info' \ {f}
        BY <1>6, <3>2
      <4>2. PagesOf(f)' \cap PagesOf(main)' = {}
        BY <3>2, <4>1
      <4>3. Pages(f, MEM_END) \cap Pages(main, bias) = {}
        BY <1>9, <4>1, <4>2
      <4> QED BY <1>10, <1>12, <4>1, <4>3
    <3> QED BY <3>1, <3>2
  <2>2. \A k \in 0 .. (Len(File[main].ph) - 1) : image'[phdrs' + k] = << main, File[main].e_phoff + k >>
    <3>1. \A k \in 0 .. (Len(File[main].ph) - 1) :
            LoadedInto(image, main, bias)[MapBase(main, bias) + File[main].e_phoff + k]
              = << main, File[main].e_phoff + k >>
      <4>1. Linked(main) /\ bias \in Biases /\ DOMAIN image \subseteq Int
        BY <1>1, <1>3
      <4> QED BY <4>1, HeadersThere
    <3> QED BY <1>4, <3>1
  <2>3. ASSUME NEW f \in Starts, f = main \/ Whole(f)
        PROVE  \E p \in Loads(f) : image'[pc'] = << f, p.offset + pc' - info'[f].bias - p.vaddr >>
    <3>1. InPlace(f)' /\ f \in DOMAIN info'
      BY <1>6, <2>1, <2>3
    <3>2. ASSUME Interps(main) = {}
          PROVE  f = main /\ pc' = File[f].e_entry + bias
      <4>1. f = main
        BY <3>2
      <4>2. pc = Unset
        BY <1>1, <3>2 DEF LInv, InterpLoaded
      <4> QED BY <1>2, <1>5, <4>1, <4>2
    <3>3. ASSUME Interps(main) # {}
          PROVE  f \in Interps(main) /\ pc' = File[f].e_entry + MEM_END
      <4>1. f \in Interps(main)
        BY <3>3
      <4>2. pc = File[f].e_entry + MEM_END
        BY <1>11, <4>1
      <4>3. pc # Unset
        <5>1. File[f].e_entry \in Nat /\ MEM_END \in Nat
          BY <1>3, <4>1 DEF Linked
        <5> QED BY <4>2, <5>1 DEF Unset
      <4> QED BY <1>2, <4>1, <4>2, <4>3
    <3>4. \E b \in Biases : /\ info'[f].bias = b /\ InPlaceIn(image', f, b) /\ Linked(f)
                            /\ pc' = File[f].e_entry + b
      <4>1. CASE Interps(main) = {}
        BY <1>3, <1>5, <1>8, <3>2, <4>1
      <4>2. CASE Interps(main) # {}
        BY <1>3, <1>7, <1>10, <3>1, <3>3, <4>2
      <4> QED BY <4>1, <4>2
    <3>5. PICK b \in Biases : /\ info'[f].bias = b /\ InPlaceIn(image', f, b) /\ Linked(f)
                              /\ pc' = File[f].e_entry + b
      BY <3>4
    <3>6. EntryIn(image', f, b)
      <4>1. b \in Nat
        BY <1>3
      <4> QED BY <3>5, <4>1, EntryThere
    <3> QED BY <3>5, <3>6 DEF EntryIn
  <2>4. \A a \in PagesOf(main)' : a < UpToPage(info'[main].brk_min)
    BY <1>5, <1>9, <1>13 DEF Pages
  <2> QED BY <1>1, <1>6, <2>1, <2>2, <2>3, <2>4 DEF ImageLoaded
<1>16. InterpLoaded' /\ StackLaid'
  BY <1>1 DEF InterpLoaded, StackLaid
<1> QED BY <1>14, <1>15, <1>16 DEF LInv

(* The stack, after both.                                                    *)
LEMMA InitializeStackStep ==
  ASSUME LInv, InitializeStack
  PROVE  LInv'
<1>1. /\ loading = "stack" /\ loading' = "ready" /\ program' = program /\ image' = image
      /\ info' = info /\ phdrs' = phdrs /\ pc' = pc
      /\ sp' = at_random - Len(Pushed) * WordSize /\ stack' = PushedWords
  BY DEF InitializeStack
<1>2. FilesRecorded /\ InterpLoaded /\ ImageLoaded
  BY DEF LInv
<1>3. FilesRecorded'
  BY <1>1, <1>2 DEF FilesRecorded
<1>4. \A f : PagesOf(f)' = PagesOf(f) /\ (InPlace(f)' <=> InPlace(f))
  BY <1>1 DEF PagesOf, InPlace
<1>5. InterpLoaded'
  BY <1>1 DEF InterpLoaded
<1>6. ImageLoaded'
  BY <1>1, <1>2, <1>4 DEF ImageLoaded
<1>7. at_random' = at_random /\ Pushed' = Pushed
  <2>1. at_random' = at_random
    BY <1>1 DEF at_random
  <2>2. AuxPushed' = AuxPushed
    BY <1>1, <2>1 DEF AuxPushed, Aux
  <2> QED BY <1>1, <2>1, <2>2 DEF Pushed
<1>8. StackLaid'
  BY <1>1, <1>7 DEF StackLaid, PushedWords
<1> QED BY <1>3, <1>5, <1>6, <1>8 DEF LInv

(* The rest of the simulator's life leaves the loader's results alone.       *)
LEMMA LoaderStutters ==
  ASSUME LInv, UNCHANGED loaderVars
  PROVE  LInv'
<1>1. /\ loading' = loading /\ program' = program /\ image' = image /\ stack' = stack
      /\ info' = info /\ phdrs' = phdrs /\ pc' = pc /\ sp' = sp
  BY DEF loaderVars
<1>2. FilesRecorded /\ InterpLoaded /\ ImageLoaded /\ StackLaid
  BY DEF LInv
<1>3. FilesRecorded'
  BY <1>1, <1>2 DEF FilesRecorded
<1>4. \A f : PagesOf(f)' = PagesOf(f) /\ (InPlace(f)' <=> InPlace(f))
  BY <1>1 DEF PagesOf, InPlace
<1>5. InterpLoaded'
  BY <1>1, <1>2, <1>4 DEF InterpLoaded
<1>6. ImageLoaded'
  BY <1>1, <1>2, <1>4 DEF ImageLoaded
<1>7. at_random' = at_random /\ Pushed' = Pushed
  <2>1. at_random' = at_random
    BY <1>1 DEF at_random
  <2>2. AuxPushed' = AuxPushed
    BY <1>1, <2>1 DEF AuxPushed, Aux
  <2> QED BY <1>1, <2>1, <2>2 DEF Pushed
<1>8. StackLaid'
  BY <1>1, <1>2, <1>7 DEF StackLaid, PushedWords
<1> QED BY <1>3, <1>5, <1>6, <1>8 DEF LInv

(* At every point of emulate_execve() the files loaded so far are in place,  *)
(* and what it returns agrees with them.                                     *)
THEOREM LoaderInvariant == LoaderSpec => []LInv
<1>1. LInv /\ [LoaderNext]_loaderVars => LInv'
  BY LoadInterpStep, LoadProgramStep, InitializeStackStep, LoaderStutters DEF LoaderNext
<1> QED BY <1>1, LoaderStarts, PTL DEF LoaderSpec

(* The files lie where their headers say, whatever the loader put into       *)
(* memory in between, and the guest starts in the right one                  *)
(* (load_elf_file()).                                                        *)
THEOREM LoadsTheImage == LoaderSpec => []ImageLoaded
<1>1. LInv => ImageLoaded
  BY DEF LInv
<1> QED BY <1>1, LoaderInvariant, PTL

--------------------------------------------------------------------------------
(* initialize_stack().                                                       *)

(* u is s and then t.                                                        *)
Joins(u, s, t) ==
  /\ Len(s) \in Nat /\ Len(t) \in Nat /\ Len(u) = Len(s) + Len(t)
  /\ \A i \in 1 .. Len(s) : u[i] = s[i]
  /\ \A i \in 1 .. Len(t) : u[Len(s) + i] = t[i]

(* What concatenation does, in one formula.                                  *)
LEMMA ConcatIs ==
  ASSUME NEW S, NEW s \in Seq(S), NEW t \in Seq(S)
  PROVE  s \o t \in Seq(S) /\ Joins(s \o t, s, t)
<1>1. Len(s) \in Nat /\ Len(t) \in Nat
  BY LenProperties
<1>2. /\ s \o t \in Seq(S)
      /\ Len(s \o t) = Len(s) + Len(t)
      /\ \A i \in 1 .. Len(s) + Len(t) : (s \o t)[i] = IF i <= Len(s) THEN s[i] ELSE t[i - Len(s)]
  BY ConcatProperties
<1>3. ASSUME NEW i \in 1 .. Len(t) PROVE (s \o t)[Len(s) + i] = t[i]
  <2>1. Len(s) + i \in 1 .. Len(s) + Len(t) /\ ~ (Len(s) + i <= Len(s)) /\ (Len(s) + i) - Len(s) = i
    BY <1>1
  <2> QED BY <1>2, <2>1
<1>4. \A i \in 1 .. Len(s) : (s \o t)[i] = s[i]
  BY <1>1, <1>2
<1> QED BY <1>1, <1>2, <1>3, <1>4 DEF Joins

(* The list s is made of pairs: those among the first n of G.                *)
MadeOfPairs(s, G, n) ==
  \E h \in Nat :
    /\ Len(s) = 2 * h
    /\ \A m \in 1 .. h : \E j \in 1 .. n :
         G[j] # << >> /\ s[2 * m - 1] = G[j][1] /\ s[2 * m] = G[j][2]
    /\ \A j \in 1 .. n : G[j] # << >> =>
         \E m \in 1 .. h : s[2 * m - 1] = G[j][1] /\ s[2 * m] = G[j][2]

(* Lists that are empty or pairs, one after the other: the result is made of *)
(* the pairs, each of which is in it.                                        *)
LEMMA PairsInTurn ==
  ASSUME NEW V, NEW N \in Nat, NEW G \in [1 .. N -> Seq(V)], NEW t,
         \A j \in 1 .. N : G[j] = << >> \/ Len(G[j]) = 2,
         t[0] = << >>, \A i \in 1 .. N : t[i] = t[i - 1] \o G[i]
  PROVE  t[N] \in Seq(V) /\ MadeOfPairs(t[N], G, N)
<1> DEFINE From(s, h, i) == \A m \in 1 .. h : \E j \in 1 .. i :
                   G[j] # << >> /\ s[2 * m - 1] = G[j][1] /\ s[2 * m] = G[j][2]
           Into(s, h, i) == \A j \in 1 .. i : G[j] # << >> =>
                   \E m \in 1 .. h : s[2 * m - 1] = G[j][1] /\ s[2 * m] = G[j][2]
           Good(s, i) == /\ s \in Seq(V)
                         /\ \E h \in Nat : Len(s) = 2 * h /\ From(s, h, i) /\ Into(s, h, i)
           P == {n \in Nat : n <= N => Good(t[n], n)}
<1>1. 0 \in P
  <2>1. << >> \in Seq(V) /\ Len(<< >>) = 0
    BY EmptySeq
  <2>2. Good(<< >>, 0)
    BY <2>1
  <2> HIDE DEF Good
  <2> QED BY <2>2
<1>2. ASSUME NEW n \in Nat, n \in P PROVE n + 1 \in P
  <2> SUFFICES ASSUME n + 1 <= N PROVE Good(t[n + 1], n + 1)
    <3> HIDE DEF Good
    <3> QED OBVIOUS
  <2>1. Good(t[n], n) /\ n + 1 \in 1 .. N
    <3> HIDE DEF Good
    <3> QED BY <1>2
  <2> DEFINE s == t[n]
             g == G[n + 1]
  <2>2. t[n + 1] = s \o g /\ g \in Seq(V) /\ (g = << >> \/ Len(g) = 2) /\ s \in Seq(V)
    <3> HIDE DEF Good
    <3> PICK i : i = n + 1
      OBVIOUS
    <3>1. i \in 1 .. N /\ i - 1 = n
      BY <2>1
    <3>2. t[i] = t[i - 1] \o G[i] /\ G[i] \in Seq(V) /\ (G[i] = << >> \/ Len(G[i]) = 2)
      BY <3>1
    <3>3. s \in Seq(V)
      BY <2>1 DEF Good
    <3> QED BY <3>1, <3>2, <3>3
  <2>3. PICK h \in Nat : Len(s) = 2 * h /\ From(s, h, n) /\ Into(s, h, n)
    BY <2>1
  <2>4. CASE g = << >>
    <3>1. t[n + 1] = s
      BY <2>2, <2>4, ConcatEmptySeq
    <3>2. \A j \in 1 .. n + 1 : j \in 1 .. n \/ G[j] = << >>
      <4>1. \A j \in 1 .. n + 1 : j \in 1 .. n \/ j = n + 1
        OBVIOUS
      <4> QED BY <2>4, <4>1
    <3>3. \A j \in 1 .. n : j \in 1 .. n + 1
      OBVIOUS
    <3> HIDE DEF s
    <3>4. From(s, h, n + 1) /\ Into(s, h, n + 1)
      BY <2>3, <3>2, <3>3
    <3> HIDE DEF From, Into
    <3> QED BY <2>2, <2>3, <3>1, <3>4
  <2>5. CASE Len(g) = 2 /\ g # << >>
    <3> DEFINE u == s \o g
    <3> HIDE DEF s, g
    <3>1. /\ u \in Seq(V) /\ Len(u) = 2 * h + 2
          /\ \A i \in 1 .. 2 * h : u[i] = s[i]
          /\ \A i \in 1 .. 2 : u[2 * h + i] = g[i]
      <4>1. /\ Len(u) = Len(s) + Len(g) /\ u \in Seq(V)
            /\ \A i \in 1 .. Len(s) : u[i] = s[i]
            /\ \A i \in 1 .. Len(g) : u[Len(s) + i] = g[i]
        <5>1. u \in Seq(V) /\ Joins(u, s, g)
          BY <2>2, ConcatIs
        <5> HIDE DEF u
        <5> QED BY <5>1 DEF Joins
      <4>2. Len(s) = 2 * h /\ Len(g) = 2
        BY <2>3, <2>5
      <4> HIDE DEF u
      <4> QED BY <4>1, <4>2, Zenon
    <3>2. u[2 * (h + 1) - 1] = g[1] /\ u[2 * (h + 1)] = g[2] /\ Len(u) = 2 * (h + 1)
      <4>1. 2 * (h + 1) - 1 = 2 * h + 1 /\ 2 * (h + 1) = 2 * h + 2
        OBVIOUS
      <4>2. u[2 * h + 1] = g[1] /\ u[2 * h + 2] = g[2]
        <5>1. 1 \in 1 .. 2 /\ 2 \in 1 .. 2
          OBVIOUS
        <5> HIDE DEF u
        <5> QED BY <3>1, <5>1
      <4> HIDE DEF u
      <4> QED BY <3>1, <4>1, <4>2
    <3> HIDE DEF u
    <3>3. \A m \in 1 .. h : u[2 * m - 1] = s[2 * m - 1] /\ u[2 * m] = s[2 * m]
      <4>1. \A m \in 1 .. h : 2 * m - 1 \in 1 .. 2 * h /\ 2 * m \in 1 .. 2 * h
        OBVIOUS
      <4> QED BY <3>1, <4>1
    <3>4. \A m \in 1 .. h + 1 : m \in 1 .. h \/ m = h + 1
      OBVIOUS
    <3>5. \A j \in 1 .. n + 1 : j \in 1 .. n \/ j = n + 1
      OBVIOUS
    <3>6. (\A j \in 1 .. n : j \in 1 .. n + 1) /\ (\A m \in 1 .. h : m \in 1 .. h + 1)
          /\ n + 1 \in 1 .. n + 1 /\ h + 1 \in 1 .. h + 1 /\ h + 1 \in Nat
      OBVIOUS
    <3>7. From(u, h + 1, n + 1)
      <4> SUFFICES ASSUME NEW m \in 1 .. h + 1
                   PROVE  \E j \in 1 .. n + 1 :
                            G[j] # << >> /\ u[2 * m - 1] = G[j][1] /\ u[2 * m] = G[j][2]
        OBVIOUS
      <4>1. CASE m \in 1 .. h
        <5>1. \E j \in 1 .. n : G[j] # << >> /\ s[2 * m - 1] = G[j][1] /\ s[2 * m] = G[j][2]
          BY <2>3, <4>1
        <5> QED BY <3>3, <3>6, <4>1, <5>1
      <4>2. CASE m = h + 1
        BY <2>5, <3>2, <3>6, <4>2 DEF g
      <4> QED BY <3>4, <4>1, <4>2
    <3>8. Into(u, h + 1, n + 1)
      <4> SUFFICES ASSUME NEW j \in 1 .. n + 1, G[j] # << >>
                   PROVE  \E m \in 1 .. h + 1 : u[2 * m - 1] = G[j][1] /\ u[2 * m] = G[j][2]
        OBVIOUS
      <4>1. CASE j \in 1 .. n
        <5>1. \E m \in 1 .. h : s[2 * m - 1] = G[j][1] /\ s[2 * m] = G[j][2]
          BY <2>3, <4>1
        <5> QED BY <3>3, <3>6, <5>1
      <4>2. CASE j = n + 1
        BY <3>2, <3>6, <4>2 DEF g
      <4> QED BY <3>5, <4>1, <4>2
    <3>9. t[n + 1] = u
      BY <2>2 DEF s, g, u
    <3> HIDE DEF From, Into
    <3> QED BY <3>1, <3>2, <3>6, <3>7, <3>8, <3>9
  <2> QED BY <2>2, <2>4, <2>5
<1>3. Nat \subseteq P
  <2> HIDE DEF P
  <2> QED BY <1>1, <1>2, Induction, Zenon
<1>4. Good(t[N], N)
  <2> HIDE DEF Good
  <2> QED BY <1>3
<1> QED BY <1>4 DEF MadeOfPairs

(* The loop over the host's auxiliary vector: what has been pushed after each *)
(* turn.                                                                     *)
LEMMA PushesInTurn ==
  ASSUME Len(program.auxv) \in Nat
  PROVE  \E t : /\ AuxPushed = t[Len(program.auxv)] /\ t[0] = << >>
               /\ \A i \in 1 .. Len(program.auxv) : t[i] = t[i - 1] \o Aux(program.auxv[i])
<1> DEFINE N == Len(program.auxv)
           Turn(g, i) == IF i = 0 THEN << >> ELSE g[i - 1] \o Aux(program.auxv[i])
           P == {n \in Nat : \E g : g = [i \in 0 .. n |-> Turn(g, i)]}
<1>1. 0 \in P
  <2> DEFINE g == [i \in 0 .. 0 |-> << >>]
  <2>1. g = [i \in 0 .. 0 |-> Turn(g, i)]
    OBVIOUS
  <2> QED BY <2>1
<1>2. ASSUME NEW n \in Nat, n \in P PROVE n + 1 \in P
  <2>1. PICK g : g = [i \in 0 .. n |-> Turn(g, i)]
    BY <1>2
  <2> DEFINE h == [i \in 0 .. n + 1 |-> IF i <= n THEN g[i] ELSE Turn(g, n + 1)]
  <2>2. ASSUME NEW i \in 0 .. n + 1 PROVE h[i] = Turn(h, i)
    <3>1. i # 0 => h[i - 1] = g[i - 1]
      OBVIOUS
    <3>2. Turn(h, i) = Turn(g, i)
      BY <3>1
    <3>3. CASE i <= n
      <4>1. i \in 0 .. n /\ h[i] = g[i]
        BY <3>3
      <4>2. g[i] = Turn(g, i)
        <5> HIDE DEF Turn, h
        <5> QED BY <2>1, <4>1
      <4> QED BY <4>1, <4>2, <3>2
    <3>4. CASE ~ (i <= n)
      <4>1. i = n + 1
        BY <3>4
      <4> QED BY <4>1, <3>4, <3>2
    <3> QED BY <3>3, <3>4
  <2>3. h = [i \in 0 .. n + 1 |-> Turn(h, i)]
    <3>1. h = [i \in 0 .. n + 1 |-> h[i]]
      OBVIOUS
    <3> HIDE DEF Turn, h
    <3> QED BY <3>1, <2>2
  <2>4. \E k : k = [i \in 0 .. n + 1 |-> Turn(k, i)]
    <3> HIDE DEF Turn, h
    <3> QED BY <2>3
  <2> HIDE DEF Turn
  <2> QED BY <2>4
<1>3. Nat \subseteq P
  <2> HIDE DEF P
  <2> QED BY <1>1, <1>2, Induction, Zenon
<1> DEFINE r == CHOOSE g : g = [i \in 0 .. N |-> Turn(g, i)]
<1>4. r = [i \in 0 .. N |-> Turn(r, i)]
  <2>1. \E g : g = [i \in 0 .. N |-> Turn(g, i)]
    BY <1>3
  <2> HIDE DEF Turn, N
  <2> QED BY <2>1
<1>5. AuxPushed = r[N]
  BY DEF AuxPushed
<1>6. \A i \in 0 .. N : r[i] = Turn(r, i)
  <2> HIDE DEF Turn, N, r
  <2> QED BY <1>4
<1>7. r[0] = << >> /\ \A i \in 1 .. N : r[i] = Turn(r, i) /\ i # 0
  <2>1. 0 \in 0 .. N /\ \A i \in 1 .. N : i \in 0 .. N /\ i # 0
    OBVIOUS
  <2>2. r[0] = Turn(r, 0) /\ \A i \in 1 .. N : r[i] = Turn(r, i) /\ i # 0
    <3> HIDE DEF Turn, N, r
    <3> QED BY <1>6, <2>1
  <2> HIDE DEF r
  <2> QED BY <2>2
<1> HIDE DEF r
<1> QED BY <1>5, <1>7

(* The strings have some length.                                             *)
LEMMA StringsTakeRoom ==
  ASSUME NEW lengths \in Seq(Nat)
  PROVE  StringBytes(lengths) \in Nat
<1>0. Len(lengths) \in Nat /\ \A i \in 1 .. Len(lengths) : lengths[i] \in Nat
  BY LenProperties
<1> DEFINE N == Len(lengths)
           Turn(g, i) == IF i = 0 THEN 0 ELSE g[i - 1] + lengths[i] + 1
           P == {n \in Nat : \E g : g = [i \in 0 .. n |-> Turn(g, i)]}
<1>1. 0 \in P
  <2> DEFINE g == [i \in 0 .. 0 |-> 0]
  <2>1. g = [i \in 0 .. 0 |-> Turn(g, i)]
    OBVIOUS
  <2> QED BY <2>1
<1>2. ASSUME NEW n \in Nat, n \in P PROVE n + 1 \in P
  <2>1. PICK g : g = [i \in 0 .. n |-> Turn(g, i)]
    BY <1>2
  <2> DEFINE h == [i \in 0 .. n + 1 |-> IF i <= n THEN g[i] ELSE Turn(g, n + 1)]
  <2>2. ASSUME NEW i \in 0 .. n + 1 PROVE h[i] = Turn(h, i)
    <3>1. i # 0 => h[i - 1] = g[i - 1]
      OBVIOUS
    <3>2. Turn(h, i) = Turn(g, i)
      BY <3>1
    <3>3. CASE i <= n
      <4>1. i \in 0 .. n /\ h[i] = g[i]
        BY <3>3
      <4>2. g[i] = Turn(g, i)
        <5> HIDE DEF Turn, h
        <5> QED BY <2>1, <4>1
      <4> QED BY <4>1, <4>2, <3>2
    <3>4. CASE ~ (i <= n)
      <4>1. i = n + 1
        BY <3>4
      <4> QED BY <4>1, <3>4, <3>2
    <3> QED BY <3>3, <3>4
  <2>3. h = [i \in 0 .. n + 1 |-> Turn(h, i)]
    <3>1. h = [i \in 0 .. n + 1 |-> h[i]]
      OBVIOUS
    <3> HIDE DEF Turn, h
    <3> QED BY <3>1, <2>2
  <2>4. \E k : k = [i \in 0 .. n + 1 |-> Turn(k, i)]
    <3> HIDE DEF Turn, h
    <3> QED BY <2>3
  <2> HIDE DEF Turn
  <2> QED BY <2>4
<1>3. Nat \subseteq P
  <2> HIDE DEF P
  <2> QED BY <1>1, <1>2, Induction, Zenon
<1> DEFINE r == CHOOSE g : g = [i \in 0 .. N |-> Turn(g, i)]
<1>4. r = [i \in 0 .. N |-> Turn(r, i)]
  <2>1. \E g : g = [i \in 0 .. N |-> Turn(g, i)]
    BY <1>0, <1>3
  <2> HIDE DEF Turn, N
  <2> QED BY <2>1
<1>5. StringBytes(lengths) = r[N]
  BY DEF StringBytes
<1>6. \A i \in 0 .. N : r[i] = Turn(r, i)
  <2> HIDE DEF Turn, N, r
  <2> QED BY <1>4
<1>7. r[0] = 0 /\ \A i \in 1 .. N : r[i] = Turn(r, i) /\ i # 0
  BY <1>0, <1>6
<1> HIDE DEF r
<1> DEFINE Q == {n \in Nat : n <= N => r[n] \in Nat}
<1>8. 0 \in Q
  BY <1>7
<1>9. ASSUME NEW n \in Nat, n \in Q PROVE n + 1 \in Q
  <2> SUFFICES ASSUME n + 1 <= N PROVE r[n + 1] \in Nat
    OBVIOUS
  <2>1. n + 1 \in 1 .. N /\ r[n] \in Nat /\ (n + 1) - 1 = n /\ n + 1 # 0
    BY <1>0, <1>9
  <2>2. r[n + 1] = r[n] + lengths[n + 1] + 1
    BY <1>7, <2>1
  <2> QED BY <1>0, <2>1, <2>2
<1>10. Nat \subseteq Q
  <2> HIDE DEF Q
  <2> QED BY <1>8, <1>9, Induction, Zenon
<1> QED BY <1>0, <1>5, <1>10

Own == {"AT_PHDR", "AT_PHENT", "AT_PHNUM", "AT_ENTRY", "AT_RANDOM", "AT_PAGESZ", "AT_SECURE",
        "AT_EXECFN", "AT_PLATFORM"}

OwnWord == [AT_PHDR |-> Number(phdrs), AT_PHENT |-> Number(PhdrSize),
            AT_PHNUM |-> Number(info[program.file].phnum),
            AT_ENTRY |-> Number(info[program.file].entry), AT_RANDOM |-> Number(at_random),
            AT_PAGESZ |-> Number(RISCV_PGSIZE), AT_SECURE |-> Number(0),
            AT_EXECFN |-> << "argv", 1 >>, AT_PLATFORM |-> << "literal", "riscv64" >>]

(* A word that no pair has for its key.                                      *)
NoKey(u) == \E w \in {"number", "argv", "literal"} : \E x : u = << w, x >>

(* One turn pushes nothing or a value, which is no key, and its key.         *)
LEMMA AuxIs ==
  ASSUME NEW aux
  PROVE  /\ aux.key \notin Own \cup {"AT_UID"} => Aux(aux) = << >>
         /\ aux.key \in Own \cup {"AT_UID"} =>
              \E u : NoKey(u) /\ Aux(aux) = << u, Key(aux.key) >>
         /\ aux.key \in Own => Aux(aux) = << OwnWord[aux.key], Key(aux.key) >>
<1>1. DOMAIN OwnWord = Own
  BY DEF Own, OwnWord
<1>2. Aux(aux) = IF aux.key \in DOMAIN OwnWord THEN << OwnWord[aux.key], Key(aux.key) >>
                 ELSE IF aux.key = "AT_UID" THEN << Number(aux.value), Key(aux.key) >>
                 ELSE << >>
  BY DEF Aux, OwnWord
<1>3. "AT_UID" \notin Own
  BY DEF Own
<1>4. \A k \in Own : NoKey(OwnWord[k])
  BY DEF Own, OwnWord, Number, NoKey
<1>5. aux.key \notin Own \cup {"AT_UID"} => Aux(aux) = << >>
  BY <1>1, <1>2
<1>6. ASSUME aux.key \in Own \cup {"AT_UID"}
      PROVE  \E u : NoKey(u) /\ Aux(aux) = << u, Key(aux.key) >>
  <2>1. CASE aux.key \in Own
    <3>1. NoKey(OwnWord[aux.key])
      BY <1>4, <2>1
    <3>2. Aux(aux) = << OwnWord[aux.key], Key(aux.key) >>
      BY <1>1, <1>2, <2>1
    <3> QED BY <3>1, <3>2
  <2>2. CASE aux.key = "AT_UID"
    <3>1. Aux(aux) = << Number(aux.value), Key(aux.key) >>
      BY <1>1, <1>2, <1>3, <2>2
    <3>2. NoKey(Number(aux.value))
      BY DEF NoKey, Number
    <3> QED BY <3>1, <3>2
  <2> QED BY <1>6, <2>1, <2>2
<1>7. aux.key \in Own => Aux(aux) = << OwnWord[aux.key], Key(aux.key) >>
  BY <1>1, <1>2
<1> QED BY <1>5, <1>6, <1>7

(* The keys of the host's vector that the guest is given: from each of them  *)
(* the pair it stands for has been pushed, and nothing else.                 *)
LEMMA AuxLaid ==
  ASSUME NEW V, program.auxv \in Seq([key : STRING \ {"AT_NULL"}, value : Nat]),
         \A j \in DOMAIN program.auxv : Aux(program.auxv[j]) \in Seq(V)
  PROVE  /\ AuxPushed \in Seq(V)
         /\ \E h \in Nat :
              /\ Len(AuxPushed) = 2 * h
              /\ \A m \in 1 .. h : \E j \in DOMAIN program.auxv :
                   /\ program.auxv[j].key \in Own \cup {"AT_UID"}
                   /\ AuxPushed[2 * m - 1] = Aux(program.auxv[j])[1]
                   /\ AuxPushed[2 * m] = Key(program.auxv[j].key)
              /\ \A j \in DOMAIN program.auxv : program.auxv[j].key \in Own \cup {"AT_UID"} =>
                   \E m \in 1 .. h : /\ AuxPushed[2 * m - 1] = Aux(program.auxv[j])[1]
                                     /\ AuxPushed[2 * m] = Key(program.auxv[j].key)
<1> DEFINE N == Len(program.auxv)
           G == [j \in 1 .. N |-> Aux(program.auxv[j])]
<1>1. N \in Nat /\ DOMAIN program.auxv = 1 .. N
  BY LenProperties
<1>2. PICK t : /\ AuxPushed = t[N] /\ t[0] = << >>
               /\ \A i \in 1 .. N : t[i] = t[i - 1] \o Aux(program.auxv[i])
  BY <1>1, PushesInTurn
<1>3. \A j \in 1 .. N : G[j] = Aux(program.auxv[j])
  OBVIOUS
<1> HIDE DEF G, N
<1>4. ASSUME NEW j \in 1 .. N
      PROVE  /\ G[j] \in Seq(V) /\ (G[j] = << >> \/ Len(G[j]) = 2)
             /\ G[j] # << >> <=> program.auxv[j].key \in Own \cup {"AT_UID"}
             /\ G[j] # << >> => G[j][2] = Key(program.auxv[j].key)
  <2>1. G[j] = Aux(program.auxv[j]) /\ G[j] \in Seq(V)
    BY <1>1, <1>3
  <2>2. CASE program.auxv[j].key \in Own \cup {"AT_UID"}
    <3>1. \E v : Aux(program.auxv[j]) = << v, Key(program.auxv[j].key) >>
      BY <2>2, AuxIs
    <3> QED BY <2>1, <2>2, <3>1
  <2>3. CASE program.auxv[j].key \notin Own \cup {"AT_UID"}
    BY <2>1, <2>3, AuxIs
  <2> QED BY <2>2, <2>3
<1>5. \A i \in 1 .. N : t[i] = t[i - 1] \o G[i]
  BY <1>2, <1>3
<1>6. t[N] \in Seq(V) /\ MadeOfPairs(t[N], G, N)
  <2>1. \A j \in 1 .. N : G[j] \in Seq(V) /\ (G[j] = << >> \/ Len(G[j]) = 2)
    BY <1>4
  <2>2. N \in Nat /\ t[0] = << >>
    BY <1>1, <1>2
  <2>3. G \in [1 .. N -> Seq(V)]
    BY <2>1 DEF G
  <2> QED BY <1>5, <2>1, <2>2, <2>3, PairsInTurn
<1>7. PICK h \in Nat :
           /\ Len(t[N]) = 2 * h
           /\ \A m \in 1 .. h : \E j \in 1 .. N :
                G[j] # << >> /\ t[N][2 * m - 1] = G[j][1] /\ t[N][2 * m] = G[j][2]
           /\ \A j \in 1 .. N : G[j] # << >> =>
                \E m \in 1 .. h : t[N][2 * m - 1] = G[j][1] /\ t[N][2 * m] = G[j][2]
  BY <1>6 DEF MadeOfPairs
<1>8. \A m \in 1 .. h : \E j \in DOMAIN program.auxv :
        /\ program.auxv[j].key \in Own \cup {"AT_UID"}
        /\ AuxPushed[2 * m - 1] = Aux(program.auxv[j])[1]
        /\ AuxPushed[2 * m] = Key(program.auxv[j].key)
  <2> SUFFICES ASSUME NEW m \in 1 .. h
               PROVE  \E j \in DOMAIN program.auxv :
                        /\ program.auxv[j].key \in Own \cup {"AT_UID"}
                        /\ AuxPushed[2 * m - 1] = Aux(program.auxv[j])[1]
                        /\ AuxPushed[2 * m] = Key(program.auxv[j].key)
    OBVIOUS
  <2>1. PICK j \in 1 .. N : G[j] # << >> /\ t[N][2 * m - 1] = G[j][1] /\ t[N][2 * m] = G[j][2]
    BY <1>7
  <2> QED BY <1>1, <1>2, <1>3, <1>4, <2>1
<1>9. ASSUME NEW j \in DOMAIN program.auxv, program.auxv[j].key \in Own \cup {"AT_UID"}
      PROVE  \E m \in 1 .. h : /\ AuxPushed[2 * m - 1] = Aux(program.auxv[j])[1]
                               /\ AuxPushed[2 * m] = Key(program.auxv[j].key)
  <2>1. j \in 1 .. N /\ G[j] # << >>
    BY <1>1, <1>4, <1>9
  <2>2. PICK m \in 1 .. h : t[N][2 * m - 1] = G[j][1] /\ t[N][2 * m] = G[j][2]
    BY <1>7, <2>1
  <2> QED BY <1>2, <1>3, <1>4, <2>1, <2>2
<1>10. AuxPushed \in Seq(V) /\ Len(AuxPushed) = 2 * h
  BY <1>2, <1>6, <1>7
<1> QED BY <1>8, <1>9, <1>10

(* A function on the first numbers is a list.                                *)
LEMMA ListOf ==
  ASSUME NEW V, NEW n \in Nat, NEW s \in [1 .. n -> V]
  PROVE  s \in Seq(V) /\ Len(s) = n
<1>1. s \in Seq(V)
  BY SeqDef
<1> QED BY <1>1, LenProperties

(* The list read backwards.                                                  *)
LEMMA Reversed ==
  ASSUME NEW V, NEW s \in Seq(V)
  PROVE  /\ Reverse(s) \in Seq(V) /\ Len(Reverse(s)) = Len(s) /\ Len(s) \in Nat
         /\ \A i \in 1 .. Len(s) : Reverse(s)[i] = s[(Len(s) - i) + 1]
<1> DEFINE n == Len(s)
           u == [i \in 1 .. n |-> s[(n - i) + 1]]
<1>1. n \in Nat /\ \A i \in 1 .. n : s[i] \in V
  BY LenProperties
<1>2. Reverse(s) = u
  BY DEF Reverse
<1>3. \A i \in 1 .. n : (n - i) + 1 \in 1 .. n
  BY <1>1
<1>4. u \in [1 .. n -> V]
  BY <1>1, <1>3
<1>5. \A i \in 1 .. n : u[i] = s[(n - i) + 1]
  OBVIOUS
<1>6. u \in Seq(V) /\ Len(u) = n
  <2> HIDE DEF u
  <2> QED BY <1>1, <1>4, ListOf
<1> QED BY <1>1, <1>2, <1>5, <1>6

Downwards(s, name, n) ==
  n \in Nat /\ Len(s) = n /\ \A i \in 1 .. n : s[i] = << name, (n - i) + 1 >>

(* The pointers are pushed from the last to the first.                       *)
LEMMA PointersAre ==
  ASSUME NEW name, NEW lengths \in Seq(Nat),
         NEW V, {<< name, i >> : i \in 1 .. Len(lengths)} \subseteq V
  PROVE  /\ Reverse(Pointers(name, lengths)) \in Seq(V)
         /\ Downwards(Reverse(Pointers(name, lengths)), name, Len(lengths))
<1> DEFINE n == Len(lengths)
           p == Pointers(name, lengths)
           s == Reverse(p)
<1>1. n \in Nat /\ DOMAIN lengths = 1 .. n
  BY LenProperties
<1>2. p = [i \in 1 .. n |-> << name, i >>]
  BY <1>1 DEF Pointers
<1>3. p \in [1 .. n -> V] /\ \A i \in 1 .. n : p[i] = << name, i >>
  <2> HIDE DEF p
  <2> QED BY <1>2
<1> HIDE DEF p
<1>4. p \in Seq(V) /\ Len(p) = n
  BY <1>1, <1>3, ListOf
<1>5. /\ s \in Seq(V) /\ Len(s) = n
      /\ \A i \in 1 .. n : s[i] = p[(n - i) + 1]
  <2>1. /\ s \in Seq(V) /\ Len(s) = Len(p)
        /\ \A i \in 1 .. Len(p) : s[i] = p[(Len(p) - i) + 1]
    BY <1>4, Reversed
  <2> HIDE DEF s, n
  <2> QED BY <1>4, <2>1
<1>6. \A i \in 1 .. n : (n - i) + 1 \in 1 .. n
  BY <1>1
<1>7. \A i \in 1 .. n : s[i] = << name, (n - i) + 1 >>
  <2> HIDE DEF s, n
  <2> QED BY <1>3, <1>5, <1>6
<1> QED BY <1>1, <1>5, <1>7 DEF p, Downwards

(* A list with one more at its end.                                          *)
LEMMA OneMore ==
  ASSUME NEW V, NEW s \in Seq(V), NEW x \in V
  PROVE  /\ s \o << x >> \in Seq(V) /\ Len(s) \in Nat /\ Len(s \o << x >>) = Len(s) + 1
         /\ \A i \in 1 .. Len(s) : (s \o << x >>)[i] = s[i]
         /\ (s \o << x >>)[Len(s) + 1] = x
<1>1. << x >> \in Seq(V) /\ Len(<< x >>) = 1 /\ << x >>[1] = x /\ 1 \in 1 .. 1
  OBVIOUS
<1> DEFINE t == << x >>
<1>2. t \in Seq(V) /\ Len(t) = 1 /\ t[1] = x /\ 1 \in 1 .. Len(t)
  BY <1>1
<1> HIDE DEF t
<1>3. /\ Len(s) \in Nat /\ Len(s \o t) = Len(s) + Len(t) /\ s \o t \in Seq(V)
      /\ \A i \in 1 .. Len(s) : (s \o t)[i] = s[i]
      /\ \A i \in 1 .. Len(t) : (s \o t)[Len(s) + i] = t[i]
  <2>1. s \o t \in Seq(V) /\ Joins(s \o t, s, t)
    BY <1>2, ConcatIs
  <2> QED BY <2>1 DEF Joins
<1> QED BY <1>2, <1>3 DEF t

(* What is pushed, in order: S is the list for C arguments, E strings of the *)
(* environment and the pairs A.                                              *)
LaidOut(S, C, E, A) ==
  /\ Len(S) = Len(A) + E + C + 5
  /\ S[1] = Null /\ S[2] = Key("AT_NULL")
  /\ \A j \in 1 .. Len(A) : S[2 + j] = A[j]
  /\ S[Len(A) + 3] = Null
  /\ \A j \in 1 .. E : S[Len(A) + 3 + j] = << "envp", (E - j) + 1 >>
  /\ S[Len(A) + E + 4] = Null
  /\ \A j \in 1 .. C : S[Len(A) + E + 4 + j] = << "argv", (C - j) + 1 >>
  /\ S[Len(A) + E + C + 5] = Number(C)

(* The lists one after the other.                                            *)
LEMMA LaysOut ==
  ASSUME NEW V, NEW A \in Seq(V), NEW R \in Seq(V), NEW Q \in Seq(V),
         NEW C \in Nat, NEW E \in Nat, Len(R) = E, Len(Q) = C,
         \A j \in 1 .. E : R[j] = << "envp", (E - j) + 1 >>,
         \A j \in 1 .. C : Q[j] = << "argv", (C - j) + 1 >>,
         Null \in V, Key("AT_NULL") \in V, Number(C) \in V
  PROVE  LaidOut(<< Null, Key("AT_NULL") >> \o A \o << Null >> \o R \o << Null >> \o Q \o << Number(C) >>,
                 C, E, A)
<1> DEFINE s0 == << Null, Key("AT_NULL") >>
           s1 == s0 \o A
           s2 == s1 \o << Null >>
           s3 == s2 \o R
           s4 == s3 \o << Null >>
           s5 == s4 \o Q
           s6 == s5 \o << Number(C) >>
           a == Len(A)
<1>0. /\ s0 \in Seq(V) /\ Len(s0) = 2 /\ s0[1] = Null /\ s0[2] = Key("AT_NULL")
  OBVIOUS
<1> HIDE DEF s0, s1, s2, s3, s4, s5, s6, a
<1>1. /\ s1 \in Seq(V) /\ Len(s1) = a + 2 /\ a \in Nat
      /\ s1[1] = Null /\ s1[2] = Key("AT_NULL") /\ \A j \in 1 .. a : s1[2 + j] = A[j]
  <2>1. /\ Len(A) \in Nat /\ Len(s1) = Len(s0) + Len(A) /\ s1 \in Seq(V)
        /\ \A i \in 1 .. Len(s0) : s1[i] = s0[i]
        /\ \A i \in 1 .. Len(A) : s1[Len(s0) + i] = A[i]
    <3>1. s1 \in Seq(V) /\ Joins(s1, s0, A)
      BY <1>0, ConcatIs DEF s1
    <3> QED BY <3>1 DEF Joins
  <2>2. 1 \in 1 .. 2 /\ 2 \in 1 .. 2
    OBVIOUS
  <2> QED BY <1>0, <2>1, <2>2 DEF a
<1>2. /\ s2 \in Seq(V) /\ Len(s2) = a + 3 /\ s2[a + 3] = Null
      /\ \A i \in 1 .. a + 2 : s2[i] = s1[i]
  <2>1. /\ s2 \in Seq(V) /\ Len(s2) = Len(s1) + 1
        /\ \A i \in 1 .. Len(s1) : s2[i] = s1[i]
        /\ s2[Len(s1) + 1] = Null
    BY <1>1, OneMore DEF s2
  <2>2. (a + 2) + 1 = a + 3
    BY <1>1
  <2> QED BY <1>1, <2>1, <2>2
<1>3. /\ s3 \in Seq(V) /\ Len(s3) = a + E + 3 /\ \A i \in 1 .. a + 3 : s3[i] = s2[i]
      /\ \A j \in 1 .. E : s3[a + 3 + j] = R[j]
  <2>1. /\ Len(s3) = Len(s2) + Len(R) /\ s3 \in Seq(V)
        /\ \A i \in 1 .. Len(s2) : s3[i] = s2[i]
        /\ \A i \in 1 .. Len(R) : s3[Len(s2) + i] = R[i]
    <3>1. s3 \in Seq(V) /\ Joins(s3, s2, R)
      BY <1>2, ConcatIs DEF s3
    <3> QED BY <3>1 DEF Joins
  <2>2. (a + 3) + E = a + E + 3
    BY <1>1
  <2> QED BY <1>1, <1>2, <2>1, <2>2
<1>4. /\ s4 \in Seq(V) /\ Len(s4) = a + E + 4 /\ s4[a + E + 4] = Null
      /\ \A i \in 1 .. a + E + 3 : s4[i] = s3[i]
  <2>1. /\ s4 \in Seq(V) /\ Len(s4) = Len(s3) + 1
        /\ \A i \in 1 .. Len(s3) : s4[i] = s3[i]
        /\ s4[Len(s3) + 1] = Null
    BY <1>3, OneMore DEF s4
  <2>2. (a + E + 3) + 1 = a + E + 4
    BY <1>1
  <2> QED BY <1>3, <2>1, <2>2
<1>5. /\ s5 \in Seq(V) /\ Len(s5) = a + E + C + 4 /\ \A i \in 1 .. a + E + 4 : s5[i] = s4[i]
      /\ \A j \in 1 .. C : s5[a + E + 4 + j] = Q[j]
  <2>1. /\ Len(s5) = Len(s4) + Len(Q) /\ s5 \in Seq(V)
        /\ \A i \in 1 .. Len(s4) : s5[i] = s4[i]
        /\ \A i \in 1 .. Len(Q) : s5[Len(s4) + i] = Q[i]
    <3>1. s5 \in Seq(V) /\ Joins(s5, s4, Q)
      BY <1>4, ConcatIs DEF s5
    <3> QED BY <3>1 DEF Joins
  <2>2. (a + E + 4) + C = a + E + C + 4
    BY <1>1
  <2> QED BY <1>1, <1>4, <2>1, <2>2
<1>6. /\ s6 \in Seq(V) /\ Len(s6) = a + E + C + 5 /\ s6[a + E + C + 5] = Number(C)
      /\ \A i \in 1 .. a + E + C + 4 : s6[i] = s5[i]
  <2>1. /\ s6 \in Seq(V) /\ Len(s6) = Len(s5) + 1
        /\ \A i \in 1 .. Len(s5) : s6[i] = s5[i]
        /\ s6[Len(s5) + 1] = Number(C)
    BY <1>5, OneMore DEF s6
  <2>2. (a + E + C + 4) + 1 = a + E + C + 5
    BY <1>1
  <2> QED BY <1>5, <2>1, <2>2
<1>7. \A i \in 1 .. a + E + 4 : s6[i] = s4[i]
  <2>1. \A i \in 1 .. a + E + 4 : i \in 1 .. a + E + C + 4
    BY <1>1
  <2> QED BY <1>5, <1>6, <2>1
<1>8. \A i \in 1 .. a + E + 3 : s6[i] = s3[i]
  <2>1. \A i \in 1 .. a + E + 3 : i \in 1 .. a + E + 4
    BY <1>1
  <2> QED BY <1>4, <1>7, <2>1
<1>9. \A i \in 1 .. a + 3 : s6[i] = s2[i]
  <2>1. \A i \in 1 .. a + 3 : i \in 1 .. a + E + 3
    BY <1>1
  <2> QED BY <1>3, <1>8, <2>1
<1>10. \A i \in 1 .. a + 2 : s6[i] = s1[i]
  <2>1. \A i \in 1 .. a + 2 : i \in 1 .. a + 3
    BY <1>1
  <2> QED BY <1>2, <1>9, <2>1
<1>11. s6[1] = Null /\ s6[2] = Key("AT_NULL") /\ \A j \in 1 .. a : s6[2 + j] = A[j]
  <2>1. 1 \in 1 .. a + 2 /\ 2 \in 1 .. a + 2 /\ \A j \in 1 .. a : 2 + j \in 1 .. a + 2
    BY <1>1
  <2> QED BY <1>1, <1>10, <2>1
<1>12. s6[a + 3] = Null /\ s6[a + E + 4] = Null
  <2>1. a + 3 \in 1 .. a + 3 /\ a + E + 4 \in 1 .. a + E + 4
    BY <1>1
  <2> QED BY <1>2, <1>4, <1>7, <1>9, <2>1
<1>13. \A j \in 1 .. E : s6[a + 3 + j] = << "envp", (E - j) + 1 >>
  <2>1. \A j \in 1 .. E : a + 3 + j \in 1 .. a + E + 3
    BY <1>1
  <2> QED BY <1>3, <1>8, <2>1
<1>14. \A j \in 1 .. C : s6[a + E + 4 + j] = << "argv", (C - j) + 1 >>
  <2>1. \A j \in 1 .. C : a + E + 4 + j \in 1 .. a + E + C + 4
    BY <1>1
  <2> QED BY <1>5, <1>6, <2>1
<1>15. LaidOut(s6, C, E, A)
  BY <1>6, <1>11, <1>12, <1>13, <1>14 DEF LaidOut, a
<1> QED BY <1>15 DEF s0, s1, s2, s3, s4, s5, s6

(* initialize_stack() lays out what LaidOut says.                            *)
LEMMA PushedLaid ==
  ASSUME program \in Programs
  PROVE  /\ LaidOut(Pushed, Len(program.argv), Len(program.envp), AuxPushed)
         /\ Len(program.argv) \in Nat /\ Len(program.envp) \in Nat
         /\ Len(Pushed) \in Nat /\ DOMAIN Pushed = 1 .. Len(Pushed)
<1> DEFINE argv == program.argv
           envp == program.envp
           auxv == program.auxv
           C == Len(argv)
           E == Len(envp)
           Q == Reverse(Pointers("argv", argv))
           R == Reverse(Pointers("envp", envp))
           V == UNION {{Null, Key("AT_NULL"), Number(C)}, {<< "argv", i >> : i \in 1 .. C},
                       {<< "envp", i >> : i \in 1 .. E},
                       {Aux(auxv[j])[m] : j \in DOMAIN auxv, m \in {1, 2}}}
<1>1. argv \in Seq(Nat) /\ envp \in Seq(Nat) /\ auxv \in Seq([key : STRING \ {"AT_NULL"}, value : Nat])
  BY LoaderAssumption
<1>2. /\ Null \in V /\ Key("AT_NULL") \in V /\ Number(C) \in V
      /\ \A i \in 1 .. C : << "argv", i >> \in V
      /\ \A i \in 1 .. E : << "envp", i >> \in V
      /\ \A j \in DOMAIN auxv : Aux(auxv[j])[1] \in V /\ Aux(auxv[j])[2] \in V
  <2> HIDE DEF C, E, argv, envp, auxv
  <2> QED OBVIOUS
<1> HIDE DEF V
<1>3. ASSUME NEW j \in DOMAIN auxv PROVE Aux(auxv[j]) \in Seq(V)
  <2>1. CASE auxv[j].key \in Own \cup {"AT_UID"}
    <3>1. \E v : Aux(auxv[j]) = << v, Key(auxv[j].key) >>
      BY <2>1, AuxIs
    <3>2. PICK v, k : Aux(auxv[j]) = << v, k >>
      BY <3>1
    <3>3. v \in V /\ k \in V
      BY <1>2, <3>2
    <3> QED BY <3>2, <3>3
  <2>2. CASE auxv[j].key \notin Own \cup {"AT_UID"}
    <3>1. Aux(auxv[j]) = << >>
      BY <2>2, AuxIs
    <3> QED BY <3>1, EmptySeq
  <2> QED BY <2>1, <2>2
<1>4. AuxPushed \in Seq(V)
  BY <1>1, <1>3, AuxLaid
<1>5. /\ Q \in Seq(V) /\ Len(Q) = C /\ C \in Nat
      /\ \A i \in 1 .. C : Q[i] = << "argv", (C - i) + 1 >>
  <2>1. {<< "argv", i >> : i \in 1 .. C} \subseteq V
    BY <1>2
  <2>2. Q \in Seq(V) /\ Downwards(Q, "argv", C)
    <3> HIDE DEF argv
    <3> QED BY <1>1, <2>1, PointersAre
  <2> HIDE DEF Q, C
  <2> QED BY <2>2 DEF Downwards
<1>6. /\ R \in Seq(V) /\ Len(R) = E /\ E \in Nat
      /\ \A i \in 1 .. E : R[i] = << "envp", (E - i) + 1 >>
  <2>1. {<< "envp", i >> : i \in 1 .. E} \subseteq V
    BY <1>2
  <2>2. R \in Seq(V) /\ Downwards(R, "envp", E)
    <3> HIDE DEF envp
    <3> QED BY <1>1, <2>1, PointersAre
  <2> HIDE DEF R, E
  <2> QED BY <2>2 DEF Downwards
<1> HIDE DEF Q, R, C, E
<1>7. LaidOut(<< Null, Key("AT_NULL") >> \o AuxPushed \o << Null >> \o R \o << Null >> \o Q \o << Number(C) >>,
              C, E, AuxPushed)
  BY <1>2, <1>4, <1>5, <1>6, LaysOut
<1>8. Pushed = << Null, Key("AT_NULL") >> \o AuxPushed \o << Null >> \o R \o << Null >> \o Q \o << Number(C) >>
  BY DEF Pushed, Q, R, C
<1>9. Pushed \in Seq(V)
  <2>1. << Null, Key("AT_NULL") >> \in Seq(V) /\ << Null >> \in Seq(V) /\ << Number(C) >> \in Seq(V)
    BY <1>2
  <2>2. << Null, Key("AT_NULL") >> \o AuxPushed \in Seq(V)
    BY <1>4, <2>1, ConcatIs
  <2>3. << Null, Key("AT_NULL") >> \o AuxPushed \o << Null >> \in Seq(V)
    BY <2>1, <2>2, ConcatIs
  <2>4. << Null, Key("AT_NULL") >> \o AuxPushed \o << Null >> \o R \in Seq(V)
    BY <1>6, <2>3, ConcatIs
  <2>5. << Null, Key("AT_NULL") >> \o AuxPushed \o << Null >> \o R \o << Null >> \in Seq(V)
    BY <2>1, <2>4, ConcatIs
  <2>6. << Null, Key("AT_NULL") >> \o AuxPushed \o << Null >> \o R \o << Null >> \o Q \in Seq(V)
    BY <1>5, <2>5, ConcatIs
  <2> QED BY <1>8, <2>1, <2>6, ConcatIs
<1>10. Len(Pushed) \in Nat /\ DOMAIN Pushed = 1 .. Len(Pushed)
  BY <1>9, LenProperties
<1> QED BY <1>5, <1>6, <1>7, <1>8, <1>10 DEF C, E

(* Different multiples.                                                      *)
LEMMA SameMultiple ==
  ASSUME NEW W \in Nat \ {0}, NEW x \in Int, NEW y \in Int, x * W = y * W
  PROVE  x = y
<1>1. ASSUME NEW u \in Int, NEW v \in Int, u > v PROVE u * W # v * W
  <2>1. (u - v) * W = u * W - v * W /\ u - v \in Nat \ {0}
    BY <1>1, SMT
  <2> PICK d : d = u - v
    OBVIOUS
  <2>2. d \in Nat \ {0} => d * W >= W
    <3>1. d \in Nat \ {0} => (d - 1) * W = d * W - W /\ (d - 1) * W >= 0
      BY SMT
    <3> QED BY <3>1, SMT
  <2> QED BY <2>1, <2>2, SMT
<1> QED BY <1>1

(* The guest's words, from sp upwards, are those pushed, the last first.     *)
LEMMA WordsThere ==
  ASSUME NEW n \in Nat, DOMAIN Pushed = 1 .. n, Len(Pushed) = n, n > 0, at_random \in Int,
         sp = at_random - Len(Pushed) * WordSize, stack = PushedWords
  PROVE  /\ \A j \in Int : sp + j * WordSize \in DOMAIN stack <=> j \in 0 .. (n - 1)
         /\ \A j \in 0 .. (n - 1) : stack[sp + j * WordSize] = Pushed[n - j]
         /\ Cardinality(DOMAIN stack) = n
         /\ Max(DOMAIN stack) = at_random - WordSize
<1> PICK r : r = at_random
  OBVIOUS
<1> PICK S : S = Pushed
  OBVIOUS
<1> PICK W : W = WordSize
  OBVIOUS
<1> PICK st : st = stack
  OBVIOUS
<1> PICK p : p = sp
  OBVIOUS
<1>1. W \in Nat \ {0} /\ r \in Int /\ DOMAIN S = 1 .. n /\ p = r - n * W
  BY LoaderAssumption
<1>2. st = [a \in {r - i * W : i \in 1 .. n} |-> S[(r - a) \div W]]
  BY DEF PushedWords
<1>3. DOMAIN st = {r - i * W : i \in 1 .. n}
  BY <1>2
<1>4. ASSUME NEW i \in 1 .. n PROVE st[r - i * W] = S[i]
  <2>1. i * W \in Nat /\ (i * W) \div W = i
    <3>1. i \in Nat
      OBVIOUS
    <3> QED BY <1>1, <3>1, Counted
  <2>2. r - (r - i * W) = i * W
    <3> PICK x : x = i * W
      OBVIOUS
    <3> QED BY <1>1, <2>1
  <2>3. r - i * W \in DOMAIN st
    BY <1>3
  <2> QED BY <1>2, <1>3, <2>1, <2>2, <2>3
<1>5. ASSUME NEW j \in Int PROVE p + j * W = r - (n - j) * W
  <2>1. (n - j) * W = n * W - j * W /\ n * W \in Int /\ j * W \in Int
    BY <1>1, SMT
  <2> QED BY <1>1, <2>1, SMT
<1>6. ASSUME NEW j \in Int PROVE p + j * W \in DOMAIN st <=> j \in 0 .. (n - 1)
  <2>1. j \in 0 .. (n - 1) => n - j \in 1 .. n
    OBVIOUS
  <2>2. j \in 0 .. (n - 1) => p + j * W \in DOMAIN st
    BY <1>3, <1>5, <2>1
  <2>3. ASSUME p + j * W \in DOMAIN st PROVE j \in 0 .. (n - 1)
    <3>1. PICK i \in 1 .. n : p + j * W = r - i * W
      BY <1>3, <2>3
    <3>2. (n - j) * W = i * W
      <4>1. (n - j) * W \in Int /\ i * W \in Int
        BY <1>1, SMT
      <4>2. r - (n - j) * W = r - i * W
        BY <1>5, <3>1
      <4> PICK x, y : x = (n - j) * W /\ y = i * W
        OBVIOUS
      <4>3. x \in Int /\ y \in Int /\ r - x = r - y
        BY <4>1, <4>2
      <4> QED BY <1>1, <4>3
    <3>3. n - j = i
      <4>1. n - j \in Int /\ i \in Int
        OBVIOUS
      <4> QED BY <1>1, <3>2, <4>1, SameMultiple
    <3> QED BY <3>3
  <2> QED BY <2>2, <2>3
<1>7. ASSUME NEW j \in 0 .. (n - 1) PROVE st[p + j * W] = S[n - j]
  <2>1. n - j \in 1 .. n /\ j \in Int
    OBVIOUS
  <2> QED BY <1>4, <1>5, <2>1
<1>8. Cardinality(DOMAIN st) = n
  <2> DEFINE b == [i \in 1 .. n |-> r - i * W]
  <2>1. \A i \in 1 .. n : \A k \in 1 .. n : b[i] = b[k] => i = k
    <3> SUFFICES ASSUME NEW i \in 1 .. n, NEW k \in 1 .. n, r - i * W = r - k * W PROVE i = k
      OBVIOUS
    <3>1. i * W \in Int /\ k * W \in Int /\ i \in Int /\ k \in Int
      BY <1>1, SMT
    <3> PICK x, y : x = i * W /\ y = k * W
      OBVIOUS
    <3>2. x = y
      BY <1>1, <3>1
    <3> QED BY <1>1, <3>1, <3>2, SameMultiple
  <2>2. b \in Bijection(1 .. n, DOMAIN st)
    <3>1. b \in [1 .. n -> DOMAIN st] /\ \A a \in DOMAIN st : \E i \in 1 .. n : b[i] = a
      BY <1>3
    <3> HIDE DEF b
    <3> QED BY <2>1, <3>1 DEF Bijection, Injection, Surjection, IsInjective
  <2>3. ExistsBijection(1 .. n, DOMAIN st)
    <3> HIDE DEF b
    <3> QED BY <2>2 DEF ExistsBijection
  <2>4. IsFiniteSet(1 .. n) /\ Cardinality(1 .. n) = n
    BY FS_Interval
  <2> QED BY <2>3, <2>4, FS_Bijection
<1>9. Max(DOMAIN st) = r - W
  <2> DEFINE T == DOMAIN st
             m == Max(T)
  <2>1. r - W \in T
    <3>1. 1 \in 1 .. n /\ 1 * W = W
      BY <1>1
    <3> QED BY <1>3, <3>1
  <2>2. \A a \in T : a \in Int /\ a <= r - W
    <3> SUFFICES ASSUME NEW i \in 1 .. n PROVE r - i * W \in Int /\ r - i * W <= r - W
      BY <1>3
    <3>1. i * W = (i - 1) * W + W /\ i * W \in Int
      BY <1>1, SMT
    <3>2. (i - 1) * W >= 0 /\ (i - 1) * W \in Int
      <4>1. i - 1 \in Nat /\ W \in Nat
        BY <1>1
      <4> PICK k : k = i - 1
        OBVIOUS
      <4>2. k * W >= 0 /\ k * W \in Int
        BY <4>1, SMT
      <4> QED BY <4>2
    <3> PICK x, y : x = i * W /\ y = (i - 1) * W
      OBVIOUS
    <3> QED BY <1>1, <3>1, <3>2
  <2>3. m \in T /\ \A a \in T : m >= a
    <3>1. \E x \in T : \A a \in T : x >= a
      BY <1>1, <2>1, <2>2
    <3> HIDE DEF T
    <3> QED BY <3>1 DEF Max
  <2> HIDE DEF T, m
  <2>4. m = r - W
    BY <1>1, <2>1, <2>2, <2>3
  <2> QED BY <2>4 DEF T, m
<1> QED BY <1>6, <1>7, <1>8, <1>9

(* The same list, read from its end: h pairs are in A.                       *)
FromEnd(S, n, C, E, A, h) ==
  /\ n \in Nat /\ n = C + E + 2 * h + 5
  /\ S[n] = Number(C) /\ \A i \in 1 .. C : S[n - i] = << "argv", i >>
  /\ S[n - (C + 1)] = Null
  /\ \A i \in 1 .. E : S[n - (C + 1 + i)] = << "envp", i >>
  /\ S[n - (C + E + 2)] = Null
  /\ \A j \in 0 .. (2 * h - 1) : S[n - (C + E + 3 + j)] = A[2 * h - j]
  /\ S[n - (C + E + 3 + 2 * h)] = Key("AT_NULL")

(* The last pushed is the first read.                                        *)
LEMMA ReadsFromEnd ==
  ASSUME NEW S, NEW C \in Nat, NEW E \in Nat, NEW A, NEW h \in Nat, Len(A) = 2 * h,
         LaidOut(S, C, E, A), NEW n, n = Len(S)
  PROVE  FromEnd(S, n, C, E, A, h)
<1> PICK a : a = 2 * h
  OBVIOUS
<1>1. /\ a \in Nat /\ n = a + E + C + 5
      /\ S[1] = Null /\ S[2] = Key("AT_NULL")
      /\ \A j \in 1 .. a : S[2 + j] = A[j]
      /\ S[a + 3] = Null
      /\ \A j \in 1 .. E : S[a + 3 + j] = << "envp", (E - j) + 1 >>
      /\ S[a + E + 4] = Null
      /\ \A j \in 1 .. C : S[a + E + 4 + j] = << "argv", (C - j) + 1 >>
      /\ S[a + E + C + 5] = Number(C)
  BY DEF LaidOut
<1>2. ASSUME NEW i \in 1 .. C PROVE S[n - i] = << "argv", i >>
  <2> PICK j : j = (C - i) + 1
    OBVIOUS
  <2>1. j \in 1 .. C /\ n - i = a + E + 4 + j /\ (C - j) + 1 = i
    BY <1>1
  <2>2. S[a + E + 4 + j] = << "argv", (C - j) + 1 >>
    BY <1>1, <2>1
  <2> QED BY <2>1, <2>2
<1>3. ASSUME NEW i \in 1 .. E PROVE S[n - (C + 1 + i)] = << "envp", i >>
  <2> PICK j : j = (E - i) + 1
    OBVIOUS
  <2>1. j \in 1 .. E /\ n - (C + 1 + i) = a + 3 + j /\ (E - j) + 1 = i
    BY <1>1
  <2>2. S[a + 3 + j] = << "envp", (E - j) + 1 >>
    BY <1>1, <2>1
  <2> QED BY <2>1, <2>2
<1>4. ASSUME NEW j \in 0 .. (a - 1) PROVE S[n - (C + E + 3 + j)] = A[a - j]
  <2>1. a - j \in 1 .. a /\ n - (C + E + 3 + j) = 2 + (a - j)
    BY <1>1
  <2>2. S[2 + (a - j)] = A[a - j]
    BY <1>1, <2>1
  <2> QED BY <2>1, <2>2
<1>5. S[n - (C + 1)] = Null /\ S[n - (C + E + 2)] = Null /\ S[n - (C + E + 3 + a)] = Key("AT_NULL")
  <2>1. n - (C + 1) = a + E + 4 /\ n - (C + E + 2) = a + 3 /\ n - (C + E + 3 + a) = 2
    BY <1>1
  <2> QED BY <1>1, <2>1
<1>6. n \in Nat /\ n = C + E + a + 5
  BY <1>1
<1> QED BY <1>1, <1>2, <1>3, <1>4, <1>5, <1>6 DEF FromEnd

(* The words pushed are below the headers' copy and the strings, and 16      *)
(* bytes below the end.                                                      *)
LEMMA StackRoom ==
  ASSUME program \in Programs
  PROVE  at_random \in Int /\ at_random <= MEM_END - 2 * WordSize
<1> DEFINE main == program.file
           D == 2 * WordSize
           x == File[main].e_phoff + Len(File[main].ph)
           y == StringBytes(program.argv)
           z == StringBytes(program.envp)
           top == MEM_END - x - y - z
<1>1. Linked(main) /\ program.argv \in Seq(Nat) /\ program.envp \in Seq(Nat)
  BY LoaderAssumption
<1>2. x \in Nat /\ x >= 1
  <2>1. File[main].e_phoff \in Nat /\ Loads(main) # {} /\ File[main].ph \in Seq(ToSet(File[main].ph))
    BY <1>1 DEF Linked
  <2> PICK ph : ph = File[main].ph
    OBVIOUS
  <2>2. Len(ph) \in Nat /\ DOMAIN ph = 1 .. Len(ph)
    BY <2>1, LenProperties
  <2>3. \E i \in DOMAIN ph : TRUE
    BY <2>1 DEF Loads, Headers, ToSet
  <2>4. Len(ph) >= 1
    BY <2>2, <2>3
  <2> QED BY <2>1, <2>2, <2>4
<1>3. y \in Nat /\ z \in Nat
  BY <1>1, StringsTakeRoom
<1>4. D \in Nat \ {0} /\ MEM_END \in Nat /\ MEM_END % D = 0
  BY LoaderAssumption
<1>5. at_random = top - (top % D)
  BY DEF at_random
<1> HIDE DEF x, y, z, D
<1>6. top \in Int /\ top < MEM_END
  BY <1>2, <1>3, <1>4
<1> HIDE DEF top
<1> DEFINE q == MEM_END \div D
           d == top \div D
           e == top % D
<1>7. q \in Int /\ MEM_END = D * q
  BY <1>4, SMT
<1>8. d \in Int /\ e \in 0 .. (D - 1) /\ top = D * d + e
  BY <1>4, <1>6, SMT
<1>9. at_random = top - e
  BY <1>5
<1> HIDE DEF q, d, e
<1>10. at_random = D * d /\ at_random \in Int
  <2> PICK u : u = D * d
    OBVIOUS
  <2>1. u \in Int
    BY <1>4, <1>8, SMT
  <2> QED BY <1>4, <1>6, <1>8, <1>9, <2>1
<1>11. d <= q - 1
  <2>1. d >= q => D * d >= D * q
    <3>1. D * (d - q) = D * d - D * q
      BY <1>4, <1>7, <1>8, SMT
    <3>2. d >= q => D * (d - q) >= 0
      BY <1>4, <1>7, <1>8, SMT
    <3> QED BY <1>4, <1>7, <1>8, <3>1, <3>2, SMT
  <2>2. ~ (D * d >= D * q)
    BY <1>4, <1>6, <1>7, <1>8, <1>10, SMT
  <2> QED BY <1>7, <1>8, <2>1, <2>2
<1>12. D * d <= D * q - D
  <2>1. D * ((q - 1) - d) = D * q - D - D * d
    BY <1>4, <1>7, <1>8, SMT
  <2>2. D * ((q - 1) - d) >= 0
    BY <1>4, <1>7, <1>8, <1>11, SMT
  <2> QED BY <1>4, <1>7, <1>8, <2>1, <2>2, SMT
<1> QED BY <1>7, <1>10, <1>12 DEF D

(* What a guest finds that knows the conventions only.                       *)
LEMMA StackIsRead ==
  ASSUME LInv, loading = "ready"
  PROVE  StackReadsBack
<1> DEFINE Word(i)   == stack[sp + i * WordSize]
           argc      == Word(0)[2]
           Nulls(i)  == {j \in i .. (i + Cardinality(DOMAIN stack)) :
                           sp + j * WordSize \in DOMAIN stack /\ Word(j) = Null}
           NextNull(i) == Min(Nulls(i))
           env       == argc + 2
           aux       == NextNull(env) + 1
           Pairs     == {i \in {aux + 2 * n : n \in 0 .. Cardinality(DOMAIN stack)} :
                           /\ sp + (i + 1) * WordSize \in DOMAIN stack
                           /\ \A j \in aux .. i : Word(j) # Key("AT_NULL")}
           Value(k)  == {Word(i + 1) : i \in {i \in Pairs : Word(i) = Key(k)}}
           Given(k)  == \E i \in DOMAIN program.auxv : program.auxv[i].key = k
           main      == info[program.file]
           C == Len(program.argv)
           E == Len(program.envp)
           A == AuxPushed
           n == Len(Pushed)
<1>1. /\ program \in Programs /\ sp = at_random - Len(Pushed) * WordSize /\ stack = PushedWords
      /\ DOMAIN info = {program.file} \cup Interps(program.file)
      /\ info[program.file] = pinfo(program.file, Bias(program.file, 0))
  <2>1. FilesRecorded /\ ImageLoaded /\ StackLaid
    BY DEF LInv
  <2>2. DOMAIN info = {program.file} \cup Interps(program.file)
    BY <2>1 DEF ImageLoaded
  <2>3. \A f \in DOMAIN info : info[f] = pinfo(f, IF f = program.file THEN Bias(f, 0) ELSE INTERP_BASE)
    BY <2>1 DEF FilesRecorded
  <2>4. program \in Programs
    BY <2>1 DEF FilesRecorded
  <2> QED BY <2>1, <2>2, <2>3, <2>4 DEF StackLaid
<1>2. /\ program.argv \in Seq(Nat) /\ program.envp \in Seq(Nat)
      /\ program.auxv \in Seq([key : STRING \ {"AT_NULL"}, value : Nat])
      /\ \A j \in DOMAIN program.auxv : program.auxv[j].key # "AT_NULL"
  <2>1. program.auxv \in Seq([key : STRING \ {"AT_NULL"}, value : Nat])
    BY <1>1, LoaderAssumption
  <2>2. \A j \in DOMAIN program.auxv : program.auxv[j] \in [key : STRING \ {"AT_NULL"}, value : Nat]
    <3> PICK s, V : s = program.auxv /\ V = [key : STRING \ {"AT_NULL"}, value : Nat]
      OBVIOUS
    <3>1. s \in Seq(V)
      BY <2>1
    <3>2. DOMAIN s = 1 .. Len(s)
      BY <3>1, LenProperties
    <3>3. \A j \in 1 .. Len(s) : s[j] \in V
      BY <3>1, ElementOfSeq
    <3> QED BY <3>2, <3>3
  <2> QED BY <1>1, <2>1, <2>2, LoaderAssumption
<1>3. LaidOut(Pushed, C, E, A) /\ C \in Nat /\ E \in Nat /\ n \in Nat /\ DOMAIN Pushed = 1 .. n
  BY <1>1, PushedLaid
<1>4. PICK h \in Nat :
        /\ Len(A) = 2 * h
        /\ \A m \in 1 .. h : \E j \in DOMAIN program.auxv :
             /\ program.auxv[j].key \in Own \cup {"AT_UID"}
             /\ A[2 * m - 1] = Aux(program.auxv[j])[1]
             /\ A[2 * m] = Key(program.auxv[j].key)
        /\ \A j \in DOMAIN program.auxv : program.auxv[j].key \in Own \cup {"AT_UID"} =>
             \E m \in 1 .. h : /\ A[2 * m - 1] = Aux(program.auxv[j])[1]
                               /\ A[2 * m] = Key(program.auxv[j].key)
  <2> DEFINE V == UNION {{Aux(program.auxv[j])[1], Aux(program.auxv[j])[2]} : j \in DOMAIN program.auxv}
  <2>1. ASSUME NEW j \in DOMAIN program.auxv PROVE Aux(program.auxv[j]) \in Seq(V)
    <3>1. Aux(program.auxv[j])[1] \in V /\ Aux(program.auxv[j])[2] \in V
      OBVIOUS
    <3> HIDE DEF V
    <3>2. CASE program.auxv[j].key \in Own \cup {"AT_UID"}
      <4>1. \E v : Aux(program.auxv[j]) = << v, Key(program.auxv[j].key) >>
        BY <3>2, AuxIs
      <4>2. PICK v, k : Aux(program.auxv[j]) = << v, k >>
        BY <4>1
      <4> QED BY <3>1, <4>2
    <3>3. CASE program.auxv[j].key \notin Own \cup {"AT_UID"}
      BY <3>3, AuxIs, EmptySeq
    <3> QED BY <3>2, <3>3
  <2> HIDE DEF V, A
  <2> QED BY <1>2, <2>1, AuxLaid DEF A
<1> HIDE DEF A, C, E, n
<1>5. /\ n = C + E + 2 * h + 5
      /\ Pushed[n] = Number(C) /\ \A i \in 1 .. C : Pushed[n - i] = << "argv", i >>
      /\ Pushed[n - (C + 1)] = Null
      /\ \A i \in 1 .. E : Pushed[n - (C + 1 + i)] = << "envp", i >>
      /\ Pushed[n - (C + E + 2)] = Null
      /\ \A j \in 0 .. (2 * h - 1) : Pushed[n - (C + E + 3 + j)] = A[2 * h - j]
      /\ Pushed[n - (C + E + 3 + 2 * h)] = Key("AT_NULL")
  <2>1. n = Len(Pushed)
    BY DEF n
  <2>2. FromEnd(Pushed, n, C, E, A, h)
    BY <1>3, <1>4, <2>1, ReadsFromEnd
  <2> QED BY <2>2 DEF FromEnd
<1>5a. C \in Nat /\ E \in Nat /\ h \in Nat /\ n \in Nat /\ n = C + E + 2 * h + 5
  BY <1>3, <1>5
<1>6. at_random \in Int /\ at_random <= MEM_END - 2 * WordSize
  BY <1>1, StackRoom
<1>7. /\ \A j \in Int : sp + j * WordSize \in DOMAIN stack <=> j \in 0 .. (n - 1)
      /\ \A j \in 0 .. (n - 1) : Word(j) = Pushed[n - j]
      /\ Cardinality(DOMAIN stack) = n
      /\ Max(DOMAIN stack) = at_random - WordSize
  <2>1. n \in Nat /\ n > 0 /\ n = Len(Pushed)
    BY <1>3, <1>5 DEF n
  <2> QED BY <1>1, <1>3, <1>6, <2>1, WordsThere
<1> HIDE DEF Word
<1>8. /\ Word(0) = Number(C)
      /\ \A i \in 1 .. C : Word(i) = << "argv", i >>
      /\ Word(C + 1) = Null
      /\ \A i \in 1 .. E : Word(C + 1 + i) = << "envp", i >>
      /\ Word(C + E + 2) = Null
      /\ \A j \in 0 .. (2 * h - 1) : Word(C + E + 3 + j) = A[2 * h - j]
      /\ Word(C + E + 3 + 2 * h) = Key("AT_NULL")
  <2>1. /\ 0 \in 0 .. (n - 1) /\ n - 0 = n /\ C + 1 \in 0 .. (n - 1) /\ C + E + 2 \in 0 .. (n - 1)
        /\ C + E + 3 + 2 * h \in 0 .. (n - 1)
        /\ \A i \in 1 .. C : i \in 0 .. (n - 1)
        /\ \A i \in 1 .. E : C + 1 + i \in 0 .. (n - 1)
        /\ \A j \in 0 .. (2 * h - 1) : C + E + 3 + j \in 0 .. (n - 1)
    BY <1>5a
  <2> QED BY <1>5, <1>7, <2>1
<1>9. argc = C /\ env = C + 2
  BY <1>8 DEF Number
<1> HIDE DEF argc, env
<1>10. NextNull(env) = C + E + 2
  <2> DEFINE T == Nulls(env)
             m == Min(T)
  <2>1. T = {j \in (C + 2) .. (C + 2 + n) : sp + j * WordSize \in DOMAIN stack /\ Word(j) = Null}
    BY <1>7, <1>9
  <2> HIDE DEF T
  <2>2. T \subseteq Int /\ C + E + 2 \in T
    <3>1. C + E + 2 \in (C + 2) .. (C + 2 + n) /\ C + E + 2 \in Int /\ C + E + 2 \in 0 .. (n - 1)
      BY <1>5a
    <3>2. T \subseteq Int
      BY <1>3, <2>1
    <3> QED BY <1>7, <1>8, <2>1, <3>1, <3>2
  <2>3. ASSUME NEW j \in T PROVE j >= C + E + 2
    <3> SUFFICES ASSUME j < C + E + 2 PROVE FALSE
      BY <1>3, <2>2
    <3>1. j \in (C + 2) .. (C + 2 + n) /\ Word(j) = Null
      BY <2>1
    <3> PICK i : i = j - (C + 1)
      OBVIOUS
    <3>2. i \in 1 .. E /\ C + 1 + i = j
      BY <1>3, <3>1
    <3>3. Word(j) = << "envp", i >>
      BY <1>8, <3>2
    <3> QED BY <3>1, <3>3 DEF Null, Number
  <2>4. m \in T /\ \A j \in T : m <= j
    <3>1. \E x \in T : \A j \in T : x <= j
      BY <2>2, <2>3
    <3> QED BY <3>1 DEF Min
  <2> HIDE DEF m
  <2>5. m = C + E + 2
    BY <1>3, <2>2, <2>3, <2>4
  <2> QED BY <2>5 DEF m, T
<1> HIDE DEF NextNull, Nulls
<1>11. aux = C + E + 3
  BY <1>3, <1>10
<1> HIDE DEF aux
<1>12. ASSUME NEW j \in 1 .. h
       PROVE  /\ 2 * h - 2 * j \in 0 .. (2 * h - 1) /\ Word(aux + (2 * h - 2 * j)) = A[2 * j]
              /\ Word(aux + (2 * h - 2 * j) + 1) = A[2 * j - 1]
  <2>1. /\ 2 * h - 2 * j \in 0 .. (2 * h - 1) /\ 2 * h - (2 * h - 2 * j) = 2 * j
        /\ (2 * h - 2 * j) + 1 \in 0 .. (2 * h - 1) /\ 2 * h - ((2 * h - 2 * j) + 1) = 2 * j - 1
    OBVIOUS
  <2>2. /\ Word(C + E + 3 + (2 * h - 2 * j)) = A[2 * h - (2 * h - 2 * j)]
        /\ Word(C + E + 3 + ((2 * h - 2 * j) + 1)) = A[2 * h - ((2 * h - 2 * j) + 1)]
    BY <1>8, <2>1
  <2>3. aux + (2 * h - 2 * j) + 1 = C + E + 3 + ((2 * h - 2 * j) + 1)
    BY <1>3, <1>11
  <2> QED BY <1>11, <2>1, <2>2, <2>3
<1>13. Pairs = {aux + (2 * h - 2 * j) : j \in 1 .. h}
  <2>1. ASSUME NEW i \in Pairs PROVE \E j \in 1 .. h : i = aux + (2 * h - 2 * j)
    <3>1. PICK m \in 0 .. n : i = aux + 2 * m
      BY <1>7
    <3>2. sp + (i + 1) * WordSize \in DOMAIN stack /\ \A j \in aux .. i : Word(j) # Key("AT_NULL")
      OBVIOUS
    <3>3. i + 1 \in 0 .. (n - 1)
      BY <1>3, <1>7, <1>11, <3>1, <3>2
    <3>4. aux + 2 * h \notin aux .. i
      BY <1>8, <1>11, <3>2
    <3>5. m < h
      BY <1>3, <1>11, <3>1, <3>4
    <3> PICK j : j = h - m
      OBVIOUS
    <3>6. j \in 1 .. h /\ i = aux + (2 * h - 2 * j)
      BY <1>3, <1>11, <3>1, <3>5
    <3> QED BY <3>6
  <2>2. ASSUME NEW j \in 1 .. h PROVE aux + (2 * h - 2 * j) \in Pairs
    <3> PICK m : m = h - j
      OBVIOUS
    <3> PICK i : i = aux + (2 * h - 2 * j)
      OBVIOUS
    <3>1. m \in 0 .. n /\ i = aux + 2 * m /\ i + 1 \in 0 .. (n - 1) /\ i + 1 \in Int
      BY <1>3, <1>5, <1>11
    <3>2. i \in {aux + 2 * x : x \in 0 .. Cardinality(DOMAIN stack)}
      BY <1>7, <3>1
    <3>3. sp + (i + 1) * WordSize \in DOMAIN stack
      BY <1>7, <3>1
    <3>4. ASSUME NEW k \in aux .. i PROVE Word(k) # Key("AT_NULL")
      <4> PICK d : d = k - aux
        OBVIOUS
      <4>1. d \in 0 .. (2 * h - 1) /\ k = C + E + 3 + d /\ 2 * h - d \in 1 .. 2 * h
        BY <1>3, <1>11, <3>1
      <4>2. Word(k) = A[2 * h - d]
        BY <1>8, <4>1
      <4> PICK e : e = 2 * h - d
        OBVIOUS
      <4>3. \E f \in 1 .. h : e = 2 * f \/ e = 2 * f - 1
        <5>1. e \in 1 .. 2 * h
          BY <4>1
        <5> PICK f : f = (e + 1) \div 2
          OBVIOUS
        <5>2. f \in Int /\ (e = 2 * f \/ e = 2 * f - 1)
          BY <5>1, SMT
        <5>3. f \in 1 .. h
          BY <5>1, <5>2
        <5> QED BY <5>2, <5>3
      <4>4. PICK f \in 1 .. h : e = 2 * f \/ e = 2 * f - 1
        BY <4>3
      <4>5. PICK q \in DOMAIN program.auxv :
              /\ program.auxv[q].key \in Own \cup {"AT_UID"}
              /\ A[2 * f - 1] = Aux(program.auxv[q])[1]
              /\ A[2 * f] = Key(program.auxv[q].key)
        BY <1>4
      <4>6. PICK u : NoKey(u) /\ Aux(program.auxv[q]) = << u, Key(program.auxv[q].key) >>
        BY <4>5, AuxIs
      <4>7. A[2 * f - 1] # Key("AT_NULL")
        BY <4>5, <4>6 DEF Key, NoKey
      <4>8. A[2 * f] # Key("AT_NULL")
        BY <1>2, <4>5 DEF Key
      <4> QED BY <4>2, <4>4, <4>7, <4>8
    <3> QED BY <3>2, <3>3, <3>4
  <2> HIDE DEF Pairs
  <2> QED BY <2>1, <2>2
<1> HIDE DEF Pairs
<1>14. ASSUME NEW i \in Pairs
       PROVE  \E j \in DOMAIN program.auxv :
                /\ program.auxv[j].key \in Own \cup {"AT_UID"}
                /\ Word(i) = Key(program.auxv[j].key) /\ Word(i + 1) = Aux(program.auxv[j])[1]
  <2>1. PICK m \in 1 .. h : i = aux + (2 * h - 2 * m)
    BY <1>13
  <2>2. Word(i) = A[2 * m] /\ Word(i + 1) = A[2 * m - 1]
    BY <1>12, <2>1
  <2> QED BY <1>4, <2>2
<1>15. ASSUME NEW j \in DOMAIN program.auxv, program.auxv[j].key \in Own \cup {"AT_UID"}
       PROVE  \E i \in Pairs : Word(i) = Key(program.auxv[j].key) /\ Word(i + 1) = Aux(program.auxv[j])[1]
  <2>1. PICK m \in 1 .. h : A[2 * m - 1] = Aux(program.auxv[j])[1] /\ A[2 * m] = Key(program.auxv[j].key)
    BY <1>4, <1>15
  <2>2. aux + (2 * h - 2 * m) \in Pairs
    BY <1>13
  <2> QED BY <1>12, <2>1, <2>2
<1>16. ASSUME NEW k \in Own, Given(k)
       PROVE  Value(k) = {OwnWord[k]}
  <2>0. \A j \in DOMAIN program.auxv : program.auxv[j].key = k => Aux(program.auxv[j])[1] = OwnWord[k]
    BY AuxIs
  <2>1. PICK j \in DOMAIN program.auxv : program.auxv[j].key = k
    BY <1>16
  <2>2. PICK i \in Pairs : Word(i) = Key(k) /\ Word(i + 1) = OwnWord[k]
    BY <1>15, <1>16, <2>0, <2>1
  <2>3. ASSUME NEW y \in Pairs, Word(y) = Key(k) PROVE Word(y + 1) = OwnWord[k]
    <3>1. PICK z \in DOMAIN program.auxv :
            Word(y) = Key(program.auxv[z].key) /\ Word(y + 1) = Aux(program.auxv[z])[1]
      BY <1>14
    <3>2. program.auxv[z].key = k
      BY <2>3, <3>1 DEF Key
    <3> QED BY <2>0, <3>1, <3>2
  <2> QED BY <2>2, <2>3
<1>17. ASSUME NEW k, k \notin Own \cup {"AT_UID"} PROVE Value(k) = {}
  <2>1. ASSUME NEW y \in Pairs, Word(y) = Key(k) PROVE FALSE
    <3>1. PICK z \in DOMAIN program.auxv :
            program.auxv[z].key \in Own \cup {"AT_UID"} /\ Word(y) = Key(program.auxv[z].key)
      BY <1>14
    <3> QED BY <1>17, <2>1, <3>1 DEF Key
  <2> QED BY <2>1
<1> HIDE DEF Value, Given
<1>18. main.phnum = Len(File[program.file].ph) /\ main.entry = main.bias + File[program.file].e_entry
  <2>1. main = pinfo(program.file, Bias(program.file, 0))
    BY <1>1
  <2>2. File[program.file].e_entry \in Nat /\ Bias(program.file, 0) \in Nat
    <3>1. Linked(program.file) /\ Bias(program.file, 0) \in Biases /\ Biases \subseteq Nat
      BY <1>1, FilesOfProgram
    <3> QED BY <3>1 DEF Linked
  <2> QED BY <2>1, <2>2 DEF pinfo
<1>19. /\ Given("AT_PHDR") => Value("AT_PHDR") = {Number(phdrs)}
       /\ Given("AT_PHENT") => Value("AT_PHENT") = {Number(PhdrSize)}
       /\ Given("AT_PHNUM") => Value("AT_PHNUM") = {Number(main.phnum)}
       /\ Given("AT_ENTRY") => Value("AT_ENTRY") = {Number(main.entry)}
       /\ Given("AT_PAGESZ") => Value("AT_PAGESZ") = {Number(RISCV_PGSIZE)}
       /\ Given("AT_RANDOM") => Value("AT_RANDOM") = {Number(at_random)}
       /\ Given("AT_SECURE") => Value("AT_SECURE") = {Number(0)}
       /\ Given("AT_EXECFN") => Value("AT_EXECFN") = {<< "argv", 1 >>}
  <2>1. {"AT_PHDR", "AT_PHENT", "AT_PHNUM", "AT_ENTRY", "AT_RANDOM", "AT_PAGESZ", "AT_SECURE",
         "AT_EXECFN"} \subseteq Own
    BY DEF Own
  <2>2. /\ OwnWord["AT_PHDR"] = Number(phdrs) /\ OwnWord["AT_PHENT"] = Number(PhdrSize)
        /\ OwnWord["AT_PHNUM"] = Number(main.phnum) /\ OwnWord["AT_ENTRY"] = Number(main.entry)
        /\ OwnWord["AT_PAGESZ"] = Number(RISCV_PGSIZE) /\ OwnWord["AT_RANDOM"] = Number(at_random)
        /\ OwnWord["AT_SECURE"] = Number(0) /\ OwnWord["AT_EXECFN"] = << "argv", 1 >>
    BY DEF OwnWord
  <2> HIDE DEF main
  <2> QED BY <1>16, <2>1, <2>2
<1>20. Given("AT_RANDOM") =>
         \E a \in (Max(DOMAIN stack) + 1) .. (MEM_END - 2 * WordSize) : Value("AT_RANDOM") = {Number(a)}
  <2> PICK top : top = Max(DOMAIN stack)
    OBVIOUS
  <2>1. top = at_random - WordSize /\ WordSize \in Nat \ {0} /\ MEM_END \in Nat
    BY <1>7, LoaderAssumption
  <2>2. at_random \in (top + 1) .. (MEM_END - 2 * WordSize)
    BY <1>6, <2>1
  <2> QED BY <1>19, <2>2
<1>21. \A k \in {"AT_HWCAP", "AT_SYSINFO_EHDR"} : Value(k) = {}
  BY <1>17 DEF Own
<1>22. [i \in DOMAIN program.argv |-> Word(i)] = Pointers("argv", program.argv)
  <2>1. DOMAIN program.argv = 1 .. C
    BY <1>2, LenProperties DEF C
  <2> QED BY <1>8, <2>1 DEF Pointers
<1>23. argc = Len(program.argv) /\ Word(argc + 1) = Null
  BY <1>8, <1>9 DEF C
<1>24. NextNull(env) - env = Len(program.envp)
  BY <1>3, <1>9, <1>10 DEF E
<1>25. \A i \in DOMAIN program.envp : Word(env + i - 1) = << "envp", i >>
  <2>1. DOMAIN program.envp = 1 .. E
    BY <1>2, LenProperties DEF E
  <2>2. \A i \in 1 .. E : env + i - 1 = C + 1 + i
    BY <1>3, <1>9
  <2> QED BY <1>8, <2>1, <2>2
<1>26. Given("AT_EXECFN") => Value("AT_EXECFN") = {Word(1)}
  <2>1. program.argv # << >>
    BY <1>1, ArgvAssumption
  <2>2. 1 \in 1 .. C
    BY <1>2, <2>1, LenProperties, EmptySeq DEF C
  <2> QED BY <1>8, <1>19, <2>2
<1> QED
  BY <1>18, <1>19, <1>20, <1>21, <1>22, <1>23, <1>24, <1>25, <1>26
     DEF StackReadsBack, Word, argc, env, NextNull, Nulls, aux, Pairs, Value, Given

(* A guest that reads its stack from sp upwards finds its arguments, its     *)
(* environment and the true values of its auxiliary vector                   *)
(* (initialize_stack()).                                                     *)
THEOREM LaysTheStack == LoaderSpec => []StackReadsBack
<1>1. LInv => StackReadsBack
  <2>1. LInv /\ loading # "ready" => StackReadsBack
    BY DEF StackReadsBack
  <2> QED BY <2>1, StackIsRead
<1> QED BY <1>1, LoaderInvariant, PTL
================================================================================
