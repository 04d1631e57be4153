------------------------------ MODULE SharedProofs ------------------------------
(***************************************************************************)
(* Proofs about what harts share while they run: the simulator's memory    *)
(* pool (SimHeap), the break (Brk), the numbers and the paths of system    *)
(* calls (SyscallProxy) and the two globals of softfloat (FpEnv), for any  *)
(* number of harts.                                                        *)
(***************************************************************************)
EXTENDS SimHeap, Brk, SyscallProxy, FpEnv, TLAPS

(* Why the simulator's malloc() never hands out a byte twice, for any pool *)
(* size, any sizes asked for and any number of harts, in a build that does *)
(* not put in a top computed from an older reading than the one it swaps   *)
(* against.                                                                *)

(* The next top is past the block with its size word, and is again 8 below *)
(* a multiple of 16.                                                       *)
LEMMA NewTopAbove ==
  ASSUME NEW top \in Nat, NEW size \in Nat
  PROVE  /\ NewTop(top, size) \in Nat
         /\ NewTop(top, size) >= top + 8 + size
         /\ NewTop(top, size) >= top
         /\ NewTop(top, size) % 16 = 8
<1> DEFINE q == (top + size + 16) \div 16
<1>1. q \in Nat /\ 16 * q =< top + size + 16 /\ top + size + 16 < 16 * q + 16
  BY SMT
<1>2. NewTop(top, size) = q * 16 + 8
  BY DEF NewTop
<1> HIDE DEF q
<1>3. (q * 16 + 8) % 16 = 8
  BY <1>1, SMT
<1> QED
  BY <1>1, <1>2, <1>3, SMT

(* The block that h is to be given.                                        *)
Pending(h) == [at |-> request[h].rv, size |-> request[h].size]

LEMMA ClaimedIs ==
  Claimed = blocks \cup {Pending(h) : h \in {g \in Hart : request[g].pc = "size"}}
BY DEF Claimed, Pending

LEMMA ClaimedTypes ==
  ASSUME HeapInv, NEW b \in Claimed
  PROVE  b.at \in Nat /\ b.size \in Nat
<1>1. CASE b \in blocks
  BY <1>1 DEF HeapInv
<1>2. CASE \E h \in Hart : b = Pending(h)
  <2>1. PICK h \in Hart : b = Pending(h)
    BY <1>2
  <2>2. request[h] \in Requests
    BY DEF HeapInv
  <2> QED
    BY <2>1, <2>2 DEF Pending, Requests
<1> QED
  BY <1>1, <1>2, ClaimedIs

(* A step that claims nothing, gives nothing out and leaves the top alone. *)
LEMMA HeapQuietStep ==
  ASSUME HeapInv, UNCHANGED << pooltop, blocks, torn >>,
         NEW h \in Hart, NEW r \in Requests,
         request' = [request EXCEPT ![h] = r],
         request[h].pc # "size", r.pc # "size",
         r.pc \in {"reread", "swap"} => r.seen + r.size + 16 =< PoolSize,
         r.pc = "swap" => r.newtop = NewTop(r.seen, r.size)
  PROVE  HeapInv'
<1>1. request' \in [Hart -> Requests] /\ \A g \in Hart : request'[g] = IF g = h THEN r ELSE request[g]
  BY DEF HeapInv
<1>2. Claimed' = Claimed
  BY <1>1 DEF Claimed
<1>3. ~torn => BlocksApart'
  BY <1>1, <1>2 DEF HeapInv, BlocksApart, Apart, End
<1> QED
  BY <1>1, <1>2, <1>3 DEF HeapInv, End

LEMMA InvInit == HeapInit => HeapInv
<1> SUFFICES ASSUME HeapInit
             PROVE  HeapInv
  OBVIOUS
<1>1. NoRequest \in Requests /\ NoRequest.pc = "idle"
  BY DEF NoRequest, Requests
<1>2. \A h \in Hart : request[h] = NoRequest
  BY DEF HeapInit
<1>3. Claimed = {}
  BY <1>1, <1>2 DEF HeapInit, Claimed
<1>4. request \in [Hart -> Requests]
  BY <1>1 DEF HeapInit
<1> QED
  BY <1>1, <1>2, <1>3, <1>4 DEF HeapInit, HeapInv, BlocksApart

LEMMA InvSwap ==
  ASSUME HeapInv, NEW h \in Hart, SwapTop(h)
  PROVE  HeapInv'
<1> DEFINE new == Pending(h)
           r   == request[h]
<1>1. r \in Requests /\ r.seen \in Nat /\ r.size \in Nat /\ r.rv \in Nat /\ r.newtop \in Nat
  BY DEF HeapInv, Requests
<1>2. /\ request' \in [Hart -> Requests]
      /\ request'[h] = [r EXCEPT !.pc = "size"]
      /\ \A g \in Hart \ {h} : request'[g] = request[g]
  BY <1>1 DEF HeapInv, SwapTop, Requests
<1>3. blocks' = blocks /\ pooltop = r.rv /\ pooltop' = r.newtop /\ r.pc = "swap" /\ torn' \in BOOLEAN
  BY DEF SwapTop, HeapInv
<1>4. SUFFICES ASSUME ~torn'
               PROVE  /\ pooltop' % 16 = 8
                      /\ \A b \in Claimed' : End(b) =< pooltop'
                      /\ \A g \in Hart :
                           /\ request'[g].pc \in {"reread", "swap"}
                                => request'[g].seen + request'[g].size + 16 =< PoolSize
                           /\ request'[g].pc = "swap"
                                => request'[g].newtop = NewTop(request'[g].seen, request'[g].size)
                      /\ BlocksApart'
  BY <1>1, <1>2, <1>3 DEF HeapInv
<1>5. ~torn /\ r.seen = pooltop /\ r.newtop = NewTop(pooltop, r.size)
      /\ pooltop + r.size + 16 =< PoolSize
  BY <1>3, <1>4 DEF SwapTop, HeapInv
<1>6. /\ pooltop' % 16 = 8 /\ pooltop' >= pooltop /\ pooltop' >= pooltop + 8 + r.size
      /\ pooltop \in Nat /\ pooltop' \in Nat
  <2>1. pooltop \in Nat
    BY DEF HeapInv
  <2>2. pooltop' = NewTop(pooltop, r.size)
    BY <1>3, <1>5
  <2> QED
    BY <1>1, <2>1, <2>2, NewTopAbove
<1>7. Claimed' = Claimed \cup {new}
  <2>1. \A g \in Hart \ {h} : Pending(g)' = Pending(g) /\ request'[g].pc = request[g].pc
    BY <1>2 DEF Pending
  <2>2. Pending(h)' = new /\ request'[h].pc = "size"
    BY <1>1, <1>2 DEF Pending, Requests
  <2>3. Claimed' = blocks' \cup {Pending(g)' : g \in {f \in Hart : request'[f].pc = "size"}}
    BY DEF Claimed, Pending
  <2> HIDE DEF new, r
  <2>4. \A b : b \in Claimed' <=> b \in blocks \/ \E g \in Hart : request'[g].pc = "size" /\ b = Pending(g)'
    BY <1>3, <2>3
  <2>5. \A b : b \in Claimed <=> b \in blocks \/ \E g \in Hart : request[g].pc = "size" /\ b = Pending(g)
    BY ClaimedIs
  <2>6. request[h].pc # "size"
    BY <1>3 DEF r
  <2> QED
    BY <2>1, <2>2, <2>4, <2>5, <2>6
<1>8. End(new) = pooltop + 8 + r.size /\ new.at = pooltop
  BY <1>3 DEF End, Pending
<1>9. \A b \in Claimed : End(b) =< pooltop /\ End(b) =< new.at /\ b.at < pooltop /\ End(b) =< PoolSize
                         /\ b.at \in Nat /\ b.size \in Nat /\ End(b) \in Nat
  BY <1>5, <1>6, <1>8, ClaimedTypes DEF HeapInv, End, BlocksApart
<1>10. \A b \in Claimed' : End(b) =< pooltop' /\ End(b) =< PoolSize
  <2>1. End(new) =< pooltop' /\ End(new) =< PoolSize
    BY <1>1, <1>5, <1>6, <1>8, HeapAssumption
  <2> HIDE DEF new
  <2> QED
    BY <2>1, <1>6, <1>7, <1>9, HeapAssumption
<1>11. \A b, c \in Claimed' : b = c \/ Apart(b, c)
  <2>1. \A b, c \in Claimed : b = c \/ Apart(b, c)
    BY <1>5 DEF HeapInv, BlocksApart
  <2> QED
    BY <2>1, <1>7, <1>9 DEF Apart
<1>12. \A g \in Hart : request[g].pc = "size" => Pending(g) \in Claimed /\ request[g].rv < pooltop
  <2> SUFFICES ASSUME NEW g \in Hart, request[g].pc = "size"
               PROVE  Pending(g) \in Claimed /\ request[g].rv < pooltop
    OBVIOUS
  <2>1. Pending(g) \in Claimed
    BY ClaimedIs
  <2> QED
    BY <2>1, <1>9 DEF Pending
<1>13. request'[h].rv = pooltop /\ \A g \in Hart \ {h} : request'[g].pc = "size" => request'[g].rv < pooltop
  <2>1. request'[h].rv = r.rv
    BY <1>1, <1>2 DEF Requests
  <2> QED
    BY <2>1, <1>2, <1>3, <1>12
<1>14. \A f, g \in Hart : (f # g /\ request'[f].pc = "size" /\ request'[g].pc = "size")
                            => request'[f].rv # request'[g].rv
  <2> SUFFICES ASSUME NEW f \in Hart, NEW g \in Hart, f # g,
                      request'[f].pc = "size", request'[g].pc = "size"
               PROVE  request'[f].rv # request'[g].rv
    OBVIOUS
  <2>1. CASE f = h \/ g = h
    BY <2>1, <1>6, <1>13
  <2>2. CASE f # h /\ g # h
    BY <2>2, <1>2, <1>5 DEF HeapInv, BlocksApart
  <2> QED
    BY <2>1, <2>2
<1>15. \A g \in Hart, b \in blocks' : request'[g].pc = "size" => request'[g].rv # b.at
  <2> SUFFICES ASSUME NEW g \in Hart, NEW b \in blocks', request'[g].pc = "size"
               PROVE  request'[g].rv # b.at
    OBVIOUS
  <2>1. b \in blocks /\ b.at < pooltop /\ b.at \in Nat
    BY <1>3, <1>9, ClaimedIs
  <2>2. CASE g = h
    BY <2>1, <2>2, <1>6, <1>13
  <2>3. CASE g # h
    BY <2>1, <2>3, <1>2, <1>5 DEF HeapInv, BlocksApart
  <2> QED
    BY <2>2, <2>3
<1>16. \A g \in Hart :
         /\ request'[g].pc \in {"reread", "swap"}
              => request'[g].seen + request'[g].size + 16 =< PoolSize
         /\ request'[g].pc = "swap"
              => request'[g].newtop = NewTop(request'[g].seen, request'[g].size)
  <2> SUFFICES ASSUME NEW g \in Hart, request'[g].pc \in {"reread", "swap"}
               PROVE  /\ request'[g].seen + request'[g].size + 16 =< PoolSize
                      /\ request'[g].pc = "swap"
                           => request'[g].newtop = NewTop(request'[g].seen, request'[g].size)
    OBVIOUS
  <2>1. request'[h].pc = "size"
    BY <1>1, <1>2 DEF Requests
  <2>2. request'[g] = request[g]
    BY <2>1, <1>2
  <2> QED
    BY <2>2, <1>5 DEF HeapInv
<1> QED
  BY <1>6, <1>10, <1>11, <1>14, <1>15, <1>16 DEF BlocksApart

LEMMA InvStoreSize ==
  ASSUME HeapInv, NEW h \in Hart, StoreSize(h)
  PROVE  HeapInv'
<1>1. request[h] \in Requests /\ NoRequest \in Requests
  BY DEF HeapInv, NoRequest, Requests
<1>2. /\ request' \in [Hart -> Requests] /\ request'[h] = NoRequest
      /\ \A g \in Hart \ {h} : request'[g] = request[g]
      /\ pooltop' = pooltop /\ torn' = torn /\ blocks' = blocks \cup {Pending(h)}
      /\ request[h].pc = "size"
  BY <1>1 DEF HeapInv, StoreSize, Pending
<1>3. Claimed' \subseteq Claimed
  BY <1>2, ClaimedIs DEF Claimed, Pending, NoRequest
<1>4. blocks' \subseteq [at : Nat, size : Nat]
  BY <1>1, <1>2 DEF HeapInv, Pending, Requests
<1>5. ~torn => BlocksApart'
  <2>1. \A g \in Hart, b \in blocks' : ~torn /\ request'[g].pc = "size" => request'[g].rv # b.at
    BY <1>2 DEF HeapInv, BlocksApart, Pending, NoRequest
  <2>2. \A f, g \in Hart : (~torn /\ f # g /\ request'[f].pc = "size" /\ request'[g].pc = "size")
                             => request'[f].rv # request'[g].rv
    BY <1>2 DEF HeapInv, BlocksApart, NoRequest
  <2> QED
    BY <1>2, <1>3, <2>1, <2>2 DEF HeapInv, BlocksApart, Apart, End
<1>6. \A g \in Hart : request'[g].pc \in {"reread", "swap"} => request'[g] = request[g]
  BY <1>2 DEF NoRequest
<1> QED
  BY <1>2, <1>3, <1>4, <1>5, <1>6 DEF HeapInv, End

LEMMA InvNext == HeapInv /\ [HeapNext]_heapVars => HeapInv'
<1> SUFFICES ASSUME HeapInv, [HeapNext]_heapVars
             PROVE  HeapInv'
  OBVIOUS
<1>1. CASE UNCHANGED heapVars
  BY <1>1 DEF heapVars, HeapInv, BlocksApart, Claimed, Apart, End
<1>2. CASE HeapNext
  <2>1. PICK h \in Hart :
          \/ Malloc(h) \/ Calloc(h) \/ Realloc(h)
          \/ HeapExhausted(h) \/ ReadTop(h) \/ RereadTop(h)
          \/ SwapTop(h) \/ SwapTopFails(h) \/ StoreSize(h)
    BY <1>2 DEF HeapNext
  <2> DEFINE r == request[h]
  <2>2. r \in Requests /\ NoRequest \in Requests /\ pooltop \in Nat
    BY DEF HeapInv, NoRequest, Requests
  <2>3. ASSUME NEW size \in Nat, CallMalloc(h, size)
        PROVE  HeapInv'
    <3> DEFINE q == [NoRequest EXCEPT !.pc = "read", !.size = size]
    <3>1. q \in Requests /\ q.pc = "read"
      BY DEF NoRequest, Requests
    <3> QED
      BY <2>3, <3>1, HeapQuietStep DEF CallMalloc
  <2>4. CASE Malloc(h)
    BY <2>3, <2>4, HeapAssumption DEF Malloc
  <2>5. CASE Calloc(h)
    <3>1. \A n \in Counts, size \in Sizes : n * size \in Nat
      BY HeapAssumption
    <3> QED
      BY <2>3, <2>5, <3>1 DEF Calloc
  <2>6. CASE Realloc(h)
    BY <2>3, <2>6, HeapAssumption DEF Realloc
  <2>7. CASE HeapExhausted(h)
    <3>1. NoRequest.pc = "idle"
      BY DEF NoRequest
    <3> QED
      BY <2>2, <2>7, <3>1, HeapQuietStep DEF HeapExhausted
  <2>8. CASE ReadTop(h)
    <3> DEFINE q == [r EXCEPT !.pc = "reread", !.seen = pooltop]
    <3>1. q \in Requests /\ q.pc = "reread" /\ q.seen = pooltop /\ q.size = r.size
      BY <2>2 DEF Requests
    <3>2. request' = [request EXCEPT ![h] = q] /\ r.pc = "read" /\ UNCHANGED << pooltop, blocks, torn >>
          /\ pooltop + r.size + 16 =< PoolSize
      BY <2>8 DEF ReadTop, HeapInv
    <3> QED
      BY <3>1, <3>2, HeapQuietStep
  <2>9. CASE RereadTop(h)
    <3>1. PICK rv \in {r.seen, pooltop} :
            request' = [request EXCEPT ![h].pc = "swap", ![h].rv = rv,
                          ![h].newtop = NewTop(r.seen, r.size)]
      BY <2>9 DEF RereadTop
    <3> DEFINE q == [r EXCEPT !.pc = "swap", !.rv = rv, !.newtop = NewTop(r.seen, r.size)]
    <3>2. r.seen \in Nat /\ r.size \in Nat
      BY <2>2 DEF Requests
    <3>3. rv \in Nat /\ NewTop(r.seen, r.size) \in Nat
      BY <2>2, <3>2, NewTopAbove
    <3>4. q \in Requests /\ q.pc = "swap" /\ q.seen = r.seen /\ q.size = r.size
          /\ q.newtop = NewTop(r.seen, r.size)
      BY <2>2, <3>3 DEF Requests
    <3>5. request' = [request EXCEPT ![h] = q] /\ r.pc = "reread" /\ UNCHANGED << pooltop, blocks, torn >>
      BY <2>9, <3>1 DEF RereadTop, HeapInv
    <3> QED
      <4>1. CASE torn
        <5>1. request' \in [Hart -> Requests]
          BY <3>4, <3>5 DEF HeapInv
        <5> QED
          BY <4>1, <5>1, <3>5 DEF HeapInv
      <4>2. CASE ~torn
        <5>1. r.seen + r.size + 16 =< PoolSize
          BY <4>2, <3>5 DEF HeapInv
        <5> QED
          BY <5>1, <3>4, <3>5, HeapQuietStep
      <4> QED
        BY <4>1, <4>2
  <2>10. CASE SwapTop(h)
    BY <2>10, InvSwap
  <2>11. CASE SwapTopFails(h)
    <3> DEFINE q == [r EXCEPT !.pc = "read"]
    <3>1. q \in Requests /\ q.pc = "read"
      BY <2>2 DEF Requests
    <3>2. request' = [request EXCEPT ![h] = q] /\ r.pc = "swap" /\ UNCHANGED << pooltop, blocks, torn >>
      BY <2>11 DEF SwapTopFails, HeapInv
    <3> QED
      BY <3>1, <3>2, HeapQuietStep
  <2>12. CASE StoreSize(h)
    BY <2>12, InvStoreSize
  <2> QED
    BY <2>1, <2>4, <2>5, <2>6, <2>7, <2>8, <2>9, <2>10, <2>11, <2>12
<1> QED
  BY <1>1, <1>2

(* The inductive invariant of the pool: the top lies above every block, on *)
(* the grid of 16, and a top still to be swapped in leaves room for its    *)
(* own block (loader.cc malloc()).                                         *)
THEOREM HeapInvariant == HeapSpec => []HeapInv
<1>1. HeapInit => HeapInv
  BY InvInit
<1>2. HeapInv /\ [HeapNext]_heapVars => HeapInv'
  BY InvNext
<1> QED
  BY <1>1, <1>2, PTL DEF HeapSpec

(* Harts that allocate at once never share a byte (loader.cc malloc()).    *)
THEOREM BlocksStayApart == HeapSpec => []BlocksApart
<1>1. HeapInv => BlocksApart
  BY DEF HeapInv, BlocksApart
<1> QED
  BY <1>1, HeapInvariant, PTL

(* In a build that reads pooltop once per attempt no top is ever torn, and *)
(* the blocks are apart without condition.                                 *)
OneReading == torn = FALSE /\ \A h \in Hart : request[h].pc = "swap" => request[h].rv = request[h].seen

THEOREM OneReadingIsSafe ==
  ASSUME Rereads = FALSE
  PROVE  HeapSpec => [](\A b, c \in Claimed : b = c \/ Apart(b, c))
<1>1. HeapInit => OneReading
  BY DEF HeapInit, OneReading, NoRequest
<1>2. HeapInv /\ OneReading /\ [HeapNext]_heapVars => OneReading'
  <2> SUFFICES ASSUME HeapInv, OneReading, [HeapNext]_heapVars
               PROVE  OneReading'
    OBVIOUS
  <2>1. \A h \in Hart : request[h] \in Requests
    BY DEF HeapInv
  <2>2. CASE UNCHANGED heapVars
    BY <2>2 DEF heapVars, OneReading
  <2>3. CASE \E h \in Hart : SwapTop(h)
    BY <2>1, <2>3 DEF SwapTop, OneReading, HeapInv, Requests
  <2>4. CASE \E h \in Hart : RereadTop(h)
    BY <2>1, <2>4, Rereads = FALSE DEF RereadTop, OneReading, HeapInv, Requests
  <2>5. ASSUME NEW h \in Hart, NEW r, r.pc # "swap", torn' = torn, request' = [request EXCEPT ![h] = r]
        PROVE  OneReading'
    BY <2>5 DEF OneReading, HeapInv
  <2>6. ASSUME NEW h \in Hart, NEW size, CallMalloc(h, size)
        PROVE  OneReading'
    <3>1. [NoRequest EXCEPT !.pc = "read", !.size = size].pc # "swap"
      BY DEF NoRequest
    <3> QED
      BY <2>5, <2>6, <3>1 DEF CallMalloc
  <2>7. CASE \E h \in Hart : Malloc(h) \/ Calloc(h) \/ Realloc(h)
    BY <2>6, <2>7 DEF Malloc, Calloc, Realloc
  <2>8. CASE \E h \in Hart : HeapExhausted(h) \/ StoreSize(h)
    <3>1. NoRequest.pc # "swap"
      BY DEF NoRequest
    <3> QED
      BY <2>5, <2>8, <3>1 DEF HeapExhausted, StoreSize
  <2>9. CASE \E h \in Hart : ReadTop(h) \/ SwapTopFails(h)
    BY <2>1, <2>9 DEF ReadTop, SwapTopFails, OneReading, HeapInv, Requests
  <2> QED
    BY <2>2, <2>3, <2>4, <2>7, <2>8, <2>9 DEF HeapNext
<1>3. HeapInv /\ OneReading => \A b, c \in Claimed : b = c \/ Apart(b, c)
  BY DEF HeapInv, OneReading, BlocksApart
<1> QED
  BY <1>1, <1>2, <1>3, HeapInvariant, PTL DEF HeapSpec

--------------------------------------------------------------------------------
(* Why the break never leaves its region, for any page size and limits and *)
(* any number of harts calling emulate_brk() at once: every address that a *)
(* call stores or hands to the host is rounded from one that was clamped,  *)
(* or was read from a break that had been stored.                          *)


Region == RoundUp(brk_min) .. RoundUp(brk_max)
Breaks == {a \in Region : a % PageSize = 0}

LEMMA MultipleMonotone ==
  ASSUME NEW m \in Nat \ {0}, NEW i \in Nat, NEW j \in Nat, i =< j
  PROVE  i * m =< j * m /\ i * m \in Nat /\ j * m \in Nat
<1>1. (j - i) * m >= 0
  BY SMT
<1>2. (j - i) * m = j * m - i * m
  BY SMT
<1>3. i * m \in Nat /\ j * m \in Nat
  BY SMT
<1> QED
  BY <1>1, <1>2, <1>3, SMT

LEMMA QuotientMonotone ==
  ASSUME NEW m \in Nat \ {0}, NEW a \in Nat, NEW b \in Nat, a =< b
  PROVE  a \div m =< b \div m /\ a \div m \in Nat /\ b \div m \in Nat
<1> DEFINE q == a \div m
           r == b \div m
<1>1. q \in Nat /\ r \in Nat /\ q * m =< a /\ b < r * m + m
  BY SMT
<1> HIDE DEF q, r
<1>2. CASE r < q
  <2>1. (r + 1) * m =< q * m /\ (r + 1) * m \in Nat /\ q * m \in Nat
    BY <1>1, <1>2, MultipleMonotone
  <2>2. (r + 1) * m = r * m + m
    BY <1>1, SMT
  <2>3. r * m \in Nat
    BY <1>1, SMT
  <2> QED
    BY <1>1, <2>1, <2>2, <2>3, SMT
<1>3. q =< r
  BY <1>1, <1>2
<1> QED
  BY <1>1, <1>3 DEF q, r

LEMMA MultipleOf ==
  ASSUME NEW m \in Nat \ {0}, NEW k \in Nat
  PROVE  (k * m) % m = 0
<1> DEFINE y == k * m
           d == y \div m
           e == y % m
<1>1. y \in Nat /\ d \in Nat /\ e \in Nat /\ e < m /\ y = d * m + e
  BY SMT
<1> HIDE DEF d, e
<1>2. CASE d < k
  <2>1. (d + 1) * m =< k * m /\ (d + 1) * m \in Nat
    BY <1>1, <1>2, MultipleMonotone
  <2>2. (d + 1) * m = d * m + m
    BY <1>1, SMT
  <2>3. d * m \in Nat
    BY <1>1, SMT
  <2> QED
    BY <1>1, <2>1, <2>2, <2>3, SMT
<1>3. CASE k =< d
  <2>1. k * m =< d * m /\ d * m \in Nat
    BY <1>1, <1>3, MultipleMonotone
  <2>2. e = 0
    BY <1>1, <2>1, SMT
  <2> QED
    BY <2>2 DEF e
<1> QED
  BY <1>1, <1>2, <1>3

(* A clamped break rounds to a page of the region.                         *)
LEMMA RoundUpInRegion ==
  ASSUME NEW a \in brk_min .. brk_max
  PROVE  RoundUp(a) \in Breaks
<1> DEFINE q(x) == (x + PageSize - 1) \div PageSize
<1>1. PageSize \in Nat \ {0} /\ a \in Nat /\ brk_min \in Nat /\ brk_max \in Nat
      /\ brk_min =< a /\ a =< brk_max
  BY BrkAssumption
<1>2. a + PageSize - 1 \in Nat /\ brk_min + PageSize - 1 \in Nat /\ brk_max + PageSize - 1 \in Nat
      /\ brk_min + PageSize - 1 =< a + PageSize - 1 /\ a + PageSize - 1 =< brk_max + PageSize - 1
  BY <1>1
<1>3. q(brk_min) =< q(a) /\ q(a) =< q(brk_max)
      /\ q(a) \in Nat /\ q(brk_min) \in Nat /\ q(brk_max) \in Nat
  BY <1>1, <1>2, QuotientMonotone
<1>4. RoundUp(a) = q(a) * PageSize /\ RoundUp(brk_min) = q(brk_min) * PageSize
      /\ RoundUp(brk_max) = q(brk_max) * PageSize
  BY DEF RoundUp
<1> HIDE DEF q
<1>5. q(brk_min) * PageSize =< q(a) * PageSize /\ q(a) * PageSize =< q(brk_max) * PageSize
      /\ q(a) * PageSize \in Nat /\ q(brk_min) * PageSize \in Nat /\ q(brk_max) * PageSize \in Nat
  BY <1>1, <1>3, MultipleMonotone
<1>6. (q(a) * PageSize) % PageSize = 0
  BY <1>1, <1>3, MultipleOf
<1> QED
  BY <1>4, <1>5, <1>6 DEF Breaks, Region

Calls == [pc : {"idle", "first", "compare", "remap", "assert", "store", "aborted"}, newbrk : Nat, seen : Nat]

(* BreakStaysInRegion, and the types of the calls under way.               *)
BrkInv ==
  /\ brkcall \in [Hart -> Calls]
  /\ brk \in Breaks \cup {0}
  /\ brk = 0 => \A h \in Hart : brkcall[h].pc \in {"idle", "first"}
  /\ mapped \subseteq Pages(RoundUp(brk_min), RoundUp(brk_max))
  /\ granted \in brk_min .. brk_max
  /\ \A h \in Hart :
       /\ brkcall[h].pc # "idle" => brkcall[h].newbrk \in brk_min .. brk_max
       /\ brkcall[h].pc \in {"compare", "remap"} => brkcall[h].seen \in Breaks

LEMMA BreaksAre == Breaks \subseteq Nat
<1>1. brk_min \in brk_min .. brk_max /\ brk_max \in brk_min .. brk_max
  BY BrkAssumption
<1>2. \A b \in Breaks : b \in Region
  BY DEF Breaks
<1>3. RoundUp(brk_min) \in Nat /\ RoundUp(brk_max) \in Nat
  <2> DEFINE q(x) == (x + PageSize - 1) \div PageSize
  <2>1. \A x \in Nat : x + PageSize - 1 \in Nat
    BY BrkAssumption
  <2>2. q(brk_min) \in Nat /\ q(brk_max) \in Nat
    BY <2>1, BrkAssumption, QuotientMonotone
  <2> HIDE DEF q
  <2>3. q(brk_min) * PageSize \in Nat /\ q(brk_max) * PageSize \in Nat
    BY <2>2, BrkAssumption, MultipleMonotone
  <2> QED
    BY <2>3 DEF RoundUp, q
<1> QED
  BY <1>2, <1>3 DEF Region

(* No break is 0, which stands for none yet.                               *)
LEMMA BreaksArePositive == 0 \notin Breaks
<1> DEFINE y == brk_min + PageSize - 1
           q == y \div PageSize
           e == y % PageSize
<1>1. y \in Nat /\ PageSize \in Nat \ {0} /\ brk_min \in Nat \ {0} /\ y + 1 = brk_min + PageSize
  BY BrkAssumption
<1>2. q \in Nat /\ e \in Nat /\ e < PageSize /\ y = q * PageSize + e /\ q * PageSize \in Nat
  <2> HIDE DEF y
  <2> QED
    BY <1>1, SMT
<1>3. RoundUp(brk_min) = q * PageSize
  BY DEF RoundUp
<1> HIDE DEF y, q, e
<1>4. RoundUp(brk_min) >= 1
  BY <1>1, <1>2, <1>3
<1> QED
  BY <1>2, <1>3, <1>4 DEF Breaks, Region

LEMMA LimitsAreBreaks == RoundUp(brk_min) \in Breaks
<1>1. brk_min \in brk_min .. brk_max
  BY BrkAssumption
<1> QED
  BY <1>1, RoundUpInRegion

(* What lies between two breaks lies in the region.                        *)
LEMMA PagesBetween ==
  ASSUME NEW a \in Breaks, NEW b \in Breaks
  PROVE  Pages(a, b) \subseteq Pages(RoundUp(brk_min), RoundUp(brk_max))
<1>1. a \in Nat /\ b \in Nat /\ RoundUp(brk_min) =< a /\ b =< RoundUp(brk_max)
  BY BreaksAre DEF Breaks, Region
<1>2. RoundUp(brk_min) \in Int /\ RoundUp(brk_max) \in Int
  BY BrkAssumption DEF RoundUp
<1> QED
  BY <1>1, <1>2 DEF Pages

LEMMA ClampInRange ==
  ASSUME NEW a \in Nat
  PROVE  Clamp(a) \in brk_min .. brk_max
BY BrkAssumption DEF Clamp

LEMMA BrkInvInit == BrkInit => BrkInv
BY BrkAssumption DEF BrkInit, BrkInv, NoBrkCall, Calls

(* A step of h's own call that leaves the break alone.                     *)
LEMMA CallStep ==
  ASSUME BrkInv, NEW h \in Hart, NEW c \in Calls,
         brkcall' = [brkcall EXCEPT ![h] = c], UNCHANGED << brk, mapped, granted >>,
         c.pc # "idle" => c.newbrk \in brk_min .. brk_max,
         c.pc \in {"compare", "remap"} => c.seen \in Breaks,
         brk = 0 => c.pc \in {"idle", "first"}
  PROVE  BrkInv'
<1>1. brkcall' \in [Hart -> Calls] /\ \A g \in Hart : brkcall'[g] = IF g = h THEN c ELSE brkcall[g]
  BY DEF BrkInv
<1>2. Breaks' = Breaks /\ Pages(RoundUp(brk_min), RoundUp(brk_max))' = Pages(RoundUp(brk_min), RoundUp(brk_max))
  OBVIOUS
<1> QED
  BY <1>1, <1>2 DEF BrkInv

LEMMA BrkInvNext == BrkInv /\ [BrkNext]_brkVars => BrkInv'
<1> SUFFICES ASSUME BrkInv, [BrkNext]_brkVars
             PROVE  BrkInv'
  OBVIOUS
<1>1. CASE UNCHANGED brkVars
  BY <1>1 DEF brkVars, BrkInv
<1>2. CASE BrkNext
  <2>1. PICK h \in Hart : \/ EnterBrk(h) \/ FirstBrk(h) \/ CompareBrk(h)
                          \/ Remap(h) \/ AssertBrk(h) \/ StoreBrk(h)
    BY <1>2 DEF BrkNext
  <2>2. /\ brkcall[h] \in Calls /\ brk \in Nat /\ Breaks \subseteq Nat
        /\ brkcall[h].pc # "idle" => brkcall[h].newbrk \in brk_min .. brk_max /\ RoundUp(brkcall[h].newbrk) \in Breaks
    BY BreaksAre, RoundUpInRegion DEF BrkInv
  <2>3. CASE EnterBrk(h)
    <3>1. PICK addr \in BrkAddrs :
            brkcall' = [brkcall EXCEPT ![h] =
                          [pc |-> IF brk = 0 THEN "first" ELSE "compare",
                           newbrk |-> Clamp(addr), seen |-> brk]]
      BY <2>3 DEF EnterBrk
    <3> DEFINE c == [pc |-> IF brk = 0 THEN "first" ELSE "compare", newbrk |-> Clamp(addr), seen |-> brk]
    <3>2. Clamp(addr) \in brk_min .. brk_max /\ Clamp(addr) \in Nat
      BY BrkAssumption, ClampInRange
    <3>3. c \in Calls
      BY <2>2, <3>2 DEF Calls
    <3>4. UNCHANGED << brk, mapped, granted >>
      BY <2>3 DEF EnterBrk
    <3>5. c.pc \in {"compare", "remap"} => c.seen \in Breaks
      BY DEF BrkInv
    <3> QED
      BY <3>1, <3>2, <3>3, <3>4, <3>5, CallStep
  <2>4. CASE FirstBrk(h)
    <3> DEFINE c == [brkcall[h] EXCEPT !.pc = "compare", !.seen = RoundUp(brk_min)]
    <3>1. /\ brk' = RoundUp(brk_min) /\ brk' \in Breaks /\ brk' # 0
          /\ UNCHANGED << mapped, granted >>
      BY <2>4, LimitsAreBreaks, BreaksArePositive DEF FirstBrk
    <3>2. c \in Calls /\ c.seen \in Breaks /\ c.newbrk = brkcall[h].newbrk /\ c.pc # "idle"
      BY <2>2, LimitsAreBreaks DEF Calls
    <3>3. brkcall' = [brkcall EXCEPT ![h] = c] /\ brkcall[h].pc # "idle"
      BY <2>4 DEF FirstBrk, BrkInv
    <3>4. brkcall' \in [Hart -> Calls] /\ \A g \in Hart : brkcall'[g] = IF g = h THEN c ELSE brkcall[g]
      BY <3>2, <3>3 DEF BrkInv
    <3> HIDE DEF c
    <3> QED
      BY <2>2, <3>1, <3>2, <3>3, <3>4 DEF BrkInv
  <2>5. CASE CompareBrk(h)
    <3>1. PICK old \in {brkcall[h].seen, brk} :
            brkcall' = [brkcall EXCEPT ![h].pc = "remap", ![h].seen = old]
      BY <2>5 DEF CompareBrk
    <3> DEFINE c == [brkcall[h] EXCEPT !.pc = "remap", !.seen = old]
    <3>2. brkcall[h].pc = "compare" /\ UNCHANGED << brk, mapped, granted >> /\ brk # 0
      BY <2>5 DEF CompareBrk, BrkInv
    <3>3. old \in Breaks
      BY <3>2 DEF BrkInv
    <3>4. c \in Calls /\ c.seen \in Breaks /\ c.newbrk = brkcall[h].newbrk
      BY <2>2, <3>3 DEF Calls
    <3>5. brkcall' = [brkcall EXCEPT ![h] = c]
      BY <3>1 DEF BrkInv
    <3> QED
      BY <2>2, <3>2, <3>4, <3>5, CallStep
  <2>6. CASE Remap(h)
    <3> DEFINE old == brkcall[h].seen
               page == RoundUp(brkcall[h].newbrk)
               c == [brkcall[h] EXCEPT !.pc = IF old < page THEN "assert" ELSE "store"]
    <3>1. brkcall[h].pc = "remap" /\ UNCHANGED << brk, granted >> /\ brk # 0
          /\ mapped' = (mapped \ Pages(page, old)) \cup Pages(old, page)
      BY <2>6 DEF Remap, BrkInv
    <3>2. old \in Breaks /\ page \in Breaks
      BY <2>2, <3>1 DEF BrkInv
    <3>3. mapped' \subseteq Pages(RoundUp(brk_min), RoundUp(brk_max))
      BY <3>1, <3>2, PagesBetween DEF BrkInv
    <3>4. c \in Calls /\ c.pc \in {"assert", "store"} /\ c.newbrk = brkcall[h].newbrk
      BY <2>2 DEF Calls
    <3>5. brkcall' = [brkcall EXCEPT ![h] = c]
      BY <2>6 DEF Remap, BrkInv
    <3>6. brkcall' \in [Hart -> Calls] /\ \A g \in Hart : brkcall'[g] = IF g = h THEN c ELSE brkcall[g]
      BY <3>4, <3>5 DEF BrkInv
    <3> HIDE DEF c, old, page
    <3> QED
      BY <2>2, <3>1, <3>3, <3>4, <3>6 DEF BrkInv
  <2>7. CASE AssertBrk(h)
    <3> DEFINE next == IF brk = brkcall[h].seen THEN "store" ELSE "aborted"
               c == [brkcall[h] EXCEPT !.pc = next]
    <3>1. brkcall[h].pc = "assert" /\ UNCHANGED << brk, mapped, granted >> /\ brk # 0
      BY <2>7 DEF AssertBrk, BrkInv
    <3>2. c \in Calls /\ c.pc \in {"store", "aborted"} /\ c.newbrk = brkcall[h].newbrk
      BY <2>2 DEF Calls
    <3>3. brkcall' = [brkcall EXCEPT ![h] = c]
      BY <2>7 DEF AssertBrk, BrkInv
    <3> HIDE DEF c
    <3> QED
      BY <2>2, <3>1, <3>2, <3>3, CallStep
  <2>8. CASE StoreBrk(h)
    <3>1. /\ brkcall[h].pc = "store" /\ brk' = RoundUp(brkcall[h].newbrk) /\ granted' = brkcall[h].newbrk
          /\ brkcall' = [brkcall EXCEPT ![h] = NoBrkCall] /\ UNCHANGED mapped
      BY <2>8 DEF StoreBrk
    <3>2. brk' \in Breaks /\ brk' # 0 /\ granted' \in brk_min .. brk_max
      BY <2>2, <3>1, BreaksArePositive
    <3>3. NoBrkCall \in Calls /\ NoBrkCall.pc = "idle"
      BY DEF NoBrkCall, Calls
    <3>4. brkcall' \in [Hart -> Calls] /\ \A g \in Hart : brkcall'[g] = IF g = h THEN NoBrkCall ELSE brkcall[g]
      BY <3>1, <3>3 DEF BrkInv
    <3> QED
      BY <3>1, <3>2, <3>3, <3>4 DEF BrkInv
  <2> QED
    BY <2>1, <2>3, <2>4, <2>5, <2>6, <2>7, <2>8
<1> QED
  BY <1>1, <1>2

(* Whatever the order in which harts call for a break, and also when calls *)
(* overlap, no page outside the limits is mapped and no break outside them *)
(* is stored or returned (loader.cc emulate_brk()).                        *)
THEOREM BreakStays == BrkSpec => []BreakStaysInRegion
<1>1. BrkInit => BrkInv
  BY BrkInvInit
<1>2. BrkInv /\ [BrkNext]_brkVars => BrkInv'
  BY BrkInvNext
<1>3. BrkInv => BreakStaysInRegion
  BY DEF BrkInv, BreakStaysInRegion, Breaks, Region
<1> QED
  BY <1>1, <1>2, <1>3, PTL DEF BrkSpec

----------------------------------------------------------------------------
(* What is mapped while h is alone in emulate_brk(), step by step.         *)
Current ==
  /\ brk = 0 => mapped = {}
  /\ brk # 0 => mapped = Pages(RoundUp(brk_min), brk)

AloneAt(h) ==
  /\ brkcall[h].pc = "first" => brk = 0
  /\ brkcall[h].pc \in {"compare", "remap", "assert"} => brkcall[h].seen = brk /\ brk # 0
  /\ brkcall[h].pc \in {"first", "compare", "remap"} => Current
  /\ brkcall[h].pc \in {"assert", "store"} =>
       mapped = Pages(RoundUp(brk_min), RoundUp(brkcall[h].newbrk))
  /\ brkcall[h].pc # "aborted"

(* BreakMapsExactly says nothing of a call under way: until two calls have *)
(* overlapped, one hart at most is in one, and what it has read of the     *)
(* break, and mapped for it, is the truth of that moment.                  *)
MapInv ==
  /\ BrkInv
  /\ overlapped \in BOOLEAN
  /\ ~overlapped =>
       /\ \A g, h \in Hart : g = h \/ brkcall[g].pc = "idle" \/ brkcall[h].pc = "idle"
       /\ \A h \in Hart : AloneAt(h)
       /\ (\A h \in Hart : brkcall[h].pc = "idle") =>
            Current /\ (brk # 0 => RoundUp(granted) = brk)

(* What munmap() and mmap() make of the pages below the old break are those *)
(* below the new one, whichever is the higher.                             *)
LEMMA PagesMove ==
  ASSUME NEW lo \in Nat, NEW old \in Nat, NEW page \in Nat, lo =< old, lo =< page
  PROVE  (Pages(lo, old) \ Pages(page, old)) \cup Pages(old, page) = Pages(lo, page)
<1>1. \A i, j, a : a \in Pages(i, j) <=> a \in i .. (j - 1) /\ a % PageSize = 0
  BY DEF Pages
<1>2. ASSUME NEW a
      PROVE  a \in (Pages(lo, old) \ Pages(page, old)) \cup Pages(old, page) <=> a \in Pages(lo, page)
  <2>1. CASE a \in Int
    <3>1. /\ a \in lo .. (old - 1) <=> lo =< a /\ a < old
          /\ a \in page .. (old - 1) <=> page =< a /\ a < old
          /\ a \in old .. (page - 1) <=> old =< a /\ a < page
          /\ a \in lo .. (page - 1) <=> lo =< a /\ a < page
      BY <2>1
    <3> DEFINE r == a % PageSize = 0
    <3>2. /\ a \in Pages(lo, old) <=> (lo =< a /\ a < old) /\ r
          /\ a \in Pages(page, old) <=> (page =< a /\ a < old) /\ r
          /\ a \in Pages(old, page) <=> (old =< a /\ a < page) /\ r
          /\ a \in Pages(lo, page) <=> (lo =< a /\ a < page) /\ r
      BY <1>1, <3>1
    <3> HIDE DEF r
    <3> QED
      BY <2>1, <3>2
  <2>2. CASE a \notin Int
    <3>1. \A i, j \in Nat : a \notin i .. (j - 1)
      BY <2>2
    <3> QED
      BY <1>1, <3>1
  <2> QED
    BY <2>1, <2>2
<1> QED
  BY <1>2

LEMMA MapInvInit == BrkInit => MapInv
<1> SUFFICES ASSUME BrkInit
             PROVE  MapInv
  OBVIOUS
<1>1. BrkInv
  BY BrkInvInit
<1>2. brk = 0 /\ mapped = {} /\ overlapped = FALSE /\ \A h \in Hart : brkcall[h].pc = "idle"
  BY DEF BrkInit, NoBrkCall
<1> QED
  BY <1>1, <1>2 DEF MapInv, AloneAt, Current

(* A step of the one hart that is in a call.                               *)
LEMMA MapStep ==
  ASSUME MapInv, BrkInv', NEW h \in Hart, NEW c,
         brkcall' = [brkcall EXCEPT ![h] = c],
         overlapped' = overlapped, brkcall[h].pc # "idle",
         ~overlapped => AloneAt(h)',
         ~overlapped /\ c.pc = "idle" => (Current /\ (brk # 0 => RoundUp(granted) = brk))'
  PROVE  MapInv'
<1>1. /\ brkcall'[h] = c
      /\ \A g \in Hart : g # h => brkcall'[g] = brkcall[g]
  BY DEF MapInv, BrkInv
<1>2. CASE overlapped
  BY <1>2 DEF MapInv
<1>3. CASE ~overlapped
  <2>1. \A g \in Hart : g # h => brkcall[g].pc = "idle"
    BY <1>3 DEF MapInv
  <2>2. \A g \in Hart : g # h => brkcall'[g].pc = "idle"
    BY <1>1, <2>1
  <2>3. \A g, k \in Hart : g = k \/ brkcall'[g].pc = "idle" \/ brkcall'[k].pc = "idle"
    BY <2>2
  <2>4. \A g \in Hart : AloneAt(g)'
    <3>1. \A g \in Hart : g # h => AloneAt(g)'
      BY <2>2 DEF AloneAt
    <3> QED
      BY <1>3, <3>1
  <2>5. (\A g \in Hart : brkcall'[g].pc = "idle") => (Current /\ (brk # 0 => RoundUp(granted) = brk))'
    BY <1>1, <1>3
  <2> QED
    BY <1>3, <2>3, <2>4, <2>5 DEF MapInv
<1> QED
  BY <1>2, <1>3 DEF MapInv

LEMMA MapInvNext == MapInv /\ [BrkNext]_brkVars => MapInv'
<1> SUFFICES ASSUME MapInv, [BrkNext]_brkVars
             PROVE  MapInv'
  OBVIOUS
<1>0. BrkInv /\ BrkInv'
  BY BrkInvNext DEF MapInv
<1>1. CASE UNCHANGED brkVars
  BY <1>0, <1>1 DEF brkVars, MapInv, AloneAt, Current
<1>2. CASE BrkNext
  <2>1. PICK h \in Hart : \/ EnterBrk(h) \/ FirstBrk(h) \/ CompareBrk(h)
                          \/ Remap(h) \/ AssertBrk(h) \/ StoreBrk(h)
    BY <1>2 DEF BrkNext
  <2>2. /\ brkcall[h] \in Calls /\ Breaks \subseteq Nat /\ RoundUp(brk_min) \in Nat
        /\ brkcall[h].pc # "idle" => RoundUp(brkcall[h].newbrk) \in Breaks
    BY <1>0, BreaksAre, LimitsAreBreaks, RoundUpInRegion DEF BrkInv
  <2>3. CASE EnterBrk(h)
    <3>1. PICK addr \in BrkAddrs :
            brkcall' = [brkcall EXCEPT ![h] =
                          [pc |-> IF brk = 0 THEN "first" ELSE "compare",
                           newbrk |-> Clamp(addr), seen |-> brk]]
      BY <2>3 DEF EnterBrk
    <3>2. /\ UNCHANGED << brk, mapped, granted >>
          /\ overlapped' = (overlapped \/ \E g \in Hart : brkcall[g].pc # "idle")
      BY <2>3 DEF EnterBrk
    <3>3. CASE overlapped'
      BY <1>0, <3>3 DEF MapInv
    <3>4. CASE ~overlapped'
      <4>1. ~overlapped /\ \A g \in Hart : brkcall[g].pc = "idle"
        BY <3>2, <3>4
      <4>2. Current
        BY <4>1 DEF MapInv
      <4>3. Current'
        BY <3>2, <4>2 DEF Current
      <4>4. \A g \in Hart : g # h => brkcall'[g].pc = "idle"
        BY <1>0, <3>1, <4>1 DEF BrkInv
      <4>5. /\ brkcall'[h].pc = IF brk = 0 THEN "first" ELSE "compare"
            /\ brkcall'[h].seen = brk
        BY <1>0, <3>1 DEF BrkInv
      <4>6. AloneAt(h)'
        BY <3>2, <4>3, <4>5 DEF AloneAt
      <4>7. \A g \in Hart : AloneAt(g)'
        <5>1. \A g \in Hart : g # h => AloneAt(g)'
          BY <4>4 DEF AloneAt
        <5> QED
          BY <4>6, <5>1
      <4>8. brkcall'[h].pc # "idle"
        BY <4>5
      <4>9. overlapped' \in BOOLEAN
        BY <3>2 DEF MapInv
      <4> QED
        BY <1>0, <3>4, <4>4, <4>7, <4>8, <4>9 DEF MapInv
    <3>5. overlapped' \in BOOLEAN
      BY <3>2 DEF MapInv
    <3> QED
      BY <3>3, <3>4
  <2>4. CASE FirstBrk(h)
    <3> DEFINE c == [brkcall[h] EXCEPT !.pc = "compare", !.seen = RoundUp(brk_min)]
    <3>1. /\ brkcall[h].pc = "first" /\ brk' = RoundUp(brk_min) /\ brk' # 0
          /\ UNCHANGED << mapped, overlapped >>
      BY <2>4, LimitsAreBreaks, BreaksArePositive DEF FirstBrk
    <3>2. brkcall' = [brkcall EXCEPT ![h] = c] /\ brkcall'[h] = c
      BY <1>0, <2>4 DEF FirstBrk, BrkInv
    <3>3. c.pc = "compare" /\ c.seen = brk'
      BY <2>2, <3>1 DEF Calls
    <3>4. Pages(RoundUp(brk_min), RoundUp(brk_min)) = {}
      BY <2>2 DEF Pages
    <3>5. ~overlapped => AloneAt(h)'
      BY <3>1, <3>2, <3>3, <3>4 DEF MapInv, AloneAt, Current
    <3> HIDE DEF c
    <3>6. c.pc # "idle" /\ brkcall[h].pc # "idle"
      BY <3>1, <3>3
    <3> QED
      BY <1>0, <3>1, <3>2, <3>5, <3>6, MapStep
  <2>5. CASE CompareBrk(h)
    <3>1. PICK old \in {brkcall[h].seen, brk} :
            brkcall' = [brkcall EXCEPT ![h].pc = "remap", ![h].seen = old]
      BY <2>5 DEF CompareBrk
    <3> DEFINE c == [brkcall[h] EXCEPT !.pc = "remap", !.seen = old]
    <3>2. brkcall[h].pc = "compare" /\ UNCHANGED << brk, mapped, overlapped >>
      BY <2>5 DEF CompareBrk
    <3>3. brkcall' = [brkcall EXCEPT ![h] = c] /\ brkcall'[h] = c
      BY <1>0, <3>1 DEF BrkInv
    <3>4. c.pc = "remap" /\ c.seen = old
      BY <2>2 DEF Calls
    <3>5. ~overlapped => brkcall[h].seen = brk /\ brk # 0 /\ Current
      BY <3>2 DEF MapInv, AloneAt
    <3>6. ~overlapped => AloneAt(h)'
      BY <3>2, <3>3, <3>4, <3>5 DEF AloneAt, Current
    <3> HIDE DEF c
    <3>7. c.pc # "idle" /\ brkcall[h].pc # "idle"
      BY <3>2, <3>4
    <3> QED
      BY <1>0, <3>2, <3>3, <3>6, <3>7, MapStep
  <2>6. CASE Remap(h)
    <3> DEFINE old == brkcall[h].seen
               page == RoundUp(brkcall[h].newbrk)
               c == [brkcall[h] EXCEPT !.pc = IF old < page THEN "assert" ELSE "store"]
               lo == RoundUp(brk_min)
    <3>1. /\ brkcall[h].pc = "remap" /\ UNCHANGED << brk, overlapped >>
          /\ mapped' = (mapped \ Pages(page, old)) \cup Pages(old, page)
      BY <2>6 DEF Remap
    <3>2. brkcall' = [brkcall EXCEPT ![h] = c] /\ brkcall'[h] = c
      BY <1>0, <2>6 DEF Remap, BrkInv
    <3>3. c.pc \in {"assert", "store"} /\ c.newbrk = brkcall[h].newbrk /\ c.seen = old
      BY <2>2 DEF Calls
    <3>4. old \in Breaks /\ page \in Breaks
      BY <1>0, <2>2, <3>1 DEF BrkInv
    <3>5. lo \in Nat /\ old \in Nat /\ page \in Nat /\ lo =< old /\ lo =< page
      BY <2>2, <3>4, LimitsAreBreaks DEF Breaks, Region
    <3>6. ~overlapped => mapped = Pages(lo, old)
      BY <3>1 DEF MapInv, AloneAt, Current
    <3>7. ~overlapped => mapped' = Pages(lo, page)
      <4> HIDE DEF lo, old, page
      <4> QED
        BY <3>1, <3>5, <3>6, PagesMove
    <3>8. ~overlapped => AloneAt(h)'
      BY <3>1, <3>2, <3>3, <3>7 DEF MapInv, AloneAt
    <3> HIDE DEF c
    <3>9. c.pc # "idle" /\ brkcall[h].pc # "idle"
      BY <3>1, <3>3
    <3> QED
      BY <1>0, <3>1, <3>2, <3>8, <3>9, MapStep
  <2>7. CASE AssertBrk(h)
    <3> DEFINE next == IF brk = brkcall[h].seen THEN "store" ELSE "aborted"
               c == [brkcall[h] EXCEPT !.pc = next]
    <3>1. brkcall[h].pc = "assert" /\ UNCHANGED << brk, mapped, overlapped >>
      BY <2>7 DEF AssertBrk
    <3>2. brkcall' = [brkcall EXCEPT ![h] = c] /\ brkcall'[h] = c
      BY <1>0, <2>7 DEF AssertBrk, BrkInv
    <3>3. c.pc = next /\ c.newbrk = brkcall[h].newbrk
      BY <2>2 DEF Calls
    <3>4. ~overlapped => AloneAt(h)'
      BY <3>1, <3>2, <3>3 DEF MapInv, AloneAt
    <3> HIDE DEF c
    <3>5. c.pc # "idle" /\ brkcall[h].pc # "idle"
      BY <3>1, <3>3
    <3> QED
      BY <1>0, <3>1, <3>2, <3>4, <3>5, MapStep
  <2>8. CASE StoreBrk(h)
    <3>1. /\ brkcall[h].pc = "store" /\ brk' = RoundUp(brkcall[h].newbrk) /\ granted' = brkcall[h].newbrk
          /\ brkcall' = [brkcall EXCEPT ![h] = NoBrkCall] /\ UNCHANGED << mapped, overlapped >>
      BY <2>8 DEF StoreBrk
    <3>2. brk' # 0
      BY <2>2, <3>1, BreaksArePositive
    <3>3. ~overlapped => (Current /\ (brk # 0 => RoundUp(granted) = brk))'
      BY <3>1, <3>2 DEF MapInv, AloneAt, Current
    <3>4. brkcall'[h] = NoBrkCall /\ NoBrkCall.pc = "idle"
      BY <1>0, <3>1 DEF BrkInv, NoBrkCall
    <3>5. AloneAt(h)'
      BY <3>4 DEF AloneAt
    <3>6. brkcall[h].pc # "idle"
      BY <3>1
    <3> QED
      BY <1>0, <3>1, <3>3, <3>5, <3>6, MapStep
  <2> QED
    BY <2>1, <2>3, <2>4, <2>5, <2>6, <2>7, <2>8
<1> QED
  BY <1>1, <1>2

(* Whatever the order of calls that do not overlap, for any page size,     *)
(* limits and number of harts: between calls the mapped pages are exactly  *)
(* those below the break (loader.cc emulate_brk(): no page is leaked when  *)
(* the break shrinks and none is missing when it grows), and the assertion *)
(* after mmap() holds.                                                     *)
THEOREM PagesFollowBreak == BrkSpec => []BreakMapsExactly
<1>1. BrkInit => MapInv
  BY MapInvInit
<1>2. MapInv /\ [BrkNext]_brkVars => MapInv'
  BY MapInvNext
<1>3. MapInv => BreakMapsExactly
  BY DEF MapInv, AloneAt, BreakMapsExactly, Current
<1> QED
  BY <1>1, <1>2, <1>3, PTL DEF BrkSpec

----------------------------------------------------------------------------
(* The proxy.                                                              *)

LEMMA HighestEcallIs ==
  /\ HighestEcall \in Nat
  /\ \A c \in DOMAIN RiscvCalls : RiscvCalls[c] =< HighestEcall
<1> DEFINE S == {RiscvCalls[c] : c \in DOMAIN RiscvCalls}
           IsHighest(n) == \A c \in DOMAIN RiscvCalls : RiscvCalls[c] =< n
<1>1. \E n \in S : IsHighest(n)
  BY ProxyAssumption
<1>2. HighestEcall = CHOOSE n \in S : IsHighest(n)
  BY DEF HighestEcall
<1> HIDE DEF IsHighest
<1>3. HighestEcall \in S /\ IsHighest(HighestEcall)
  BY <1>1, <1>2
<1> QED
  BY <1>3, ProxyAssumption DEF IsHighest

LEMMA EcallsAreNumbers == Ecalls \subseteq Nat
BY HighestEcallIs, ProxyAssumption DEF Ecalls

(* An entry of rv_to_host with a name is that of a call both sides have.   *)
LEMMA EntryOf ==
  ASSUME NEW n \in Nat
  PROVE  /\ rv_to_host(n).name # NoName =>
              \E c \in DOMAIN RiscvCalls \cap DOMAIN HostCalls :
                RiscvCalls[c] = n /\ HostCalls[c] = rv_to_host(n).sysnum
         /\ rv_to_host(n).name = NoName =>
              \A c \in DOMAIN RiscvCalls \cap DOMAIN HostCalls : RiscvCalls[c] # n
         /\ rv_to_host(n).sysnum \in Int
<1> DEFINE Named == {c \in DOMAIN RiscvCalls \cap DOMAIN HostCalls : RiscvCalls[c] = n}
           e == CHOOSE c \in Named : TRUE
<1>1. CASE Named = {}
  <2>1. rv_to_host(n) = [sysnum |-> -1, name |-> NoName]
    BY <1>1 DEF rv_to_host
  <2> QED
    BY <1>1, <2>1
<1>2. CASE Named # {}
  <2>1. rv_to_host(n) = [sysnum |-> HostCalls[e], name |-> e]
    BY <1>2 DEF rv_to_host
  <2>2. e \in Named
    BY <1>2
  <2> HIDE DEF e
  <2>3. rv_to_host(n).name = e /\ rv_to_host(n).sysnum = HostCalls[e]
    BY <2>1
  <2>4. e # NoName
    BY <2>2, ProxyAssumption
  <2> QED
    BY <2>2, <2>3, <2>4, ProxyAssumption
<1> QED
  BY <1>1, <1>2

EcallRecord ==
  [pc : {"idle", "remap", "root", "copying", "host", "aborted"}, rvnum : Int, sysnum : Int,
   path : Paths \cup {NoPath}, buffer : BOOLEAN]

AbortedAt(r, n) == [r EXCEPT !.pc = "aborted", !.rvnum = n]

StartedAs(n, s, path, at) ==
  [NoEcall EXCEPT !.rvnum = n, !.sysnum = s, !.path = path, !.pc = at]

LEMMA AbortedRecord ==
  ASSUME NEW r \in EcallRecord, NEW n \in Int
  PROVE  /\ AbortedAt(r, n) \in EcallRecord
         /\ AbortedAt(r, n).pc = "aborted" /\ AbortedAt(r, n).rvnum = n
BY DEF EcallRecord, AbortedAt

LEMMA StartedRecord ==
  ASSUME NEW n \in Int, NEW s \in Int, NEW path \in Paths \cup {NoPath}, NEW at \in {"remap", "host"}
  PROVE  /\ StartedAs(n, s, path, at) \in EcallRecord
         /\ StartedAs(n, s, path, at).rvnum = n /\ StartedAs(n, s, path, at).sysnum = s
         /\ StartedAs(n, s, path, at).path = path /\ ~StartedAs(n, s, path, at).buffer
         /\ StartedAs(n, s, path, at).pc = at
BY DEF EcallRecord, NoEcall, StartedAs

Numbered(c) ==
  /\ c.pc \in {"remap", "root", "copying", "host"} =>
       \E n \in DOMAIN RiscvCalls \cap DOMAIN HostCalls :
         RiscvCalls[n] = c.rvnum /\ HostCalls[n] = c.sysnum
  /\ c.pc = "aborted" =>
       \A n \in DOMAIN RiscvCalls \cap DOMAIN HostCalls : RiscvCalls[n] # c.rvnum

(* The buffer is passed with the paths under the sysroot, and no other.    *)
Passed(c) ==
  /\ c.pc = "remap" => c.path \in Paths /\ ~c.buffer
  /\ c.pc \in {"root", "copying"} => c.path \in Prefixed /\ c.buffer
  /\ c.pc = "host" => (c.buffer <=> c.path \in Prefixed)

EcallInv ==
  /\ ecall \in [Hart -> EcallRecord]
  /\ \A h \in Hart : Numbered(ecall[h]) /\ Passed(ecall[h])

(* What is in the buffer while h remaps and no other hart has met it.      *)
BufferOf(h) ==
  Remapping(h) /\ h \notin met =>
    parts = IF ecall[h].pc = "root" THEN {} ELSE {ecall[h].path}

(* Two harts that remap at the same time have met, whichever came first;   *)
(* the buffer of one that has met none holds what it copied itself.        *)
BufferInv ==
  /\ parts \subseteq Prefixed
  /\ \A g, h \in Hart : g # h /\ Remapping(g) /\ Remapping(h) => g \in met /\ h \in met
  /\ \A h \in Hart : BufferOf(h)

Opened == [asked : Paths \cup {NoPath}, rooted : BOOLEAN, parts : SUBSET (Paths \cup {NoPath})]

ProxyInv ==
  /\ EcallInv
  /\ BufferInv
  /\ opened \in [Hart -> Opened]
  /\ OpensBelowSysroot

LEMMA ProxyInvInit == ProxyInit => ProxyInv
<1> SUFFICES ASSUME ProxyInit
             PROVE  ProxyInv
  OBVIOUS
<1>1. NoEcall \in EcallRecord /\ NoEcall.pc = "idle"
  BY DEF NoEcall, EcallRecord
<1>2. ecall \in [Hart -> EcallRecord] /\ \A h \in Hart : ecall[h].pc = "idle"
  BY <1>1 DEF ProxyInit
<1>3. EcallInv
  BY <1>2 DEF EcallInv, Numbered, Passed
<1>4. BufferInv
  BY <1>2 DEF ProxyInit, BufferInv, BufferOf, Remapping
<1>5. OpensBelowSysroot
  BY DEF ProxyInit, OpensBelowSysroot
<1>6. opened \in [Hart -> Opened]
  BY DEF ProxyInit, Opened
<1> QED
  BY <1>3, <1>4, <1>5, <1>6 DEF ProxyInv

(* A step of h's own call.                                                 *)
LEMMA EcallStep ==
  ASSUME EcallInv, NEW h \in Hart, NEW c \in EcallRecord,
         ecall' = [ecall EXCEPT ![h] = c], Numbered(c), Passed(c)
  PROVE  /\ EcallInv'
         /\ ecall'[h] = c /\ \A g \in Hart : g # h => ecall'[g] = ecall[g]
         /\ \A g \in Hart : g # h => Remapping(g)' = Remapping(g)
<1>1. ecall' \in [Hart -> EcallRecord] /\ \A g \in Hart : ecall'[g] = IF g = h THEN c ELSE ecall[g]
  BY DEF EcallInv
<1>2. \A g \in Hart : Numbered(ecall'[g]) /\ Passed(ecall'[g])
  BY <1>1 DEF EcallInv
<1>3. Numbered(c)' = Numbered(c) /\ Passed(c)' = Passed(c)
  BY DEF Numbered, Passed
<1>4. EcallInv'
  BY <1>1, <1>2 DEF EcallInv, Numbered, Passed
<1> QED
  BY <1>1, <1>4 DEF Remapping

(* A step that begins no remapping and copies nothing.                     *)
LEMMA QuietStep ==
  ASSUME ProxyInv, NEW h \in Hart, NEW c \in EcallRecord,
         ecall' = [ecall EXCEPT ![h] = c], Numbered(c), Passed(c),
         ~Remapping(h), ~Remapping(h)', UNCHANGED << parts, opened, met >>
  PROVE  ProxyInv'
<1>1. /\ EcallInv' /\ ecall'[h] = c
      /\ \A g \in Hart : g # h => ecall'[g] = ecall[g] /\ Remapping(g)' = Remapping(g)
  BY EcallStep DEF ProxyInv
<1>2. \A g \in Hart : Remapping(g)' = Remapping(g)
  BY <1>1 DEF Remapping
<1>3. BufferInv'
  BY <1>1, <1>2 DEF ProxyInv, BufferInv, BufferOf
<1>4. OpensBelowSysroot'
  BY <1>2 DEF ProxyInv, OpensBelowSysroot
<1> QED
  BY <1>1, <1>3, <1>4 DEF ProxyInv

LEMMA ProxyInvNext == ProxyInv /\ [ProxyNext]_proxyVars => ProxyInv'
<1> SUFFICES ASSUME ProxyInv, [ProxyNext]_proxyVars
             PROVE  ProxyInv'
  OBVIOUS
<1>0. ecall \in [Hart -> EcallRecord] /\ \A h \in Hart : Numbered(ecall[h]) /\ Passed(ecall[h])
  BY DEF ProxyInv, EcallInv
<1>1. CASE UNCHANGED proxyVars
  BY <1>1 DEF proxyVars, ProxyInv, EcallInv, Numbered, Passed, BufferInv, BufferOf, Remapping, OpensBelowSysroot
<1>2. ASSUME NEW h \in Hart, NEW rvnum \in Ecalls, proxy_syscall(h, rvnum)
      PROVE  ProxyInv'
  <2> DEFINE e == rv_to_host(rvnum)
  <2>1. /\ ecall[h].pc = "idle" /\ UNCHANGED << parts, opened, met >> /\ rvnum \in Nat
        /\ ecall[h] \in EcallRecord /\ ~Remapping(h)
    BY <1>0, <1>2, EcallsAreNumbers DEF proxy_syscall, Remapping
  <2>2. CASE rvnum < 0 \/ rvnum > HighestEcall \/ e.name = NoName
    <3> DEFINE c == AbortedAt(ecall[h], rvnum)
    <3>1. ecall' = [ecall EXCEPT ![h].pc = "aborted", ![h].rvnum = rvnum]
      BY <1>2, <2>2 DEF proxy_syscall
    <3>2. ecall' = [ecall EXCEPT ![h] = c]
      BY <1>0, <3>1 DEF AbortedAt
    <3>3. c \in EcallRecord /\ c.pc = "aborted" /\ c.rvnum = rvnum
      BY <2>1, AbortedRecord
    <3>4. \A n \in DOMAIN RiscvCalls \cap DOMAIN HostCalls : RiscvCalls[n] # rvnum
      <4> HIDE DEF e
      <4>1. CASE rvnum > HighestEcall
        BY <2>1, <4>1, HighestEcallIs, ProxyAssumption
      <4>2. CASE e.name = NoName
        BY <2>1, <4>2, EntryOf DEF e
      <4> QED
        BY <2>1, <2>2, <4>1, <4>2
    <3> HIDE DEF c, e
    <3>5. Numbered(c) /\ Passed(c)
      BY <3>3, <3>4 DEF Numbered, Passed
    <3>6. ~Remapping(h)'
      BY <1>0, <3>2, <3>3 DEF Remapping
    <3> QED
      BY <2>1, <3>2, <3>3, <3>5, <3>6, QuietStep
  <2>3. CASE ~(rvnum < 0 \/ rvnum > HighestEcall \/ e.name = NoName)
    <3>1. PICK path \in (IF e.name \in Opens THEN Paths ELSE {NoPath}) :
            ecall' = [ecall EXCEPT ![h] =
              [NoEcall EXCEPT !.rvnum = rvnum, !.sysnum = e.sysnum, !.path = path,
                              !.pc = IF e.name \in Opens THEN "remap" ELSE "host"]]
      BY <1>2, <2>3 DEF proxy_syscall
    <3> DEFINE at == IF e.name \in Opens THEN "remap" ELSE "host"
               c == StartedAs(rvnum, e.sysnum, path, at)
    <3>2. e.sysnum \in Int /\ e.name # NoName
      BY <2>1, <2>3, EntryOf
    <3>3. path \in Paths \cup {NoPath}
      OBVIOUS
    <3>4. /\ c \in EcallRecord /\ c.rvnum = rvnum /\ c.sysnum = e.sysnum /\ c.path = path /\ ~c.buffer
          /\ c.pc = IF e.name \in Opens THEN "remap" ELSE "host"
      <4>1. at \in {"remap", "host"} /\ rvnum \in Int
        BY <2>1
      <4> SUFFICES /\ c \in EcallRecord /\ c.rvnum = rvnum /\ c.sysnum = e.sysnum /\ c.path = path
                   /\ ~c.buffer /\ c.pc = at
        OBVIOUS
      <4> DEFINE sysnum == e.sysnum
      <4>2. sysnum \in Int /\ rvnum \in Int
        BY <3>2, <4>1
      <4> HIDE DEF e, at, sysnum
      <4>3. LET d == StartedAs(rvnum, sysnum, path, at)
            IN  /\ d \in EcallRecord /\ d.rvnum = rvnum /\ d.sysnum = sysnum /\ d.path = path
                /\ ~d.buffer /\ d.pc = at
        BY <3>3, <4>1, <4>2, StartedRecord
      <4> QED
        BY <4>3 DEF sysnum
    <3>5. \E n \in DOMAIN RiscvCalls \cap DOMAIN HostCalls :
            RiscvCalls[n] = rvnum /\ HostCalls[n] = e.sysnum
      BY <2>1, <3>2, EntryOf
    <3>6. Numbered(c)
      <4> HIDE DEF c, e
      <4> QED
        BY <3>4, <3>5 DEF Numbered
    <3>7. NoPath \notin Prefixed
      BY ProxyAssumption
    <3>8. Passed(c) /\ (c.pc \in {"root", "copying", "host"} => c.path \notin Prefixed)
      <4>1. CASE e.name \in Opens
        BY <3>4, <4>1 DEF Passed
      <4>2. CASE e.name \notin Opens
        BY <3>4, <3>7, <4>2 DEF Passed
      <4> QED
        BY <4>1, <4>2
    <3>9. ecall' = [ecall EXCEPT ![h] = c]
      BY <3>1 DEF StartedAs
    <3> HIDE DEF c, e
    <3>10. ~Remapping(h)'
      BY <1>0, <3>8, <3>9 DEF Remapping
    <3> QED
      BY <2>1, <3>4, <3>6, <3>8, <3>9, <3>10, QuietStep
  <2> QED
    BY <2>2, <2>3
<1>3. ASSUME NEW h \in Hart, KeepPath(h)
      PROVE  ProxyInv'
  <2> DEFINE c == [ecall[h] EXCEPT !.pc = "host"]
  <2>1. /\ ecall[h].pc = "remap" /\ ecall[h].path \notin Prefixed
        /\ UNCHANGED << parts, opened, met >> /\ ecall[h] \in EcallRecord /\ ~Remapping(h)
        /\ Numbered(ecall[h]) /\ Passed(ecall[h])
    BY <1>0, <1>3 DEF KeepPath, Remapping
  <2>2. ecall' = [ecall EXCEPT ![h] = c]
    BY <1>0, <1>3 DEF KeepPath
  <2>3. /\ c \in EcallRecord /\ c.pc = "host" /\ c.rvnum = ecall[h].rvnum /\ c.sysnum = ecall[h].sysnum
        /\ c.path = ecall[h].path /\ c.buffer = ecall[h].buffer
    BY <2>1 DEF EcallRecord
  <2> HIDE DEF c
  <2>4. Numbered(c) /\ Passed(c)
    BY <2>1, <2>3 DEF Numbered, Passed
  <2>5. ~Remapping(h)'
    BY <1>0, <2>1, <2>2, <2>3 DEF Remapping
  <2> QED
    BY <2>1, <2>2, <2>3, <2>4, <2>5, QuietStep
<1>4. ASSUME NEW h \in Hart, CopyRoot(h)
      PROVE  ProxyInv'
  <2> DEFINE c == [ecall[h] EXCEPT !.pc = "root", !.buffer = TRUE]
             others == {g \in Hart \ {h} : Remapping(g)}
  <2>1. /\ ecall[h].pc = "remap" /\ ecall[h].path \in Prefixed /\ parts' = {} /\ opened' = opened
        /\ met' = (met \ {h}) \cup others \cup (IF \E g \in Hart \ {h} : Remapping(g) THEN {h} ELSE {})
        /\ ecall[h] \in EcallRecord /\ ~Remapping(h) /\ Numbered(ecall[h])
    BY <1>0, <1>4 DEF CopyRoot, Remapping
  <2>2. ecall' = [ecall EXCEPT ![h] = c]
    BY <1>0, <1>4 DEF CopyRoot
  <2>3. /\ c \in EcallRecord /\ c.pc = "root" /\ c.rvnum = ecall[h].rvnum /\ c.sysnum = ecall[h].sysnum
        /\ c.path = ecall[h].path /\ c.buffer
    BY <2>1 DEF EcallRecord
  <2> HIDE DEF c
  <2>4. Numbered(c) /\ Passed(c)
    BY <2>1, <2>3 DEF Numbered, Passed
  <2>5. /\ EcallInv' /\ ecall'[h] = c
        /\ \A g \in Hart : g # h => ecall'[g] = ecall[g] /\ Remapping(g)' = Remapping(g)
    BY <2>2, <2>3, <2>4, EcallStep DEF ProxyInv
  <2>6. Remapping(h)'
    BY <2>1, <2>3, <2>5 DEF Remapping
  <2>7. \A g, k \in Hart : g # k /\ Remapping(g)' /\ Remapping(k)' => g \in met' /\ k \in met'
    <3>1. \A g \in Hart : g # h /\ Remapping(g) => g \in met' /\ h \in met'
      BY <2>1
    <3>2. \A g, k \in Hart : g # k /\ g # h /\ k # h /\ Remapping(g) /\ Remapping(k) => g \in met' /\ k \in met'
      BY <3>1
    <3> QED
      BY <2>5, <3>1, <3>2
  <2>8. \A g \in Hart : BufferOf(g)'
    <3>1. BufferOf(h)'
      BY <2>1, <2>3, <2>5 DEF BufferOf
    <3>2. \A g \in Hart : g # h /\ Remapping(g)' => g \in met'
      BY <2>5, <2>6, <2>7
    <3> QED
      BY <3>1, <3>2 DEF BufferOf
  <2>9. BufferInv'
    BY <2>1, <2>7, <2>8 DEF BufferInv
  <2>10. OpensBelowSysroot'
    <3>1. \A g \in Hart : g # h /\ g \in met => g \in met'
      BY <2>1
    <3> QED
      BY <2>1, <2>5, <2>6, <3>1 DEF ProxyInv, OpensBelowSysroot
  <2> QED
    BY <2>1, <2>5, <2>9, <2>10 DEF ProxyInv
<1>5. ASSUME NEW h \in Hart, CopyPath(h) \/ CopyEnds(h)
      PROVE  ProxyInv'
  <2>1. PICK next \in {"copying", "host"} :
          /\ ecall' = [ecall EXCEPT ![h].pc = next]
          /\ next = "copying" => ecall[h].pc = "root" /\ parts' = parts \cup {ecall[h].path}
          /\ next = "host" =>
               /\ ecall[h].pc = "copying"
               /\ parts' = {ecall[g].path : g \in {g \in Hart : g = h \/ ecall[g].pc = "copying"}}
    BY <1>5 DEF CopyPath, CopyEnds
  <2> DEFINE c == [ecall[h] EXCEPT !.pc = next]
  <2>2. /\ UNCHANGED << opened, met >> /\ ecall[h] \in EcallRecord /\ ecall[h].path \in Prefixed
        /\ ecall[h].buffer /\ Numbered(ecall[h]) /\ Remapping(h)
    BY <1>0, <1>5 DEF CopyPath, CopyEnds, Passed, Remapping
  <2>3. ecall' = [ecall EXCEPT ![h] = c]
    BY <1>0, <2>1
  <2>4. /\ c \in EcallRecord /\ c.pc = next /\ c.rvnum = ecall[h].rvnum /\ c.sysnum = ecall[h].sysnum
        /\ c.path = ecall[h].path /\ c.buffer = ecall[h].buffer
    BY <2>1, <2>2 DEF EcallRecord
  <2> HIDE DEF c
  <2>5. Numbered(c) /\ Passed(c)
    BY <2>1, <2>2, <2>4 DEF Numbered, Passed
  <2>6. /\ EcallInv' /\ ecall'[h] = c
        /\ \A g \in Hart : g # h => ecall'[g] = ecall[g] /\ Remapping(g)' = Remapping(g)
    BY <2>3, <2>4, <2>5, EcallStep DEF ProxyInv
  <2>7. Remapping(h)' /\ \A g \in Hart : Remapping(g)' = Remapping(g)
    BY <2>1, <2>2, <2>4, <2>6 DEF Remapping
  <2>8. \A g \in Hart : ecall[g].pc = "copying" => ecall[g].path \in Prefixed /\ Remapping(g)
    BY <1>0 DEF Passed, Remapping
  <2>9. parts' \subseteq Prefixed
    BY <2>1, <2>2, <2>8 DEF ProxyInv, BufferInv
  <2>10. h \notin met => \A g \in Hart : g # h => ~Remapping(g)
    BY <2>2 DEF ProxyInv, BufferInv
  <2>11. h \notin met => parts' = {ecall[h].path}
    <3>1. CASE next = "copying"
      <4>1. h \notin met => parts = {}
        BY <2>1, <2>2, <3>1 DEF ProxyInv, BufferInv, BufferOf
      <4> QED
        BY <2>1, <3>1, <4>1
    <3>2. CASE next = "host"
      <4>1. h \notin met => {g \in Hart : g = h \/ ecall[g].pc = "copying"} = {h}
        BY <2>8, <2>10
      <4> QED
        BY <2>1, <3>2, <4>1
    <3> QED
      BY <2>1, <3>1, <3>2
  <2>12. \A g \in Hart : BufferOf(g)'
    <3>1. BufferOf(h)'
      BY <2>1, <2>2, <2>4, <2>6, <2>11 DEF BufferOf
    <3>2. \A g \in Hart : g # h /\ Remapping(g) => g \in met
      BY <2>2 DEF ProxyInv, BufferInv
    <3> QED
      BY <2>2, <2>7, <3>1, <3>2 DEF BufferOf
  <2>13. BufferInv'
    BY <2>2, <2>7, <2>9, <2>12 DEF ProxyInv, BufferInv
  <2>14. OpensBelowSysroot'
    BY <2>2, <2>7 DEF ProxyInv, OpensBelowSysroot
  <2> QED
    BY <2>2, <2>6, <2>13, <2>14 DEF ProxyInv
<1>6. ASSUME NEW h \in Hart, asm_syscall(h)
      PROVE  ProxyInv'
  <2> DEFINE found == [asked |-> ecall[h].path, rooted |-> ecall[h].buffer,
                       parts |-> IF ecall[h].buffer THEN parts ELSE {ecall[h].path}]
  <2>1. /\ ecall[h].pc = "host" /\ UNCHANGED << parts, met >> /\ ecall' = [ecall EXCEPT ![h] = NoEcall]
        /\ opened' = IF ecall[h].path = NoPath THEN opened ELSE [opened EXCEPT ![h] = found]
        /\ Passed(ecall[h])
    BY <1>0, <1>6 DEF asm_syscall
  <2>2. NoEcall \in EcallRecord /\ NoEcall.pc = "idle"
    BY DEF NoEcall, EcallRecord
  <2>3. Numbered(NoEcall) /\ Passed(NoEcall)
    BY <2>2 DEF Numbered, Passed
  <2>4. /\ EcallInv' /\ ecall'[h] = NoEcall
        /\ \A g \in Hart : g # h => ecall'[g] = ecall[g] /\ Remapping(g)' = Remapping(g)
    BY <2>1, <2>2, <2>3, EcallStep DEF ProxyInv
  <2>5. ~Remapping(h)'
    BY <2>2, <2>4 DEF Remapping
  <2>6. BufferInv'
    <3>1. \A g \in Hart : BufferOf(g)'
      BY <2>1, <2>4, <2>5 DEF ProxyInv, BufferInv, BufferOf
    <3> QED
      BY <2>1, <2>4, <2>5, <3>1 DEF ProxyInv, BufferInv
  <2>7. (ecall[h].buffer <=> ecall[h].path \in Prefixed) /\ ecall[h].buffer \in BOOLEAN
    BY <1>0, <2>1 DEF Passed, EcallRecord
  <2>8. ecall[h].path \in Prefixed => parts \subseteq Prefixed /\ (h \in met \/ parts = {ecall[h].path})
    BY <2>1 DEF ProxyInv, BufferInv, BufferOf, Remapping
  <2>9. found \in Opened /\ opened \in [Hart -> Opened]
    <3>1. ecall[h].path \in Paths \cup {NoPath} /\ parts \subseteq Paths /\ ecall[h].buffer \in BOOLEAN
      BY <1>0, ProxyAssumption DEF ProxyInv, BufferInv, EcallRecord
    <3> QED
      BY <3>1 DEF Opened, ProxyInv
  <2>10. /\ found.asked = ecall[h].path /\ found.rooted = ecall[h].buffer
         /\ found.parts = IF ecall[h].buffer THEN parts ELSE {ecall[h].path}
    OBVIOUS
  <2> HIDE DEF found
  <2>11. /\ opened' \in [Hart -> Opened]
         /\ \A g \in Hart : g # h => opened'[g] = opened[g]
         /\ opened'[h] = IF ecall[h].path = NoPath THEN opened[h] ELSE found
    BY <2>1, <2>9
  <2>12. CASE ecall[h].path = NoPath
    <3>1. ~Remapping(h)
      BY <2>12, ProxyAssumption DEF Remapping
    <3> QED
      BY <2>1, <2>4, <2>6, <2>11, <2>12, <3>1 DEF ProxyInv, OpensBelowSysroot
  <2>13. CASE ecall[h].path # NoPath
    <3>1. opened'[h] = found /\ met' = met
      BY <2>1, <2>11, <2>13
    <3>2. \A g \in Hart : g # h => /\ opened'[g] = opened[g]
                                  /\ Remapping(g)' = Remapping(g)
      BY <2>4, <2>11
    <3>3. OpensBelowSysroot'
      BY <2>7, <2>8, <2>10, <3>1, <3>2 DEF ProxyInv, OpensBelowSysroot
    <3> QED
      BY <2>4, <2>6, <2>11, <3>3 DEF ProxyInv
  <2> QED
    BY <2>12, <2>13
<1> QED
  BY <1>1, <1>2, <1>3, <1>4, <1>5, <1>6 DEF ProxyNext

(* However many harts open files at once, and however their copies into    *)
(* the one buffer interleave: a path under /lib or /etc is looked up below *)
(* the sysroot, under its own name unless the hart has met another         *)
(* (riscv_remap()).                                                        *)
THEOREM SysrootHolds == ProxySpec => []OpensBelowSysroot
<1>1. ProxyInit => ProxyInv
  BY ProxyInvInit
<1>2. ProxyInv /\ [ProxyNext]_proxyVars => ProxyInv'
  BY ProxyInvNext
<1>3. ProxyInv => OpensBelowSysroot
  BY DEF ProxyInv
<1> QED
  BY <1>1, <1>2, <1>3, PTL DEF ProxySpec

(* For any two tables of system calls: a call reaches the host under the   *)
(* host's number for its name, and the process is aborted only where the   *)
(* host has none (munge_syscalls.py, proxy_syscall()).                     *)
THEOREM CallsGoByName == ProxySpec => []ProxiedByName
<1>1. ProxyInit => ProxyInv
  BY ProxyInvInit
<1>2. ProxyInv /\ [ProxyNext]_proxyVars => ProxyInv'
  BY ProxyInvNext
<1>3. ProxyInv => ProxiedByName
  BY DEF ProxyInv, EcallInv, Numbered, ProxiedByName
<1> QED
  BY <1>1, <1>2, <1>3, PTL DEF ProxySpec

--------------------------------------------------------------------------------
(* What two globals of softfloat still promise to harts that share them,   *)
(* for any number of harts, exceptions and rounding modes.                 *)

Fpus == [pc : {"idle", "operate", "raise", "fold", "dead"}, kind : Kinds,
         asked : 0 .. 7, used : 0 .. 7, seen : SUBSET Flags, raises : SUBSET Flags]

FpTypes ==
  /\ roundingMode \in 0 .. 7
  /\ exceptionFlags \subseteq Flags /\ raised \subseteq Flags
  /\ fflags \in [Hart -> SUBSET Flags] /\ frm \in [Hart -> 0 .. 7]
  /\ owed \in [Hart -> SUBSET Flags] /\ written \in [Hart -> SUBSET Flags]
  /\ fpu \in [Hart -> Fpus]
  /\ intruded \subseteq Hart /\ together \in BOOLEAN

(* Until it has operated, the mode a hart asked for is still set, or it is *)
(* among those intruded upon.                                              *)
ModeInv ==
  \A h \in Hart : (fpu[h].kind = "rounded" /\ h \notin intruded) =>
    /\ fpu[h].pc = "operate" => roundingMode = fpu[h].asked
    /\ fpu[h].pc \in {"raise", "fold"} => fpu[h].used = fpu[h].asked

(* Flags come from an instruction.                                         *)
SourceInv ==
  /\ exceptionFlags \subseteq raised
  /\ \A h \in Hart : fflags[h] \subseteq written[h] \cup raised
  /\ \A h \in Hart : fpu[h].pc = "raise" => fpu[h].seen \cup fpu[h].raises \subseteq raised

(* One hart at a time loses none: while it is between the reading and the  *)
(* storing of the flags, they and its own make up all; from then on they   *)
(* are in the global, to be folded.                                        *)
AloneInv ==
  /\ (\A h \in Hart : fpu[h].pc # "dead") =>
       \A g, h \in Hart : g = h \/ Idle(g) \/ Idle(h)
  /\ (\A h \in Hart : fpu[h].pc # "raise") => exceptionFlags = raised
  /\ \A h \in Hart :
       /\ fpu[h].pc = "raise" => raised \subseteq fpu[h].seen \cup fpu[h].raises
       /\ fpu[h].pc \in {"idle", "operate", "dead"} => written[h] \cup owed[h] \subseteq fflags[h]
       /\ fpu[h].pc \in {"raise", "fold"} =>
            written[h] \cup owed[h] \subseteq fflags[h] \cup (IF Folds(h) THEN raised ELSE {})
       /\ fpu[h].pc = "fold" => Folds(h)

FpInv == FpTypes /\ ModeInv /\ SourceInv /\ (~together => AloneInv)

LEMMA NoFpIs == NoFp \in Fpus /\ NoFp.pc = "idle" /\ NoFp.kind = "nosfx"
BY DEF NoFp, Fpus, Kinds

LEMMA FpInvInit == FpInit => FpInv
<1> SUFFICES ASSUME FpInit
             PROVE  FpInv
  OBVIOUS
<1>1. \A h \in Hart : fpu[h] = NoFp /\ fpu[h].pc = "idle" /\ fpu[h].kind = "nosfx"
  BY NoFpIs DEF FpInit
<1>2. FpTypes
  <2>1. fpu \in [Hart -> Fpus]
    BY NoFpIs DEF FpInit
  <2>2. {} \in SUBSET Flags
    OBVIOUS
  <2>3. fflags \in [Hart -> SUBSET Flags] /\ owed \in [Hart -> SUBSET Flags] /\ written \in [Hart -> SUBSET Flags]
    BY <2>2 DEF FpInit
  <2>4. roundingMode \in 0 .. 7 /\ frm \in [Hart -> 0 .. 7]
    BY DEF FpInit
  <2>5. exceptionFlags \subseteq Flags /\ raised \subseteq Flags /\ intruded \subseteq Hart /\ together \in BOOLEAN
    BY DEF FpInit
  <2> QED
    BY <2>1, <2>3, <2>4, <2>5 DEF FpTypes
<1>3. ModeInv
  BY <1>1 DEF ModeInv
<1>4. SourceInv
  BY <1>1 DEF FpInit, SourceInv
<1>5. AloneInv
  BY <1>1 DEF FpInit, AloneInv, Idle
<1> QED
  BY <1>2, <1>3, <1>4, <1>5 DEF FpInv

(* h goes on to state c of its instruction.                                *)
LEMMA FpuMoves ==
  ASSUME FpInv, NEW h \in Hart, NEW c \in Fpus, fpu' = [fpu EXCEPT ![h] = c]
  PROVE  /\ fpu' \in [Hart -> Fpus]
         /\ fpu'[h] = c
         /\ \A g \in Hart \ {h} : fpu'[g] = fpu[g]
BY DEF FpInv, FpTypes

(* An instruction begins, after srm or without it.                         *)
LEMMA FpBegins ==
  ASSUME FpInv, NEW h \in Hart, NEW c \in Fpus, Idle(h), Enter(h),
         fpu' = [fpu EXCEPT ![h] = c], c.pc = "operate",
         \A g \in Hart : fpu[g].pc # "dead",
         UNCHANGED << exceptionFlags, fflags, frm, owed, written, raised >>,
         roundingMode' \in 0 .. 7, intruded' \subseteq Hart,
         c.kind = "rounded" => roundingMode' = c.asked,
         \A g \in Hart \ {h} : g \notin intruded' =>
           /\ g \notin intruded
           /\ fpu[g].pc = "operate" /\ fpu[g].kind = "rounded" => roundingMode' = roundingMode
  PROVE  FpInv'
<1>1. fpu' \in [Hart -> Fpus] /\ fpu'[h] = c /\ \A g \in Hart \ {h} : fpu'[g] = fpu[g]
  BY FpuMoves
<1>2. together' \in BOOLEAN /\ (~together' => ~together /\ \A g \in Hart : Idle(g))
  BY DEF Enter, FpInv, FpTypes
<1>3. FpTypes'
  BY <1>1, <1>2 DEF FpInv, FpTypes
<1>4. ModeInv'
  <2>1. \A g \in Hart \ {h} : (fpu'[g].kind = "rounded" /\ g \notin intruded') =>
          /\ fpu'[g].pc = "operate" => roundingMode' = fpu'[g].asked
          /\ fpu'[g].pc \in {"raise", "fold"} => fpu'[g].used = fpu'[g].asked
    BY <1>1 DEF FpInv, ModeInv
  <2> QED
    BY <2>1, <1>1 DEF ModeInv
<1>5. SourceInv'
  BY <1>1 DEF FpInv, SourceInv
<1>6. ~together' => AloneInv'
  BY <1>1, <1>2 DEF FpInv, AloneInv, Idle, Folds
<1> QED
  BY <1>3, <1>4, <1>5, <1>6 DEF FpInv

LEMMA FpInvSetMode ==
  ASSUME FpInv, NEW h \in Hart, \A g \in Hart : fpu[g].pc # "dead", SetMode(h)
  PROVE  FpInv'
<1>1. PICK rm \in RmFields, kind \in {"rounded", "given"} :
        /\ RM(h, rm) =< 4
        /\ roundingMode' = RM(h, rm)
        /\ fpu' = [fpu EXCEPT ![h] =
                     [NoFp EXCEPT !.pc = "operate", !.kind = kind, !.asked = RM(h, rm)]]
  BY DEF SetMode
<1> DEFINE c == [NoFp EXCEPT !.pc = "operate", !.kind = kind, !.asked = RM(h, rm)]
<1>2. RM(h, rm) \in 0 .. 7
  BY FpAssumption DEF RM, FpInv, FpTypes
<1>3. c \in Fpus /\ c.pc = "operate" /\ c.asked = RM(h, rm)
  BY <1>2, NoFpIs DEF Fpus, Kinds
<1>4. intruded' = (intruded \ {h}) \cup {g \in Hart \ {h} : fpu[g].pc = "operate" /\ fpu[g].kind = "rounded"}
      /\ Idle(h) /\ Enter(h) /\ UNCHANGED << exceptionFlags, fflags, frm, owed, written, raised >>
  BY DEF SetMode
<1>5. intruded' \subseteq Hart
  BY <1>4 DEF FpInv, FpTypes
<1>6. \A g \in Hart \ {h} : g \notin intruded' =>
        g \notin intruded /\ ~(fpu[g].pc = "operate" /\ fpu[g].kind = "rounded")
  BY <1>4
<1>7. fpu' = [fpu EXCEPT ![h] = c]
  BY <1>1
<1> HIDE DEF c
<1> QED
  BY <1>1, <1>2, <1>3, <1>4, <1>5, <1>6, <1>7, FpBegins

LEMMA FpInvStartWithoutMode ==
  ASSUME FpInv, NEW h \in Hart, \A g \in Hart : fpu[g].pc # "dead", StartWithoutMode(h)
  PROVE  FpInv'
<1>1. \E c \in Fpus : /\ c.pc = "operate" /\ c.kind # "rounded"
                     /\ fpu' = [fpu EXCEPT ![h] = c]
  <2>1. ASSUME NEW kind \in {"nosrm", "nosfx"}
        PROVE  LET c == [NoFp EXCEPT !.pc = "operate", !.kind = kind]
               IN  c \in Fpus /\ c.pc = "operate" /\ c.kind # "rounded"
    BY NoFpIs DEF Fpus, Kinds
  <2>2. ASSUME NEW rm \in RmFields
        PROVE  LET c == [NoFp EXCEPT !.pc = "operate", !.kind = "given", !.asked = RM(h, rm)]
               IN  c \in Fpus /\ c.pc = "operate" /\ c.kind # "rounded"
    <3>1. RM(h, rm) \in 0 .. 7
      BY FpAssumption DEF RM, FpInv, FpTypes
    <3> QED
      BY <3>1, NoFpIs DEF Fpus, Kinds
  <2> QED
    BY <2>1, <2>2 DEF StartWithoutMode
<1>2. PICK c \in Fpus : /\ c.pc = "operate" /\ c.kind # "rounded"
                       /\ fpu' = [fpu EXCEPT ![h] = c]
  BY <1>1
<1>3. Idle(h) /\ Enter(h)
      /\ UNCHANGED << roundingMode, exceptionFlags, fflags, frm, intruded, owed, written, raised >>
  BY DEF StartWithoutMode
<1>4. roundingMode' \in 0 .. 7 /\ intruded' \subseteq Hart
  BY <1>3 DEF FpInv, FpTypes
<1> QED
  BY <1>2, <1>3, <1>4, FpBegins

LEMMA FpInvIllegalMode ==
  ASSUME FpInv, NEW h \in Hart, IllegalMode(h)
  PROVE  FpInv'
<1> DEFINE c == [fpu[h] EXCEPT !.pc = "dead"]
<1>1. fpu[h] \in Fpus /\ fpu[h].pc = "idle"
  BY DEF FpInv, FpTypes, IllegalMode, Idle
<1>2. c \in Fpus /\ c.pc = "dead" /\ c.kind = fpu[h].kind
  BY <1>1 DEF Fpus
<1>3. fpu' = [fpu EXCEPT ![h] = c]
      /\ UNCHANGED << roundingMode, exceptionFlags, fflags, frm, intruded, owed, written, raised, together >>
  BY DEF IllegalMode, FpInv, FpTypes
<1> HIDE DEF c
<1>4. fpu' \in [Hart -> Fpus] /\ fpu'[h] = c /\ \A g \in Hart \ {h} : fpu'[g] = fpu[g]
  BY <1>2, <1>3, FpuMoves
<1>5. FpTypes'
  BY <1>3, <1>4 DEF FpInv, FpTypes
<1>6. ModeInv'
  BY <1>2, <1>3, <1>4 DEF FpInv, ModeInv
<1>7. SourceInv'
  BY <1>2, <1>3, <1>4 DEF FpInv, SourceInv
<1>8. ~together' => AloneInv'
  BY <1>1, <1>2, <1>3, <1>4 DEF FpInv, AloneInv, Idle, Folds
<1> QED
  BY <1>5, <1>6, <1>7, <1>8 DEF FpInv

LEMMA FpInvOperate ==
  ASSUME FpInv, NEW h \in Hart, \A g \in Hart : fpu[g].pc # "dead", Operate(h)
  PROVE  FpInv'
<1>1. PICK flags \in SUBSET Flags :
       /\ fpu' = [fpu EXCEPT ![h] =
                    IF flags # {}
                    THEN [@ EXCEPT !.pc = "raise", !.used = Mode(h),
                                   !.raises = flags, !.seen = exceptionFlags]
                    ELSE IF Folds(h) THEN [@ EXCEPT !.pc = "fold", !.used = Mode(h)]
                    ELSE NoFp]
       /\ raised' = raised \cup flags
       /\ owed' = IF Folds(h) THEN [owed EXCEPT ![h] = @ \cup flags] ELSE owed
  BY DEF Operate
<1>2. fpu[h] \in Fpus /\ fpu[h].pc = "operate" /\ exceptionFlags \subseteq Flags /\ Mode(h) \in 0 .. 7
      /\ (fpu[h].kind = "rounded" => Mode(h) = roundingMode)
      /\ UNCHANGED << roundingMode, exceptionFlags, fflags, frm, intruded, written, together >>
  BY DEF Operate, Mode, FpInv, FpTypes, Fpus
<1> DEFINE c == IF flags # {}
                THEN [fpu[h] EXCEPT !.pc = "raise", !.used = Mode(h),
                                    !.raises = flags, !.seen = exceptionFlags]
                ELSE IF Folds(h) THEN [fpu[h] EXCEPT !.pc = "fold", !.used = Mode(h)]
                ELSE NoFp
<1>3. fpu' = [fpu EXCEPT ![h] = c]
  BY <1>1 DEF FpInv, FpTypes
<1>4. /\ c \in Fpus
      /\ flags # {} => /\ c.pc = "raise" /\ c.seen = exceptionFlags /\ c.raises = flags
                       /\ c.kind = fpu[h].kind
      /\ flags = {} => c.pc = IF Folds(h) THEN "fold" ELSE "idle"
      /\ flags = {} /\ Folds(h) => c.kind = fpu[h].kind
      /\ c.kind = "rounded" => /\ fpu[h].kind = "rounded" /\ c.used = roundingMode
                               /\ c.asked = fpu[h].asked
  <2>1. CASE flags # {}
    BY <1>2, <2>1 DEF Fpus
  <2>2. CASE flags = {} /\ Folds(h)
    BY <1>2, <2>2 DEF Fpus
  <2>3. CASE flags = {} /\ ~Folds(h)
    BY <2>3, NoFpIs
  <2> QED
    BY <2>1, <2>2, <2>3
<1> HIDE DEF c
<1>5. fpu' \in [Hart -> Fpus] /\ fpu'[h] = c /\ \A g \in Hart \ {h} : fpu'[g] = fpu[g]
  BY <1>3, <1>4, FpuMoves
<1>6. /\ owed' \in [Hart -> SUBSET Flags]
      /\ owed'[h] = IF Folds(h) THEN owed[h] \cup flags ELSE owed[h]
      /\ \A g \in Hart \ {h} : owed'[g] = owed[g]
  BY <1>1 DEF FpInv, FpTypes
<1>7. FpTypes'
  BY <1>1, <1>2, <1>5, <1>6 DEF FpInv, FpTypes
<1>8. ModeInv'
  <2>1. (c.kind = "rounded" /\ h \notin intruded) => c.used = c.asked /\ c.pc # "operate"
    BY <1>2, <1>4 DEF FpInv, ModeInv
  <2> QED
    BY <2>1, <1>2, <1>5 DEF FpInv, ModeInv
<1>9. SourceInv'
  BY <1>1, <1>2, <1>4, <1>5 DEF FpInv, SourceInv
<1>10. ASSUME ~together
       PROVE  AloneInv'
  <2>1. AloneInv /\ \A g \in Hart \ {h} : Idle(g)
    BY <1>2, <1>10 DEF FpInv, AloneInv, Idle
  <2>2. exceptionFlags = raised /\ written[h] \cup owed[h] \subseteq fflags[h]
    BY <2>1, <1>2 DEF AloneInv, Idle
  <2>3. \A g \in Hart \ {h} : fpu'[g].pc = "idle" /\ written'[g] \cup owed'[g] \subseteq fflags'[g]
    BY <2>1, <1>2, <1>5, <1>6 DEF AloneInv, Idle
  <2>4. (fpu'[h].pc = "raise" \/ fpu'[h].pc = "fold") => Folds(h)' = Folds(h)
    BY <1>4, <1>5 DEF Folds
  <2>5. CASE flags # {}
    <3>1. /\ fpu'[h].pc = "raise"
          /\ raised' \subseteq fpu'[h].seen \cup fpu'[h].raises
      BY <2>2, <2>5, <1>1, <1>4, <1>5
    <3>2. written'[h] \cup owed'[h] \subseteq fflags'[h] \cup (IF Folds(h)' THEN raised' ELSE {})
      BY <2>2, <2>4, <3>1, <1>1, <1>2, <1>6
    <3> QED
      BY <2>3, <3>1, <3>2 DEF AloneInv, Idle
  <2>6. CASE flags = {}
    <3>1. raised' = raised /\ exceptionFlags' = raised' /\ owed'[h] = owed[h]
      BY <2>2, <2>6, <1>1, <1>2, <1>6
    <3>2. fpu'[h].pc \in {"fold", "idle"} /\ (fpu'[h].pc = "fold" => Folds(h)')
      BY <2>4, <2>6, <1>4, <1>5
    <3>3. written'[h] \cup owed'[h] \subseteq fflags'[h]
      BY <2>2, <3>1, <1>2
    <3> QED
      BY <2>3, <3>1, <3>2, <3>3 DEF AloneInv, Idle
  <2> QED
    BY <2>5, <2>6
<1> QED
  BY <1>2, <1>7, <1>8, <1>9, <1>10 DEF FpInv

LEMMA FpInvRaiseFlags ==
  ASSUME FpInv, NEW h \in Hart, \A g \in Hart : fpu[g].pc # "dead", RaiseFlags(h)
  PROVE  FpInv'
<1> DEFINE c == IF Folds(h) THEN [fpu[h] EXCEPT !.pc = "fold", !.seen = {}] ELSE NoFp
<1>1. /\ fpu[h] \in Fpus /\ fpu[h].pc = "raise"
      /\ exceptionFlags' = fpu[h].seen \cup fpu[h].raises
      /\ UNCHANGED << roundingMode, fflags, frm, intruded, owed, written, raised, together >>
  BY DEF RaiseFlags, FpInv, FpTypes
<1>2. fpu' = [fpu EXCEPT ![h] = c]
  BY DEF RaiseFlags, FpInv, FpTypes
<1>3. /\ c \in Fpus
      /\ c.pc = IF Folds(h) THEN "fold" ELSE "idle"
      /\ Folds(h) => c.kind = fpu[h].kind /\ c.used = fpu[h].used /\ c.asked = fpu[h].asked
      /\ ~Folds(h) => c.kind = "nosfx"
  <2>1. CASE Folds(h)
    BY <1>1, <2>1 DEF Fpus
  <2>2. CASE ~Folds(h)
    BY <2>2, NoFpIs
  <2> QED
    BY <2>1, <2>2
<1> HIDE DEF c
<1>4. fpu' \in [Hart -> Fpus] /\ fpu'[h] = c /\ \A g \in Hart \ {h} : fpu'[g] = fpu[g]
  BY <1>2, <1>3, FpuMoves
<1>5. FpTypes'
  <2>1. exceptionFlags' \subseteq Flags
    BY <1>1 DEF Fpus
  <2> QED
    BY <1>1, <1>4, <2>1 DEF FpInv, FpTypes
<1>6. ModeInv'
  BY <1>1, <1>3, <1>4 DEF FpInv, ModeInv
<1>7. SourceInv'
  <2>1. fpu'[h].pc # "raise" /\ exceptionFlags' \subseteq raised'
    BY <1>1, <1>3, <1>4 DEF FpInv, SourceInv
  <2> QED
    BY <2>1, <1>1, <1>4 DEF FpInv, SourceInv
<1>8. ASSUME ~together
      PROVE  AloneInv'
  <2>1. AloneInv /\ \A g \in Hart \ {h} : Idle(g)
    BY <1>1, <1>8 DEF FpInv, AloneInv, Idle
  <2>2. exceptionFlags' = raised'
    BY <2>1, <1>1 DEF AloneInv, FpInv, SourceInv
  <2>3. \A g \in Hart \ {h} : fpu'[g].pc = "idle" /\ written'[g] \cup owed'[g] \subseteq fflags'[g]
    BY <2>1, <1>1, <1>4 DEF AloneInv, Idle
  <2>4. written[h] \cup owed[h] \subseteq fflags[h] \cup (IF Folds(h) THEN raised ELSE {})
    BY <2>1, <1>1 DEF AloneInv
  <2>5. CASE Folds(h)
    <3>1. fpu'[h].pc = "fold" /\ Folds(h)'
      BY <2>5, <1>3, <1>4 DEF Folds
    <3>2. written'[h] \cup owed'[h] \subseteq fflags'[h] \cup (IF Folds(h)' THEN raised' ELSE {})
      BY <2>4, <2>5, <3>1, <1>1
    <3> QED
      BY <2>2, <2>3, <3>1, <3>2 DEF AloneInv, Idle
  <2>6. CASE ~Folds(h)
    <3>1. fpu'[h].pc = "idle" /\ written'[h] \cup owed'[h] \subseteq fflags'[h]
      BY <2>4, <2>6, <1>1, <1>3, <1>4
    <3> QED
      BY <2>2, <2>3, <3>1 DEF AloneInv, Idle
  <2> QED
    BY <2>5, <2>6
<1> QED
  BY <1>1, <1>5, <1>6, <1>7, <1>8 DEF FpInv

LEMMA FpInvFoldFlags ==
  ASSUME FpInv, NEW h \in Hart, \A g \in Hart : fpu[g].pc # "dead", FoldFlags(h)
  PROVE  FpInv'
<1>1. /\ fpu[h].pc = "fold" /\ fpu' = [fpu EXCEPT ![h] = NoFp] /\ intruded' = intruded \ {h}
      /\ fflags' = [fflags EXCEPT ![h] = @ \cup exceptionFlags]
      /\ UNCHANGED << roundingMode, exceptionFlags, frm, owed, written, raised, together >>
  BY DEF FoldFlags
<1>2. fpu' \in [Hart -> Fpus] /\ fpu'[h] = NoFp /\ \A g \in Hart \ {h} : fpu'[g] = fpu[g]
  BY <1>1, NoFpIs, FpuMoves
<1>3. /\ fflags' \in [Hart -> SUBSET Flags] /\ fflags'[h] = fflags[h] \cup exceptionFlags
      /\ \A g \in Hart \ {h} : fflags'[g] = fflags[g]
  BY <1>1 DEF FpInv, FpTypes
<1>4. FpTypes'
  BY <1>1, <1>2, <1>3 DEF FpInv, FpTypes
<1>5. ModeInv'
  BY <1>1, <1>2, NoFpIs DEF FpInv, ModeInv
<1>6. SourceInv'
  BY <1>1, <1>2, <1>3, NoFpIs DEF FpInv, SourceInv
<1>7. ASSUME ~together
      PROVE  AloneInv'
  <2>1. AloneInv /\ \A g \in Hart \ {h} : Idle(g)
    BY <1>1, <1>7 DEF FpInv, AloneInv, Idle
  <2>2. exceptionFlags = raised
    BY <2>1, <1>1 DEF AloneInv, Idle
  <2>3. written[h] \cup owed[h] \subseteq fflags'[h]
    BY <2>1, <2>2, <1>1, <1>3 DEF AloneInv
  <2>4. \A g \in Hart : fpu'[g].pc = "idle" /\ written'[g] \cup owed'[g] \subseteq fflags'[g]
    BY <2>1, <2>3, <1>1, <1>2, <1>3, NoFpIs DEF AloneInv, Idle
  <2> QED
    BY <2>2, <2>4, <1>1 DEF AloneInv, Idle
<1> QED
  BY <1>1, <1>4, <1>5, <1>6, <1>7 DEF FpInv

LEMMA FpInvSetFflags ==
  ASSUME FpInv, NEW h \in Hart, SetFflags(h)
  PROVE  FpInv'
<1>1. PICK val \in FflagsValues :
        fflags' = [fflags EXCEPT ![h] = val] /\ written' = [written EXCEPT ![h] = val]
  BY DEF SetFflags
<1>2. /\ fpu[h].pc = "idle" /\ owed' = [owed EXCEPT ![h] = {}] /\ val \subseteq Flags
      /\ UNCHANGED << roundingMode, exceptionFlags, frm, fpu, intruded, raised, together >>
  BY FpAssumption DEF SetFflags, Idle
<1>3. /\ fflags'[h] = val /\ written'[h] = val /\ owed'[h] = {}
      /\ \A g \in Hart \ {h} : fflags'[g] = fflags[g] /\ written'[g] = written[g] /\ owed'[g] = owed[g]
  BY <1>1, <1>2 DEF FpInv, FpTypes
<1>4. FpTypes'
  BY <1>1, <1>2 DEF FpInv, FpTypes
<1>5. ModeInv'
  BY <1>2 DEF FpInv, ModeInv
<1>6. SourceInv'
  BY <1>2, <1>3 DEF FpInv, SourceInv
<1>7. ~together' => AloneInv'
  BY <1>2, <1>3 DEF FpInv, AloneInv, Idle, Folds
<1> QED
  BY <1>4, <1>5, <1>6, <1>7 DEF FpInv

LEMMA FpInvNext == FpInv /\ [FpNext]_fpVars => FpInv'
<1> SUFFICES ASSUME FpInv, [FpNext]_fpVars
             PROVE  FpInv'
  OBVIOUS
<1>1. CASE UNCHANGED fpVars
  BY <1>1 DEF fpVars, FpInv, FpTypes, ModeInv, SourceInv, AloneInv, Idle, Folds
<1>2. CASE FpNext
  <2>1. PICK h \in Hart :
          \/ SetMode(h) \/ IllegalMode(h) \/ StartWithoutMode(h)
          \/ Operate(h) \/ RaiseFlags(h) \/ FoldFlags(h)
          \/ SetFflags(h) \/ SetFrm(h)
    BY <1>2 DEF FpNext
  <2>2. \A g \in Hart : fpu[g].pc # "dead"
    BY <1>2 DEF FpNext
  <2>3. CASE SetMode(h)
    BY <2>2, <2>3, FpInvSetMode
  <2>4. CASE IllegalMode(h)
    BY <2>4, FpInvIllegalMode
  <2>5. CASE StartWithoutMode(h)
    BY <2>2, <2>5, FpInvStartWithoutMode
  <2>6. CASE Operate(h)
    BY <2>2, <2>6, FpInvOperate
  <2>7. CASE RaiseFlags(h)
    BY <2>2, <2>7, FpInvRaiseFlags
  <2>8. CASE FoldFlags(h)
    BY <2>2, <2>8, FpInvFoldFlags
  <2>9. CASE SetFflags(h)
    BY <2>9, FpInvSetFflags
  <2>10. CASE SetFrm(h)
    <3>1. /\ frm' \in [Hart -> 0 .. 7]
          /\ UNCHANGED << roundingMode, exceptionFlags, fflags, fpu,
                          intruded, owed, written, raised, together >>
      BY <2>10, FpAssumption DEF SetFrm, FpInv, FpTypes
    <3> QED
      BY <3>1 DEF FpInv, FpTypes, ModeInv, SourceInv, AloneInv, Idle, Folds
  <2> QED
    BY <2>1, <2>3, <2>4, <2>5, <2>6, <2>7, <2>8, <2>9, <2>10
<1> QED
  BY <1>1, <1>2

(* The inductive invariant of the two globals and the harts' own registers *)
(* (arithmetic.h, hart.cc set_csr()).                                      *)
THEOREM FpInvariant == FpSpec => []FpInv
<1> QED
  BY FpInvInit, FpInvNext, PTL DEF FpSpec

(* An instruction that sets the rounding mode is rounded by it, unless     *)
(* another hart set its own in between (arithmetic.h srm).                 *)
THEOREM RoundedAsAsked == FpSpec => []RoundsAsAsked
<1>1. FpInv => RoundsAsAsked
  BY DEF FpInv, ModeInv, RoundsAsAsked
<1> QED
  BY <1>1, FpInvariant, PTL

(* No exception flag is invented, and none is lost as long as harts do not *)
(* compute at once (arithmetic.h sfx, softfloat_raiseFlags.c).             *)
THEOREM FlagsAccrueAlways == FpSpec => []FlagsAccrue
<1>1. FpInv => FlagsAccrue
  <2> SUFFICES ASSUME FpInv
               PROVE  FlagsAccrue
    OBVIOUS
  <2>1. SourceInv
    BY DEF FpInv
  <2>2. ASSUME ~together
        PROVE  /\ \A h \in Hart : Idle(h) => written[h] \cup owed[h] \subseteq fflags[h]
               /\ (\A h \in Hart : Idle(h)) => exceptionFlags = raised
    BY <2>2 DEF FpInv, AloneInv, Idle
  <2> QED
    BY <2>1, <2>2 DEF SourceInv, FlagsAccrue
<1> QED
  BY <1>1, FpInvariant, PTL
================================================================================
