--------------------------- MODULE BlockInterpProofs ---------------------------
(* Proofs about BlockInterp.                                                *)
EXTENDS BlockInterp, TLAPS

(* A bucket is found for every address (hashfunction()).                    *)
LEMMA HashInRange == ASSUME NEW a \in Nat PROVE hashfunction(a) \in Buckets
  BY CacheAssumption DEF hashfunction, Buckets

(* A count below 2^7 survives the header's bit field.                       *)
LEMMA CountSurvives ==
  ASSUME NEW c \in Nat, c < MaxSlots
  PROVE  c % CountMod = c
  BY BlockAssumption

LEMMA LengthInRange ==
  ASSUME NEW c \in Int
  PROVE  c % LengthMod \in 0 .. LengthMod - 1
  BY BlockAssumption

(* The fields a word's tag stands for.                                      *)
LEMMA WordFields ==
  ASSUME NEW w \in Word
  PROVE  /\ w.tag = "addr" => w.addr \in Nat
         /\ w.tag = "meta" => /\ w.conditional \in BOOLEAN
                              /\ w.count \in 0 .. CountMod - 1
                              /\ w.link \in 0 .. Wild
         /\ w.tag = "insn" => w.insn \in Insn /\ w.at \in Nat
         /\ w.tag = "link" => w.to \in Slots
  BY DEF Word

(* The words add() writes are words.                                        *)
LEMMA WordsTyped ==
  /\ \A a \in Nat : AddrWord(a) \in Word
  /\ \A insn \in Insn, a \in Nat : InsnWord(insn, a) \in Word
  /\ \A q \in Slots : LinkWord(q) \in Word
  /\ Junk \in Word
  BY DEF Word, AddrWord, InsnWord, LinkWord, Junk

LEMMA InsnTyped ==
  ASSUME NEW insn \in Insn
  PROVE  /\ insn.class \in Class /\ insn.len \in {2, 4} /\ insn.dest \subseteq Nat
         /\ Predecode(insn) \in Insn
         /\ Predecode(insn).len = insn.len
         /\ stop_before(Predecode(insn)) = stop_before(insn)
         /\ stop_after(Predecode(insn)) = stop_after(insn)
         /\ conditional(Predecode(insn)) = conditional(insn)
  BY DEF Insn, Class, Predecode, stop_before, stop_after, conditional

--------------------------------------------------------------------------------
(* Before anything has run the cache is empty.                              *)
LEMMA InitSound == Init => IInv
<1> SUFFICES ASSUME Init PROVE Sound
  BY DEF IInv, Init, Stored
<1> USE CacheAssumption, BlockAssumption, CodeAssumption DEF Init, TcacheInit, Mismatch
<1>1. TypeOK
  <2>1. flushed \in BOOLEAN
    BY Zenon
  <2> QED BY <2>1, WordsTyped DEF TypeOK, Slots, Buckets, Wild, Mapped
<1>2. Heads = {}
  BY DEF Heads
<1>3. WellFormed /\ Chains
  BY <1>2 DEF WellFormed, Chains, Pointed, Pointer, Chained, ChainLink, Unique, Buckets
<1>4. Placed /\ Stops
  BY DEF Placed, TargetLive, Stops
<1> QED BY <1>1, <1>3, <1>4 DEF Sound

(* Damage is for good.                                                      *)
LEMMA DamageStays ==
  ASSUME [Next]_vars
  PROVE  (Undamaged' => Undamaged) /\ (Stored => Stored')
<1>1. damage \subseteq damage'
  BY DEF Next, vars, interpVars, PredictHit, PredictNull, PredictMiss, FindHit,
         FindNext, FindMiss, FindWild, DecodeFault, DecodeStop, Decode, RejectSC, AddTooBig,
         AddWild, AddBlock, StoreLink, ExecWild, Exec
<1> QED BY <1>1 DEF Undamaged, Stored

(* A step that leaves the cache alone leaves its blocks and chains alone.   *)
LEMMA CacheFrame ==
  ASSUME UNCHANGED tcacheVars, damage' = damage
  PROVE  /\ Heads' = Heads
         /\ WellFormed' = WellFormed
         /\ Chains' = Chains
<1>0. slot' = slot /\ table' = table /\ size' = size
  BY DEF tcacheVars
<1>1. Heads' = Heads
  BY <1>0 DEF Heads
<1>2. WellFormed' = WellFormed
  BY <1>0, <1>1 DEF WellFormed, BlockWellFormed, Disjoint, Count, InsnSlots, LastSlot, LinkSlots, End,
     Translates, Follows
<1>3. Chained' = Chained
  BY <1>0, <1>1 DEF Chained, ChainLink
<1>4. Unique' = Unique
  BY <1>0, <1>1 DEF Unique
<1>5. Pointed' = Pointed /\ Undamaged' = Undamaged
  BY <1>0, <1>1 DEF Pointed, Pointer, Wild, Undamaged
<1>6. Chains' = Chains
  BY <1>3, <1>4, <1>5 DEF Chains
<1> QED BY <1>1, <1>2, <1>6

(* What is used of a block of the cache.                                    *)
LEMMA BlockFacts ==
  ASSUME TypeOK, WellFormed, NEW p \in Heads
  PROVE  /\ p \in Nat /\ p >= 2 /\ p + 1 < size /\ p \in Slots /\ p + 1 \in Slots
         /\ slot[p].tag = "addr" /\ slot[p].addr \in Nat
         /\ slot[p + 1].tag = "meta"
         /\ slot[p + 1].conditional \in BOOLEAN
         /\ slot[p + 1].link \in 0 .. Wild
         /\ Count(p) \in Nat /\ Count(p) >= 1
         /\ LastSlot(p) \in Nat /\ LastSlot(p) = p + 1 + Count(p)
         /\ End(p) = LastSlot(p) + (IF slot[p + 1].conditional THEN 3 ELSE 2)
         /\ End(p) <= size /\ size \in Nat /\ size <= TcacheSize
         /\ LinkSlots(p) \subseteq Slots /\ InsnSlots(p) \subseteq Slots
<1> USE CacheAssumption
<1>1. p \in Nat /\ p >= 2 /\ slot[p].tag = "addr" /\ size \in Nat /\ size <= TcacheSize
  BY DEF Heads, TypeOK, Slots
<1>2. p + 1 < size /\ slot[p + 1].tag = "meta" /\ Count(p) >= 1 /\ End(p) <= size
  BY DEF WellFormed, BlockWellFormed
<1>3. p \in Slots /\ p + 1 \in Slots
  BY <1>1, <1>2 DEF Slots
<1>4. slot[p] \in Word /\ slot[p + 1] \in Word
  BY <1>3 DEF TypeOK
<1>5. /\ slot[p].addr \in Nat
      /\ slot[p + 1].conditional \in BOOLEAN
      /\ slot[p + 1].link \in 0 .. Wild
      /\ Count(p) \in Nat
  BY <1>1, <1>2, <1>4, WordFields, BlockAssumption DEF Count
<1>6. /\ LastSlot(p) \in Nat /\ LastSlot(p) = p + 1 + Count(p)
      /\ End(p) = LastSlot(p) + (IF slot[p + 1].conditional THEN 3 ELSE 2)
  BY <1>1, <1>5 DEF LastSlot, End
<1>7. InsnSlots(p) \subseteq Slots
  BY <1>1, <1>2, <1>5, <1>6 DEF InsnSlots, Slots
<1>8. LinkSlots(p) \subseteq Slots
  BY <1>1, <1>2, <1>5, <1>6 DEF LinkSlots, Slots
<1> QED BY <1>1, <1>2, <1>3, <1>5, <1>6, <1>7, <1>8

(* What is used of an instruction of a block.                               *)
LEMMA InsnFacts ==
  ASSUME TypeOK, WellFormed, NEW p \in Heads, NEW k \in InsnSlots(p)
  PROVE  /\ k \in Nat /\ k \in Slots /\ p + 2 <= k /\ k <= LastSlot(p)
         /\ slot[k].tag = "insn" /\ slot[k].at \in Mapped /\ slot[k].at \in Nat
         /\ slot[k].insn = Predecode(Code[slot[k].at]) /\ slot[k].insn \in Insn
         /\ k # LastSlot(p) => /\ k + 1 \in InsnSlots(p) /\ Follows(k)
                               /\ ~stop_after(slot[k].insn)
<1>1. k \in Nat /\ k \in Slots /\ p + 2 <= k /\ k <= LastSlot(p)
  BY BlockFacts DEF InsnSlots
<1>2. BlockWellFormed(p)
  BY DEF WellFormed
<1>3. /\ slot[k].tag = "insn" /\ slot[k].at \in Mapped
      /\ slot[k].insn = Predecode(Code[slot[k].at])
  BY <1>2 DEF BlockWellFormed, Translates
<1>4. slot[k].insn \in Insn /\ slot[k].at \in Nat
  BY <1>1, <1>3, WordFields DEF TypeOK
<1>5. k # LastSlot(p) => /\ k + 1 \in InsnSlots(p) /\ Follows(k)
                         /\ ~stop_after(slot[k].insn)
  BY <1>1, <1>2, BlockFacts DEF BlockWellFormed, InsnSlots
<1> QED BY <1>1, <1>3, <1>4, <1>5

(* A link of a block leads to a block or nowhere.                           *)
LEMMA LinkFacts ==
  ASSUME TypeOK, WellFormed, NEW p \in Heads, NEW k \in LinkSlots(p)
  PROVE  k \in Slots /\ slot[k].tag = "link" /\ slot[k].to \in Heads \cup {Mismatch}
  BY BlockFacts DEF WellFormed, BlockWellFormed

--------------------------------------------------------------------------------
(* One lemma for each action that leaves the cache alone.                   *)

(* The link before the pc's block is a block or nowhere.                    *)
LEMMA LinkedFact ==
  ASSUME Sound, at = "top"
  PROVE  Linked \in Heads \cup {Mismatch} /\ Linked \in Slots
<1>1. CASE target = Mismatch /\ mismatch_target = Mismatch
  BY <1>1, CacheAssumption DEF Linked, Mismatch, Slots
<1>2. CASE \E p \in Heads : target \in LinkSlots(p)
  <2>1. PICK p \in Heads : target \in LinkSlots(p)
    BY <1>2
  <2>2. slot[target].to \in Heads \cup {Mismatch}
    BY <2>1, LinkFacts DEF Sound
  <2>3. target # Mismatch
    BY <2>1, BlockFacts DEF Sound, LinkSlots, Mismatch
  <2> QED BY <2>2, <2>3, BlockFacts, CacheAssumption DEF Sound, Linked, Mismatch, Slots
<1> QED BY <1>1, <1>2 DEF Sound, Placed, TargetLive

(* A live target is a link, and the pc's block may take its place.          *)
LEMMA LiveIsLink ==
  ASSUME TypeOK, WellFormed, TargetLive
  PROVE  ~Overwrites(target)
  BY LinkFacts DEF TargetLive, Overwrites, Mismatch

LEMMA PredictHitSound == ASSUME Sound, PredictHit PROVE Sound'
<1> USE DEF PredictHit
<1>1. Linked \in Heads /\ Linked \in Slots /\ slot[Linked].addr = pc
  BY LinkedFact DEF AddrOf
<1>2. TypeOK'
  BY <1>1, CacheAssumption DEF Sound, TypeOK, tcacheVars, Slots, Wild
<1>3. Heads' = Heads /\ WellFormed' /\ Chains' /\ slot' = slot
  BY CacheFrame DEF Sound, tcacheVars
<1>4. Placed'
  <2>1. ~Overwrites(target)'
    BY <1>3, LiveIsLink DEF Sound, Placed, Overwrites, tcacheVars
  <2> QED BY <1>1, <1>3, <2>1 DEF Sound, Placed
<1>5. Stops'
  BY DEF Stops
<1> QED BY <1>2, <1>3, <1>4, <1>5 DEF Sound

LEMMA PredictNullSound == ASSUME Sound, PredictNull PROVE Sound'
<1> USE DEF PredictNull
<1>1. TypeOK'
  BY DEF Sound, TypeOK, tcacheVars
<1>2. WellFormed' /\ Chains'
  BY CacheFrame DEF Sound
<1>3. Placed'
  BY DEF Placed
<1>4. Stops'
  BY DEF Stops, AddrOf
<1> QED BY <1>1, <1>2, <1>3, <1>4 DEF Sound

LEMMA PredictMissSound == ASSUME Sound, PredictMiss PROVE Sound'
<1> USE DEF PredictMiss
<1>1. pc \in Nat /\ hashfunction(pc) \in Buckets
  BY HashInRange DEF Sound, TypeOK
<1>2. TypeOK'
  BY <1>1 DEF Sound, TypeOK, tcacheVars
<1>3. Heads' = Heads /\ WellFormed' /\ Chains' /\ slot' = slot
  BY CacheFrame DEF Sound, tcacheVars
<1>4. /\ table[hashfunction(pc)] \in Pointer
      /\ Undamaged => ChainLink(hashfunction(pc), size, table[hashfunction(pc)])
  BY <1>1 DEF Sound, Chains, Pointed, Chained
<1>5. bb' \in Pointer' /\ (Undamaged' => Searching')
  <2>1. \A p \in Heads : p < size
    BY BlockFacts DEF Sound
  <2> QED BY <1>3, <1>4, <2>1 DEF Searching, ChainLink, Pointer, Wild, Undamaged
<1>6. TargetLive'
  BY <1>3 DEF Sound, Placed, TargetLive, LinkSlots, LastSlot, Count
<1>7. Placed'
  BY <1>5, <1>6 DEF Sound, Placed
<1>8. Stops'
  BY DEF Stops
<1> QED BY <1>2, <1>3, <1>7, <1>8 DEF Sound

LEMMA FindHitSound == ASSUME Sound, FindHit PROVE Sound'
<1> USE DEF FindHit
<1>1. TypeOK'
  BY DEF Sound, TypeOK, tcacheVars
<1>2. Heads' = Heads /\ WellFormed' /\ Chains' /\ slot' = slot
  BY CacheFrame DEF Sound, tcacheVars
<1>3. bb \in Heads
  BY CacheAssumption DEF Sound, Placed, Pointer, Wild, Slots
<1>4. Placed'
  <2>1. ~Overwrites(target)'
    BY <1>2, LiveIsLink DEF Sound, Placed, Overwrites, tcacheVars
  <2> QED BY <1>2, <1>3, <2>1 DEF Sound, Placed
<1>5. Stops'
  BY DEF Stops
<1> QED BY <1>1, <1>2, <1>4, <1>5 DEF Sound

LEMMA FindNextSound == ASSUME Sound, FindNext PROVE Sound'
<1> USE DEF FindNext
<1>1. bb \in Heads /\ (Undamaged => hashfunction(slot[bb].addr) = hashfunction(pc))
  BY CacheAssumption DEF Sound, Placed, Pointer, Searching, Wild, Slots
<1>2. TypeOK'
  BY <1>1, BlockFacts DEF Sound, TypeOK, tcacheVars
<1>3. Heads' = Heads /\ WellFormed' /\ Chains' /\ slot' = slot
  BY CacheFrame DEF Sound, tcacheVars
<1>4. /\ slot[bb + 1].link \in Pointer
      /\ Undamaged => ChainLink(hashfunction(pc), bb, slot[bb + 1].link)
  BY <1>1 DEF Sound, Chains, Pointed, Chained
<1>5. bb' \in Pointer' /\ (Undamaged' => Searching')
  <2>1. Undamaged => \A p \in Heads : slot[p].addr = pc => p < bb
    BY <1>1, BlockFacts DEF Sound, Placed, Searching
  <2> QED BY <1>3, <1>4, <2>1 DEF Searching, ChainLink, Pointer, Wild, Undamaged
<1>6. TargetLive'
  BY <1>3 DEF Sound, Placed, TargetLive, LinkSlots, LastSlot, Count
<1>7. Placed'
  BY <1>5, <1>6 DEF Sound, Placed
<1>8. Stops'
  BY DEF Stops
<1> QED BY <1>2, <1>3, <1>7, <1>8 DEF Sound

LEMMA FindMissSound == ASSUME Sound, FindMiss PROVE Sound'
<1> USE DEF FindMiss
<1>1. TypeOK'
  BY DEF Sound, TypeOK, tcacheVars
<1>2. Heads' = Heads /\ WellFormed' /\ Chains' /\ slot' = slot
  BY CacheFrame DEF Sound, tcacheVars
<1>3. Undamaged' => Untranslated'
  <2>1. \A p \in Heads : p \in Nat /\ p > 0
    BY BlockFacts DEF Sound
  <2> QED BY <1>2, <2>1 DEF Sound, Placed, Searching, Untranslated, Undamaged
<1>4. buf = << >>
  BY DEF Sound, Placed
<1>5. Decoded'
  BY <1>4 DEF Decoded
<1>6. TargetLive'
  BY <1>2 DEF Sound, Placed, TargetLive, LinkSlots, LastSlot, Count
<1>7. Placed'
  BY <1>3, <1>4, <1>5, <1>6, BlockAssumption DEF Placed
<1>8. Stops'
  BY DEF Stops
<1> QED BY <1>1, <1>2, <1>7, <1>8 DEF Sound

(* Only a chain that has been written over leads outside the array.         *)
LEMMA FindWildSound == ASSUME Sound, FindWild PROVE Sound'
<1> USE DEF FindWild
<1>1. TypeOK'
  BY DEF Sound, TypeOK, tcacheVars
<1>2. WellFormed' /\ Chains'
  BY CacheFrame DEF Sound
<1>3. Placed'
  BY DEF Placed
<1>4. ~Undamaged'
  BY BlockFacts, CacheAssumption DEF Sound, Placed, Searching, Wild, Undamaged
<1> QED BY <1>1, <1>2, <1>3, <1>4 DEF Sound

(* A block too long for an empty cache is copied over what follows it.      *)
LEMMA AddWildSound == ASSUME Sound, AddWild PROVE Sound'
<1> USE DEF AddWild
<1>1. TypeOK'
  BY DEF Sound, TypeOK, tcacheVars
<1>2. Heads' = Heads /\ slot' = slot /\ table' = table /\ size' = size
  BY DEF Heads, tcacheVars
<1>3. WellFormed'
  BY <1>2 DEF Sound, WellFormed, BlockWellFormed, Disjoint, Count, InsnSlots, LastSlot,
     LinkSlots, End, Translates, Follows
<1>5. Placed'
  BY DEF Placed
<1>6. ~Undamaged'
  BY DEF Undamaged
<1>4. Chains'
  BY <1>2, <1>6 DEF Sound, Chains, Pointed, Pointer, Wild
<1> QED BY <1>1, <1>3, <1>4, <1>5, <1>6 DEF Sound

(* Instructions that do not end a block are plain.                          *)
LEMMA PlainInsn == ASSUME NEW insn \in Insn, ~stop_after(insn) PROVE insn.class = "plain"
  BY DEF stop_after

LEMMA BufFacts ==
  ASSUME TypeOK, NEW k \in 1 .. Len(buf)
  PROVE  buf[k].tag = "insn" /\ buf[k].insn \in Insn /\ buf[k].at \in Nat
<1> DEFINE S == [tag : {"insn"}, insn : Insn, at : Nat]
<1>1. buf \in Seq(S)
  BY DEF TypeOK
<1>2. buf[k] \in S
  <2> HIDE DEF S
  <2> QED BY <1>1
<1> QED BY <1>2

LEMMA DecodeFaultSound == ASSUME Sound, DecodeFault PROVE Sound'
<1> USE DEF DecodeFault
<1>1. TypeOK'
  BY DEF Sound, TypeOK, tcacheVars
<1>2. WellFormed' /\ Chains'
  BY CacheFrame DEF Sound
<1>3. Placed'
  BY DEF Placed
<1>4. \A k \in DOMAIN buf : buf[k].insn.class = "plain"
  <2> TAKE k \in DOMAIN buf
  <2>1. buf \in Seq([tag : {"insn"}, insn : Insn, at : Nat]) /\ Len(buf) \in Nat
        /\ DOMAIN buf = 1 .. Len(buf)
    BY DEF Sound, TypeOK
  <2>2. ~stop_after(buf[k].insn)
    <3>1. CASE k = Len(buf)
      BY <2>1, <3>1 DEF Sound, Placed, Last
    <3>2. CASE k # Len(buf)
      BY <2>1, <3>2 DEF Sound, Placed, Decoded
    <3> QED BY <3>1, <3>2
  <2> QED BY <2>1, <2>2, BufFacts, PlainInsn DEF Sound
<1>5. Stops'
  BY <1>4 DEF Stops
<1> QED BY <1>1, <1>2, <1>3, <1>5 DEF Sound

LEMMA DecodeStopSound == ASSUME Sound, DecodeStop PROVE Sound'
<1> USE DEF DecodeStop
<1>1. TypeOK'
  BY DEF Sound, TypeOK, tcacheVars
<1>2. Heads' = Heads /\ WellFormed' /\ Chains' /\ slot' = slot
  BY CacheFrame DEF Sound, tcacheVars
<1>3. (Undamaged' => Untranslated') /\ Decoded'
  BY <1>2 DEF Sound, Placed, Untranslated, Decoded, Undamaged
<1>4. TargetLive'
  BY <1>2 DEF Sound, Placed, TargetLive, LinkSlots, LastSlot, Count
<1>5. Placed'
  BY <1>3, <1>4 DEF Placed
<1>6. Stops'
  BY DEF Stops
<1> QED BY <1>1, <1>2, <1>5, <1>6 DEF Sound

LEMMA DecodeSound == ASSUME Sound, Decode PROVE Sound'
<1> USE DEF Decode
<1>1. /\ dpc \in Mapped /\ dpc \in Nat /\ pc \in Nat
      /\ Code[dpc] \in Insn /\ Code[dpc].len \in {2, 4}
  BY CodeAssumption, InsnTyped DEF Sound, TypeOK, Mapped
<1>2. /\ buf \in Seq([tag : {"insn"}, insn : Insn, at : Nat])
      /\ Len(buf) \in Nat /\ 1 + Len(buf) < MaxSlots
  BY DEF Sound, TypeOK, Placed
<1>3. InsnWord(Code[dpc], dpc) \in [tag : {"insn"}, insn : Insn, at : Nat]
  BY <1>1 DEF InsnWord
<1>4. /\ buf' \in Seq([tag : {"insn"}, insn : Insn, at : Nat])
      /\ Len(buf') = Len(buf) + 1
      /\ \A k \in 1 .. Len(buf) : buf'[k] = buf[k]
      /\ buf'[Len(buf) + 1] = InsnWord(Code[dpc], dpc)
  BY <1>2, <1>3
<1>5. Heads' = Heads /\ WellFormed' /\ Chains' /\ slot' = slot
  BY CacheFrame DEF Sound, tcacheVars
<1>6. TypeOK'
  <2>1. dpc' \in Nat
    BY <1>1
  <2>2. Len(buf') < MaxSlots
    BY <1>2, <1>4, BlockAssumption
  <2> QED BY <1>4, <2>1, <2>2 DEF Sound, TypeOK, tcacheVars
<1>7. Decoded'
  <2>1. buf' # << >> /\ Last(buf)' = Code[dpc] /\ buf'[Len(buf')].at = dpc
    BY <1>2, <1>4 DEF Last, InsnWord
  <2>2. \A k \in 1 .. Len(buf') : buf'[k].at \in Mapped /\ buf'[k].insn = Code[buf'[k].at]
    BY <1>1, <1>2, <1>4 DEF Sound, Placed, Decoded, InsnWord
  <2>3. ASSUME NEW k \in 1 .. Len(buf') - 1
        PROVE  /\ buf'[k + 1].at = buf'[k].at + buf'[k].insn.len
               /\ ~stop_after(buf'[k].insn)
               /\ ~stop_before(buf'[k + 1].insn)
    <3>1. CASE k = Len(buf)
      <4>1. buf # << >> /\ buf'[k] = buf[k] /\ buf'[k + 1] = InsnWord(Code[dpc], dpc)
        BY <1>2, <1>4, <3>1
      <4>2. dpc = buf[k].at + buf[k].insn.len /\ ~stop_after(buf[k].insn)
        BY <3>1, <4>1 DEF Sound, Placed, Decoded, Last
      <4> QED BY <4>1, <4>2 DEF InsnWord
    <3>2. CASE k # Len(buf)
      <4>1. k \in 1 .. Len(buf) - 1 /\ buf'[k] = buf[k] /\ buf'[k + 1] = buf[k + 1]
        BY <1>2, <1>4, <3>2
      <4> QED BY <4>1 DEF Sound, Placed, Decoded
    <3> QED BY <3>1, <3>2
  <2>4. buf'[1].at = pc
    <3>1. CASE buf = << >>
      BY <1>4, <3>1 DEF Sound, Placed, Decoded, InsnWord
    <3>2. CASE buf # << >>
      <4>1. buf'[1] = buf[1]
        BY <1>2, <1>4, <3>2
      <4> QED BY <3>2, <4>1 DEF Sound, Placed, Decoded
    <3> QED BY <3>1, <3>2
  <2> QED BY <2>1, <2>2, <2>3, <2>4 DEF Decoded
<1>8. TargetLive'
  BY <1>5 DEF Sound, Placed, TargetLive, LinkSlots, LastSlot, Count
<1>9. Placed'
  <2>1. Undamaged' => Untranslated'
    BY <1>5 DEF Sound, Placed, Untranslated, Undamaged
  <2>2. buf' # << >>
    BY <1>2, <1>4
  <2>3. at' = "decode" => 1 + Len(buf') < MaxSlots /\ ~stop_after(Last(buf'))
    BY <1>2, <1>4 DEF Continue, Last, InsnWord
  <2> QED BY <1>7, <1>8, <2>1, <2>2, <2>3 DEF Placed
<1>10. Stops'
  BY DEF Stops
<1> QED BY <1>5, <1>6, <1>9, <1>10 DEF Sound

LEMMA RejectSound == ASSUME Sound, RejectSC \/ AddTooBig PROVE Sound'
<1> USE DEF RejectSC, AddTooBig
<1>1. TypeOK'
  BY DEF Sound, TypeOK, tcacheVars
<1>2. WellFormed' /\ Chains'
  BY CacheFrame DEF Sound
<1>3. Placed'
  BY DEF Placed
<1>4. Stops'
  BY DEF Sound, Placed, Stops, TooBig, BlockSize, Links, Last
<1> QED BY <1>1, <1>2, <1>3, <1>4 DEF Sound

(* The word at i is an instruction as long as the block is well formed.     *)
LEMMA ExecWildNever == ASSUME Sound, ExecWild PROVE FALSE
  BY InsnFacts DEF Sound, ExecWild, Placed, Executing

(* The next instruction of the block stands where the pc goes.              *)
LEMMA ExecSound == ASSUME Sound, NEW taken \in BOOLEAN, Exec(taken) PROVE Sound'
<1> USE DEF Exec
<1>1. /\ bb \in Heads /\ i \in InsnSlots(bb) /\ slot[i].at = pc
      /\ buf = << >>
  BY DEF Sound, Placed, Executing
<1>2. /\ i \in Nat /\ bb + 2 <= i /\ i <= LastSlot(bb)
      /\ slot[i].insn \in Insn /\ slot[i].at \in Nat
      /\ i # LastSlot(bb) => /\ i + 1 \in InsnSlots(bb) /\ Follows(i)
                             /\ ~stop_after(slot[i].insn)
  BY <1>1, InsnFacts DEF Sound
<1>3. LastSlot(bb) \in Nat /\ LastSlot(bb) = bb + 1 + slot[bb + 1].count
      /\ (IsLast <=> i = LastSlot(bb))
  BY <1>1, <1>2, BlockFacts DEF Sound, IsLast, Count
<1>4. slot[i].insn.len \in Nat /\ slot[i].insn.dest \subseteq Nat
  BY <1>2, InsnTyped
<1>5. pc' \in Nat
  BY <1>4 DEF NextPC, Sound, TypeOK
<1>6. Heads' = Heads /\ WellFormed' /\ Chains' /\ slot' = slot
  BY CacheFrame DEF Sound, tcacheVars
<1>7. CASE IsLast
  <2>1. at' = "top" /\ i' = 0 /\ target' = LinkSlot(taken) /\ buf' = << >>
    BY <1>1, <1>7
  <2>2. target' \in LinkSlots(bb)
    BY <1>1, <1>2, <1>3, <1>7, <2>1, BlockFacts DEF Sound, LinkSlot, LinkSlots
  <2>3. target' \in Slots
    BY <1>1, <2>2, BlockFacts DEF Sound
  <2>4. TypeOK'
    BY <1>2, <1>5, <1>6, <2>1, <2>3, CacheAssumption DEF Sound, TypeOK, tcacheVars, Slots
  <2>5. TargetLive'
    BY <1>1, <1>6, <2>2 DEF TargetLive, LinkSlots, LastSlot, Count
  <2>6. Placed'
    BY <2>1, <2>5 DEF Placed
  <2>7. Stops'
    BY <2>1 DEF Stops
  <2> QED BY <1>6, <2>4, <2>6, <2>7 DEF Sound
<1>8. CASE ~IsLast
  <2>1. i + 1 \in InsnSlots(bb) /\ Follows(i) /\ ~stop_after(slot[i].insn)
    BY <1>2, <1>3, <1>8
  <2>2. ~taken
    BY <1>2, <2>1, PlainInsn DEF MayReturn
  <2>3. pc' = pc + slot[i].insn.len
    BY <2>2 DEF NextPC
  <2>4. at' = "exec" /\ i' = i + 1 /\ target' = target /\ buf' = << >>
    BY <1>1, <1>8, <2>2
  <2>5. Executing'
    BY <1>1, <1>6, <2>1, <2>3, <2>4 DEF Executing, Follows, InsnSlots, Count
  <2>6. i' \in Slots
    BY <1>1, <2>1, <2>4, BlockFacts DEF Sound
  <2>7. TypeOK'
    BY <1>2, <1>5, <1>6, <2>4, <2>6 DEF Sound, TypeOK, tcacheVars
  <2>8. Placed'
    BY <2>4, <2>5 DEF Placed
  <2>9. Stops'
    BY <2>4 DEF Stops
  <2> QED BY <1>6, <2>7, <2>8, <2>9 DEF Sound
<1> QED BY <1>7, <1>8

--------------------------------------------------------------------------------
(* Storing the link: a link word of the block that ended, or of no block at *)
(* all, gives way to one that leads to bb.                                  *)

LEMMA StoreLinkSound == ASSUME Sound, StoreLink, ~Overwrites(target) PROVE Sound'
<1> USE DEF StoreLink
<1>1. bb \in Heads /\ slot[bb].addr = pc /\ buf = << >>
  BY DEF Sound, Placed
<1>2. damage' = damage
  OBVIOUS
<1>3. bb \in Slots /\ bb \in Nat /\ bb + 2 \in InsnSlots(bb) /\ bb + 2 \in Slots
  BY <1>1, BlockFacts DEF Sound, InsnSlots
<1>4. CASE target = Mismatch
  <2>1. Heads' = Heads /\ WellFormed' /\ Chains' /\ slot' = slot
    BY <1>2, <1>4, CacheFrame DEF Sound, tcacheVars
  <2>2. TypeOK'
    BY <1>2, <1>3, <1>4, <2>1 DEF Sound, TypeOK
  <2>3. Executing'
    BY <1>1, <1>3, <2>1 DEF Sound, Executing, WellFormed, BlockWellFormed, InsnSlots, Count
  <2>4. Placed' /\ Stops'
    BY <1>1, <2>3 DEF Placed, Stops
  <2> QED BY <2>1, <2>2, <2>4 DEF Sound
<1>5. CASE target # Mismatch
  <2>1. /\ target \in Slots /\ slot' = [slot EXCEPT ![target] = LinkWord(bb)]
        /\ size' = size /\ table' = table
    BY <1>5 DEF Sound, TypeOK
  <2>2. slot'[target] = LinkWord(bb) /\ \A p \in Slots \ {target} : slot'[p] = slot[p]
    BY <2>1 DEF Sound, TypeOK
  <2>3. ASSUME NEW p \in 2 .. size - 1, slot[p].tag # "link"
        PROVE  p \in Slots /\ slot'[p] = slot[p]
    <3>1. p \in Slots
      BY CacheAssumption DEF Sound, TypeOK, Slots
    <3>2. p # target
      BY <2>3 DEF Overwrites
    <3> QED BY <2>2, <3>1, <3>2
  <2>4. TypeOK'
    <3>1. LinkWord(bb) \in Word
      BY <1>3, WordsTyped
    <3>2. slot' \in [Slots -> Word]
      BY <2>1, <3>1 DEF Sound, TypeOK
    <3> QED BY <1>2, <1>3, <1>5, <3>2 DEF Sound, TypeOK
  <2>5. Heads' = Heads
    <3>1. ASSUME NEW p \in Heads PROVE p \in Heads'
      BY <2>1, <2>3 DEF Heads
    <3>2. ASSUME NEW p \in Heads' PROVE p \in Heads
      <4>1. p \in 2 .. size - 1 /\ slot'[p].tag = "addr" /\ p \in Slots
        BY <2>1, CacheAssumption DEF Heads, Sound, TypeOK, Slots
      <4>2. p # target
        BY <2>2, <4>1 DEF LinkWord
      <4> QED BY <2>2, <4>1, <4>2 DEF Heads
    <3> QED BY <3>1, <3>2
  <2>6. ASSUME NEW p \in Heads
        PROVE  /\ slot'[p] = slot[p] /\ slot'[p + 1] = slot[p + 1]
               /\ \A k \in InsnSlots(p) : slot'[k] = slot[k]
               /\ InsnSlots(p)' = InsnSlots(p) /\ LinkSlots(p)' = LinkSlots(p)
               /\ LastSlot(p)' = LastSlot(p) /\ End(p)' = End(p) /\ Count(p)' = Count(p)
    <3>1. slot'[p] = slot[p] /\ slot'[p + 1] = slot[p + 1]
      BY <2>3, BlockFacts DEF Sound
    <3>2. ASSUME NEW k \in InsnSlots(p) PROVE slot'[k] = slot[k]
      BY <2>3, BlockFacts, InsnFacts DEF Sound
    <3> QED BY <3>1, <3>2 DEF InsnSlots, LinkSlots, LastSlot, End, Count
  <2>7. WellFormed'
    <3>1. ASSUME NEW p \in Heads PROVE BlockWellFormed(p)'
      <4>1. BlockWellFormed(p)
        BY DEF Sound, WellFormed
      <4>2. \A k \in InsnSlots(p) : Translates(k)'
        BY <2>6, <4>1 DEF BlockWellFormed, Translates
      <4>3. \A k \in InsnSlots(p) \ {LastSlot(p)} :
              /\ Follows(k)'
              /\ ~stop_after(slot'[k].insn) /\ ~stop_before(slot'[k + 1].insn)
        BY <2>6, <4>1, InsnFacts DEF Sound, BlockWellFormed, Follows
      <4>4. ASSUME NEW k \in LinkSlots(p)
            PROVE  slot'[k].tag = "link" /\ slot'[k].to \in Heads \cup {Mismatch}
        BY <1>1, <2>2, <4>1, LinkFacts DEF Sound, LinkWord
      <4>5. slot'[p + 2].at = slot'[p].addr
        BY <2>6, <4>1, BlockFacts DEF Sound, BlockWellFormed, InsnSlots
      <4>6. slot'[p + 1].conditional = conditional(slot'[LastSlot(p)].insn)
        BY <2>6, <4>1, BlockFacts DEF Sound, BlockWellFormed, InsnSlots
      <4> QED BY <2>1, <2>5, <2>6, <4>1, <4>2, <4>3, <4>4, <4>5, <4>6 DEF BlockWellFormed
    <3>2. ASSUME NEW p \in Heads, NEW q \in Heads PROVE Disjoint(p, q)'
      BY <2>6 DEF Sound, WellFormed, Disjoint
    <3> QED BY <2>5, <3>1, <3>2 DEF WellFormed
  <2>8. Pointed' /\ (Undamaged => Chained')
    BY <2>1, <2>5, <2>6 DEF Sound, Chains, Pointed, Pointer, Wild, Chained, ChainLink
  <2>9. Undamaged => Unique'
    BY <2>5, <2>6 DEF Sound, Chains, Unique
  <2>12. Chains'
    BY <1>2, <2>8, <2>9 DEF Chains, Undamaged
  <2>10. Executing'
    BY <1>1, <1>3, <2>5, <2>6 DEF Sound, Executing, WellFormed, BlockWellFormed
  <2>11. Placed' /\ Stops'
    BY <1>1, <2>10 DEF Placed, Stops
  <2> QED BY <2>4, <2>7, <2>11, <2>12 DEF Sound
<1> QED BY <1>4, <1>5

--------------------------------------------------------------------------------
(* Adding a block, after a flush or after the blocks that are there.        *)

(* The blocks that are still there when the new one is copied, and the      *)
(* table between the copy and the insertion: its entry for the new block's  *)
(* address is the one that went into the block's link.                      *)
Kept == IF Full(BlockSize) THEN {} ELSE Heads
KeptTable == [table' EXCEPT ![hashfunction(pc)] = slot'[bb' + 1].link]

(* The new block's place and the fields of its header.                      *)
LEMMA NewBlockFacts ==
  ASSUME Sound, at = "add"
  PROVE  /\ pc \in Nat /\ Len(buf) \in Nat /\ Len(buf) >= 1
         /\ Last(buf) \in Insn /\ Links(buf) \in {1, 2}
         /\ BlockSize \in Nat /\ BlockSize = 2 + Len(buf) + Links(buf)
         /\ Place(BlockSize) \in Nat /\ Place(BlockSize) >= 2
         /\ Header(buf).conditional = conditional(Last(buf))
         /\ Header(buf).conditional \in BOOLEAN
         /\ Header(buf).count = Len(buf) /\ Len(buf) \in 0 .. CountMod - 1
         /\ Header(buf).length \in 0 .. LengthMod - 1
<1>1. /\ buf \in Seq([tag : {"insn"}, insn : Insn, at : Nat]) /\ Len(buf) \in Nat
      /\ Len(buf) < MaxSlots /\ pc \in Nat /\ dpc \in Nat /\ size \in Nat /\ size >= 2
  BY CacheAssumption DEF Sound, TypeOK
<1>2. Len(buf) >= 1
  BY <1>1 DEF Sound, Placed
<1>3. Last(buf) \in Insn
  BY <1>1, <1>2, BufFacts DEF Sound, Last
<1>4. Len(buf) \in 0 .. CountMod - 1 /\ Len(buf) % CountMod = Len(buf)
  BY <1>1, CountSurvives, BlockAssumption
<1>5. (dpc - pc) % LengthMod \in 0 .. LengthMod - 1
  BY <1>1, LengthInRange
<1>6. /\ Header(buf).conditional = conditional(Last(buf))
      /\ Header(buf).conditional \in BOOLEAN
      /\ Header(buf).count = Len(buf)
      /\ Header(buf).length \in 0 .. LengthMod - 1
  BY <1>4, <1>5 DEF Header, conditional
<1>7. Links(buf) \in {1, 2} /\ BlockSize = 2 + Len(buf) + Links(buf) /\ BlockSize \in Nat
  BY <1>1 DEF Links, BlockSize
<1>8. Place(BlockSize) \in Nat /\ Place(BlockSize) >= 2
  BY <1>1 DEF Place
<1> QED BY <1>1, <1>2, <1>3, <1>4, <1>6, <1>7, <1>8

(* The words after the new header.                                          *)
LEMMA NewWords ==
  ASSUME Sound, at = "add"
  PROVE  /\ \A k \in 1 .. Len(buf) + Links(buf) : Words(buf)[k] \in Word
         /\ \A k \in 1 .. Len(buf) : /\ Words(buf)[k].tag = "insn"
                                     /\ Words(buf)[k].at = buf[k].at
                                     /\ Words(buf)[k].at \in Mapped
                                     /\ Words(buf)[k].insn = Predecode(Code[buf[k].at])
         /\ \A k \in Len(buf) + 1 .. Len(buf) + Links(buf) : Words(buf)[k] = LinkWord(Mismatch)
<1>1. Len(buf) \in Nat /\ Len(buf) >= 1 /\ Links(buf) \in {1, 2} /\ Last(buf) \in Insn
  BY NewBlockFacts
<1>2. \A k \in 1 .. Len(buf) : /\ buf[k].tag = "insn" /\ buf[k].insn \in Insn /\ buf[k].at \in Nat
                              /\ buf[k].at \in Mapped /\ buf[k].insn = Code[buf[k].at]
  BY BufFacts DEF Sound, Placed, Decoded
<1>3. \A k \in 1 .. Len(buf) - 1 : /\ Words(buf)[k] = buf[k]
                                  /\ buf[k].insn = Predecode(buf[k].insn)
  <2> TAKE k \in 1 .. Len(buf) - 1
  <2>1. Words(buf)[k] = buf[k]
    BY <1>1 DEF Words
  <2>2. ~stop_after(buf[k].insn)
    BY DEF Sound, Placed, Decoded
  <2> QED BY <2>1, <2>2 DEF Predecode, stop_after
<1>4. Words(buf)[Len(buf)] = InsnWord(Predecode(Last(buf)), buf[Len(buf)].at)
  BY <1>1 DEF Words
<1>5. \A k \in Len(buf) + 1 .. Len(buf) + Links(buf) : Words(buf)[k] = LinkWord(Mismatch)
  BY <1>1 DEF Words
<1>6. \A k \in 1 .. Len(buf) : /\ Words(buf)[k].tag = "insn"
                              /\ Words(buf)[k].at = buf[k].at
                              /\ Words(buf)[k].at \in Mapped
                              /\ Words(buf)[k].insn = Predecode(Code[buf[k].at])
  BY <1>1, <1>2, <1>3, <1>4 DEF InsnWord, Last
<1>7. \A k \in 1 .. Len(buf) + Links(buf) : Words(buf)[k] \in Word
  <2>1. \A k \in 1 .. Len(buf) - 1 : buf[k] \in Word
    <3> TAKE k \in 1 .. Len(buf) - 1
    <3> DEFINE S == [tag : {"insn"}, insn : Insn, at : Nat]
    <3>1. buf \in Seq(S)
      BY DEF Sound, TypeOK
    <3>2. buf[k] \in S
      <4> HIDE DEF S
      <4> QED BY <1>1, <3>1
    <3> QED BY <3>2 DEF Word
  <2>2. Words(buf)[Len(buf)] \in Word
    BY <1>1, <1>2, <1>4, InsnTyped, WordsTyped
  <2>3. LinkWord(Mismatch) \in Word
    BY WordsTyped, CacheAssumption DEF Mismatch, Slots
  <2> QED BY <1>1, <1>3, <1>5, <2>1, <2>2, <2>3
<1> QED BY <1>5, <1>6, <1>7

(* The cache after the copy and the insertion: the new block at bb', and    *)
(* below it what was there.                                                 *)
LEMMA AddedSlots ==
  ASSUME Sound, AddBlock
  PROVE  /\ bb' \in Nat /\ bb' >= 2 /\ size' = bb' + BlockSize /\ size' <= TcacheSize
         /\ slot' \in [Slots -> Word]
         /\ slot'[bb'] = AddrWord(pc)
         /\ slot'[bb' + 1] = MetaWord(Header(buf), KeptTable[hashfunction(pc)])
         /\ \A k \in 1 .. Len(buf) + Links(buf) : slot'[bb' + 1 + k] = Words(buf)[k]
         /\ \A q \in Slots : q < bb' => slot'[q] = slot[q]
         /\ table' = [KeptTable EXCEPT ![hashfunction(pc)] = bb']
         /\ KeptTable \in [Buckets -> 0 .. Wild]
         /\ \E leftover \in Leftovers(BlockSize) : KeptTable = TableAfterCopy(BlockSize, leftover)
         /\ bb' = IF Full(BlockSize) THEN 2 ELSE size
<1> DEFINE n == BlockSize
           p == Place(BlockSize)
           h == hashfunction(pc)
<1>1. at = "add" /\ bb' = p /\ p + n <= TcacheSize /\ Add(pc, Header(buf), n, Words(buf))
  BY DEF AddBlock
<1>2. /\ n \in Nat /\ n = 2 + Len(buf) + Links(buf) /\ Len(buf) \in Nat /\ Links(buf) \in {1, 2}
      /\ p \in Nat /\ p >= 2 /\ pc \in Nat /\ h \in Buckets
  BY <1>1, NewBlockFacts, HashInRange
<1>3. PICK leftover \in Leftovers(n) :
        /\ slot' = [q \in Slots |->
                      IF q = p THEN AddrWord(pc)
                      ELSE IF q = p + 1 THEN MetaWord(Header(buf), TableAfterCopy(n, leftover)[h])
                      ELSE IF q \in p + 2 .. p + n - 1 THEN Words(buf)[q - p - 1]
                      ELSE IF q \in p + n .. p + 2 * n - 1 THEN Junk
                      ELSE slot[q]]
        /\ table' = [TableAfterCopy(n, leftover) EXCEPT ![h] = p]
        /\ size' = p + n
  BY <1>1 DEF Add
<1>4. TableAfterCopy(n, leftover) \in [Buckets -> 0 .. Wild]
  <2>1. HeadsAfter(n) \subseteq 0 .. Wild
    BY <1>1, <1>2, CacheAssumption DEF HeadsAfter, Heads, Sound, TypeOK, Wild
  <2>2. leftover \in [Overwritten(n) -> 0 .. Wild]
    BY <1>3, <2>1, CacheAssumption DEF Leftovers, Wild
  <2>3. \A b \in Buckets : table[b] \in 0 .. Wild /\ 0 \in 0 .. Wild
    BY CacheAssumption DEF Sound, TypeOK, Wild
  <2> QED BY <2>2, <2>3 DEF TableAfterCopy
<1>a. KeptTable = TableAfterCopy(n, leftover)
  <2>1. p + 1 \in Slots /\ p + 1 # p
    BY <1>1, <1>2, CacheAssumption DEF Slots
  <2>2. slot'[p + 1].link = TableAfterCopy(n, leftover)[h]
    BY <1>3, <2>1 DEF MetaWord
  <2>3. KeptTable = [table' EXCEPT ![h] = TableAfterCopy(n, leftover)[h]]
    BY <1>1, <2>2 DEF KeptTable
  <2>4. ASSUME NEW t \in [Buckets -> 0 .. Wild]
        PROVE  [[t EXCEPT ![h] = p] EXCEPT ![h] = t[h]] = t
    BY <1>2
  <2> QED BY <1>3, <1>4, <2>3, <2>4
<1>5. KeptTable \in [Buckets -> 0 .. Wild]
  BY <1>4, <1>a
<1>6. /\ slot' = [q \in Slots |->
                    IF q = p THEN AddrWord(pc)
                    ELSE IF q = p + 1 THEN MetaWord(Header(buf), KeptTable[h])
                    ELSE IF q \in p + 2 .. p + n - 1 THEN Words(buf)[q - p - 1]
                    ELSE IF q \in p + n .. p + 2 * n - 1 THEN Junk
                    ELSE slot[q]]
      /\ table' = [KeptTable EXCEPT ![h] = p]
      /\ size' = p + n
  BY <1>3, <1>a
<1>b. \E l \in Leftovers(BlockSize) : KeptTable = TableAfterCopy(BlockSize, l)
  BY <1>3, <1>a
<1> HIDE DEF n, p, h
<1> USE CacheAssumption
<1>7. p \in Slots /\ p + 1 \in Slots
  BY <1>1, <1>2 DEF Slots
<1>8. slot'[p] = AddrWord(pc)
  BY <1>2, <1>6, <1>7
<1>9. slot'[p + 1] = MetaWord(Header(buf), KeptTable[h])
  BY <1>2, <1>6, <1>7
<1>10. \A k \in 1 .. Len(buf) + Links(buf) : slot'[p + 1 + k] = Words(buf)[k]
  <2> TAKE k \in 1 .. Len(buf) + Links(buf)
  <2>1. p + 1 + k \in Slots /\ p + 1 + k \in p + 2 .. p + n - 1 /\ (p + 1 + k) - p - 1 = k
    BY <1>1, <1>2 DEF Slots
  <2> QED BY <1>2, <1>6, <2>1
<1>11. \A q \in Slots : q < p => slot'[q] = slot[q]
  BY <1>2, <1>6 DEF Slots
<1>12. slot' \in [Slots -> Word]
  <2> SUFFICES ASSUME NEW q \in Slots PROVE slot'[q] \in Word
    BY <1>6
  <2>1. CASE q = p
    BY <1>2, <1>8, <2>1, WordsTyped
  <2>2. CASE q = p + 1
    <3>1. KeptTable[h] \in 0 .. Wild
      BY <1>2, <1>5
    <3>2. /\ Header(buf).conditional \in BOOLEAN
          /\ Header(buf).count \in 0 .. CountMod - 1
          /\ Header(buf).length \in 0 .. LengthMod - 1
      BY <1>1, NewBlockFacts
    <3>3. MetaWord(Header(buf), KeptTable[h]) \in
            [tag : {"meta"}, conditional : BOOLEAN, count : 0 .. CountMod - 1,
             length : 0 .. LengthMod - 1, link : 0 .. Wild]
      BY <3>1, <3>2 DEF MetaWord
    <3>4. slot'[q] = MetaWord(Header(buf), KeptTable[h])
      BY <1>9, <2>2
    <3> QED BY <3>3, <3>4, Zenon DEF Word
  <2>3. CASE q \in p + 2 .. p + n - 1
    <3>1. q - p - 1 \in 1 .. Len(buf) + Links(buf) /\ slot'[q] = Words(buf)[q - p - 1]
      <4>1. q # p /\ q # p + 1 /\ q - p - 1 \in 1 .. Len(buf) + Links(buf)
        BY <1>2, <2>3
      <4> QED BY <1>6, <2>3, <4>1
    <3> QED BY <1>1, <3>1, NewWords
  <2>4. CASE q \in p + n .. p + 2 * n - 1
    <3>1. n >= 2 /\ q \in Nat
      BY <1>2 DEF Slots
    <3>2. q # p /\ q # p + 1 /\ q \notin p + 2 .. p + n - 1
      BY <1>2, <2>4, <3>1
    <3>3. slot'[q] = Junk
      BY <1>6, <2>4, <3>2
    <3> QED BY <3>3, WordsTyped
  <2>5. CASE ~(q \in p .. p + 2 * n - 1)
    <3>1. /\ q # p /\ q # p + 1 /\ q \notin p + 2 .. p + n - 1
          /\ q \notin p + n .. p + 2 * n - 1
      BY <1>2, <2>5 DEF Slots
    <3>2. slot'[q] = slot[q]
      BY <1>6, <3>1
    <3> QED BY <3>2 DEF Sound, TypeOK
  <2> QED BY <1>2, <2>1, <2>2, <2>3, <2>4, <2>5 DEF Slots
<1> QED BY <1>1, <1>2, <1>5, <1>6, <1>8, <1>9, <1>10, <1>11, <1>12, <1>b DEF n, p, h, Place

(* An entry is what it was, or 0 after a flush, or has been written over:   *)
(* with 0, with what is no block, or with any block.                        *)
LEMMA KeptChains ==
  ASSUME Sound, AddBlock, NEW h \in Buckets
  PROVE  /\ KeptTable[h] \in {0, Wild} \cup Kept \cup {bb'}
         /\ Undamaged' => KeptTable[h] = IF Full(BlockSize) THEN 0 ELSE table[h]
<1>1. PICK leftover \in Leftovers(BlockSize) : KeptTable = TableAfterCopy(BlockSize, leftover)
  BY AddedSlots
<1>2. KeptTable[h] = IF h \in Overwritten(BlockSize) THEN leftover[h]
                     ELSE IF Full(BlockSize) THEN 0 ELSE table[h]
  BY <1>1 DEF TableAfterCopy
<1>3. bb' = Place(BlockSize)
  BY DEF AddBlock
<1>4. h \in Overwritten(BlockSize) => leftover[h] \in {0, Wild} \cup Kept \cup {bb'}
  BY <1>3 DEF Leftovers, HeadsAfter, Kept
<1>5. table[h] \in {0, Wild} \cup Heads
  BY DEF Sound, Chains, Pointed, Pointer
<1>6. Overrun(BlockSize) \in Int
  BY NewBlockFacts, CacheAssumption DEF AddBlock, Overrun
<1>7. h \in Overwritten(BlockSize) => Overrun(BlockSize) > 0
  BY <1>6 DEF Buckets, Overwritten
<1>8. Undamaged' => h \notin Overwritten(BlockSize)
  BY <1>7 DEF AddBlock, Undamaged
<1> QED BY <1>2, <1>4, <1>5, <1>8 DEF Kept

(* The blocks kept lie below the new one, and nothing of them is touched.   *)
LEMMA KeptFacts ==
  ASSUME Sound, AddBlock, NEW q \in Kept
  PROVE  /\ q \in Heads /\ End(q) <= bb' /\ q + 1 < bb'
         /\ \A k \in q .. End(q) - 1 : slot'[k] = slot[k]
         /\ slot'[q] = slot[q] /\ slot'[q + 1] = slot[q + 1]
         /\ Count(q)' = Count(q) /\ LastSlot(q)' = LastSlot(q) /\ End(q)' = End(q)
         /\ InsnSlots(q)' = InsnSlots(q) /\ LinkSlots(q)' = LinkSlots(q)
         /\ InsnSlots(q) \subseteq q .. End(q) - 1 /\ LinkSlots(q) \subseteq q .. End(q) - 1
<1> USE CacheAssumption
<1>1. q \in Heads /\ ~Full(BlockSize)
  BY DEF Kept
<1>2. bb' = size
  BY <1>1, AddedSlots
<1>3. /\ q \in Nat /\ q + 1 < size /\ End(q) <= size /\ LastSlot(q) \in Nat
      /\ LastSlot(q) = q + 1 + Count(q) /\ Count(q) \in Nat /\ Count(q) >= 1
      /\ End(q) = LastSlot(q) + (IF slot[q + 1].conditional THEN 3 ELSE 2)
      /\ size \in Nat /\ size <= TcacheSize
  BY <1>1, BlockFacts DEF Sound
<1>4. \A k \in q .. End(q) - 1 : slot'[k] = slot[k]
  <2> TAKE k \in q .. End(q) - 1
  <2>1. k \in Slots /\ k < bb'
    BY <1>2, <1>3 DEF Slots
  <2> QED BY <2>1, AddedSlots
<1>5. slot'[q] = slot[q] /\ slot'[q + 1] = slot[q + 1]
  BY <1>3, <1>4
<1>6. /\ Count(q)' = Count(q) /\ LastSlot(q)' = LastSlot(q) /\ End(q)' = End(q)
      /\ InsnSlots(q)' = InsnSlots(q) /\ LinkSlots(q)' = LinkSlots(q)
  BY <1>5 DEF Count, LastSlot, End, InsnSlots, LinkSlots
<1>7. InsnSlots(q) \subseteq q .. End(q) - 1
  BY <1>3 DEF InsnSlots
<1>8. LinkSlots(q) \subseteq q .. End(q) - 1
  BY <1>3 DEF LinkSlots
<1> QED BY <1>1, <1>2, <1>3, <1>4, <1>5, <1>6, <1>7, <1>8

(* The heads are those kept and the new one.                                *)
LEMMA AddedHeads ==
  ASSUME Sound, AddBlock
  PROVE  Heads' = Kept \cup {bb'} /\ bb' \notin Kept
<1> USE CacheAssumption
<1>1. at = "add"
  BY DEF AddBlock
<1>2. /\ bb' \in Nat /\ bb' >= 2 /\ size' = bb' + BlockSize /\ size' <= TcacheSize
      /\ BlockSize = 2 + Len(buf) + Links(buf) /\ Len(buf) \in Nat /\ Links(buf) \in {1, 2}
      /\ size \in Nat /\ size <= TcacheSize
  BY <1>1, AddedSlots, NewBlockFacts DEF Sound, TypeOK
<1>3. bb' \in Heads'
  BY <1>2, AddedSlots DEF Heads, AddrWord
<1>4. ASSUME NEW q \in Kept PROVE q \in Heads' /\ q # bb'
  <2>1. q \in Heads /\ q \in Nat /\ q >= 2 /\ slot'[q] = slot[q] /\ slot[q].tag = "addr"
    BY KeptFacts, BlockFacts DEF Sound
  <2>2. q + 1 < bb'
    BY KeptFacts
  <2> QED BY <1>2, <2>1, <2>2 DEF Heads
<1>5. ASSUME NEW q \in Heads', q # bb' PROVE q \in Kept
  <2>1. PICK p \in Nat : p = bb'
    BY <1>2
  <2>2. PICK len \in Nat : len = Len(buf)
    BY <1>2
  <2>3. PICK e \in Nat : e = Links(buf) /\ e >= 1
    BY <1>2
  <2>n. PICK n \in Nat : n = BlockSize /\ n = 2 + len + e
    BY <1>2, <2>2, <2>3
  <2>sz. PICK sz \in Nat : sz = size' /\ sz = p + n /\ sz <= TcacheSize
    BY <1>2, <2>1, <2>n
  <2>4. PICK r \in Nat : /\ r = q /\ slot'[r].tag = "addr" /\ r \in Slots
                        /\ r >= 2 /\ r <= p + 1 + len + e
    <3>1. q \in 2 .. size' - 1 /\ slot'[q].tag = "addr"
      BY DEF Heads
    <3>2. q \in 2 .. sz - 1
      BY <2>sz, <3>1
    <3>3. PICK r \in Nat : r = q /\ r >= 2 /\ r <= sz - 1
      BY <3>2
    <3> QED BY <2>n, <2>sz, <3>1, <3>3 DEF Slots
  <2>5. CASE r < p
    <3>1. slot[r].tag = "addr"
      BY <2>1, <2>4, <2>5, AddedSlots
    <3>2. ~Full(BlockSize) /\ p = size
      BY <2>1, <2>4, <2>5, AddedSlots
    <3> QED BY <1>2, <2>3, <2>4, <2>5, <3>1, <3>2 DEF Kept, Heads
  <2>6. CASE r = p + 1
    BY <2>1, <2>4, <2>6, AddedSlots DEF MetaWord
  <2>7. CASE r - p - 1 \in 1 .. len
    <3>1. r - p - 1 \in 1 .. len + e /\ p + 1 + (r - p - 1) = r
      BY <2>7
    <3>2. slot'[r] = Words(buf)[r - p - 1]
      BY <2>1, <2>2, <2>3, <3>1, AddedSlots
    <3> QED BY <1>1, <2>2, <2>4, <2>7, <3>2, NewWords
  <2>8. CASE r - p - 1 \in len + 1 .. len + e
    <3>1. r - p - 1 \in 1 .. len + e /\ p + 1 + (r - p - 1) = r
      BY <2>8
    <3>2. slot'[r] = Words(buf)[r - p - 1]
      BY <2>1, <2>2, <2>3, <3>1, AddedSlots
    <3> QED BY <1>1, <2>2, <2>3, <2>4, <2>8, <3>2, NewWords DEF LinkWord
  <2>9. r # p
    BY <1>5, <2>1, <2>4
  <2>10. r < p \/ r = p \/ r = p + 1 \/ r - p - 1 \in 1 .. len \/ r - p - 1 \in len + 1 .. len + e
    BY <2>4
  <2> QED BY <2>5, <2>6, <2>7, <2>8, <2>9, <2>10
<1> QED BY <1>3, <1>4, <1>5

(* The new block is well formed.                                            *)
LEMMA AddedBlock ==
  ASSUME Sound, AddBlock
  PROVE  BlockWellFormed(bb)' /\ slot'[bb'].addr = pc /\ End(bb)' = size'
         /\ (\A k \in LinkSlots(bb)' : slot'[k].to = Mismatch)
         /\ slot'[bb' + 1].link = KeptTable[hashfunction(pc)]
<1> USE CacheAssumption
<1>0. PICK p \in Nat : p = bb'
  BY AddedSlots
<1>1. at = "add"
  BY DEF AddBlock
<1>2. /\ p \in Nat /\ p >= 2 /\ size' = p + BlockSize /\ size' <= TcacheSize
      /\ BlockSize = 2 + Len(buf) + Links(buf) /\ Len(buf) \in Nat /\ Len(buf) >= 1
      /\ Links(buf) \in {1, 2} /\ Last(buf) \in Insn
  BY <1>0, <1>1, AddedSlots, NewBlockFacts
<1>3. /\ slot'[p].addr = pc
      /\ slot'[p + 1].tag = "meta" /\ slot'[p + 1].count = Len(buf)
      /\ slot'[p + 1].conditional = conditional(Last(buf))
      /\ slot'[p + 1].link = KeptTable[hashfunction(pc)]
  BY <1>0, <1>1, AddedSlots, NewBlockFacts DEF AddrWord, MetaWord
<1>4. /\ Count(bb)' = Len(buf) /\ LastSlot(bb)' = p + 1 + Len(buf)
      /\ InsnSlots(bb)' = p + 2 .. p + 1 + Len(buf)
      /\ End(bb)' = p + 2 + Len(buf) + Links(buf)
      /\ LinkSlots(bb)' = p + 2 + Len(buf) .. p + 1 + Len(buf) + Links(buf)
  BY <1>0, <1>2, <1>3 DEF Count, LastSlot, InsnSlots, LinkSlots, End, Links
<1>5. \A k \in 1 .. Len(buf) : /\ slot'[p + 1 + k].tag = "insn"
                              /\ slot'[p + 1 + k].at = buf[k].at /\ buf[k].at \in Mapped
                              /\ slot'[p + 1 + k].insn = Predecode(Code[buf[k].at])
  <2> TAKE k \in 1 .. Len(buf)
  <2>1. slot'[p + 1 + k] = Words(buf)[k]
    BY <1>0, <1>2, AddedSlots
  <2> QED BY <1>1, <2>1, NewWords
<1>6. \A k \in 1 .. Len(buf) : /\ buf[k].insn = Code[buf[k].at] /\ buf[k].insn \in Insn
  BY <1>1, BufFacts DEF Sound, Placed, Decoded
<1>len. PICK len \in Nat : len = Len(buf)
  BY <1>2
<1>7. \A k \in InsnSlots(bb)' : Translates(k)'
  <2> TAKE k \in InsnSlots(bb)'
  <2>1. k - p - 1 \in 1 .. len /\ p + 1 + (k - p - 1) = k
    BY <1>len, <1>4
  <2> QED BY <1>len, <1>5, <2>1 DEF Translates, Mapped
<1>8. slot'[p + 2].at = slot'[p].addr
  <2>1. buf[1].at = pc
    BY <1>1 DEF Sound, Placed, Decoded
  <2>2. slot'[p + 1 + 1].at = buf[1].at
    BY <1>2, <1>5
  <2> QED BY <1>2, <1>3, <2>1, <2>2
<1>9. \A k \in InsnSlots(bb)' \ {LastSlot(bb)'} :
        /\ Follows(k)'
        /\ ~stop_after(slot'[k].insn) /\ ~stop_before(slot'[k + 1].insn)
  <2> TAKE k \in InsnSlots(bb)' \ {LastSlot(bb)'}
  <2>0. PICK j \in Nat : k = p + 1 + j /\ 1 <= j /\ j <= len - 1
    <3>1. PICK r \in Nat : r = k /\ r >= p + 2 /\ r <= p + 1 + len /\ r # p + 1 + len
      BY <1>len, <1>4
    <3>2. r - p - 1 \in Nat /\ r = p + 1 + (r - p - 1) /\ 1 <= r - p - 1 /\ r - p - 1 <= len - 1
      BY <3>1
    <3> QED BY <3>1, <3>2
  <2>1. /\ j \in 1 .. Len(buf) - 1 /\ j \in 1 .. Len(buf) /\ j + 1 \in 1 .. Len(buf)
        /\ p + 1 + j = k /\ p + 1 + (j + 1) = k + 1
    BY <1>len, <2>0
  <2>2. /\ buf[j + 1].at = buf[j].at + buf[j].insn.len
        /\ ~stop_after(buf[j].insn) /\ ~stop_before(buf[j + 1].insn)
    BY <1>1, <2>1 DEF Sound, Placed, Decoded
  <2>3. /\ slot'[k].at = buf[j].at /\ slot'[k].insn = Predecode(buf[j].insn)
        /\ slot'[k + 1].at = buf[j + 1].at /\ slot'[k + 1].insn = Predecode(buf[j + 1].insn)
        /\ buf[j].insn \in Insn /\ buf[j + 1].insn \in Insn
    BY <1>5, <1>6, <2>1
  <2>4. /\ slot'[k].insn.len = buf[j].insn.len
        /\ ~stop_after(slot'[k].insn) /\ ~stop_before(slot'[k + 1].insn)
    BY <2>2, <2>3, InsnTyped
  <2> QED BY <2>2, <2>3, <2>4 DEF Follows
<1>10. slot'[p + 1].conditional = conditional(slot'[LastSlot(bb)'].insn)
  <2>1. slot'[LastSlot(bb)'].insn = Predecode(Last(buf))
    BY <1>2, <1>4, <1>5, <1>6 DEF Last
  <2> QED BY <1>2, <1>3, <2>1, InsnTyped
<1>11. \A k \in LinkSlots(bb)' : slot'[k].tag = "link" /\ slot'[k].to = Mismatch
  <2> TAKE k \in LinkSlots(bb)'
  <2>1. k - p - 1 \in len + 1 .. len + Links(buf)
        /\ k - p - 1 \in 1 .. len + Links(buf) /\ p + 1 + (k - p - 1) = k
    <3>1. PICK r \in Nat : r = k /\ r >= p + 2 + len /\ r <= p + 1 + len + Links(buf)
      BY <1>len, <1>2, <1>4
    <3>2. PICK e \in Nat : e = Links(buf)
      BY <1>2
    <3> QED BY <3>1, <3>2
  <2>2. slot'[k] = Words(buf)[k - p - 1]
    BY <1>0, <1>len, <2>1, AddedSlots
  <2> QED BY <1>len, <1>1, <2>1, <2>2, NewWords DEF LinkWord
<1>12. p + 1 < size' /\ End(bb)' = size' /\ size' \in Nat /\ Count(bb)' >= 1
  <2>1. PICK e \in Nat : e = Links(buf) /\ e >= 1
    BY <1>2
  <2>2. BlockSize = 2 + len + e /\ End(bb)' = p + 2 + len + e /\ Count(bb)' = len /\ len >= 1
    BY <1>len, <1>2, <1>4, <2>1
  <2>3. PICK sz \in Nat : sz = size' /\ sz = p + (2 + len + e)
    BY <1>2, <2>2
  <2> QED BY <2>1, <2>2, <2>3
<1> QED
  BY <1>0, <1>2, <1>3, <1>7, <1>8, <1>9, <1>10, <1>11, <1>12 DEF BlockWellFormed

(* A kept block is as well formed as it was.                                *)
LEMMA KeptBlock ==
  ASSUME Sound, AddBlock, NEW q \in Kept
  PROVE  BlockWellFormed(q)'
<1>1. q \in Heads /\ BlockWellFormed(q)
  BY KeptFacts DEF Sound, WellFormed
<1>2. \A k \in InsnSlots(q) \cup LinkSlots(q) : slot'[k] = slot[k]
  BY KeptFacts
<1>3. LastSlot(q) \in InsnSlots(q) /\ q + 2 \in InsnSlots(q)
  BY <1>1, BlockFacts DEF Sound, InsnSlots
<1>4. size' \in Nat /\ bb' <= size' /\ bb' \in Nat
  <2>1. PICK p \in Nat : p = bb'
    BY AddedSlots
  <2>2. PICK n \in Nat : n = BlockSize
    BY NewBlockFacts DEF AddBlock
  <2>3. size' = p + n
    BY <2>1, <2>2, AddedSlots
  <2>4. PICK sz \in Nat : sz = p + n
    OBVIOUS
  <2>5. sz = size' /\ p <= sz
    BY <2>3, <2>4
  <2> QED BY <2>1, <2>5
<1>5. End(q)' <= size' /\ q + 1 < size'
  <2>1. End(q) \in Nat /\ q \in Nat /\ End(q) <= bb' /\ q + 1 < bb' /\ End(q)' = End(q)
    BY <1>1, KeptFacts, BlockFacts DEF Sound
  <2> QED BY <1>4, <2>1
<1>6. \A k \in InsnSlots(q) : Translates(k)'
  BY <1>1, <1>2 DEF BlockWellFormed, Translates
<1>7. \A k \in InsnSlots(q) \ {LastSlot(q)} :
        /\ Follows(k)'
        /\ ~stop_after(slot'[k].insn) /\ ~stop_before(slot'[k + 1].insn)
  BY <1>1, <1>2, InsnFacts DEF Sound, BlockWellFormed, Follows
<1>8. \A k \in LinkSlots(q) : slot'[k].tag = "link" /\ slot'[k].to \in Heads' \cup {Mismatch}
  <2>1. Kept = Heads
    BY DEF Kept
  <2> QED BY <1>1, <1>2, <2>1, LinkFacts, AddedHeads DEF Sound
<1> QED BY <1>1, <1>2, <1>3, <1>5, <1>6, <1>7, <1>8, KeptFacts DEF BlockWellFormed

(* A block is added only when the walk has shown that there is none at the  *)
(* pc, and goes in front of the chain it belongs to.                        *)
LEMMA AddBlockSound == ASSUME Sound, AddBlock PROVE Sound'
<1> USE CacheAssumption
<1>1. at = "add" /\ at' = "link" /\ buf' = << >> /\ dpc' = 0 /\ pc' = pc
  BY DEF AddBlock
<1>2. PICK p \in Nat : p = bb'
  BY AddedSlots
<1>3. PICK n \in Nat : n = BlockSize /\ n >= 4
  BY <1>1, NewBlockFacts
<1>4. size' = p + n /\ size' <= TcacheSize /\ p >= 2
  BY <1>2, <1>3, AddedSlots
<1>5. PICK sz \in Nat : sz = size' /\ sz = p + n /\ sz <= TcacheSize
  BY <1>4
<1>6. TypeOK'
  <2>1. size' \in 2 .. TcacheSize
    BY <1>4, <1>5
  <2>2. bb' \in 0 .. Wild
    <3>1. p <= TcacheSize
      BY <1>3, <1>5
    <3> QED BY <1>2, <3>1 DEF Wild
  <2>3. table' \in [Buckets -> 0 .. Wild]
    BY <2>2, AddedSlots
  <2>4. buf' \in Seq([tag : {"insn"}, insn : Insn, at : Nat]) /\ Len(buf') < MaxSlots
    BY <1>1, BlockAssumption
  <2>5. flushed' \in BOOLEAN
    BY Zenon DEF AddBlock, Add, FlushedBy
  <2> QED BY <1>1, <2>1, <2>2, <2>3, <2>4, <2>5, AddedSlots DEF Sound, TypeOK, AddBlock, Undamaged
<1>7. WellFormed'
  <2>1. \A q \in Heads' : BlockWellFormed(q)'
    BY AddedHeads, AddedBlock, KeptBlock
  <2>2. ASSUME NEW q \in Heads', NEW r \in Heads' PROVE Disjoint(q, r)'
    <3>1. CASE q \in Kept /\ r \in Kept
      BY <3>1, KeptFacts DEF Sound, WellFormed, Disjoint
    <3>2. CASE q \in Kept /\ r = bb'
      BY <3>2, KeptFacts DEF Disjoint
    <3>3. CASE q = bb' /\ r \in Kept
      <4>1. r \in Nat /\ r + 1 < bb'
        BY <3>3, KeptFacts, BlockFacts DEF Sound
      <4> QED BY <1>2, <3>3, <4>1 DEF Disjoint
    <3>4. CASE q = bb' /\ r = bb'
      BY <1>2, <3>4 DEF Disjoint
    <3> QED BY <3>1, <3>2, <3>3, <3>4, AddedHeads
  <2> QED BY <2>1, <2>2 DEF WellFormed
<1>8. \A q \in Kept : q \in Nat /\ q < p /\ slot'[q].addr = slot[q].addr
  <2> TAKE q \in Kept
  <2>1. q \in Heads /\ q + 1 < bb' /\ slot'[q] = slot[q]
    BY KeptFacts
  <2> QED BY <1>2, <2>1, BlockFacts DEF Sound
<1>9. slot'[p].addr = pc /\ Heads' = Kept \cup {p}
  BY <1>2, AddedHeads, AddedBlock
<1>10. Undamaged' => Undamaged
  BY DEF AddBlock, Undamaged
<1>d. pc \in Nat /\ hashfunction(pc) \in Buckets
  BY HashInRange DEF Sound, TypeOK
<1>11. Pointed'
  <2>1. Kept \cup {bb'} \cup {0, Wild} \subseteq Pointer'
    BY AddedHeads DEF Pointer, Wild
  <2>2. ASSUME NEW h \in Buckets PROVE table'[h] \in Pointer'
    BY <1>d, <2>1, AddedSlots, KeptChains
  <2>3. ASSUME NEW q \in Heads' PROVE slot'[q + 1].link \in Pointer'
    <3>1. CASE q = bb'
      BY <1>d, <2>1, <3>1, AddedBlock, KeptChains
    <3>2. CASE q \in Kept
      <4>1. Kept = Heads /\ slot'[q + 1] = slot[q + 1]
        BY <3>2, KeptFacts DEF Kept
      <4> QED BY <2>1, <3>2, <4>1 DEF Sound, Chains, Pointed, Pointer
    <3> QED BY <3>1, <3>2, AddedHeads
  <2> QED BY <2>2, <2>3 DEF Pointed
<1>e. ASSUME Undamaged' PROVE Chained'
  <2>2. ASSUME NEW h \in Buckets
        PROVE  /\ KeptTable[h] \in Nat /\ KeptTable[h] < p
               /\ KeptTable[h] # 0 => KeptTable[h] \in Kept
                                      /\ hashfunction(slot[KeptTable[h]].addr) = h
               /\ \A r \in Kept : hashfunction(slot[r].addr) = h => r <= KeptTable[h]
    <3>0. KeptTable[h] = IF Full(BlockSize) THEN 0 ELSE table[h]
      BY <1>e, KeptChains
    <3>1. CASE Full(BlockSize)
      <4>1. KeptTable[h] = 0 /\ Kept = {}
        BY <3>0, <3>1 DEF Kept
      <4> QED BY <1>4, <4>1
    <3>2. CASE ~Full(BlockSize)
      <4>1. p = size /\ Kept = Heads /\ KeptTable[h] = table[h]
        BY <1>2, <3>0, <3>2, AddedSlots DEF Kept
      <4>3. ChainLink(h, size, table[h])
        BY <1>e, <1>10 DEF Sound, Chains, Chained
      <4>4. table[h] \in Nat
        BY DEF Sound, TypeOK, Wild
      <4> QED BY <1>8, <4>1, <4>3, <4>4 DEF ChainLink
    <3> QED BY <3>1, <3>2
  <2>3. ASSUME NEW h \in Buckets PROVE ChainLink(h, size, table[h])'
    <3>1. CASE h = hashfunction(pc)
      <4>1. table'[h] = p
        BY <1>2, <1>d, <3>1, AddedSlots
      <4>2. p < sz /\ \A r \in Heads' : r <= p
        BY <1>3, <1>5, <1>8, <1>9
      <4> QED BY <1>5, <1>9, <3>1, <4>1, <4>2 DEF ChainLink
    <3>2. CASE h # hashfunction(pc)
      <4>1. table'[h] = KeptTable[h]
        BY <1>d, <3>2, AddedSlots
      <4>2. PICK t \in Nat : t = table'[h] /\ t < p
        BY <2>2, <4>1
      <4>3. t < sz
        BY <1>3, <1>5, <4>2
      <4>4. t # 0 => t \in Heads' /\ hashfunction(slot'[t].addr) = h
        BY <1>8, <1>9, <2>2, <4>1, <4>2
      <4>5. \A r \in Heads' : hashfunction(slot'[r].addr) = h => r <= t
        BY <1>8, <1>9, <2>2, <3>2, <4>1, <4>2
      <4> QED BY <1>5, <4>2, <4>3, <4>4, <4>5 DEF ChainLink
    <3> QED BY <3>1, <3>2
  <2>4. ASSUME NEW q \in Heads'
        PROVE  ChainLink(hashfunction(slot[q].addr), q, slot[q + 1].link)'
    <3>1. CASE q = p
      <4>0. slot'[p + 1].link = KeptTable[hashfunction(pc)]
        BY <1>2, AddedBlock
      <4>1. PICK t \in Nat : t = slot'[p + 1].link /\ t = KeptTable[hashfunction(pc)]
        BY <1>d, <2>2, <4>0
      <4>2. t < p /\ (t # 0 => t \in Heads' /\ hashfunction(slot'[t].addr) = hashfunction(pc))
        BY <1>8, <1>9, <1>d, <2>2, <4>1
      <4>3. \A r \in Heads' : hashfunction(slot'[r].addr) = hashfunction(pc) /\ r < p => r <= t
        BY <1>8, <1>9, <1>d, <2>2, <4>1
      <4> QED BY <1>9, <3>1, <4>1, <4>2, <4>3 DEF ChainLink
    <3>2. CASE q \in Kept
      <4>1. Kept = Heads /\ slot'[q + 1] = slot[q + 1] /\ slot'[q] = slot[q]
        BY <3>2, KeptFacts DEF Kept
      <4>2. ChainLink(hashfunction(slot[q].addr), q, slot[q + 1].link)
        BY <1>e, <1>10, <3>2, <4>1 DEF Sound, Chains, Chained
      <4> QED BY <1>8, <1>9, <3>2, <4>1, <4>2 DEF ChainLink
    <3> QED BY <1>9, <3>1, <3>2
  <2> QED BY <2>3, <2>4 DEF Chained
<1>f. ASSUME Undamaged' PROVE Unique'
  <2>1. \A q \in Kept : q \in Heads /\ slot[q].addr # pc
    BY <1>1, <1>f, <1>10, KeptFacts DEF Sound, Placed, Untranslated
  <2> QED BY <1>8, <1>9, <1>f, <1>10, <2>1 DEF Sound, Chains, Unique
<1>g. Chains'
  BY <1>11, <1>e, <1>f DEF Chains
<1>12. ASSUME Overwrites(target)' PROVE (target \in InsnSlots(bb))'
  <2>0. target' = target
    BY DEF AddBlock
  <2>1. CASE ~Full(BlockSize) /\ target # Mismatch
    <3>1. Kept = Heads
      BY <2>1 DEF Kept
    <3>2. PICK q \in Kept : target \in LinkSlots(q)
      BY <1>1, <2>1, <3>1 DEF Sound, Placed, TargetLive
    <3>3. target \in q .. End(q) - 1
      BY <3>2, KeptFacts
    <3>4. slot'[target] = slot[target]
      BY <3>3, KeptFacts
    <3>5. slot[target].tag = "link"
      BY <3>1, <3>2, LinkFacts DEF Sound
    <3> QED BY <1>12, <2>0, <3>4, <3>5 DEF Overwrites
  <2>2. CASE target = Mismatch
    BY <1>12, <2>0, <2>2 DEF Overwrites, Mismatch
  <2>3. CASE Full(BlockSize) /\ target # Mismatch
    <3>1. p = 2
      BY <1>2, <2>3, AddedSlots
    <3>2. PICK q \in Heads : target \in LinkSlots(q)
      BY <1>1, <2>3 DEF Sound, Placed, TargetLive
    <3>3. PICK t \in Nat : t = target /\ t >= 5
      BY <3>2, BlockFacts DEF Sound, LinkSlots
    <3>4. PICK len \in Nat : len = Len(buf)
      BY <1>1, NewBlockFacts
    <3>5. PICK e \in Nat : e = Links(buf)
      BY <1>1, NewBlockFacts
    <3>6. n = 2 + len + e /\ sz = 4 + len + e
      BY <1>1, <1>3, <1>5, <3>1, <3>4, <3>5, NewBlockFacts
    <3>7. t =< 3 + len + e /\ slot'[t].tag # "link"
      BY <1>5, <1>12, <2>0, <3>3, <3>6 DEF Overwrites
    <3>8. InsnSlots(bb)' = 4 .. 3 + len
      <4>1. slot'[p + 1].count = Len(buf)
        BY <1>1, <1>2, AddedSlots, NewBlockFacts DEF MetaWord
      <4> QED BY <1>2, <3>1, <3>4, <4>1 DEF InsnSlots, Count
    <3>9. CASE t > 3 + len
      <4>1. t - 3 \in len + 1 .. len + e /\ t - 3 \in 1 .. len + e /\ p + 1 + (t - 3) = t
        BY <3>1, <3>3, <3>7, <3>9
      <4>2. slot'[t] = Words(buf)[t - 3]
        BY <1>2, <3>4, <3>5, <4>1, AddedSlots
      <4>3. Words(buf)[t - 3] = LinkWord(Mismatch)
        BY <1>1, <3>4, <3>5, <4>1, NewWords
      <4> QED BY <3>7, <4>2, <4>3 DEF LinkWord
    <3>10. CASE t =< 3 + len
      BY <2>0, <3>3, <3>8, <3>10
    <3> QED BY <3>9, <3>10
  <2> QED BY <2>1, <2>2, <2>3
<1>13. Placed' /\ Stops'
  BY <1>1, <1>2, <1>9, <1>12 DEF Placed, Stops
<1> QED BY <1>6, <1>7, <1>13, <1>g DEF Sound

--------------------------------------------------------------------------------
(* A link stored over an instruction, and the hart on its way to it.        *)

LEMMA StoreOverInsn == ASSUME Sound, StoreLink, Overwrites(target) PROVE Doomed'
<1> USE DEF StoreLink
<1>1. bb \in Heads /\ bb \in Nat /\ target \in InsnSlots(bb) /\ buf = << >>
  BY BlockFacts DEF Sound, Placed
<1>2. /\ bb + 2 \in InsnSlots(bb) /\ bb + 2 \in Slots /\ bb + 1 \in Slots /\ bb \in Slots
      /\ Count(bb) \in Nat /\ LastSlot(bb) \in Nat /\ LastSlot(bb) = bb + 1 + Count(bb)
      /\ LastSlot(bb) \in InsnSlots(bb) /\ LastSlot(bb) \in Slots
  BY <1>1, BlockFacts DEF Sound, InsnSlots
<1>3. target # Mismatch /\ target \in Slots /\ target # bb + 1
  BY <1>1, <1>2, BlockFacts DEF InsnSlots, Mismatch, Sound, TypeOK
<1>4. /\ slot' = [slot EXCEPT ![target] = LinkWord(bb)] /\ UNCHANGED mismatch_target
      /\ i' = bb + 2 /\ at' = "exec" /\ damage' = damage \cup {"store"}
      /\ UNCHANGED << table, size, flushed, pc, retired, target, bb, dpc, buf >>
  BY <1>3
<1>5. slot'[target] = LinkWord(bb) /\ \A k \in Slots \ {target} : slot'[k] = slot[k]
  BY <1>3, <1>4 DEF Sound, TypeOK
<1>6. TypeOK'
  <2>1. LinkWord(bb) \in Word
    BY <1>2, WordsTyped
  <2>2. slot' \in [Slots -> Word]
    BY <1>4, <2>1 DEF Sound, TypeOK
  <2> QED BY <1>2, <1>4, <2>2 DEF Sound, TypeOK
<1>7. Count(bb)' = Count(bb) /\ LastSlot(bb)' = LastSlot(bb) /\ InsnSlots(bb)' = InsnSlots(bb)
  BY <1>2, <1>3, <1>4, <1>5 DEF Count, LastSlot, InsnSlots
<1>8. BlockWellFormed(bb) /\ slot[bb].addr = pc
  BY <1>1 DEF Sound, WellFormed, Placed
<1>9. slot'[i'].tag = "insn" => slot'[i'].at = pc'
  BY <1>2, <1>4, <1>5, <1>8 DEF LinkWord, BlockWellFormed
<1>10. \A k \in InsnSlots(bb) : slot'[k].tag = "insn" => k # target /\ slot'[k] = slot[k] /\ Translates(k)'
  <2> SUFFICES ASSUME NEW k \in InsnSlots(bb), slot'[k].tag = "insn"
               PROVE  k # target /\ slot'[k] = slot[k] /\ Translates(k)'
    OBVIOUS
  <2>1. k # target
    BY <1>5 DEF LinkWord
  <2>2. k \in Slots /\ Translates(k)
    BY <1>1, <1>8, InsnFacts DEF Sound, BlockWellFormed
  <2> QED BY <1>5, <2>1, <2>2 DEF Translates
<1>11. \A k \in i' .. LastSlot(bb) : k \in InsnSlots(bb)
  BY <1>1, <1>2, <1>4 DEF InsnSlots
<1>12. ASSUME NEW k \in i' .. LastSlot(bb) - 1, slot'[k].tag = "insn"
       PROVE  ~stop_after(slot'[k].insn) /\ (slot'[k + 1].tag = "insn" => Follows(k)')
  <2>1. k \in InsnSlots(bb) /\ k + 1 \in InsnSlots(bb) /\ k # LastSlot(bb)
    BY <1>1, <1>2, <1>4, <1>12 DEF InsnSlots
  <2>2. Follows(k) /\ ~stop_after(slot[k].insn)
    BY <1>1, <2>1, InsnFacts DEF Sound
  <2> QED BY <1>10, <1>12, <2>1, <2>2 DEF Follows
<1>13. \E k \in i' .. LastSlot(bb) : slot'[k].tag # "insn"
  <2>1. target \in i' .. LastSlot(bb)
    BY <1>1, <1>2, <1>4 DEF InsnSlots
  <2> QED BY <1>5, <2>1 DEF LinkWord
<1>14. bb' = bb /\ i' \in InsnSlots(bb)
  BY <1>2, <1>4
<1> QED BY <1>2, <1>4, <1>6, <1>7, <1>9, <1>10, <1>11, <1>12, <1>13, <1>14 DEF Doomed

(* It executes what was decoded, and stays in front of the link.            *)
LEMMA DoomedExec ==
  ASSUME Doomed, NEW taken \in BOOLEAN, Exec(taken)
  PROVE  Doomed' /\ slot[i].at = pc /\ Translates(i)
<1> USE DEF Exec
<1>1. /\ TypeOK /\ at = "exec" /\ slot[i].tag = "insn" /\ slot[i].at = pc
      /\ i \in InsnSlots(bb) /\ Count(bb) \in Nat /\ LastSlot(bb) \in Slots
  BY DEF Doomed
<1>2. /\ bb \in Nat /\ i \in Nat /\ bb + 2 =< i /\ i =< LastSlot(bb)
      /\ LastSlot(bb) = bb + 1 + Count(bb) /\ LastSlot(bb) \in Nat
  BY <1>1, CacheAssumption DEF TypeOK, Wild, Slots, InsnSlots, LastSlot
<1>3. Translates(i)
  BY <1>1, <1>2 DEF Doomed
<1>4. PICK k \in i .. LastSlot(bb) : slot[k].tag # "insn"
  BY <1>1 DEF Doomed
<1>5. i # LastSlot(bb)
  BY <1>1, <1>2, <1>4
<1>6. ~IsLast
  BY <1>2, <1>5 DEF IsLast, Count
<1>7. i \in i .. LastSlot(bb) - 1
  BY <1>2, <1>5
<1>8. ~stop_after(slot[i].insn) /\ (slot[i + 1].tag = "insn" => Follows(i))
  BY <1>1, <1>7 DEF Doomed
<1>9. slot[i] \in Word /\ slot[i].insn \in Insn /\ slot[i].insn.len \in Nat
  <2>1. slot[i] \in Word
    BY <1>1 DEF TypeOK
  <2>2. slot[i].insn \in Insn
    BY <1>1, <2>1, WordFields
  <2> QED BY <2>1, <2>2, InsnTyped
<1>10. ~taken
  BY <1>8, <1>9, PlainInsn DEF MayReturn
<1>11. /\ pc' = pc + slot[i].insn.len /\ i' = i + 1 /\ at' = "exec" /\ target' = target
       /\ UNCHANGED << tcacheVars, mismatch_target, bb, dpc, buf, damage >>
       /\ retired' = [at |-> pc, insn |-> slot[i].insn]
  BY <1>6, <1>10 DEF NextPC
<1>12. i' \in Slots /\ i' \in InsnSlots(bb)
  <2>1. i + 1 \in Nat /\ bb + 2 =< i + 1 /\ i + 1 =< LastSlot(bb)
    BY <1>2, <1>5
  <2>2. i + 1 \in Slots
    BY <1>1, <1>2, <2>1, CacheAssumption DEF Slots
  <2>3. i + 1 \in bb + 2 .. LastSlot(bb)
    BY <1>2, <2>1
  <2> QED BY <1>2, <1>11, <2>2, <2>3 DEF InsnSlots
<1>13. TypeOK'
  <2>1. pc' \in Nat /\ i' \in Slots /\ at' = "exec"
    BY <1>1, <1>9, <1>11, <1>12 DEF TypeOK
  <2>2. retired' \in [at : Nat, insn : Insn]
    BY <1>1, <1>9, <1>11 DEF TypeOK
  <2> QED
    BY <1>1, <1>11, <2>1, <2>2 DEF TypeOK, tcacheVars
<1>14. slot' = slot /\ bb' = bb /\ Count(bb)' = Count(bb) /\ LastSlot(bb)' = LastSlot(bb)
       /\ InsnSlots(bb)' = InsnSlots(bb)
  BY <1>11 DEF tcacheVars, Count, LastSlot, InsnSlots
<1>15. slot[i + 1].tag = "insn" => slot[i + 1].at = pc'
  BY <1>1, <1>8, <1>11 DEF Follows
<1>16. /\ \A j \in i' .. LastSlot(bb) : j \in i .. LastSlot(bb)
       /\ \A j \in i' .. LastSlot(bb) - 1 : j \in i .. LastSlot(bb) - 1
       /\ k \in i' .. LastSlot(bb)
  <2>1. k # i
    BY <1>1, <1>4
  <2> QED BY <1>2, <1>4, <1>11, <2>1
<1>17. \A j \in i' .. LastSlot(bb) : slot'[j].tag = "insn" => Translates(j)'
  BY <1>1, <1>14, <1>16 DEF Doomed, Translates
<1>18. \A j \in i' .. LastSlot(bb) - 1 :
         slot'[j].tag = "insn" => /\ ~stop_after(slot'[j].insn)
                                  /\ slot'[j + 1].tag = "insn" => Follows(j)'
  BY <1>1, <1>14, <1>16 DEF Doomed, Follows
<1> QED
  BY <1>1, <1>3, <1>4, <1>11, <1>12, <1>13, <1>14, <1>15, <1>16, <1>17, <1>18 DEF Doomed

LEMMA DoomedNext == ASSUME Doomed, [Next]_vars PROVE Doomed'
<1>1. CASE \E taken \in BOOLEAN : Exec(taken)
  BY <1>1, DoomedExec
<1>2. CASE ExecWild
  BY <1>2 DEF ExecWild, Doomed, TypeOK, tcacheVars
<1>3. CASE UNCHANGED vars
  BY <1>3 DEF vars, interpVars, tcacheVars, Doomed, TypeOK, InsnSlots, Count, LastSlot, Translates, Follows
<1> QED
  BY <1>1, <1>2, <1>3 DEF Doomed, Next, PredictHit, PredictNull, PredictMiss,
     FindHit, FindNext, FindMiss, FindWild, DecodeFault, DecodeStop, Decode, RejectSC, AddTooBig,
     AddWild, AddBlock, StoreLink

--------------------------------------------------------------------------------
(* The step theorem and what it yields.                                     *)

(* Every step of the hart keeps the invariant.                              *)
LEMMA NextSound == ASSUME IInv, [Next]_vars PROVE IInv'
<1>d. CASE Stored
  BY <1>d, DamageStays, DoomedNext DEF IInv
<1>s. CASE StoreLink /\ ~Stored /\ Overwrites(target)
  <2>1. Doomed'
    BY <1>s, StoreOverInsn DEF IInv
  <2> QED BY <1>s, <2>1 DEF IInv, Stored, StoreLink
<1> SUFFICES ASSUME ~Stored, ~(StoreLink /\ Overwrites(target)) PROVE Sound'
  <2>1. CASE ~Stored /\ ~(StoreLink /\ Overwrites(target))
    <3>1. ~Stored'
      BY <2>1 DEF Stored, Next, vars, interpVars, PredictHit, PredictNull, PredictMiss, FindHit,
         FindNext, FindMiss, FindWild, DecodeFault, DecodeStop, Decode, RejectSC, AddTooBig,
         AddWild, AddBlock, StoreLink, ExecWild, Exec
    <3> QED BY <2>1, <3>1 DEF IInv
  <2> QED BY <1>d, <1>s, <2>1
<1>0. Sound
  BY DEF IInv
<1>1. CASE PredictHit
  BY <1>0, <1>1, PredictHitSound
<1>2. CASE PredictNull
  BY <1>0, <1>2, PredictNullSound
<1>3. CASE PredictMiss
  BY <1>0, <1>3, PredictMissSound
<1>4. CASE FindHit
  BY <1>0, <1>4, FindHitSound
<1>5. CASE FindNext
  BY <1>0, <1>5, FindNextSound
<1>6. CASE FindMiss
  BY <1>0, <1>6, FindMissSound
<1>7. CASE FindWild
  BY <1>0, <1>7, FindWildSound
<1>8. CASE DecodeFault
  BY <1>0, <1>8, DecodeFaultSound
<1>9. CASE DecodeStop
  BY <1>0, <1>9, DecodeStopSound
<1>10. CASE Decode
  BY <1>0, <1>10, DecodeSound
<1>11. CASE RejectSC \/ AddTooBig
  BY <1>0, <1>11, RejectSound
<1>12. CASE AddWild
  BY <1>0, <1>12, AddWildSound
<1>13. CASE AddBlock
  BY <1>0, <1>13, AddBlockSound
<1>14. CASE StoreLink
  BY <1>0, <1>14, StoreLinkSound
<1>15. CASE ExecWild
  BY <1>0, <1>15, ExecWildNever
<1>16. ASSUME NEW taken \in BOOLEAN, Exec(taken) PROVE Sound'
  BY <1>0, <1>16, ExecSound
<1>17. CASE UNCHANGED vars
  <2>1. Sound
    BY <1>0
  <2> USE <1>17 DEF vars, interpVars
  <2>2. TypeOK'
    BY <2>1 DEF Sound, TypeOK, tcacheVars
  <2>3. Heads' = Heads /\ WellFormed' /\ Chains' /\ slot' = slot /\ size' = size
    BY <2>1, CacheFrame DEF Sound, tcacheVars
  <2>4. Placed'
    BY <2>1, <2>3 DEF Sound, Placed, TargetLive, LinkSlots, InsnSlots, LastSlot, Count, Searching,
       Untranslated, Decoded, Executing, Overwrites, Pointer, Wild, Undamaged
  <2>5. (Undamaged => Stops)'
    BY <2>1 DEF Sound, Stops, TooBig, BlockSize, Links, Last, Undamaged
  <2> QED BY <2>2, <2>3, <2>4, <2>5 DEF Sound
<1> QED
  BY <1>1, <1>2, <1>3, <1>4, <1>5, <1>6, <1>7, <1>8, <1>9, <1>10, <1>11, <1>12, <1>13, <1>14,
     <1>15, <1>16, <1>17 DEF Next

(* Until a link is stored over an instruction every block of the cache is   *)
(* as it should be, and the hart is where it should be in it; from then on  *)
(* it is on its way to that link.  The hash chains are as they should be    *)
(* until the copy loop writes over the table.                               *)
THEOREM InvariantHolds == Spec => []IInv
<1>1. Init => IInv
  BY InitSound
<1>2. IInv /\ [Next]_vars => IInv'
  BY NextSound
<1> QED BY <1>1, <1>2, PTL DEF Spec

(* find_bb() and the cache keep their types, whatever the program and       *)
(* whatever becomes of the cache.                                           *)
THEOREM TypesHold == Spec => []TypeOK
<1>1. IInv => TypeOK
  BY DEF IInv, Sound, Doomed
<1> QED BY <1>1, InvariantHolds, PTL

LEMMA UndamagedSound == ASSUME IInv, Undamaged PROVE Sound
  BY DEF IInv, Undamaged, Stored

(* Until a link is stored over an instruction every cached block is the     *)
(* straight-line run of guest instructions at its address, for every        *)
(* program and every size of cache.                                         *)
THEOREM BlocksStayWellFormed == Spec => []BlocksWellFormed
<1>1. IInv => BlocksWellFormed
  BY DEF IInv, Sound, BlocksWellFormed
<1> QED BY <1>1, InvariantHolds, PTL

(* No insertion and no flush loses a block from its hash chain, loops a     *)
(* chain or leaves an address in it that is no block's.                     *)
THEOREM LookupIsExact == Spec => []ChainsComplete
<1>1. IInv => ChainsComplete
  BY UndamagedSound DEF Sound, Chains, ChainsComplete
<1> QED BY <1>1, InvariantHolds, PTL

(* Until something is written out of its place no address is translated     *)
(* twice between two flushes.                                               *)
THEOREM BlocksAreUnique == Spec => []NoDuplicateBlocks
<1>1. IInv => NoDuplicateBlocks
  BY UndamagedSound DEF Sound, Chains, NoDuplicateBlocks
<1> QED BY <1>1, InvariantHolds, PTL

(* The hart stops only where the guest itself goes wrong: "unexpected       *)
(* branch!" is never reached.                                               *)
THEOREM StopsAreTheGuests == Spec => []OnlyGuestStops
<1>1. IInv => OnlyGuestStops
  BY UndamagedSound DEF Sound, OnlyGuestStops
<1> QED BY <1>1, InvariantHolds, PTL

--------------------------------------------------------------------------------
(* Refinement of the reference machine.                                     *)

(* The instruction executed is the one decoded, and predecoded, at the pc.  *)
LEMMA ExecIsGuestStep ==
  ASSUME IInv, NEW taken \in BOOLEAN, Exec(taken)
  PROVE  GM!Next
<1> USE DEF Exec
<1>1. slot[i].at = pc /\ Translates(i)
  <2>1. CASE Stored
    BY <2>1, DoomedExec DEF IInv
  <2>2. CASE ~Stored
    <3>1. Sound /\ bb \in Heads /\ i \in InsnSlots(bb) /\ slot[i].at = pc
      BY <2>2 DEF IInv, Sound, Placed, Executing
    <3> QED BY <3>1, InsnFacts DEF Sound, Translates
  <2> QED BY <2>1, <2>2
<1>2. pc \in Mapped /\ slot[i].insn = Predecode(Code[pc])
  BY <1>1 DEF Translates
<1>3. MayReturn(Predecode(Code[pc]), taken) /\ pc' \in NextPC(pc, Predecode(Code[pc]), taken)
      /\ retired' = [at |-> pc, insn |-> Predecode(Code[pc])]
  BY <1>2
<1> QED BY <1>2, <1>3 DEF GM!Next, GM!Step, GM!Mapped, GM!MayReturn, GM!NextPC, MayReturn, NextPC, Mapped

(* The first state is the machine's.                                        *)
LEMMA InitIsGuestInit == Init => GM!Init
  BY DEF Init, GM!Init, NoInsn, GM!NoInsn

(* Out of its cache the hart executes what the machine that decodes at      *)
(* every pc executes, in the same order, for every program and every size   *)
(* of cache, and also after the cache has been flushed or damaged.          *)
THEOREM Refinement == Spec => ImplementsGuestMachine
<1>1. ASSUME IInv, [Next]_vars PROVE [GM!Next]_(GM!vars)
  <2>2. CASE \E taken \in BOOLEAN : Exec(taken)
    BY <1>1, <2>2, ExecIsGuestStep
  <2>3. CASE ~\E taken \in BOOLEAN : Exec(taken)
    BY <1>1, <2>3 DEF Next, vars, interpVars, GM!vars, PredictHit, PredictNull, PredictMiss,
       FindHit, FindNext, FindMiss, FindWild, DecodeFault, DecodeStop, Decode, RejectSC,
       AddTooBig, AddWild, AddBlock, StoreLink, ExecWild
  <2> QED BY <2>2, <2>3
<1>2. IInv /\ [Next]_vars => [GM!Next]_(GM!vars)
  BY <1>1
<1> QED
  BY <1>2, InvariantHolds, InitIsGuestInit, PTL DEF Spec, ImplementsGuestMachine, GM!Spec

--------------------------------------------------------------------------------
(* The links between blocks.                                                *)

(* What a block's links predict depends on its header and last instruction. *)
LEMMA OutcomesFrame ==
  ASSUME NEW p, slot'[p + 1] = slot[p + 1], slot'[LastSlot(p)] = slot[LastSlot(p)]
  PROVE  /\ LastSlot(p)' = LastSlot(p) /\ LinkSlots(p)' = LinkSlots(p)
         /\ \A k : Outcomes(p, k)' = Outcomes(p, k)
<1>1. LastSlot(p)' = LastSlot(p) /\ LinkSlots(p)' = LinkSlots(p)
  BY DEF LastSlot, LinkSlots, Count
<1>2. \A taken : Successors(p, taken)' = Successors(p, taken)
  BY <1>1 DEF Successors
<1>3. ASSUME NEW k PROVE Outcomes(p, k)' = Outcomes(p, k)
  <2>1. Successors(p, TRUE)' = Successors(p, TRUE) /\ Successors(p, FALSE)' = Successors(p, FALSE)
    BY <1>2
  <2>2. slot'[p + 1].conditional = slot[p + 1].conditional
    OBVIOUS
  <2> QED BY <1>1, <2>1, <2>2 DEF Outcomes
<1> QED BY <1>1, <1>3

(* A link belongs to one block.                                             *)
LEMMA OneOwner ==
  ASSUME TypeOK, WellFormed, NEW p \in Heads, NEW q \in Heads, NEW k \in LinkSlots(p), k \in LinkSlots(q)
  PROVE  p = q
<1>1. ASSUME NEW r \in Heads, k \in LinkSlots(r) PROVE r < k /\ k < End(r) /\ k \in Nat /\ r \in Nat /\ End(r) \in Nat
  BY <1>1, BlockFacts DEF LinkSlots
<1>2. Disjoint(p, q) /\ Disjoint(q, p)
  BY DEF WellFormed
<1>3. /\ p < k /\ k < End(p) /\ p \in Nat /\ End(p) \in Nat
      /\ q < k /\ k < End(q) /\ q \in Nat /\ End(q) \in Nat /\ k \in Nat
  BY <1>1
<1> QED BY <1>2, <1>3 DEF Disjoint

LEMMA LinkInvInit == Init => LinkInv
<1> SUFFICES ASSUME Init PROVE LinkInv
  OBVIOUS
<1>1. Heads = {}
  BY CacheAssumption DEF Init, TcacheInit, Heads
<1> QED BY <1>1 DEF LinkInv, LinksTrue

(* As long as the cache is left alone its links stay true.                  *)
LEMMA LinksFrame ==
  ASSUME UNCHANGED tcacheVars
  PROVE  /\ Heads' = Heads /\ LinksTrue' = LinksTrue
         /\ \A p : LinkSlots(p)' = LinkSlots(p) /\ \A k : Outcomes(p, k)' = Outcomes(p, k)
<1>1. slot' = slot /\ size' = size
  BY DEF tcacheVars
<1>2. Heads' = Heads
  BY <1>1 DEF Heads
<1>3. \A p : LinkSlots(p)' = LinkSlots(p) /\ \A k : Outcomes(p, k)' = Outcomes(p, k)
  BY <1>1, OutcomesFrame
<1>4. LinksTrue' = LinksTrue
  BY <1>1, <1>2, <1>3 DEF LinksTrue, LinkTrue
<1> QED BY <1>2, <1>3, <1>4

LEMMA LinkInvExec ==
  ASSUME Sound, LinksTrue, NEW taken \in BOOLEAN, Exec(taken)
  PROVE  LinksTrue' /\ (at' = "top" => \A p \in Heads' : Predicted(p)')
<1> USE DEF Exec
<1>1. Heads' = Heads /\ LinksTrue' /\ \A p : LinkSlots(p)' = LinkSlots(p) /\ \A k : Outcomes(p, k)' = Outcomes(p, k)
  BY LinksFrame
<1> SUFFICES ASSUME at' = "top", NEW p \in Heads, target' \in LinkSlots(p)
             PROVE  pc' \in Outcomes(p, target')
  BY <1>1 DEF Predicted
<1>2. /\ bb \in Heads /\ i \in InsnSlots(bb) /\ slot[i].at = pc
  BY DEF Sound, Placed, Executing
<1>3. /\ i \in Nat /\ i <= LastSlot(bb) /\ LastSlot(bb) \in Nat /\ LastSlot(bb) = bb + 1 + slot[bb + 1].count
      /\ slot[bb + 1].conditional \in BOOLEAN
      /\ slot[bb + 1].conditional = conditional(slot[LastSlot(bb)].insn)
  BY <1>2, InsnFacts, BlockFacts DEF Sound, Count, WellFormed, BlockWellFormed
<1>4. IsLast /\ i = LastSlot(bb) /\ target' = LinkSlot(taken)
  BY <1>2, <1>3, BlockFacts DEF Sound, IsLast
<1>5. target' = (IF ~taken /\ slot[bb + 1].conditional THEN i + 2 ELSE i + 1)
  BY <1>4 DEF LinkSlot
<1>6. target' \in LinkSlots(bb)
  BY <1>3, <1>4, <1>5 DEF LinkSlots
<1>7. p = bb
  BY <1>2, <1>6, OneOwner DEF Sound
<1>8. pc' \in Successors(bb, taken)
  BY <1>2, <1>4 DEF Successors
<1>9. CASE ~taken /\ slot[bb + 1].conditional
  BY <1>3, <1>4, <1>5, <1>7, <1>8, <1>9 DEF Outcomes
<1>10. CASE ~(~taken /\ slot[bb + 1].conditional)
  <2>1. target' # LastSlot(bb) + 2
    BY <1>3, <1>4, <1>5, <1>10
  <2>2. slot[bb + 1].conditional => taken = TRUE
    BY <1>10
  <2>3. taken = TRUE \/ taken = FALSE
    OBVIOUS
  <2> QED BY <1>7, <1>8, <2>1, <2>2, <2>3 DEF Outcomes
<1> QED BY <1>9, <1>10

LEMMA LinkInvStore ==
  ASSUME Sound, LinksTrue, \A p \in Heads : Predicted(p), StoreLink, ~Overwrites(target)
  PROVE  LinksTrue'
<1> USE DEF StoreLink
<1>1. bb \in Heads /\ slot[bb].addr = pc /\ Sound'
  BY StoreLinkSound DEF Sound, Placed
<1>2. CASE target = Mismatch
  <2>1. UNCHANGED tcacheVars
    BY <1>2 DEF tcacheVars
  <2> QED BY <2>1, LinksFrame
<1>3. CASE target # Mismatch
  <2>1. /\ target \in Slots /\ slot' = [slot EXCEPT ![target] = LinkWord(bb)]
        /\ size' = size
    BY <1>3 DEF Sound, TypeOK
  <2>2. slot'[target] = LinkWord(bb) /\ \A k \in Slots \ {target} : slot'[k] = slot[k]
    BY <2>1 DEF Sound, TypeOK
  <2>3. ASSUME NEW k \in 2 .. size - 1, slot[k].tag # "link"
        PROVE  slot'[k] = slot[k]
    <3>1. k \in Slots
      BY CacheAssumption DEF Sound, TypeOK, Slots
    <3>2. k # target
      BY <2>3 DEF Overwrites
    <3> QED BY <2>2, <3>1, <3>2
  <2>4. ASSUME NEW p \in Heads
        PROVE  /\ slot'[p] = slot[p]
               /\ LinkSlots(p)' = LinkSlots(p) /\ \A k : Outcomes(p, k)' = Outcomes(p, k)
    <3>1. /\ p \in Nat /\ p >= 2 /\ p + 1 < size /\ size \in Nat /\ LastSlot(p) \in Nat /\ LastSlot(p) < size
          /\ LastSlot(p) > p /\ LastSlot(p) \in InsnSlots(p)
      BY BlockFacts DEF Sound, InsnSlots
    <3>2. slot[p].tag # "link" /\ slot[p + 1].tag # "link" /\ slot[LastSlot(p)].tag # "link"
      BY <3>1, BlockFacts, InsnFacts DEF Sound
    <3>3. slot'[p] = slot[p] /\ slot'[p + 1] = slot[p + 1] /\ slot'[LastSlot(p)] = slot[LastSlot(p)]
      BY <2>3, <3>1, <3>2
    <3> QED BY <3>3, OutcomesFrame
  <2>5. Heads' = Heads
    <3>1. ASSUME NEW p \in Heads PROVE p \in Heads'
      BY <2>1, <2>4 DEF Heads
    <3>2. ASSUME NEW p \in Heads' PROVE p \in Heads
      <4>1. p \in 2 .. size - 1 /\ slot'[p].tag = "addr" /\ p \in Slots
        BY <2>1, CacheAssumption DEF Heads, Sound, TypeOK, Slots
      <4>2. p # target
        BY <2>2, <4>1 DEF LinkWord
      <4> QED BY <2>2, <4>1, <4>2 DEF Heads
    <3> QED BY <3>1, <3>2
  <2>6. ASSUME NEW p \in Heads, NEW k \in LinkSlots(p) PROVE LinkTrue(p, k)'
    <3>1. CASE k = target
      <4>1. slot'[k].to = bb /\ slot'[bb].addr = pc
        BY <1>1, <2>2, <2>4, <3>1 DEF LinkWord
      <4>2. p = bb \/ pc \in Outcomes(p, k)
        BY <3>1 DEF Predicted
      <4> QED BY <2>4, <4>1, <4>2 DEF LinkTrue
    <3>2. CASE k # target
      <4>1. slot'[k] = slot[k] /\ slot[k].to \in Heads \cup {Mismatch}
        BY <2>2, <3>2, LinkFacts DEF Sound
      <4>2. LinkTrue(p, k)
        BY DEF LinksTrue
      <4> QED BY <2>4, <4>1, <4>2 DEF LinkTrue
    <3> QED BY <3>1, <3>2
  <2> QED BY <2>4, <2>5, <2>6 DEF LinksTrue
<1> QED BY <1>2, <1>3

LEMMA LinkInvAdd ==
  ASSUME Sound, LinksTrue, \A p \in Heads : Predicted(p), AddBlock
  PROVE  LinksTrue' /\ \A p \in Heads' : Predicted(p)'
<1>0. /\ at = "add" /\ at' = "link" /\ pc' = pc /\ target' = target
  BY DEF AddBlock
<1>1. Heads' = Kept \cup {bb'} /\ bb' \notin Kept
  BY AddedHeads
<1>2. ASSUME NEW q \in Kept
      PROVE  /\ q \in Heads /\ slot'[q] = slot[q]
             /\ LinkSlots(q)' = LinkSlots(q) /\ \A k : Outcomes(q, k)' = Outcomes(q, k)
             /\ \A k \in LinkSlots(q) : slot'[k] = slot[k]
  <2>1. /\ q \in Heads /\ slot'[q] = slot[q] /\ slot'[q + 1] = slot[q + 1]
        /\ \A k \in q .. End(q) - 1 : slot'[k] = slot[k]
        /\ LinkSlots(q) \subseteq q .. End(q) - 1 /\ InsnSlots(q) \subseteq q .. End(q) - 1
    BY KeptFacts
  <2>2. LastSlot(q) \in InsnSlots(q)
    BY <2>1, BlockFacts DEF Sound, InsnSlots
  <2>3. slot'[LastSlot(q)] = slot[LastSlot(q)]
    BY <2>1, <2>2
  <2> QED BY <2>1, <2>3, OutcomesFrame
<1>3. ASSUME NEW q \in Kept, NEW k \in LinkSlots(q) PROVE LinkTrue(q, k)'
  <2>1. Kept = Heads
    BY DEF Kept
  <2>2. LinkTrue(q, k) /\ slot[k].to \in Heads \cup {Mismatch} /\ slot'[k] = slot[k]
    BY <1>2, <2>1, LinkFacts DEF LinksTrue, Sound
  <2> QED BY <1>2, <2>1, <2>2 DEF LinkTrue
<1>4. ASSUME NEW k \in LinkSlots(bb)' PROVE LinkTrue(bb, k)'
  <2>1. slot'[k].to = Mismatch
    BY AddedBlock
  <2> QED BY <2>1 DEF LinkTrue
<1>5. LinksTrue'
  BY <1>1, <1>2, <1>3, <1>4 DEF LinksTrue
<1>6. ASSUME NEW q \in Kept PROVE Predicted(q)'
  <2>1. target \in LinkSlots(q) => pc \in Outcomes(q, target)
    BY <1>0, <1>2 DEF Predicted
  <2> QED BY <1>0, <1>2, <2>1 DEF Predicted
<1>7. Predicted(bb)'
  BY <1>0 DEF Predicted
<1> QED BY <1>1, <1>5, <1>6, <1>7

LEMMA LinkInvNext == ASSUME IInv, LinkInv, [Next]_vars PROVE LinkInv'
<1> SUFFICES ASSUME ~Stored'
             PROVE  /\ LinksTrue'
                    /\ at' \in {"top", "find", "decode", "add", "link"} => \A p \in Heads' : Predicted(p)'
  BY DEF LinkInv
<1>0. /\ ~Stored /\ Sound /\ LinksTrue
      /\ at \in {"top", "find", "decode", "add", "link"} => \A p \in Heads : Predicted(p)
  BY DamageStays DEF IInv, LinkInv
<1>1. CASE AddBlock
  BY <1>0, <1>1, LinkInvAdd DEF AddBlock
<1>2. CASE StoreLink
  <2>1. ~Overwrites(target)
    BY <1>2 DEF StoreLink, Stored
  <2> QED BY <1>0, <1>2, <2>1, LinkInvStore DEF StoreLink
<1>3. CASE \E taken \in BOOLEAN : Exec(taken)
  <2>1. at' \in {"top", "dead", "exec"}
    BY <1>3 DEF Exec
  <2> QED BY <1>0, <1>3, <2>1, LinkInvExec
<1>4. CASE ~AddBlock /\ ~StoreLink /\ ~\E taken \in BOOLEAN : Exec(taken)
  <2>1. UNCHANGED tcacheVars
    BY <1>4 DEF Next, vars, PredictHit, PredictNull, PredictMiss, FindHit, FindNext, FindMiss, FindWild,
       DecodeFault, DecodeStop, Decode, RejectSC, AddTooBig, AddWild, ExecWild
  <2>2. /\ Heads' = Heads /\ LinksTrue'
        /\ \A p : LinkSlots(p)' = LinkSlots(p) /\ \A k : Outcomes(p, k)' = Outcomes(p, k)
    BY <1>0, <2>1, LinksFrame
  <2>3. /\ target' = target /\ pc' = pc
        /\ at' \in {"top", "find", "decode", "add", "link"} =>
             \/ at \in {"top", "find", "decode", "add"}
             \/ at' = at /\ bb' = bb
    BY <1>4 DEF Next, vars, interpVars, PredictHit, PredictNull, PredictMiss, FindHit, FindNext, FindMiss, FindWild,
       DecodeFault, DecodeStop, Decode, RejectSC, AddTooBig, AddWild, ExecWild
  <2>4. ASSUME at' \in {"top", "find", "decode", "add", "link"}, NEW p \in Heads PROVE Predicted(p)'
    <3>1. Predicted(p)
      BY <1>0, <2>3, <2>4
    <3> QED BY <2>2, <2>3, <2>4, <3>1 DEF Predicted
  <2> QED BY <2>2, <2>4
<1> QED BY <1>1, <1>2, <1>3, <1>4

(* However often the cache is flushed, a link after a block leads only where *)
(* the outcome it stands for goes: what is stored through a target that was *)
(* read before find_bb() is the successor the target was chosen for.        *)
THEOREM LinksPredictTheirOutcome == Spec => []LinksAreSuccessors
<1>1. Init => LinkInv
  BY LinkInvInit
<1>2. IInv /\ LinkInv /\ [Next]_vars => LinkInv'
  BY LinkInvNext
<1>3. LinkInv => LinksAreSuccessors
  BY DEF LinkInv, LinksAreSuccessors
<1> QED BY <1>1, <1>2, <1>3, InvariantHolds, PTL DEF Spec

--------------------------------------------------------------------------------
(* A guest whose translation fits the cache.                                *)

(* Room that is left after a step was there before it; and a block added    *)
(* then came after the others, with room for the whole copy.                *)
LEMMA RoomBefore ==
  ASSUME TypeOK, [Next]_vars, RoomForAnother'
  PROVE  /\ RoomForAnother
         /\ AddBlock => ~Full(BlockSize) /\ damage' = damage
         /\ ~AddWild
<1> USE CacheAssumption, BlockAssumption
<1>1. size \in Nat /\ flushed \in BOOLEAN /\ Len(buf) \in Nat /\ Len(buf) < MaxSlots
  BY DEF TypeOK
<1>2. BlockSize \in Nat /\ BlockSize <= MaxSlots + 3
  BY <1>1 DEF BlockSize, Links
<1>3. CASE AddBlock
  <2>1. ~Full(BlockSize) /\ flushed = FALSE /\ size' = size + BlockSize
    BY <1>1, <1>3 DEF AddBlock, Add, FlushedBy, RoomForAnother, Place
  <2>2. size + BlockSize + MaxSlots + 3 <= TcacheSize
    BY <1>1, <1>2, <2>1 DEF RoomForAnother
  <2>3. ~(Overrun(BlockSize) > 0)
    BY <1>1, <1>2, <2>1, <2>2 DEF Overrun, Place
  <2>4. ~AddWild
    BY <1>1, <1>2, <2>1, <2>2, <1>3 DEF AddWild, AddBlock, Place
  <2> QED BY <1>1, <1>2, <1>3, <2>1, <2>2, <2>3, <2>4 DEF RoomForAnother, AddBlock
<1>4. CASE ~AddBlock
  <2>1. flushed' = flushed /\ size' = size
    BY <1>4 DEF Next, vars, interpVars, tcacheVars, PredictHit, PredictNull, PredictMiss, FindHit,
       FindNext, FindMiss, FindWild, DecodeFault, DecodeStop, Decode, RejectSC, AddTooBig, AddWild,
       StoreLink, ExecWild, Exec
  <2>2. RoomForAnother
    BY <2>1 DEF RoomForAnother
  <2>3. ~AddWild
    <3>1. size + BlockSize <= TcacheSize
      BY <1>1, <1>2, <2>2 DEF RoomForAnother
    <3> QED BY <1>1, <1>2, <3>1 DEF AddWild, Place, Full
  <2> QED BY <1>4, <2>2, <2>3
<1> QED BY <1>3, <1>4

LEMMA FillStep == ASSUME FillInv, [Next]_vars PROVE FillInv'
<1>1. IInv' /\ TypeOK
  BY NextSound DEF FillInv, IInv, Sound, Doomed
<1>2. SUFFICES ASSUME RoomForAnother' PROVE Undamaged' /\ FirstFill'
  BY <1>1 DEF FillInv
<1>3. /\ RoomForAnother /\ ~AddWild /\ (AddBlock => ~Full(BlockSize) /\ damage' = damage)
      /\ Undamaged /\ FirstFill /\ Sound
  BY <1>1, <1>2, RoomBefore, UndamagedSound DEF FillInv
<1>4. CASE AddBlock
  <2>1. Undamaged'
    BY <1>3, <1>4 DEF Undamaged
  <2>2. CASE target = Mismatch /\ mismatch_target = Mismatch
    BY <1>4, <2>1, <2>2 DEF FirstFill, TargetLive, AddBlock
  <2>3. CASE \E p \in Heads : target \in LinkSlots(p)
    <3>1. PICK p \in Heads : target \in LinkSlots(p)
      BY <2>3
    <3>2. p \in Kept
      BY <1>3, <1>4 DEF Kept
    <3>3. p \in Heads' /\ LinkSlots(p)' = LinkSlots(p)
      BY <1>3, <1>4, <2>1, <3>2, KeptFacts, AddedHeads
    <3>4. target' = target
      BY <1>4 DEF AddBlock
    <3> QED BY <2>1, <3>1, <3>3, <3>4 DEF FirstFill, TargetLive
  <2> QED BY <1>3, <1>4, <2>2, <2>3 DEF Sound, Placed, TargetLive, AddBlock
<1>5. CASE StoreLink
  <2>1. ~Overwrites(target)
    BY <1>3, <1>5, LinkFacts DEF Overwrites, StoreLink, FirstFill, TargetLive, Sound, Mismatch
  <2> QED BY <1>3, <1>5, <2>1 DEF StoreLink, Undamaged, FirstFill
<1>6. CASE ~AddBlock /\ ~StoreLink
  <2>1. damage' = damage
    BY <1>3, <1>6 DEF Next, vars, interpVars, PredictHit, PredictNull, PredictMiss, FindHit,
       FindNext, FindMiss, FindWild, DecodeFault, DecodeStop, Decode, RejectSC, AddTooBig,
       ExecWild, Exec
  <2>2. CASE PredictHit \/ FindHit \/ UNCHANGED vars
    <3>1. /\ UNCHANGED tcacheVars /\ target' = target /\ mismatch_target' = mismatch_target
          /\ at' = "link" => TargetLive
      BY <1>3, <2>2 DEF vars, interpVars, PredictHit, FindHit, Sound, Placed, FirstFill
    <3>2. Heads' = Heads /\ slot' = slot
      BY <2>1, <3>1, CacheFrame DEF tcacheVars
    <3>3. at' = "link" => TargetLive'
      BY <3>1, <3>2 DEF TargetLive, LinkSlots, LastSlot, Count
    <3> QED BY <1>3, <2>1, <3>3 DEF FirstFill, Undamaged
  <2>3. CASE ~(PredictHit \/ FindHit \/ UNCHANGED vars)
    <3>1. at' # "link"
      BY <1>3, <1>6, <2>3 DEF Next, PredictNull, PredictMiss, FindNext, FindMiss, FindWild,
         DecodeFault, DecodeStop, Decode, RejectSC, AddTooBig, ExecWild, Exec
    <3> QED BY <1>3, <2>1, <3>1 DEF FirstFill, Undamaged
  <2> QED BY <2>2, <2>3
<1> QED BY <1>4, <1>5, <1>6

LEMMA InitFill == Init => FillInv
<1> SUFFICES ASSUME Init PROVE FillInv
  OBVIOUS
<1>1. IInv
  BY InitSound
<1>3. Undamaged /\ FirstFill
  BY DEF Init, Undamaged, FirstFill
<1> QED BY <1>1, <1>3 DEF FillInv

(* As long as the cache has not been flushed and has room for one more      *)
(* block, whatever its sizes, nothing has been written out of place: the    *)
(* copy loop of add() writes twice the block, but still inside the array,   *)
(* and the target stored to is a link.                                      *)
THEOREM FirstFillIsClean == Spec => []UndamagedUntilFull
<1>1. FillInv => UndamagedUntilFull
  BY DEF FillInv, UndamagedUntilFull
<1>2. Spec => []FillInv
  BY InitFill, FillStep, PTL DEF Spec
<1> QED BY <1>1, <1>2, PTL

--------------------------------------------------------------------------------
(* The loops of find_bb() and of a chain end.                               *)

(* A walk of a chain goes down the array.                                   *)
LEMMA FindDescends ==
  ASSUME IInv, Undamaged, FindNext
  PROVE  bb \in Nat /\ bb' \in Nat /\ bb' < bb
<1> USE DEF FindNext
<1>1. Sound
  BY UndamagedSound
<1>2. bb \in Heads
  BY <1>1, CacheAssumption DEF Sound, Placed, Searching, Slots
<1>3. bb' < bb /\ bb' \in 0 .. Wild
  BY <1>1, <1>2, BlockFacts DEF Sound, Chains, Chained, ChainLink
<1> QED BY <1>1, <1>2, <1>3, BlockFacts, CacheAssumption DEF Sound, Wild

(* One turn of the decoding loop takes one slot more, and leaves one.       *)
LEMMA DecodeGrows ==
  ASSUME TypeOK, Decode
  PROVE  /\ Len(buf) \in Nat /\ Len(buf') = Len(buf) + 1 /\ MaxSlots \in Nat
         /\ Len(buf) < MaxSlots
         /\ at' = "decode" \/ at' = "add"
<1> DEFINE w == InsnWord(Code[dpc], dpc)
<1>1. buf \in Seq([tag : {"insn"}, insn : Insn, at : Nat]) /\ buf' = Append(buf, w)
  BY DEF TypeOK, Decode
<1> HIDE DEF w
<1>2. Len(buf) \in Nat /\ Len(buf') = Len(buf) + 1
  BY <1>1
<1> QED BY <1>2, BlockAssumption DEF Decode, TypeOK

(* While nothing is damaged every step but that of an instruction comes      *)
(* nearer to the next one.                                                  *)
LEMMA StepNears ==
  ASSUME IInv, Undamaged, Next, ~ \E taken \in BOOLEAN : Exec(taken)
  PROVE  StepsLeft' < StepsLeft
<1> USE DEF StepsLeft
<1>1. /\ MaxSlots \in Nat /\ MaxSlots >= 2 /\ TcacheSize \in Nat /\ TcacheSize >= 3
      /\ Len(buf) \in Nat /\ Len(buf) < MaxSlots /\ bb \in 0 .. Wild /\ Wild = TcacheSize
  BY BlockAssumption, CacheAssumption DEF IInv, Sound, Doomed, TypeOK, Wild
<1>2. CASE PredictHit
  BY <1>1, <1>2 DEF PredictHit
<1>3. CASE PredictNull
  BY <1>1, <1>3 DEF PredictNull
<1>4. CASE PredictMiss
  <2>1. table[hashfunction(pc)] \in 0 .. Wild
    BY CacheAssumption DEF IInv, Sound, Doomed, TypeOK, hashfunction, Buckets
  <2> QED BY <1>1, <1>4, <2>1 DEF PredictMiss
<1>5. CASE FindHit
  BY <1>1, <1>5 DEF FindHit
<1>6. CASE FindNext
  <2>1. at = "find" /\ at' = "find" /\ bb \in Nat /\ bb' \in Nat /\ bb' < bb
    BY <1>6, FindDescends DEF FindNext
  <2>2. StepsLeft = 4 + MaxSlots + bb /\ StepsLeft' = 4 + MaxSlots + bb'
    BY <2>1, Zenon
  <2> HIDE DEF StepsLeft
  <2>3. PICK b \in Nat, c \in Nat : b = bb /\ c = bb' /\ c < b
    BY <2>1
  <2>4. 4 + MaxSlots + c < 4 + MaxSlots + b
    <3>1. MaxSlots \in Nat
      BY <1>1
    <3>2. \A m, x, y \in Nat : x < y => 4 + m + x < 4 + m + y
      OBVIOUS
    <3>3. c < b
      BY <2>3
    <3> QED BY <3>1, <3>2, <3>3
  <2>5. StepsLeft = 4 + MaxSlots + b /\ StepsLeft' = 4 + MaxSlots + c
    BY <2>2, <2>3, Zenon
  <2> QED BY <2>4, <2>5, Zenon
<1>7. CASE FindMiss
  BY <1>1, <1>7 DEF FindMiss
<1>8. CASE FindWild
  BY <1>1, <1>8 DEF FindWild
<1>9. CASE DecodeFault
  BY <1>1, <1>9 DEF DecodeFault
<1>10. CASE DecodeStop
  BY <1>1, <1>10 DEF DecodeStop
<1>11. CASE Decode
  <2>1. Len(buf') = Len(buf) + 1 /\ (at' = "decode" \/ at' = "add") /\ at = "decode"
    BY <1>11, DecodeGrows DEF IInv, Sound, Doomed, Decode
  <2> QED BY <1>1, <2>1
<1>12. CASE RejectSC \/ AddTooBig \/ AddWild
  BY <1>1, <1>12 DEF RejectSC, AddTooBig, AddWild
<1>13. CASE AddBlock
  BY <1>1, <1>13 DEF AddBlock
<1>14. CASE StoreLink
  BY <1>1, <1>14 DEF StoreLink
<1>15. CASE ExecWild
  BY <1>1, <1>15 DEF ExecWild
<1> QED
  BY <1>2, <1>3, <1>4, <1>5, <1>6, <1>7, <1>8, <1>9, <1>10, <1>11, <1>12, <1>13, <1>14, <1>15
  DEF Next

(* Until something is written out of its place a hart takes a bounded       *)
(* number of steps between two instructions, for every program and every    *)
(* size of cache: no chain loops, and every block is decoded in the end.    *)
THEOREM EveryLoopEnds == Spec => InstructionNears /\ [](StepsLeft \in 0 .. 5 + MaxSlots + TcacheSize)
<1>1. IInv /\ [Next]_vars => [Undamaged => StepsLeft' < StepsLeft \/ \E taken \in BOOLEAN : Exec(taken)]_vars
  BY StepNears
<1>2. IInv => StepsLeft \in 0 .. 5 + MaxSlots + TcacheSize
  <2> SUFFICES ASSUME IInv PROVE StepsLeft \in 0 .. 5 + MaxSlots + TcacheSize
    OBVIOUS
  <2>1. /\ MaxSlots \in Nat /\ TcacheSize \in Nat /\ Len(buf) \in Nat /\ Len(buf) < MaxSlots
        /\ bb \in 0 .. TcacheSize
    BY BlockAssumption, CacheAssumption DEF IInv, Sound, Doomed, TypeOK, Wild
  <2> QED BY <2>1 DEF StepsLeft, Wild
<1> QED BY <1>1, <1>2, InvariantHolds, PTL DEF Spec, InstructionNears
================================================================================
