------------------------------ MODULE BlockInterp ------------------------------
(***************************************************************************)
(* One hart running guest code (hart.cc): run_basic_block() in the endless *)
(* loop of my_interpreter(), with find_bb() and the translation cache.     *)
(*                                                                         *)
(* The steps are those between which something can go wrong: one link of a *)
(* hash chain, one instruction decoded, the block added, the link of the   *)
(* block before stored, one instruction executed.  What leaves the program *)
(* undefined (a fetch of a word that is no instruction, an index that is   *)
(* no index) ends the run in "wild", dieif() and die() in "dead", a decode *)
(* of unmapped memory in "fault".                                          *)
(***************************************************************************)
EXTENDS GuestCode, Tcache

CONSTANTS
  MaxBytes,    (* find_bb() stops decoding at this many bytes: 256         *)
  MaxSlots,    (* and at this many words, counted from the header: 128     *)
  CountMod,    (* Header_t::count is taken modulo this: 2^7                *)
  LengthMod    (* Header_t::length is taken modulo this: 2^8               *)

ASSUME BlockAssumption ==
  /\ MaxBytes \in Nat \ {0}
  /\ MaxSlots \in Nat \ {0, 1}
  /\ CountMod \in Nat /\ CountMod >= MaxSlots
  /\ LengthMod \in Nat \ {0}

VARIABLES
  pc,               (* hart_t::s.pc                                        *)
  retired,          (* the instruction last executed and where: observed   *)
  at,               (* where in run_basic_block() or find_bb() the hart is *)
  target,           (* hart_t::target: the slot of a link word, or Mismatch *)
  mismatch_target,  (* hart_t::mismatch_target                             *)
  bb,               (* the Header_t* of run_basic_block() and find()       *)
  dpc,              (* find_bb(): the address decoded next                 *)
  buf,              (* find_bb(): the instructions decoded so far          *)
  i,                (* run_basic_block(): the slot executed next           *)
  damage            (* history: how the cache was overwritten, if it was;  *)
                    (* read by nothing but the properties                  *)

interpVars == << pc, retired, at, target, mismatch_target, bb, dpc, buf, i, damage >>
vars == << tcacheVars, interpVars >>

NoInsn == [at |-> 0, insn |-> "none"]

(* Slot 0 holds no block and no link.  As a value of target it stands for   *)
(* &mismatch_target, as a link for &mismatch_header.                        *)
Mismatch == 0

Init ==
  /\ TcacheInit
  /\ pc = Entry
  /\ retired = NoInsn
  /\ at = "top"
  /\ target = Mismatch
  /\ mismatch_target = Mismatch
  /\ bb = 0
  /\ dpc = 0
  /\ buf = << >>
  /\ i = 0
  /\ damage = {}

--------------------------------------------------------------------------------
(* run_basic_block(): the link, if it leads to the pc, else find_bb(s.pc).   *)

Linked == IF target = Mismatch THEN mismatch_target ELSE slot[target].to

(* mismatch_header.addr                                                     *)
AddrOf(p) == IF p = Mismatch THEN 0 ELSE slot[p].addr

(* Mutant: the link is not confirmed by the pc.                             *)
PredictUnconfirmed ==
  /\ at = "top"
  /\ Linked # Mismatch
  /\ bb' = Linked
  /\ at' = "link"
  /\ UNCHANGED << tcacheVars, pc, retired, target, mismatch_target, dpc, buf, i, damage >>

PredictHit ==
  /\ at = "top"
  /\ AddrOf(Linked) = pc
  /\ Linked # Mismatch
  /\ bb' = Linked
  /\ at' = "link"
  /\ UNCHANGED << tcacheVars, pc, retired, target, mismatch_target, dpc, buf, i, damage >>

(* At pc 0 mismatch_header itself matches: what follows it in memory is     *)
(* executed as if it were a block.                                          *)
PredictNull ==
  /\ at = "top"
  /\ AddrOf(Linked) = pc
  /\ Linked = Mismatch
  /\ at' = "wild"
  /\ UNCHANGED << tcacheVars, pc, retired, target, mismatch_target, bb, dpc, buf, i, damage >>

PredictMiss ==
  /\ at = "top"
  /\ AddrOf(Linked) # pc
  /\ bb' = table[hashfunction(pc)]
  /\ at' = "find"
  /\ UNCHANGED << tcacheVars, pc, retired, target, mismatch_target, dpc, buf, i, damage >>

--------------------------------------------------------------------------------
(* Tcache_t::find(), one link of the chain a step.                          *)

(* Mutant: any block of the bucket will do.                                 *)
FindHitAny ==
  /\ at = "find" /\ bb \in Slots \ {0}
  /\ at' = "link"
  /\ UNCHANGED << tcacheVars, pc, retired, target, mismatch_target, bb, dpc, buf, i, damage >>

FindHit ==
  /\ at = "find" /\ bb \in Slots \ {0}
  /\ slot[bb].addr = pc
  /\ at' = "link"
  /\ UNCHANGED << tcacheVars, pc, retired, target, mismatch_target, bb, dpc, buf, i, damage >>

(* Mutant: only the newest block of the bucket is looked at.                *)
FindNextNone ==
  /\ at = "find" /\ bb \in Slots \ {0}
  /\ slot[bb].addr # pc
  /\ bb' = 0
  /\ UNCHANGED << tcacheVars, pc, retired, at, target, mismatch_target, dpc, buf, i, damage >>

FindNext ==
  /\ at = "find" /\ bb \in Slots \ {0}
  /\ slot[bb].addr # pc
  /\ bb' = slot[bb + 1].link
  /\ UNCHANGED << tcacheVars, pc, retired, at, target, mismatch_target, dpc, buf, i, damage >>

FindMiss ==
  /\ at = "find" /\ bb = 0
  /\ dpc' = pc
  /\ at' = "decode"
  /\ UNCHANGED << tcacheVars, pc, retired, target, mismatch_target, bb, buf, i, damage >>

FindWild ==
  /\ at = "find" /\ bb = Wild
  /\ at' = "wild"
  /\ UNCHANGED << tcacheVars, pc, retired, target, mismatch_target, bb, dpc, buf, i, damage >>

--------------------------------------------------------------------------------
(* find_bb(): one turn of the decoding loop, then the block is added.       *)

DecodeFault ==
  /\ at = "decode" /\ dpc \notin Mapped
  /\ at' = "fault"
  /\ UNCHANGED << tcacheVars, pc, retired, target, mismatch_target, bb, dpc, buf, i, damage >>

(* An instruction with attribute '<' is left for the next block.            *)
DecodeStop ==
  /\ at = "decode" /\ dpc \in Mapped
  /\ stop_before(Code[dpc]) /\ buf # << >>
  /\ at' = "add"
  /\ UNCHANGED << tcacheVars, pc, retired, target, mismatch_target, bb, dpc, buf, i, damage >>

(* Mutant: one turn too many.                                               *)
ContinueOnce(next, b) == next - pc <= MaxBytes /\ 1 + Len(b) <= MaxSlots

(* The loop's condition, on its state after the turn.                       *)
Continue(next, b) == next - pc < MaxBytes /\ 1 + Len(b) < MaxSlots

(* Mutant: an instruction with attribute '>' does not end the block.        *)
DecodeOn ==
  /\ at = "decode" /\ dpc \in Mapped
  /\ ~(stop_before(Code[dpc]) /\ buf # << >>)
  /\ buf' = Append(buf, InsnWord(Code[dpc], dpc))
  /\ dpc' = dpc + Code[dpc].len
  /\ at' = IF Continue(dpc', buf') THEN "decode" ELSE "add"
  /\ UNCHANGED << tcacheVars, pc, retired, target, mismatch_target, bb, i, damage >>

Decode ==
  /\ at = "decode" /\ dpc \in Mapped
  /\ ~(stop_before(Code[dpc]) /\ buf # << >>)
  /\ buf' = Append(buf, InsnWord(Code[dpc], dpc))
  /\ dpc' = dpc + Code[dpc].len
  /\ at' = IF ~stop_after(Code[dpc]) /\ Continue(dpc', buf') THEN "decode" ELSE "add"
  /\ UNCHANGED << tcacheVars, pc, retired, target, mismatch_target, bb, i, damage >>

Last(b) == b[Len(b)].insn

(* Mutant: the count leaves the last instruction out.                       *)
HeaderShort(b) == [conditional |-> conditional(Last(b)),
                   count       |-> Len(b) - 1,
                   length      |-> (dpc - pc) % LengthMod]

Header(b) == [conditional |-> conditional(Last(b)),
              count       |-> Len(b) % CountMod,
              length      |-> (dpc - pc) % LengthMod]

(* Mutant: no room for a second link.                                       *)
LinksOne(b) == 1

Links(b) == IF conditional(Last(b)) THEN 2 ELSE 1

(* The words after the header: the instructions, the last one predecoded,   *)
(* and one link, or two after a conditional branch.                         *)
Words(b) ==
  [k \in 1 .. Len(b) + Links(b) |->
     IF k < Len(b) THEN b[k]
     ELSE IF k = Len(b) THEN InsnWord(Predecode(Last(b)), b[k].at)
     ELSE LinkWord(Mismatch)]

BlockSize == 2 + Len(buf) + Links(buf)

(* substitute_cas() insists on the lr-bne-sc pattern.                       *)
RejectSC ==
  /\ at = "add" /\ Last(buf).class = "lone_sc"
  /\ at' = "dead"
  /\ UNCHANGED << tcacheVars, pc, retired, target, mismatch_target, bb, dpc, buf, i, damage >>

AddTooBig ==
  /\ at = "add" /\ Last(buf).class # "lone_sc"
  /\ TooBig(BlockSize)
  /\ at' = "dead"
  /\ UNCHANGED << tcacheVars, pc, retired, target, mismatch_target, bb, dpc, buf, i, damage >>

(* A block that add() accepts but that does not fit even an empty cache,    *)
(* whose first two slots are never used.                                    *)
AddWild ==
  /\ at = "add" /\ Last(buf).class # "lone_sc"
  /\ ~TooBig(BlockSize) /\ Place(BlockSize) + BlockSize > TcacheSize
  /\ damage' = damage \cup {"copy"}
  /\ at' = "wild"
  /\ UNCHANGED << tcacheVars, pc, retired, target, mismatch_target, bb, dpc, buf, i >>

AddBlock ==
  /\ at = "add" /\ Last(buf).class # "lone_sc"
  /\ Place(BlockSize) + BlockSize <= TcacheSize
  /\ Add(pc, Header(buf), BlockSize, Words(buf))
  /\ bb' = Place(BlockSize)
  /\ damage' = IF Overrun(BlockSize) > 0 THEN damage \cup {"copy"} ELSE damage
  /\ at' = "link"
  /\ dpc' = 0
  /\ buf' = << >>
  /\ UNCHANGED << pc, retired, target, mismatch_target, i >>

--------------------------------------------------------------------------------
(* run_basic_block(): `*target = bb`, then the block's instructions.        *)

(* target was read before find_bb(): if that flushed the cache, the slot it *)
(* names may by now hold part of the block just added.                      *)
Overwrites(p) == p \in 2 .. size - 1 /\ slot[p].tag # "link"

StoreLink ==
  /\ at = "link"
  /\ IF target = Mismatch
       THEN mismatch_target' = bb /\ UNCHANGED slot
       ELSE slot' = [slot EXCEPT ![target] = LinkWord(bb)] /\ UNCHANGED mismatch_target
  /\ damage' = IF Overwrites(target) THEN damage \cup {"store"} ELSE damage
  /\ i' = bb + 2
  /\ at' = "exec"
  /\ UNCHANGED << table, size, flushed, pc, retired, target, bb, dpc, buf >>

ExecWild ==
  /\ at = "exec" /\ slot[i].tag # "insn"
  /\ at' = "wild"
  /\ UNCHANGED << tcacheVars, pc, retired, target, mismatch_target, bb, dpc, buf, i, damage >>

IsLast == i >= bb + 1 + slot[bb + 1].count

(* Mutant: the links in the order the comment in caveat.h gives them.       *)
LinkSlotAsDocumented(taken) == IF taken /\ slot[bb + 1].conditional THEN i + 2 ELSE i + 1

(* The link the next block is predicted from: the second one when a         *)
(* conditional branch falls through.                                        *)
LinkSlot(taken) == IF ~taken /\ slot[bb + 1].conditional THEN i + 2 ELSE i + 1

(* A jump taken before the last instruction is `die("unexpected branch!")`. *)
Exec(taken) ==
  /\ at = "exec" /\ slot[i].tag = "insn"
  /\ MayReturn(slot[i].insn, taken)
  /\ pc' \in NextPC(pc, slot[i].insn, taken)
  /\ retired' = [at |-> pc, insn |-> slot[i].insn]
  /\ i' = IF IsLast THEN 0 ELSE i + 1
  /\ target' = IF IsLast THEN LinkSlot(taken) ELSE target
  /\ at' = IF IsLast THEN "top" ELSE IF taken THEN "dead" ELSE "exec"
  /\ UNCHANGED << tcacheVars, mismatch_target, bb, dpc, buf, damage >>

Next ==
  \/ PredictHit \/ PredictNull \/ PredictMiss
  \/ FindHit \/ FindNext \/ FindMiss \/ FindWild
  \/ DecodeFault \/ DecodeStop \/ Decode
  \/ RejectSC \/ AddTooBig \/ AddWild \/ AddBlock
  \/ StoreLink \/ ExecWild
  \/ \E taken \in BOOLEAN : Exec(taken)

Spec == Init /\ [][Next]_vars

(* The thread that runs the hart is scheduled again and again, and nothing  *)
(* in its loop waits for anyone.                                            *)
FairSpec == Spec /\ WF_vars(Next)

--------------------------------------------------------------------------------
(* What the cache holds                                                     *)

Undamaged == damage = {}

(* A link has been stored over an instruction (StoreLink).                  *)
Stored == "store" \in damage

Count(p)     == slot[p + 1].count
InsnSlots(p) == p + 2 .. p + 1 + Count(p)
LastSlot(p)  == p + 1 + Count(p)
LinkSlots(p) == LastSlot(p) + 1 .. LastSlot(p) + (IF slot[p + 1].conditional THEN 2 ELSE 1)
End(p)       == LastSlot(p) + (IF slot[p + 1].conditional THEN 3 ELSE 2)

(* The guest instruction in slot k, and the slot after it.                  *)
Translates(k) == /\ slot[k].tag = "insn"
                 /\ slot[k].at \in Mapped
                 /\ slot[k].insn = Predecode(Code[slot[k].at])
Follows(k)    == slot[k + 1].at = slot[k].at + slot[k].insn.len

BlockWellFormed(p) ==
  /\ p + 1 < size /\ slot[p + 1].tag = "meta"
  /\ Count(p) >= 1 /\ End(p) <= size
  /\ \A k \in InsnSlots(p) : Translates(k)
  /\ slot[p + 2].at = slot[p].addr
  /\ \A k \in InsnSlots(p) \ {LastSlot(p)} :
       /\ Follows(k)
       /\ ~stop_after(slot[k].insn) /\ ~stop_before(slot[k + 1].insn)
  /\ slot[p + 1].conditional = conditional(slot[LastSlot(p)].insn)
  /\ \A k \in LinkSlots(p) : slot[k].tag = "link" /\ slot[k].to \in Heads \cup {Mismatch}

Disjoint(p, q) == p < q => End(p) <= q

(* "Each basic block begins with a header followed by one or more           *)
(* translated instructions [and] is terminated by a link pointer to the     *)
(* next basic block's header" (caveat.h): every block of the cache is the   *)
(* straight-line run of guest instructions at its address, as decoded, ends *)
(* where the attributes < and > say, overlaps no other block, and every     *)
(* link leads to a block or nowhere.                                        *)
WellFormed == \A p \in Heads : BlockWellFormed(p) /\ \A q \in Heads : Disjoint(p, q)

BlocksWellFormed == ~Stored => WellFormed

(* q is where a chain of bucket h goes from p: the nearest block of the     *)
(* bucket below p, or the end.                                              *)
ChainLink(h, p, q) ==
  /\ q < p
  /\ q # 0 => q \in Heads /\ hashfunction(slot[q].addr) = h
  /\ \A r \in Heads : hashfunction(slot[r].addr) = h /\ r < p => r <= q

(* find() meets every block of its bucket, newest first, and comes to an    *)
(* end: neither add()'s insertion nor a flush loses or loops a chain.       *)
Chained ==
  /\ \A h \in Buckets : ChainLink(h, size, table[h])
  /\ \A p \in Heads : ChainLink(hashfunction(slot[p].addr), p, slot[p + 1].link)

ChainsComplete == Undamaged => Chained

(* No guest address is translated twice: a block is added only when neither *)
(* the prediction nor the whole chain had it, and a flush forgets all.  A   *)
(* chain whose entry the copy loop has written over can miss a block that   *)
(* is there: it is translated again.                                        *)
Unique == \A p, q \in Heads : slot[p].addr = slot[q].addr => p = q

NoDuplicateBlocks == Undamaged => Unique

(* The program counters that outcome `taken` of the instruction that ends   *)
(* block p can lead to.                                                     *)
Successors(p, taken) ==
  LET k == LastSlot(p)
  IN  IF MayReturn(slot[k].insn, taken) THEN NextPC(slot[k].at, slot[k].insn, taken) ELSE {}

(* The outcomes that the link in slot k of block p predicts: the second one *)
(* that a conditional branch falls through, the first one any other.        *)
Outcomes(p, k) ==
  IF k = LastSlot(p) + 2 THEN Successors(p, FALSE)
  ELSE IF slot[p + 1].conditional THEN Successors(p, TRUE)
  ELSE Successors(p, TRUE) \cup Successors(p, FALSE)

(* A flush can leave a link that leads back to its own block.               *)
LinkTrue(p, k) ==
  slot[k].to \notin {Mismatch, p} => slot[slot[k].to].addr \in Outcomes(p, k)

LinksTrue == \A p \in Heads : \A k \in LinkSlots(p) : LinkTrue(p, k)

(* The links after a block predict the outcome they belong to: the first    *)
(* one leads where the block goes when it does not end in a fall-through of *)
(* a conditional branch, the second one to that fall-through.  That is the  *)
(* order run_basic_block() uses; caveat.h gives the other one (below).      *)
LinksAreSuccessors == ~Stored => LinksTrue

(* "Basic blocks that end in a conditional branch have two pointers, the    *)
(* fall-thru target followed by the branch-taken target" (caveat.h).        *)
LinksInDocumentedOrder ==
  Undamaged =>
    \A p \in Heads :
      slot[p + 1].conditional =>
        \A taken \in BOOLEAN :
          LET to == slot[LastSlot(p) + (IF taken THEN 2 ELSE 1)].to
          IN  to \notin {Mismatch, p} => slot[to].addr \in Successors(p, taken)

--------------------------------------------------------------------------------
(* What the hart does                                                       *)

Word == [tag : {"addr"}, addr : Nat]
        \cup [tag : {"meta"}, conditional : BOOLEAN, count : 0 .. CountMod - 1,
              length : 0 .. LengthMod - 1, link : 0 .. Wild]
        \cup [tag : {"insn"}, insn : Insn, at : Nat]
        \cup [tag : {"link"}, to : Slots]
        \cup [tag : {"junk"}]

(* Every variable keeps to its set; what find_bb() has decoded always fits  *)
(* the header's count field and its buffer.                                 *)
TypeOK ==
  /\ slot \in [Slots -> Word]
  /\ table \in [Buckets -> 0 .. Wild]
  /\ size \in 2 .. TcacheSize
  /\ flushed \in BOOLEAN
  /\ pc \in Nat
  /\ retired \in {NoInsn} \cup [at : Nat, insn : Insn]
  /\ at \in {"top", "find", "decode", "add", "link", "exec", "wild", "dead", "fault"}
  /\ target \in Slots
  /\ mismatch_target \in Slots
  /\ bb \in 0 .. Wild
  /\ dpc \in Nat
  /\ buf \in Seq([tag : {"insn"}, insn : Insn, at : Nat])
  /\ Len(buf) < MaxSlots
  /\ i \in Slots
  /\ damage \subseteq {"copy", "store"}

(* Until the first flush, and as long as the array has room for one more    *)
(* block of the greatest length, nothing has been written where it should   *)
(* not be: a guest whose translation fits the cache never meets the copy    *)
(* loop's overrun or the store through a stale target.                      *)
RoomForAnother == ~flushed /\ size + MaxSlots + 3 <= TcacheSize

UndamagedUntilFull == RoomForAnother => Undamaged

(* The hart stops only for the guest's own faults: it never takes a branch  *)
(* inside a block ("unexpected branch!"), executes what is no instruction   *)
(* only by a jump to the null pc, and faults in decoding only where nothing *)
(* but straight-line code separates the pc from unmapped memory.            *)
Stops ==
  /\ at = "wild" => pc = 0
  /\ at = "dead" => buf # << >> /\ (Last(buf).class = "lone_sc" \/ TooBig(BlockSize))
  /\ at = "fault" => dpc \notin Mapped /\ \A k \in DOMAIN buf : buf[k].insn.class = "plain"

OnlyGuestStops == Undamaged => Stops

--------------------------------------------------------------------------------
(* The inductive invariant: what the properties above need to be carried    *)
(* from step to step.                                                       *)

Untranslated == \A p \in Heads : slot[p].addr # pc

(* What find_bb() has decoded is the straight-line run from the pc to dpc.  *)
Decoded ==
  /\ \A k \in 1 .. Len(buf) : buf[k].at \in Mapped /\ buf[k].insn = Code[buf[k].at]
  /\ \A k \in 1 .. Len(buf) - 1 : /\ buf[k + 1].at = buf[k].at + buf[k].insn.len
                                 /\ ~stop_after(buf[k].insn)
                                 /\ ~stop_before(buf[k + 1].insn)
  /\ IF buf = << >> THEN dpc = pc
     ELSE buf[1].at = pc /\ dpc = buf[Len(buf)].at + Last(buf).len

(* Whatever the copy loop leaves in the table, an entry or a chain's link   *)
(* leads to a block, to the end, or out of the program's hands.             *)
Pointer == Heads \cup {0, Wild}
Pointed == /\ \A h \in Buckets : table[h] \in Pointer
           /\ \A p \in Heads : slot[p + 1].link \in Pointer

(* The walk of a chain has passed every block that is not below it.         *)
Searching ==
  /\ bb = 0 \/ (bb \in Heads /\ hashfunction(slot[bb].addr) = hashfunction(pc))
  /\ \A p \in Heads : slot[p].addr = pc => p <= bb

Executing == bb \in Heads /\ i \in InsnSlots(bb) /\ slot[i].at = pc

(* Until find_bb() adds a block the target is a link of a block that is     *)
(* still there, or no block has run yet.                                    *)
TargetLive ==
  \/ target = Mismatch /\ mismatch_target = Mismatch
  \/ \E p \in Heads : target \in LinkSlots(p)

Placed ==
  /\ at \in {"top", "find", "decode", "add"} => TargetLive
  /\ at \in {"top", "find", "link", "exec"} => buf = << >>
  /\ at = "find" => bb \in Pointer /\ (Undamaged => Searching)
  /\ at \in {"decode", "add"} => Decoded /\ (Undamaged => Untranslated)
  /\ at = "decode" => 1 + Len(buf) < MaxSlots /\ (buf = << >> \/ ~stop_after(Last(buf)))
  /\ at = "add" => buf # << >>
  /\ at = "link" => /\ bb \in Heads /\ slot[bb].addr = pc
                    /\ Overwrites(target) => target \in InsnSlots(bb)
  /\ at = "exec" => Executing

(* The chains are what they should be until the copy loop writes over them. *)
Chains == Pointed /\ (Undamaged => Chained /\ Unique)

(* Every part of the cache is what it should be, but for those chains, and  *)
(* the hart is where it should be in it.                                    *)
Sound == TypeOK /\ WellFormed /\ Chains /\ Placed /\ (Undamaged => Stops)

(* A link has been stored over an instruction of the block being executed:  *)
(* the hart is still in front of it, and what it executes until it gets     *)
(* there is the block as it was decoded.                                    *)
Doomed ==
  /\ TypeOK
  /\ at \in {"exec", "wild"}
  /\ at = "exec" =>
       /\ i \in InsnSlots(bb) /\ Count(bb) \in Nat /\ LastSlot(bb) \in Slots
       /\ slot[i].tag = "insn" => slot[i].at = pc
       /\ \A k \in i .. LastSlot(bb) : slot[k].tag = "insn" => Translates(k)
       /\ \A k \in i .. LastSlot(bb) - 1 :
            slot[k].tag = "insn" => /\ ~stop_after(slot[k].insn)
                                    /\ slot[k + 1].tag = "insn" => Follows(k)
       /\ \E k \in i .. LastSlot(bb) : slot[k].tag # "insn"

IInv == IF Stored THEN Doomed ELSE Sound

(* The link that will be stored to is one for the way the hart has come; or *)
(* the cache was flushed meanwhile, and the slot is the new block's own.    *)
Predicted(p) ==
  target \in LinkSlots(p) =>
    (at = "link" /\ p = bb) \/ pc \in Outcomes(p, target)

LinkInv ==
  ~Stored =>
    /\ LinksTrue
    /\ at \in {"top", "find", "decode", "add", "link"} => \A p \in Heads : Predicted(p)

(* Until the first flush the target still names a link when it is stored to. *)
FirstFill == at = "link" => TargetLive

FillInv == IInv /\ (RoomForAnother => Undamaged /\ FirstFill)

(* Predecoding is the only difference there may be.                         *)
GM == INSTANCE GuestMachine WITH Code <- [a \in Mapped |-> Predecode(Code[a])]

(* What the hart executes out of its cache, in its order, is what the       *)
(* reference machine executes by decoding at the pc every time: whatever    *)
(* becomes of the cache, it executes nothing else before it takes for an    *)
(* instruction what is none.                                                *)
ImplementsGuestMachine == GM!Spec

(* A hart that is scheduled executes as long as the reference machine does, *)
(* through any number of flushes: the fairness of the reference machine is  *)
(* implemented too, unless something is written out of its place or the     *)
(* hart stops for a block it refuses (Stops says when).                     *)
ExecutesOn == \/ <>(~Undamaged \/ at \in {"dead", "fault"})
              \/ WF_<<pc, retired>>(GM!Next)

(* "hash table links are integer index relative to array" (caveat.h), of    *)
(* the table as it is and whatever the sizes: add()'s copy loop writes over *)
(* nothing but the array.                                                   *)
TableHoldsIndexes == \A h \in Buckets : table[h] \in Slots

(* find() and the decoding loop end: from the top of run_basic_block() an   *)
(* instruction is reached, or one of the ends of the run; unless the copy   *)
(* loop writes over the table, whose chains may then lead round in circles. *)
InstructionReached == at = "top" ~> at \in {"exec", "wild", "dead", "fault"} \/ ~Undamaged

(* How many steps there are at most until an instruction is executed or the *)
(* run ends, of an undamaged cache: the loop of find_bb() makes the block   *)
(* longer by a slot a turn, and find() goes to a lower slot.                *)
StepsLeft ==
  LET turns == MaxSlots - Len(buf)
  IN  IF at = "top" THEN 5 + MaxSlots + TcacheSize
      ELSE IF at = "find" THEN 4 + MaxSlots + bb
      ELSE IF at = "decode" THEN 3 + turns
      ELSE IF at = "add" THEN 3
      ELSE IF at = "link" THEN 2
      ELSE IF at = "exec" THEN 1
      ELSE 0

(* Neither the loop of find_bb() nor the walk of a hash chain can hold a    *)
(* hart up, through any number of flushes, while nothing has been written   *)
(* out of its place: each step is that of an instruction, or brings the     *)
(* next one nearer.                                                         *)
InstructionNears ==
  [][Undamaged => StepsLeft' < StepsLeft \/ \E taken \in BOOLEAN : Exec(taken)]_vars
================================================================================
