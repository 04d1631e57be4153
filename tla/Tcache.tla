--------------------------------- MODULE Tcache --------------------------------
(***************************************************************************)
(* The translation cache of one hart (class Tcache_t, caveat.h and         *)
(* hart.cc): an array of 64-bit slots that holds basic blocks end to end,  *)
(* and a hash table of the blocks' first slots.  A hart has its own cache  *)
(* and is the only one to touch it.                                        *)
(*                                                                         *)
(* A block takes two slots of header (Header_t: the guest address in the   *)
(* first; conditional, count, length and the hash chain's link in the       *)
(* second), one slot per decoded instruction and one or two link slots.    *)
(***************************************************************************)
EXTENDS Integers, Sequences

CONSTANTS
  TcacheSize,   (* conf_tcache: slots in the array                         *)
  HashSize,     (* conf_hash: entries in the hash table                    *)
  Gap           (* slots' worth of memory between the array's end and the  *)
                (* table: the padding of malloc() (loader.cc), which puts  *)
                (* the table 2 slots after the array, or 3 if conf_tcache  *)
                (* is odd; the C library's would map a large array apart   *)

ASSUME CacheAssumption ==
  /\ TcacheSize \in Nat \ {0, 1, 2}
  /\ HashSize \in Nat \ {0}
  /\ Gap \in Nat

VARIABLES
  slot,      (* Tcache_t::array                                            *)
  table,     (* Tcache_t::table; 0 ends a chain                            *)
  size,      (* Tcache_t::_size: the next free slot                        *)
  flushed    (* whether Tcache_t::_flushed is more than zero               *)

tcacheVars == << slot, table, size, flushed >>

Slots   == 0 .. TcacheSize - 1
Buckets == 0 .. HashSize - 1

hashfunction(pc) == pc % HashSize

(* The words of the array.  An instruction word carries, for the properties *)
(* only, the address it was decoded from; the code does not store it.       *)
AddrWord(a)         == [tag |-> "addr", addr |-> a]
MetaWord(m, next)   == [tag |-> "meta", conditional |-> m.conditional, count |-> m.count,
                        length |-> m.length, link |-> next]
InsnWord(insn, a)   == [tag |-> "insn", insn |-> insn, at |-> a]
LinkWord(to)        == [tag |-> "link", to |-> to]
Junk                == [tag |-> "junk"]

(* Stands for every value of an entry or of a link that is neither 0 nor    *)
(* the index of a block added since the last flush.                         *)
Wild == TcacheSize

(* Slots that hold the first word of a block added since the last flush.    *)
Heads == {p \in 2 .. size - 1 : slot[p].tag = "addr"}

TcacheInit ==
  /\ slot = [p \in Slots |-> Junk]
  /\ table = [h \in Buckets |-> 0]
  /\ size = 2
  /\ flushed = FALSE

(* The test add() makes on a block of n slots, and the block it refuses.    *)
Full(n)   == size + n > TcacheSize
TooBig(n) == n > TcacheSize

(* Where add() puts the block: clear() resets _size to 2.                   *)
Place(n) == IF Full(n) THEN 2 ELSE size

(* Mutant: clear() does not count.                                          *)
NeverFlushed(n) == flushed

FlushedBy(n) == flushed \/ Full(n)

(* The copy loop counts n Header_t, which are 16 bytes, so it writes 2n     *)
(* slots.  How many of them lie past the array and past the gap after it,   *)
(* and the entries of the table that lie there, two to a slot.              *)
Overrun(n)     == Place(n) + 2 * n - TcacheSize - Gap
Overwritten(n) == {h \in Buckets : h < 2 * Overrun(n)}

(* What the loop writes there comes from find_bb()'s stack, past the block  *)
(* it has built: any value, so also 0 or the index of any block.            *)
HeadsAfter(n) == {Place(n)} \cup IF Full(n) THEN {} ELSE Heads
Leftovers(n)  == [Overwritten(n) -> {0, Wild} \cup HeadsAfter(n)]

(* Mutant: clear() resets _size and leaves the table.                       *)
TableNotCleared(n, leftover) ==
  [h \in Buckets |-> IF h \in Overwritten(n) THEN leftover[h] ELSE table[h]]

(* The table once clear() has zeroed it, if the cache was full, and the copy *)
(* has run over the first entries of it.                                    *)
TableAfterCopy(n, leftover) ==
  LET cleared == IF Full(n) THEN [h \in Buckets |-> 0] ELSE table
  IN  [h \in Buckets |-> IF h \in Overwritten(n) THEN leftover[h] ELSE cleared[h]]

(* Mutant: the table is updated before the block's link is read from it.    *)
AddLooped(a, m, n, words) ==
  LET p == Place(n)
  IN  /\ slot' = [q \in Slots |->
                    IF q = p THEN AddrWord(a)
                    ELSE IF q = p + 1 THEN MetaWord(m, p)
                    ELSE IF q \in p + 2 .. p + n - 1 THEN words[q - p - 1]
                    ELSE IF q \in p + n .. p + 2 * n - 1 THEN Junk
                    ELSE slot[q]]
      /\ \E leftover \in Leftovers(n) :
           table' = [TableAfterCopy(n, leftover) EXCEPT ![hashfunction(a)] = p]
      /\ size' = p + n
      /\ flushed' = FlushedBy(n)

(* Tcache_t::add(wbb, n) for the block at address a with header fields m,   *)
(* n slots long, the k-th after the header being words[k]: the copy, then   *)
(* the insertion at the front of the chain of the block's address.          *)
Add(a, m, n, words) ==
  \E leftover \in Leftovers(n) :
    LET p == Place(n)
        t == TableAfterCopy(n, leftover)
        h == hashfunction(a)
    IN  /\ slot' = [q \in Slots |->
                      IF q = p THEN AddrWord(a)
                      ELSE IF q = p + 1 THEN MetaWord(m, t[h])
                      ELSE IF q \in p + 2 .. p + n - 1 THEN words[q - p - 1]
                      ELSE IF q \in p + n .. p + 2 * n - 1 THEN Junk
                      ELSE slot[q]]
        /\ table' = [t EXCEPT ![h] = p]
        /\ size' = p + n
        /\ flushed' = FlushedBy(n)
================================================================================
