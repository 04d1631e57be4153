-------------------------------- MODULE SimHeap --------------------------------
(***************************************************************************)
(* The simulator's own malloc() (loader.cc): a pool whose top only grows,  *)
(* moved by compare-and-swap.  Harts call it at once: a clone makes a new  *)
(* hart_t and its cache in the thread of its parent.  Addresses count from *)
(* simpool, which is aligned to 16.  free() does nothing and is left out.  *)
(***************************************************************************)
EXTENDS Integers, HartSet

CONSTANTS
  PoolSize,  (* poolsize                                                   *)
  Sizes,     (* what is asked for                                          *)
  Counts,    (* calloc(): how many                                         *)
  Rereads    (* whether the build may read pooltop again for rv            *)

ASSUME HeapAssumption ==
  /\ PoolSize \in Nat
  /\ Sizes \subseteq Nat
  /\ Counts \subseteq Nat
  /\ Rereads \in BOOLEAN

VARIABLES
  pooltop,   (* pooltop - simpool                                          *)
  request,   (* request[h]: the malloc() that h is in                      *)
  blocks,    (* [at, size] of every block handed out; at is rv             *)
  torn       (* some swap put in a top computed from an older reading      *)

heapVars == << pooltop, request, blocks, torn >>

NoRequest == [pc |-> "idle", size |-> 0, seen |-> 0, rv |-> 0, newtop |-> 0]

HeapInit ==
  /\ pooltop = 0
  /\ request = [h \in Hart |-> NoRequest]
  /\ blocks = {}
  /\ torn = FALSE

(* (after & ~0xf) + 8, with after = top + size + 16.                        *)
NewTop(top, size) == ((top + size + 16) \div 16) * 16 + 8

CallMalloc(h, size) ==
  /\ request[h].pc = "idle"
  /\ request' = [request EXCEPT ![h] = [NoRequest EXCEPT !.pc = "read", !.size = size]]
  /\ UNCHANGED << pooltop, blocks, torn >>

Malloc(h) == \E size \in Sizes : CallMalloc(h, size)

Calloc(h) == \E nmemb \in Counts, size \in Sizes : CallMalloc(h, nmemb * size)

(* A block that is large enough is returned as it is.  The word before the  *)
(* block tells its size.                                                    *)
Realloc(h) ==
  \E old \in blocks, size \in Sizes :
    /\ old.size < size
    /\ CallMalloc(h, size)

(* The pool has no room: null.                                              *)
HeapExhausted(h) ==
  /\ request[h].pc = "read"
  /\ pooltop + request[h].size + 16 > PoolSize
  /\ request' = [request EXCEPT ![h] = NoRequest]
  /\ UNCHANGED << pooltop, blocks, torn >>

ReadTop(h) ==
  /\ request[h].pc = "read"
  /\ pooltop + request[h].size + 16 =< PoolSize
  /\ request' = [request EXCEPT ![h].pc = "reread", ![h].seen = pooltop]
  /\ UNCHANGED << pooltop, blocks, torn >>

(* rv: the build may use the value it has already read, or read again.      *)
RereadTop(h) ==
  /\ request[h].pc = "reread"
  /\ \E rv \in {request[h].seen} \cup (IF Rereads THEN {pooltop} ELSE {}) :
       request' = [request EXCEPT ![h].pc = "swap", ![h].rv = rv,
                     ![h].newtop = NewTop(request[h].seen, request[h].size)]
  /\ UNCHANGED << pooltop, blocks, torn >>

(* Mutant: the top is stored without a comparison.                          *)
SwapTopStore(h) ==
  /\ request[h].pc = "swap"
  /\ pooltop' = request[h].newtop
  /\ request' = [request EXCEPT ![h].pc = "size"]
  /\ torn' = (torn \/ request[h].rv # request[h].seen)
  /\ UNCHANGED blocks

SwapTop(h) ==
  /\ request[h].pc = "swap"
  /\ pooltop = request[h].rv
  /\ pooltop' = request[h].newtop
  /\ request' = [request EXCEPT ![h].pc = "size"]
  /\ torn' = (torn \/ request[h].rv # request[h].seen)
  /\ UNCHANGED blocks

SwapTopFails(h) ==
  /\ request[h].pc = "swap"
  /\ pooltop # request[h].rv
  /\ request' = [request EXCEPT ![h].pc = "read"]
  /\ UNCHANGED << pooltop, blocks, torn >>

(* The size is stored before the block, and the block returned.             *)
StoreSize(h) ==
  /\ request[h].pc = "size"
  /\ blocks' = blocks \cup {[at |-> request[h].rv, size |-> request[h].size]}
  /\ request' = [request EXCEPT ![h] = NoRequest]
  /\ UNCHANGED << pooltop, torn >>

HeapNext ==
  \E h \in Hart :
    \/ Malloc(h) \/ Calloc(h) \/ Realloc(h)
    \/ HeapExhausted(h) \/ ReadTop(h) \/ RereadTop(h)
    \/ SwapTop(h) \/ SwapTopFails(h) \/ StoreSize(h)

HeapSpec == HeapInit /\ [][HeapNext]_heapVars

----------------------------------------------------------------------------
(* The memory claimed by someone: blocks handed out, and those whose hart   *)
(* has moved the top and not returned.  A block is its size word and what   *)
(* was asked for.                                                           *)
Claimed ==
  blocks \cup {[at |-> request[h].rv, size |-> request[h].size] :
                 h \in {g \in Hart : request[g].pc = "size"}}

End(b) == b.at + 8 + b.size

Apart(b, c) == End(b) =< c.at \/ End(c) =< b.at

(* Harts that allocate at once never share a byte, inside the pool: every   *)
(* two blocks are the same block or apart, and nobody else holds a block    *)
(* that a hart is still to be given (loader.cc malloc()).  Unless a build   *)
(* that reads pooltop twice has put in a top computed from the older value. *)
BlocksApart ==
  ~torn =>
    /\ \A b, c \in Claimed : b = c \/ Apart(b, c)
    /\ \A b \in Claimed : End(b) =< PoolSize
    /\ \A g, h \in Hart :
         (g # h /\ request[g].pc = "size" /\ request[h].pc = "size")
           => request[g].rv # request[h].rv
    /\ \A h \in Hart, b \in blocks : request[h].pc = "size" => request[h].rv # b.at

Requests == [pc : {"idle", "read", "reread", "swap", "size"},
             size : Nat, seen : Nat, rv : Nat, newtop : Nat]

(* The invariant that makes it so.  The top lies above every block and is   *)
(* 8 below a multiple of 16 once it has moved, so that all but the first    *)
(* block are aligned; a new top computed from an old reading lies above     *)
(* that reading, with the block between them, so the compare-and-swap can   *)
(* only succeed while the block is free.                                    *)
HeapInv ==
  /\ pooltop \in Nat
  /\ request \in [Hart -> Requests]
  /\ blocks \subseteq [at : Nat, size : Nat]
  /\ torn \in BOOLEAN
  /\ ~torn =>
       /\ pooltop = 0 \/ pooltop % 16 = 8
       /\ \A b \in Claimed : End(b) =< pooltop
       /\ \A h \in Hart :
            /\ request[h].pc \in {"reread", "swap"}
                 => request[h].seen + request[h].size + 16 =< PoolSize
            /\ request[h].pc = "swap"
                 => request[h].newtop = NewTop(request[h].seen, request[h].size)
       /\ BlocksApart
================================================================================
