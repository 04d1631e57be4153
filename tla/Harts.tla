--------------------------------- MODULE Harts ---------------------------------
(***************************************************************************)
(* The harts of one simulation: guest threads, each interpreted by a host  *)
(* thread.  A hart's clone system call makes a new hart_t, pushes it on    *)
(* the list hart_t::_list without a lock, starts its thread and waits      *)
(* until that has published its thread id (hart.cc, proxy_syscall.cc).     *)
(* SYS_exit and SYS_exit_group walk the list for the main hart's id.       *)
(*                                                                         *)
(* A step is one access to what the threads share.                         *)
(***************************************************************************)
EXTENDS Naturals, FiniteSets

CONSTANTS
  Hart,     (* hart_t objects, there from the start or still to be made    *)
  Main,     (* the one main() makes                                        *)
  Nil       (* a null pointer, and the thread id 0                         *)

ASSUME HartAssumption ==
  /\ Main \in Hart
  /\ Nil \notin Hart
  /\ IsFiniteSet(Hart)

VARIABLES
  list,      (* hart_t::_list                                              *)
  numHarts,  (* hart_t::_num_harts                                         *)
  made,      (* the hart_t objects that have been constructed              *)
  next,      (* hart_t::_next                                              *)
  sid,       (* hart_t::sid                                                *)
  tid,       (* hart_t::_tid: Nil, or the hart itself for its thread's id  *)
  at,        (* where the hart's thread is                                 *)
  kid,       (* the hart this one is cloning, or Nil                       *)
  call,      (* sysnum, in host_syscall()                                  *)
  p,         (* host_syscall(): the hart_t* that walks the list            *)
  main_tid,  (* host_syscall(): the thread id seen last                    *)
  process    (* "up", or "down" once exit() has been called                *)

vars == << list, numHarts, made, next, sid, tid, at, kid, call, p, main_tid, process >>

(* "none": no thread.  "guest": interpreting guest code.  The others are    *)
(* inside a system call, or inside thread_interpreter() before the guest.   *)
Cloning == {"link", "cas", "sid", "spawn", "wait", "futex", "asleep"}
Place   == {"none", "guest", "born", "wake", "regs", "walk", "stopped", "exited"} \cup Cloning

(* The first constructor has pushed the main hart and main() interprets.    *)
Init ==
  /\ list = Main
  /\ numHarts = 1
  /\ made = {Main}
  /\ next = [h \in Hart |-> Nil]
  /\ sid = [h \in Hart |-> 0]
  /\ tid = [h \in Hart |-> IF h = Main THEN Main ELSE Nil]
  /\ at = [h \in Hart |-> IF h = Main THEN "guest" ELSE "none"]
  /\ kid = [h \in Hart |-> Nil]
  /\ call = [h \in Hart |-> "none"]
  /\ p = [h \in Hart |-> Nil]
  /\ main_tid = [h \in Hart |-> Nil]
  /\ process = "up"

exitVars == << call, p, main_tid, process >>

--------------------------------------------------------------------------------
(* SYS_clone: my_clone_proxy() and clone_thread()                           *)

(* new hart_t(parent), which leaves _tid as it finds it in the heap: zero    *)
(* with the pool of loader.cc, anything with a malloc() that reuses memory.  *)
Clone(h, c) ==
  /\ process = "up" /\ at[h] = "guest"
  /\ c \notin made
  /\ made' = made \cup {c}
  /\ \E leftover \in Hart \cup {Nil} : tid' = [tid EXCEPT ![c] = leftover]
  /\ kid' = [kid EXCEPT ![h] = c]
  /\ at' = [at EXCEPT ![h] = "link"]
  /\ UNCHANGED << list, numHarts, next, sid, exitVars >>

(* initialize(): _next = _list                                              *)
ReadList(h) ==
  /\ process = "up" /\ at[h] = "link"
  /\ next' = [next EXCEPT ![kid[h]] = list]
  /\ at' = [at EXCEPT ![h] = "cas"]
  /\ UNCHANGED << list, numHarts, made, sid, tid, kid, exitVars >>

(* Mutant: the push is a plain store.                                       *)
PushListStore(h) ==
  /\ process = "up" /\ at[h] = "cas"
  /\ list' = kid[h]
  /\ at' = [at EXCEPT ![h] = "sid"]
  /\ UNCHANGED << numHarts, made, next, sid, tid, kid, exitVars >>

(* initialize(): the compare-and-swap on _list, tried again if it fails.    *)
PushList(h) ==
  /\ process = "up" /\ at[h] = "cas"
  /\ IF list = next[kid[h]]
       THEN list' = kid[h] /\ at' = [at EXCEPT ![h] = "sid"]
       ELSE UNCHANGED list /\ at' = [at EXCEPT ![h] = "link"]
  /\ UNCHANGED << numHarts, made, next, sid, tid, kid, exitVars >>

(* Mutant: add and fetch.                                                   *)
TakeSidAfterAdd(h) ==
  /\ process = "up" /\ at[h] = "sid"
  /\ sid' = [sid EXCEPT ![kid[h]] = numHarts + 1]
  /\ numHarts' = numHarts + 1
  /\ at' = [at EXCEPT ![h] = "spawn"]
  /\ UNCHANGED << list, made, next, tid, kid, exitVars >>

(* initialize(): sid = fetch and add of _num_harts                          *)
TakeSid(h) ==
  /\ process = "up" /\ at[h] = "sid"
  /\ sid' = [sid EXCEPT ![kid[h]] = numHarts]
  /\ numHarts' = numHarts + 1
  /\ at' = [at EXCEPT ![h] = "spawn"]
  /\ UNCHANGED << list, made, next, tid, kid, exitVars >>

(* Mutant: _tid is left as the constructor leaves it.                       *)
SpawnDirty(h) ==
  /\ process = "up" /\ at[h] = "spawn"
  /\ at' = [at EXCEPT ![h] = "wait", ![kid[h]] = "born"]
  /\ UNCHANGED << list, numHarts, made, next, sid, tid, kid, exitVars >>

(* clone_thread(): _tid = 0, then the child's thread is started.            *)
Spawn(h) ==
  /\ process = "up" /\ at[h] = "spawn"
  /\ tid' = [tid EXCEPT ![kid[h]] = Nil]
  /\ at' = [at EXCEPT ![h] = "wait", ![kid[h]] = "born"]
  /\ UNCHANGED << list, numHarts, made, next, sid, kid, exitVars >>

(* clone_thread(): while the child's _tid is 0 wait on it, else return it.  *)
TestTid(h) ==
  /\ process = "up" /\ at[h] = "wait"
  /\ IF tid[kid[h]] = Nil
       THEN at' = [at EXCEPT ![h] = "futex"] /\ UNCHANGED kid
       ELSE at' = [at EXCEPT ![h] = "guest"] /\ kid' = [kid EXCEPT ![h] = Nil]
  /\ UNCHANGED << list, numHarts, made, next, sid, tid, exitVars >>

(* FUTEX_WAIT: the kernel looks at _tid again before it puts h to sleep.    *)
FutexWait(h) ==
  /\ process = "up" /\ at[h] = "futex"
  /\ at' = [at EXCEPT ![h] = IF tid[kid[h]] = Nil THEN "asleep" ELSE "wait"]
  /\ UNCHANGED << list, numHarts, made, next, sid, tid, kid, exitVars >>

(* A signal ends the wait early.                                            *)
Interrupted(h) ==
  /\ process = "up" /\ at[h] = "asleep"
  /\ at' = [at EXCEPT ![h] = "wait"]
  /\ UNCHANGED << list, numHarts, made, next, sid, tid, kid, exitVars >>

--------------------------------------------------------------------------------
(* thread_interpreter()                                                     *)

(* Mutant: nobody is woken.                                                 *)
PublishTidQuietly(c) ==
  /\ process = "up" /\ at[c] = "born"
  /\ tid' = [tid EXCEPT ![c] = c]
  /\ at' = [at EXCEPT ![c] = "regs"]
  /\ UNCHANGED << list, numHarts, made, next, sid, kid, exitVars >>

(* _tid = gettid()                                                          *)
PublishTid(c) ==
  /\ process = "up" /\ at[c] = "born"
  /\ tid' = [tid EXCEPT ![c] = c]
  /\ at' = [at EXCEPT ![c] = "wake"]
  /\ UNCHANGED << list, numHarts, made, next, sid, kid, exitVars >>

(* FUTEX_WAKE: whoever sleeps on this hart's _tid.                          *)
FutexWake(c) ==
  /\ process = "up" /\ at[c] = "wake"
  /\ at' = [h \in Hart |-> IF h = c THEN "regs"
                           ELSE IF at[h] = "asleep" /\ kid[h] = c THEN "wait"
                           ELSE at[h]]
  /\ UNCHANGED << list, numHarts, made, next, sid, tid, kid, exitVars >>

(* The child's own registers: stack, tls, result and pc.                    *)
SetRegisters(c) ==
  /\ process = "up" /\ at[c] = "regs"
  /\ at' = [at EXCEPT ![c] = "guest"]
  /\ UNCHANGED << list, numHarts, made, next, sid, tid, kid, exitVars >>

--------------------------------------------------------------------------------
(* SYS_exit and SYS_exit_group: host_syscall() from `stop:`                 *)

(* Mutant: the walk starts after the calling hart.                          *)
ExitCallFromSelf(h, sysnum) ==
  /\ process = "up" /\ at[h] = "guest"
  /\ call' = [call EXCEPT ![h] = sysnum]
  /\ main_tid' = [main_tid EXCEPT ![h] = Nil]
  /\ p' = [p EXCEPT ![h] = next[h]]
  /\ at' = [at EXCEPT ![h] = "walk"]
  /\ UNCHANGED << list, numHarts, made, next, sid, tid, kid, process >>

ExitCall(h, sysnum) ==
  /\ process = "up" /\ at[h] = "guest"
  /\ call' = [call EXCEPT ![h] = sysnum]
  /\ main_tid' = [main_tid EXCEPT ![h] = Nil]
  /\ p' = [p EXCEPT ![h] = list]
  /\ at' = [at EXCEPT ![h] = "walk"]
  /\ UNCHANGED << list, numHarts, made, next, sid, tid, kid, process >>

(* Mutant: the main hart is taken to be first on the list.                  *)
WalkListFirst(h) ==
  /\ process = "up" /\ at[h] = "walk" /\ p[h] # Nil
  /\ main_tid' = [main_tid EXCEPT ![h] = IF @ = Nil THEN tid[p[h]] ELSE @]
  /\ p' = [p EXCEPT ![h] = next[p[h]]]
  /\ UNCHANGED << list, numHarts, made, next, sid, tid, at, kid, call, process >>

(* for (p = list; p; p = next): the last _tid seen stays.                   *)
WalkList(h) ==
  /\ process = "up" /\ at[h] = "walk" /\ p[h] # Nil
  /\ main_tid' = [main_tid EXCEPT ![h] = tid[p[h]]]
  /\ p' = [p EXCEPT ![h] = next[p[h]]]
  /\ UNCHANGED << list, numHarts, made, next, sid, tid, at, kid, call, process >>

(* Any thread but the main one sleeps for ever.                             *)
Stop(h) ==
  /\ process = "up" /\ at[h] = "walk" /\ p[h] = Nil
  /\ main_tid[h] # h
  /\ at' = [at EXCEPT ![h] = "stopped"]
  /\ UNCHANGED << list, numHarts, made, next, sid, tid, kid, exitVars >>

Exit(h) ==
  /\ process = "up" /\ at[h] = "walk" /\ p[h] = Nil
  /\ main_tid[h] = h
  /\ process' = "down"
  /\ at' = [at EXCEPT ![h] = "exited"]
  /\ UNCHANGED << list, numHarts, made, next, sid, tid, kid, call, p, main_tid >>

--------------------------------------------------------------------------------

(* The steps a thread takes once it is in the simulator's code.             *)
Simulator(h) ==
  \/ ReadList(h) \/ PushList(h) \/ TakeSid(h) \/ Spawn(h) \/ TestTid(h) \/ FutexWait(h)
  \/ PublishTid(h) \/ FutexWake(h) \/ SetRegisters(h)
  \/ WalkList(h) \/ Stop(h) \/ Exit(h)

Guest(h) ==
  \/ \E c \in Hart : Clone(h, c)
  \/ \E sysnum \in {"SYS_exit", "SYS_exit_group"} : ExitCall(h, sysnum)

Next == \E h \in Hart : Simulator(h) \/ Guest(h) \/ Interrupted(h)

Spec == Init /\ [][Next]_vars

(* The host schedules every thread that can run.  A guest may compute for   *)
(* ever, so no system call has to be made, and no signal has to come.       *)
FairSpec == Spec /\ \A h \in Hart : WF_vars(Simulator(h))

--------------------------------------------------------------------------------
(* Properties                                                               *)

(* Every variable keeps to its set, and a hart has a child in hand exactly  *)
(* as long as it is inside the clone system call.                           *)
TypeOK ==
  /\ list \in Hart
  /\ numHarts \in Nat
  /\ made \subseteq Hart
  /\ next \in [Hart -> Hart \cup {Nil}]
  /\ sid \in [Hart -> Nat]
  /\ tid \in [Hart -> Hart \cup {Nil}]
  /\ at \in [Hart -> Place]
  /\ kid \in [Hart -> Hart \cup {Nil}]
  /\ call \in [Hart -> {"none", "SYS_exit", "SYS_exit_group"}]
  /\ p \in [Hart -> Hart \cup {Nil}]
  /\ main_tid \in [Hart -> Hart \cup {Nil}]
  /\ process \in {"up", "down"}
  /\ \A h \in Hart : kid[h] # Nil <=> at[h] \in Cloning

(* The harts whose push has succeeded, and those that have their number.    *)
Pushed   == made \ {kid[h] : h \in {x \in Hart : at[x] \in {"link", "cas"}}}
Numbered == made \ {kid[h] : h \in {x \in Hart : at[x] \in {"link", "cas", "sid"}}}

(* A set that a walk from the list over _next does not leave.               *)
HoldsWalk(S) == list \in S /\ \A h \in S : next[h] \in S \cup {Nil}

(* However the pushes of cloning harts interleave, a walk over the list     *)
(* comes past every hart that was pushed and no other, each once: the       *)
(* pushed harts hold it, no fewer of them do, and one of them ends it.      *)
NoHartLost ==
  /\ HoldsWalk(Pushed)
  /\ \A S \in SUBSET Pushed : HoldsWalk(S) => S = Pushed
  /\ \E h \in Pushed : next[h] = Nil

(* Harts that push and number themselves in different orders still get      *)
(* numbers of their own, without a gap once all have theirs.                *)
SidsDistinct ==
  /\ \A g, h \in Numbered : sid[g] = sid[h] => g = h
  /\ {sid[h] : h \in Numbered} = 0 .. numHarts - 1

(* clone returns to the parent's guest only when the child's thread runs    *)
(* and the child can be found by its thread id, whatever _tid held before.  *)
CloneIsSynchronous ==
  \A c \in made :
    at[c] \in {"none", "born"} \/ tid[c] # c =>
      \E h \in Hart : kid[h] = c /\ at[h] \in Cloning

(* "main process tid is last on list": the walk, in the middle of other     *)
(* harts' pushes, tells the main hart from the others, so that the main     *)
(* hart's exit ends the process and no other one does.                      *)
MainEndsProcess ==
  /\ at[Main] # "stopped"
  /\ \A h \in Hart \ {Main} : at[h] # "exited"
  /\ process = "down" <=> at[Main] = "exited"

--------------------------------------------------------------------------------
(* The inductive invariant: what those properties need to be carried from   *)
(* step to step.                                                            *)

Waiting == {"wait", "futex", "asleep"}

(* A hart being cloned is in one parent's hands; its thread starts when the *)
(* parent begins to wait, and the parent waits until it has started.        *)
KidsApart ==
  \A g, h \in Hart :
    /\ kid[g] # Nil => kid[g] \in made \ {Main}
    /\ kid[g] # Nil /\ kid[g] = kid[h] => g = h
    /\ kid[g] # Nil => (at[kid[g]] = "none" <=> at[g] \notin Waiting)

ThreadsMade ==
  /\ Main \in made /\ at[Main] # "none"
  /\ \A h \in Hart : at[h] # "none" => h \in made
  /\ \A c \in made : at[c] \in {"none", "born"} => \E h \in Hart : kid[h] = c

TidsPublished ==
  \A c \in Hart :
    /\ at[c] \notin {"none", "born"} => tid[c] = c
    /\ at[c] = "born" => tid[c] = Nil

(* Following _next from the list stays on it, and only the main hart, which *)
(* was there first, ends it.                                                *)
ListEndsInMain ==
  /\ list \in Pushed
  /\ \A h \in Pushed : IF h = Main THEN next[h] = Nil ELSE next[h] \in Pushed
  /\ \A h \in Hart : at[h] = "cas" => next[kid[h]] \in Pushed

WalkFindsMain ==
  \A h \in Hart :
    at[h] = "walk" => p[h] \in Pushed \/ (p[h] = Nil /\ main_tid[h] = Main)

(* The thread group is consistent: every part of the clone handshake, the   *)
(* list and the walks over it is where it should be.                        *)
HInv == /\ TypeOK /\ KidsApart /\ ThreadsMade /\ TidsPublished
        /\ ListEndsInMain /\ WalkFindsMain /\ SidsDistinct /\ MainEndsProcess

--------------------------------------------------------------------------------
(* Why the wake-up is not lost: a hart only sleeps as long as the child it  *)
(* clones has its FUTEX_WAKE still to come.                                 *)
SleepersAreWoken ==
  \A h \in Hart : at[h] = "asleep" => at[kid[h]] \in {"born", "wake"}

(* The parent's wait ends: the child's wake-up is never lost.               *)
CloneReturns ==
  \A h \in Hart : at[h] = "link" ~> at[h] = "guest" \/ process = "down"

(* exit_group ends the process, whichever hart calls it.                    *)
ExitGroupEndsProcess ==
  \A h \in Hart : at[h] = "walk" /\ call[h] = "SYS_exit_group" ~> process = "down"
================================================================================
