------------------------------ MODULE SyscallProxy ------------------------------
(***************************************************************************)
(* The proxy for guest system calls (proxy_syscall.cc): the map from guest *)
(* to host numbers that munge_syscalls.py builds by name, and the remapping *)
(* of paths into the sysroot, through one static buffer for all harts.     *)
(* clone and the exits are in Harts, the break is in Brk.                  *)
(***************************************************************************)
EXTENDS Integers, HartSet

CONSTANTS
  RiscvCalls,  (* [name -> number], unistd.h-riscv                         *)
  HostCalls,   (* [name -> number], unistd_64.h of the host                *)
  Paths,       (* paths that guests open                                   *)
  Prefixed     (* those that begin with /lib or /etc                       *)

HighestEcall ==
  CHOOSE n \in {RiscvCalls[c] : c \in DOMAIN RiscvCalls} :
    \A c \in DOMAIN RiscvCalls : RiscvCalls[c] =< n

NoName == "0"
NoPath == "none"

(* Numbers are unique on the guest's side, one is the greatest, and neither *)
(* no name nor no path is one of what it stands beside.                     *)
ASSUME ProxyAssumption ==
  /\ Prefixed \subseteq Paths
  /\ NoPath \notin Paths
  /\ NoName \notin DOMAIN RiscvCalls
  /\ \A c \in DOMAIN RiscvCalls : RiscvCalls[c] \in Nat
  /\ \A c \in DOMAIN HostCalls : HostCalls[c] \in Nat
  /\ \A c, d \in DOMAIN RiscvCalls : RiscvCalls[c] = RiscvCalls[d] => c = d
  /\ \E c \in DOMAIN RiscvCalls : \A d \in DOMAIN RiscvCalls : RiscvCalls[d] =< RiscvCalls[c]

VARIABLES
  parts,     (* riscv_file after the sysroot: the paths of which bytes are *)
             (* in it, none for the sysroot alone                          *)
  ecall,     (* ecall[h]: the system call that h is in                     *)
  opened,    (* what h's last open found                                   *)
  met        (* harts in whose remapping another remapped                  *)

proxyVars == << parts, ecall, opened, met >>

(* Mutant: the next entry of the table.                                     *)
rv_to_host_next(n) ==
  LET Named == {c \in DOMAIN RiscvCalls \cap DOMAIN HostCalls : RiscvCalls[c] = n + 1}
  IN  IF Named = {} THEN [sysnum |-> -1, name |-> NoName]
      ELSE LET c == CHOOSE c \in Named : TRUE
           IN  [sysnum |-> HostCalls[c], name |-> c]

(* One entry of rv_to_host.  A call the host does not have, or a number     *)
(* without a call, has no name and number -1.                               *)
rv_to_host(n) ==
  LET Named == {c \in DOMAIN RiscvCalls \cap DOMAIN HostCalls : RiscvCalls[c] = n}
  IN  IF Named = {} THEN [sysnum |-> -1, name |-> NoName]
      ELSE LET c == CHOOSE c \in Named : TRUE
           IN  [sysnum |-> HostCalls[c], name |-> c]

NoEcall == [pc |-> "idle", rvnum |-> 0, sysnum |-> 0, path |-> NoPath, buffer |-> FALSE]

ProxyInit ==
  /\ parts = {}
  /\ ecall = [h \in Hart |-> NoEcall]
  /\ opened = [h \in Hart |-> [asked |-> NoPath, rooted |-> FALSE, parts |-> {}]]
  /\ met = {}

Opens == {"open", "openat", "openat2"}

(* Dispatched elsewhere: 258 is riscv_hwprobe(), which only writes to the   *)
(* guest's own pairs.                                                       *)
Elsewhere == {"clone", "exit", "exit_group", "brk"}

proxy_syscall(h, rvnum) ==
  LET e == rv_to_host(rvnum) IN
  /\ ecall[h].pc = "idle"
  /\ rvnum # 258
  /\ e.name \notin Elsewhere
  /\ IF rvnum < 0 \/ rvnum > HighestEcall \/ e.name = NoName
     THEN ecall' = [ecall EXCEPT ![h].pc = "aborted", ![h].rvnum = rvnum]
     ELSE \E path \in IF e.name \in Opens THEN Paths ELSE {NoPath} :
            ecall' = [ecall EXCEPT ![h] =
              [NoEcall EXCEPT !.rvnum = rvnum, !.sysnum = e.sysnum, !.path = path,
                              !.pc = IF e.name \in Opens THEN "remap" ELSE "host"]]
  /\ UNCHANGED << parts, opened, met >>

Remapping(g) == ecall[g].pc \in {"root", "copying", "host"} /\ ecall[g].path \in Prefixed

(* Mutant: the buffer is passed whatever the path.                          *)
KeepPathBuffer(h) ==
  /\ ecall[h].pc = "remap"
  /\ ecall[h].path \notin Prefixed
  /\ ecall' = [ecall EXCEPT ![h].pc = "host", ![h].buffer = TRUE]
  /\ UNCHANGED << parts, opened, met >>

(* riscv_remap(): a path without the prefixes goes to the host as it is.    *)
KeepPath(h) ==
  /\ ecall[h].pc = "remap"
  /\ ecall[h].path \notin Prefixed
  /\ ecall' = [ecall EXCEPT ![h].pc = "host"]
  /\ UNCHANGED << parts, opened, met >>

(* The first strcpy() leaves the sysroot alone in the buffer.               *)
CopyRoot(h) ==
  /\ ecall[h].pc = "remap"
  /\ ecall[h].path \in Prefixed
  /\ parts' = {}
  /\ ecall' = [ecall EXCEPT ![h].pc = "root", ![h].buffer = TRUE]
  /\ met' = (met \ {h}) \cup {g \in Hart \ {h} : Remapping(g)}
                        \cup (IF \E g \in Hart \ {h} : Remapping(g) THEN {h} ELSE {})
  /\ UNCHANGED opened

(* The second begins: its bytes mix with what other harts are copying.      *)
CopyPath(h) ==
  /\ ecall[h].pc = "root"
  /\ parts' = parts \cup {ecall[h].path}
  /\ ecall' = [ecall EXCEPT ![h].pc = "copying"]
  /\ UNCHANGED << opened, met >>

CopyEnds(h) ==
  /\ ecall[h].pc = "copying"
  /\ parts' = {ecall[g].path : g \in {g \in Hart : g = h \/ ecall[g].pc = "copying"}}
  /\ ecall' = [ecall EXCEPT ![h].pc = "host"]
  /\ UNCHANGED << opened, met >>

(* asm_syscall(): the host reads the path from where its argument points.   *)
asm_syscall(h) ==
  LET c == ecall[h] IN
  /\ c.pc = "host"
  /\ opened' = IF c.path = NoPath THEN opened
               ELSE [opened EXCEPT ![h] =
                       [asked |-> c.path, rooted |-> c.buffer,
                        parts |-> IF c.buffer THEN parts ELSE {c.path}]]
  /\ ecall' = [ecall EXCEPT ![h] = NoEcall]
  /\ UNCHANGED << parts, met >>

Ecalls == {RiscvCalls[c] : c \in DOMAIN RiscvCalls} \cup {HighestEcall + 1}

(* abort() ends the process.                                                *)
ProxyNext ==
  /\ \A h \in Hart : ecall[h].pc # "aborted"
  /\ \E h \in Hart :
       \/ \E rvnum \in Ecalls : proxy_syscall(h, rvnum)
       \/ KeepPath(h) \/ CopyRoot(h) \/ CopyPath(h) \/ CopyEnds(h) \/ asm_syscall(h)

ProxySpec == ProxyInit /\ [][ProxyNext]_proxyVars

----------------------------------------------------------------------------
(* A path under /lib or /etc never opens the host's own file: whatever the  *)
(* interleaving, it is looked up below the sysroot, under paths that some   *)
(* hart has asked for, and under its own alone unless another hart was      *)
(* remapping at the same time.  Any other path opens what it names, without *)
(* proviso (riscv_remap(), host_syscall()).                                 *)
OpensBelowSysroot ==
  \A h \in Hart :
    LET o == opened[h] IN
    o.asked # NoPath =>
      IF o.asked \in Prefixed
      THEN /\ o.rooted
           /\ o.parts \subseteq Prefixed
           /\ (h \in met \/ Remapping(h) \/ o.parts = {o.asked})
      ELSE ~o.rooted /\ o.parts = {o.asked}

(* A call that goes to the host goes under the number that the host has for *)
(* its name, and the process is aborted only for a number that no call has, *)
(* or none that the host has as well (munge_syscalls.py, proxy_syscall()).  *)
ProxiedByName ==
  \A h \in Hart :
    LET c == ecall[h] IN
    /\ c.pc \in {"remap", "root", "copying", "host"} =>
         \E n \in DOMAIN RiscvCalls \cap DOMAIN HostCalls :
           RiscvCalls[n] = c.rvnum /\ HostCalls[n] = c.sysnum
    /\ c.pc = "aborted" =>
         \A n \in DOMAIN RiscvCalls \cap DOMAIN HostCalls : RiscvCalls[n] # c.rvnum
================================================================================
