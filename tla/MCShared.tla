------------------------------- MODULE MCShared -------------------------------
(* The modules about what harts share beside their list, and the loader,    *)
(* which puts the guest they share in its place.  They have no variable in  *)
(* common and the code they model has none but the limits of the break, so  *)
(* a behaviour moves in one of them: focus, chosen at the start, says in    *)
(* which.  The harts are interchangeable in all of them, and so are the     *)
(* exceptions.                                                              *)
EXTENDS SimHeap, Brk, FpEnv, SyscallProxy, Atomics, Loader, TLC

VARIABLE focus

vars == << focus, heapVars, brkVars, fpVars, proxyVars, atomicVars, loaderVars >>

Init ==
  /\ focus \in {"heap", "brk", "fp", "proxy", "atomics", "loader"}
  /\ HeapInit /\ BrkInit /\ FpInit /\ ProxyInit /\ AtomicsInit /\ LoaderInit
  /\ focus # "loader" => program = CHOOSE p \in Programs : TRUE

Next ==
  /\ UNCHANGED focus
  /\ \/ /\ focus = "heap" /\ HeapNext
        /\ UNCHANGED << brkVars, fpVars, proxyVars, atomicVars, loaderVars >>
     \/ /\ focus = "brk" /\ BrkNext
        /\ UNCHANGED << heapVars, fpVars, proxyVars, atomicVars, loaderVars >>
     \/ /\ focus = "fp" /\ FpNext
        /\ UNCHANGED << heapVars, brkVars, proxyVars, atomicVars, loaderVars >>
     \/ /\ focus = "proxy" /\ ProxyNext
        /\ UNCHANGED << heapVars, brkVars, fpVars, atomicVars, loaderVars >>
     \/ /\ focus = "atomics" /\ AtomicsNext
        /\ UNCHANGED << heapVars, brkVars, fpVars, proxyVars, loaderVars >>
     \/ /\ focus = "loader" /\ LoaderNext
        /\ UNCHANGED << heapVars, brkVars, fpVars, proxyVars, atomicVars >>

Spec == Init /\ [][Next]_vars

Symmetry == Permutations(Hart) \cup Permutations(Flags)

SomeRiscvCalls == [openat |-> 56, read |-> 63, seccomp |-> 277, clone |-> 220, brk |-> 214]
SomeHostCalls == [openat |-> 257, read |-> 0, clone |-> 56, brk |-> 12, open |-> 2]

NoFlags == {{}}

(* A static program that begins with its headers, one whose first segment   *)
(* is inside a page, one without a fixed place, and two that ask for the    *)
(* dynamic loader ld.  .tbss has the address of the section after it.       *)
Segment(at, from, filesz, memsz) ==
  [type |-> "PT_LOAD", vaddr |-> at, offset |-> from, filesz |-> filesz, memsz |-> memsz]
AsksForLd == [type |-> "PT_INTERP", lib |-> "ld"]
Section(name, addr, size) == [name |-> name, addr |-> addr, size |-> size]
DataSections(data) ==
  << Section(".tbss", data + 1, 2), Section(".init_array", data + 1, 2),
     Section(".sbss", data + 3, 1), Section(".bss", data + 4, 2) >>
Elf(type, entry, ph, data) ==
  [e_type |-> type, e_entry |-> entry, e_phoff |-> 2, ph |-> ph, sh |-> DataSections(data)]

SomeFiles ==
  LET Text(at, from) == Segment(at, from, 6, 6)
      Data(at) == Segment(at, 9, 3, 6)
      Tls(at) == [type |-> "PT_TLS", vaddr |-> at]
  IN  [static  |-> Elf("ET_EXEC", 12, << Text(8, 0), Data(17), Tls(17) >>, 17),
       inside  |-> Elf("ET_EXEC", 15, << Text(11, 3), Data(21) >>, 21),
       pie     |-> Elf("ET_DYN", 4, << Text(0, 0), Data(9) >>, 9),
       dynamic |-> Elf("ET_EXEC", 12, << AsksForLd, Text(8, 0), Data(17) >>, 17),
       both    |-> Elf("ET_DYN", 4, << AsksForLd, Text(0, 0), Data(9) >>, 9),
       ld      |-> Elf("ET_DYN", 5, << Text(0, 0), Data(17) >>, 17)]

SomePrograms ==
  LET Host == << "AT_SYSINFO_EHDR", "AT_HWCAP", "AT_PAGESZ", "AT_PHDR", "AT_PHENT",
                 "AT_PHNUM", "AT_BASE", "AT_ENTRY", "AT_UID", "AT_SECURE", "AT_RANDOM",
                 "AT_EXECFN", "AT_PLATFORM" >>
      Auxv == [i \in DOMAIN Host |-> [key |-> Host[i], value |-> 90 + i]]
  IN  [file : DOMAIN SomeFiles \ {"ld"}, argv : {<< 6 >>, << 6, 0 >>},
       envp : {<< >>, << 3 >>, << 3, 5 >>}, auxv : {Auxv, << >>}]
================================================================================
