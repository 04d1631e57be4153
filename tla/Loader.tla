--------------------------------- MODULE Loader ---------------------------------
(***************************************************************************)
(* The loader (loader.cc emulate_execve()): what the ELF file says is put  *)
(* into the simulator's own address space, the dynamic loader before it if *)
(* the program asks for one, and argv, envp and auxv are laid out on the   *)
(* guest's stack.  It runs once, before the first hart.                    *)
(* A byte of a file is known by the file and its offset.  A word of the    *)
(* stack is what it stands for.  Reading errors end the process and are    *)
(* left out.                                                               *)
(***************************************************************************)
EXTENDS Integers, SequencesExt

CONSTANTS
  File,         (* [name -> ELF file]                                      *)
  Programs,     (* [file, argv, envp, auxv]: how the simulator is started; *)
                (* argv and envp are the lengths of the strings, auxv is   *)
                (* the host's                                              *)
  RISCV_PGSIZE, MEM_END, BRK_SIZE,
  WordSize      (* sizeof(uintptr_t)                                       *)

INTERP_BASE == MEM_END

(* sizeof(Elf64_Phdr): a program header counts as one byte of its file.     *)
PhdrSize == 1

VARIABLES
  program,
  loading,      (* what comes next: "interp", "program", "stack"; "ready"  *)
  image,        (* [address -> byte] of the pages mapped for the files     *)
  info,         (* [file -> [bias, phnum, entry, brk_min, brk_max]]:       *)
                (* current and interp                                      *)
  phdrs,        (* phdrs                                                   *)
  stack,        (* [address -> word] of the words pushed                   *)
  pc, sp        (* what emulate_execve() returns                           *)

loaderVars == << program, loading, image, info, phdrs, stack, pc, sp >>

Zero == << >>
Unset == -1

Headers(f, type) == {p \in ToSet(File[f].ph) : p.type = type}
Loads(f) == Headers(f, "PT_LOAD")
Interps(f) == {p.lib : p \in Headers(f, "PT_INTERP")}

(* What the loader takes for granted of a file, as linkers make them: there *)
(* is something to load, in segments apart from each other; the headers     *)
(* are read with the lowest one, which begins in the file where it begins   *)
(* in its page; .bss and .sbss are what a segment has beyond its part of    *)
(* the file; and the entry is inside that part.                             *)
Lowest(f) == CHOOSE p \in Loads(f) : \A q \in Loads(f) : p.vaddr <= q.vaddr

Linked(f) ==
  LET ph == File[f].ph
      sh == File[f].sh
      Loaded == {i \in DOMAIN ph : ph[i].type = "PT_LOAD"}
  IN  /\ ph \in Seq(ToSet(ph)) /\ Loads(f) # {}
      /\ File[f].e_entry \in Nat /\ File[f].e_phoff \in Nat
      /\ \A i \in Loaded :
           /\ {ph[i].vaddr, ph[i].offset, ph[i].filesz, ph[i].memsz} \subseteq Nat
           /\ ph[i].filesz <= ph[i].memsz
           /\ \A j \in Loaded \ {i} : \/ ph[i].vaddr + ph[i].memsz <= ph[j].vaddr
                                     \/ ph[j].vaddr + ph[j].memsz <= ph[i].vaddr
      /\ Lowest(f).offset = Lowest(f).vaddr % RISCV_PGSIZE
      /\ File[f].e_phoff + Len(ph) <= Lowest(f).offset + Lowest(f).filesz
      /\ \A i \in DOMAIN sh : sh[i].name \in {".bss", ".sbss"} =>
           /\ sh[i].addr \in Nat /\ sh[i].size \in Nat
           /\ \E p \in Loads(f) : /\ p.vaddr + p.filesz <= sh[i].addr
                                 /\ sh[i].addr + sh[i].size <= p.vaddr + p.memsz
      /\ \E p \in Loads(f) : File[f].e_entry - p.vaddr \in 0 .. (p.filesz - 1)

(* A program asks for at most one dynamic loader, and that for none.  The   *)
(* key AT_NULL ends the host's vector, so none of its entries has it.       *)
ASSUME LoaderAssumption ==
  /\ RISCV_PGSIZE \in Nat \ {0} /\ WordSize \in Nat \ {0} /\ BRK_SIZE \in Nat
  /\ MEM_END \in Nat /\ MEM_END % RISCV_PGSIZE = 0 /\ MEM_END % (2 * WordSize) = 0
  /\ \A q \in Programs :
       /\ q.file \in DOMAIN File /\ Linked(q.file)
       /\ \A lib \in Interps(q.file) :
            /\ lib \in DOMAIN File /\ Linked(lib)
            /\ Interps(q.file) = {lib} /\ Interps(lib) = {}
       /\ q.argv \in Seq(Nat) /\ q.envp \in Seq(Nat)
       /\ q.auxv \in Seq([key : STRING \ {"AT_NULL"}, value : Nat])

(* argv[0] names the program (main(): it starts none without a name).       *)
ASSUME ArgvAssumption == \A q \in Programs : q.argv # << >>

(* A file that can lie anywhere and is not told where goes to INTERP_BASE.  *)
Bias(f, bias) == IF File[f].e_type = "ET_DYN" /\ bias = 0 THEN INTERP_BASE ELSE bias

LowEnd(f, bias) == Min({p.vaddr + bias : p \in Loads(f)})
HighEnd(f, bias) == Max({p.vaddr + p.memsz + bias : p \in Loads(f)})
MapBase(f, bias) == LowEnd(f, bias) - (LowEnd(f, bias) % RISCV_PGSIZE)

UpToPage(a) == ((a + RISCV_PGSIZE - 1) \div RISCV_PGSIZE) * RISCV_PGSIZE

(* One mmap() for all segments, in whole pages, over whatever was there,    *)
(* and the beginning of the file in what precedes the first segment.        *)
MapPages(mem, f, bias) ==
  LET pages == MapBase(f, bias) .. (UpToPage(HighEnd(f, bias)) - 1)
  IN  [a \in DOMAIN mem \cup pages |->
         IF a \notin pages THEN mem[a]
         ELSE IF a < LowEnd(f, bias) THEN << f, a - MapBase(f, bias) >> ELSE Zero]

(* A segment: p_filesz bytes read, the rest zeroed.                         *)
ReadSegment(mem, f, bias, p) ==
  [a \in DOMAIN mem |->
     LET k == a - (p.vaddr + bias) IN
     IF k \in 0 .. (p.filesz - 1) THEN << f, p.offset + k >>
     ELSE IF k \in p.filesz .. (p.memsz - 1) THEN Zero
     ELSE mem[a]]

(* The loop over the program headers.                                       *)
ReadSegments(mem, f, bias) ==
  LET ph == File[f].ph
      read[i \in 0 .. Len(ph)] ==
        IF i = 0 THEN mem
        ELSE IF ph[i].type = "PT_LOAD" THEN ReadSegment(read[i - 1], f, bias, ph[i])
        ELSE read[i - 1]
  IN  read[Len(ph)]

(* Mutant: .tbss, whose addresses are those of the section after it.        *)
ZeroThreadSections(mem, f, bias) ==
  LET Sections == {i \in DOMAIN File[f].sh : File[f].sh[i].name \in {".bss", ".tbss", ".sbss"}}
  IN  [a \in DOMAIN mem |->
         IF \E i \in Sections : a - bias - File[f].sh[i].addr \in 0 .. (File[f].sh[i].size - 1)
         THEN Zero ELSE mem[a]]

(* The loop over the sections; .tbss is commented out of its test.          *)
ZeroSections(mem, f, bias) ==
  LET Sections == {i \in DOMAIN File[f].sh : File[f].sh[i].name \in {".bss", ".sbss"}}
  IN  [a \in DOMAIN mem |->
         IF \E i \in Sections : a - bias - File[f].sh[i].addr \in 0 .. (File[f].sh[i].size - 1)
         THEN Zero ELSE mem[a]]

pinfo(f, bias) ==
  [bias |-> bias, phnum |-> Len(File[f].ph), entry |-> File[f].e_entry + bias,
   brk_min |-> HighEnd(f, bias), brk_max |-> HighEnd(f, bias) + BRK_SIZE]

(* load_elf_file(), after the dynamic loader has been loaded.               *)
load_elf_file(f, given) ==
  LET bias == Bias(f, given)
  IN  /\ image' = ZeroSections(ReadSegments(MapPages(image, f, bias), f, bias), f, bias)
      /\ info' = [g \in DOMAIN info \cup {f} |-> IF g = f THEN pinfo(f, bias) ELSE info[g]]
      /\ phdrs' = MapBase(f, bias) + File[f].e_phoff

LoaderInit ==
  /\ program \in Programs
  /\ loading = IF Interps(program.file) = {} THEN "program" ELSE "interp"
  /\ image = [a \in {} |-> Zero]
  /\ info = [f \in {} |-> Zero]
  /\ phdrs = Unset /\ pc = Unset /\ sp = Unset
  /\ stack = [a \in {} |-> Zero]

(* The recursion for PT_INTERP; an interpreter asks for none itself.  Its   *)
(* entry is where the guest starts.                                         *)
LoadInterp ==
  /\ loading = "interp"
  /\ loading' = "program"
  /\ \E lib \in Interps(program.file) :
       /\ load_elf_file(lib, INTERP_BASE)
       /\ pc' = File[lib].e_entry + INTERP_BASE
  /\ UNCHANGED << program, stack, sp >>

LoadProgram ==
  /\ loading = "program"
  /\ loading' = "stack"
  /\ load_elf_file(program.file, 0)
  /\ pc' = IF pc # Unset THEN pc ELSE info'[program.file].entry
  /\ UNCHANGED << program, stack, sp >>

----------------------------------------------------------------------------
(* initialize_stack().                                                      *)
StringBytes(lengths) ==
  LET copied[i \in 0 .. Len(lengths)] == IF i = 0 THEN 0 ELSE copied[i - 1] + lengths[i] + 1
  IN  copied[Len(lengths)]

(* Below a copy of the file's headers and the strings, aligned: the top of  *)
(* the words pushed, and AT_RANDOM.                                         *)
at_random ==
  LET top == MEM_END - (File[program.file].e_phoff + Len(File[program.file].ph))
                     - StringBytes(program.argv) - StringBytes(program.envp)
  IN  top - (top % (2 * WordSize))

Number(n) == << "number", n >>
Null == Number(0)
Key(k) == << "key", k >>
(* The host's pointers: the copies of the strings are not pointed to.       *)
Pointers(name, lengths) == [i \in DOMAIN lengths |-> << name, i >>]

(* What one turn of the loop over the host's auxiliary vector pushes.  Of   *)
(* the keys that keep the host's value, the ids, AT_UID stands for all.     *)
(* AT_BASE does not pass: at_base is never set.                             *)
Aux(aux) ==
  LET Own == [AT_PHDR |-> Number(phdrs), AT_PHENT |-> Number(PhdrSize),
              AT_PHNUM |-> Number(info[program.file].phnum),
              AT_ENTRY |-> Number(info[program.file].entry), AT_RANDOM |-> Number(at_random),
              AT_PAGESZ |-> Number(RISCV_PGSIZE), AT_SECURE |-> Number(0),
              AT_EXECFN |-> << "argv", 1 >>, AT_PLATFORM |-> << "literal", "riscv64" >>]
  IN  IF aux.key \in DOMAIN Own THEN << Own[aux.key], Key(aux.key) >>
      ELSE IF aux.key = "AT_UID" THEN << Number(aux.value), Key(aux.key) >>
      ELSE << >>

AuxPushed ==
  LET pushed[i \in 0 .. Len(program.auxv)] ==
        IF i = 0 THEN << >> ELSE pushed[i - 1] \o Aux(program.auxv[i])
  IN  pushed[Len(program.auxv)]

(* Mutant: envp is not ended.                                               *)
PushedUnended ==
  << Null, Key("AT_NULL") >> \o AuxPushed
  \o Reverse(Pointers("envp", program.envp))
  \o << Null >> \o Reverse(Pointers("argv", program.argv)) \o << Number(Len(program.argv)) >>

(* All that is pushed, in that order.                                       *)
Pushed ==
  << Null, Key("AT_NULL") >> \o AuxPushed
  \o << Null >> \o Reverse(Pointers("envp", program.envp))
  \o << Null >> \o Reverse(Pointers("argv", program.argv)) \o << Number(Len(program.argv)) >>

(* Where PUSH_ARG puts it.                                                  *)
PushedWords ==
  [a \in {at_random - i * WordSize : i \in DOMAIN Pushed} |-> Pushed[(at_random - a) \div WordSize]]

InitializeStack ==
  /\ loading = "stack"
  /\ loading' = "ready"
  /\ sp' = at_random - Len(Pushed) * WordSize
  /\ stack' = PushedWords
  /\ UNCHANGED << program, image, info, phdrs, pc >>

LoaderNext == LoadInterp \/ LoadProgram \/ InitializeStack

LoaderSpec == LoaderInit /\ [][LoaderNext]_loaderVars

----------------------------------------------------------------------------
PagesOf(f) == MapBase(f, info[f].bias) .. (UpToPage(HighEnd(f, info[f].bias)) - 1)

InPlace(f) ==
  \A p \in Loads(f) : \A k \in 0 .. (p.memsz - 1) :
    image[info[f].bias + p.vaddr + k] = IF k < p.filesz THEN << f, p.offset + k >> ELSE Zero

(* Once the files are loaded, every byte of every segment is the file's, or *)
(* zero beyond what the file holds; so are those of the dynamic loader,     *)
(* unless the program has been put on top of it, as one without a fixed     *)
(* place is.  phdrs leads to the program's own headers, whichever file was  *)
(* loaded in between; the guest starts at a byte of the dynamic loader if   *)
(* there is one; and no page of the program reaches into the break          *)
(* (load_elf_file()).                                                       *)
ImageLoaded ==
  LET main   == program.file
      Whole(f) == \A g \in DOMAIN info \ {f} : PagesOf(f) \cap PagesOf(g) = {}
      Starts == IF Interps(main) = {} THEN {main} ELSE Interps(main)
  IN  loading \in {"stack", "ready"} =>
        /\ DOMAIN info = {main} \cup Interps(main)
        /\ \A f \in DOMAIN info : f = main \/ Whole(f) => InPlace(f)
        /\ \A k \in 0 .. (Len(File[main].ph) - 1) :
             image[phdrs + k] = << main, File[main].e_phoff + k >>
        /\ \A f \in Starts : f = main \/ Whole(f) =>
             \E p \in Loads(f) : image[pc] = << f, p.offset + pc - info[f].bias - p.vaddr >>
        /\ \A a \in PagesOf(main) : a < UpToPage(info[main].brk_min)

(* A guest that reads its stack upwards from sp, knowing only that lists    *)
(* end with a null word, finds argc, the strings of argv and envp in their  *)
(* order, and for each key of auxv the value that is true of it: its own    *)
(* headers, entry, page size, its name in argv, and 16 bytes of its stack   *)
(* for AT_RANDOM (initialize_stack()).                                      *)
StackReadsBack ==
  loading = "ready" =>
    LET Word(i)   == stack[sp + i * WordSize]
        argc      == Word(0)[2]
        NextNull(i) == Min({j \in i .. (i + Cardinality(DOMAIN stack)) :
                              sp + j * WordSize \in DOMAIN stack /\ Word(j) = Null})
        env       == argc + 2
        aux       == NextNull(env) + 1
        Pairs     == {i \in {aux + 2 * n : n \in 0 .. Cardinality(DOMAIN stack)} :
                        /\ sp + (i + 1) * WordSize \in DOMAIN stack
                        /\ \A j \in aux .. i : Word(j) # Key("AT_NULL")}
        Value(k)  == {Word(i + 1) : i \in {i \in Pairs : Word(i) = Key(k)}}
        Given(k)  == \E i \in DOMAIN program.auxv : program.auxv[i].key = k
        main      == info[program.file]
    IN  /\ [i \in DOMAIN program.argv |-> Word(i)] = Pointers("argv", program.argv)
        /\ argc = Len(program.argv) /\ Word(argc + 1) = Null
        /\ NextNull(env) - env = Len(program.envp)
        /\ \A i \in DOMAIN program.envp : Word(env + i - 1) = << "envp", i >>
        /\ Given("AT_PHDR") => Value("AT_PHDR") = {Number(phdrs)}
        /\ Given("AT_PHENT") => Value("AT_PHENT") = {Number(PhdrSize)}
        /\ Given("AT_PHNUM") => Value("AT_PHNUM") = {Number(Len(File[program.file].ph))}
        /\ Given("AT_ENTRY") => Value("AT_ENTRY") = {Number(main.bias + File[program.file].e_entry)}
        /\ Given("AT_PAGESZ") => Value("AT_PAGESZ") = {Number(RISCV_PGSIZE)}
        /\ Given("AT_RANDOM") =>
             \E a \in (Max(DOMAIN stack) + 1) .. (MEM_END - 2 * WordSize) :
               Value("AT_RANDOM") = {Number(a)}
        /\ Given("AT_SECURE") => Value("AT_SECURE") = {Number(0)}
        /\ Given("AT_EXECFN") => Value("AT_EXECFN") = {Word(1)}
        /\ \A k \in {"AT_HWCAP", "AT_SYSINFO_EHDR"} : Value(k) = {}

----------------------------------------------------------------------------
(* The inductive invariant: what the loader has done when it has come so far. *)
FilesRecorded ==
  LET main == program.file
  IN  /\ program \in Programs
      /\ loading \in {"interp", "program", "stack", "ready"}
      /\ DOMAIN image \subseteq Int
      /\ loading = "interp" => Interps(main) # {}
      /\ DOMAIN info = CASE loading = "interp" -> {} [] loading = "program" -> Interps(main)
                          [] OTHER -> {main} \cup Interps(main)
      /\ \A f \in DOMAIN info :
           info[f] = pinfo(f, IF f = main THEN Bias(f, 0) ELSE INTERP_BASE)

(* The dynamic loader is in place before the program is loaded.              *)
InterpLoaded ==
  loading = "program" =>
    /\ \A lib \in Interps(program.file) :
         PagesOf(lib) \subseteq DOMAIN image /\ InPlace(lib) /\ pc = File[lib].e_entry + INTERP_BASE
    /\ Interps(program.file) = {} => pc = Unset

StackLaid ==
  loading = "ready" => sp = at_random - Len(Pushed) * WordSize /\ stack = PushedWords

LInv == FilesRecorded /\ InterpLoaded /\ ImageLoaded /\ StackLaid
================================================================================
