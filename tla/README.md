# A TLA+ development of the cavatools RISC-V simulator

This directory specifies, model-checks and proves properties of the user-mode
RISC-V simulator in `caveat/` (with `opcodes/`, which generates its tables, and
`pipesim/`, a pipeline simulator built on it). Every definition is translated
from the source; `PROJECT.json` gives the lines of each.

## 1. The system

`caveat` loads a static RISC-V program into its own address space and interprets
it. Guest addresses are host addresses, guest threads are host threads, and most
guest system calls are made to the host as they are. There is no lock anywhere in
the simulator: what harts share is either updated with compare-and-swap or not
protected.

| Component | State | Operations | Talks to |
|---|---|---|---|
| Translation cache (`Tcache_t`) | `array` of 64-bit slots, hash `table`, `_size`, `_flushed` | `find`, `add`, `clear` | one hart, its owner |
| Block interpreter (`hart.cc`) | `s.pc`, `target`, `mismatch_target` | `run_basic_block`, `find_bb`, `substitute_cas` | cache, decoder, guest memory |
| Reference interpreter (`caveat --show`) | `s.pc` | decode and execute, one at a time | decoder |
| Harts (`hart_t`) | `_list`, `_next`, `_num_harts`, `sid`, `_tid` | constructors, `initialize`, `find` | clone, exit, status report |
| System call proxy | the number map, `riscv_file` | `proxy_syscall`, `host_syscall`, `clone_thread`, `thread_interpreter`, `riscv_hwprobe` | harts, host kernel, break |
| Memory pool (`loader.cc`) | `simpool`, `pooltop` | `malloc`, `calloc`, `realloc` | everything that says `new` |
| Guest break | `current.brk` | `emulate_brk` | proxy, host `mmap` |
| ELF loader | guest memory | `emulate_execve` and what it calls | before the first hart |
| Guest atomics | guest memory | `cas`, `amo_int32`, `amo_int64`, `lr`, `sc` | all harts |
| Floating point environment | `softfloat_roundingMode`, `softfloat_exceptionFlags`, `fflags`, `frm` | `srm`, `sfx`, `get_csr`, `set_csr` | all harts |
| softfloat and integer arithmetic | none but the environment | `f16_*`, `f32_*`, `f64_*`, conversions, estimates, `mulh*` | the instructions |
| GDB stub | `inBuf`, `outBuf`, `gdbNumContinue`, `lastGdbSignal` | packets in and out, the command loop | one hart, a socket |
| Pipeline simulator and display | `busy`, three pipelines, `history`, `cycle` | `issue`, `clock_pipeline`, `interactive` | one hart, the terminal |

What is hard in it, and the property each part owes:

* **The cache overwrites itself.** Blocks, headers, chains and branch-prediction
  links share one array that is filled from slot 2 up and started again when
  full. Pointers into it (`target`) live across calls that can flush it. *The hart
  executes exactly the instructions the reference interpreter would, from whatever
  the cache holds.*
* **Prediction.** Every block ends in links to the blocks that followed it last
  time; a link must be confirmed by the pc. *A wrong link costs time, never
  correctness; and links do predict what they claim to.*
* **Thread creation and exit without locks.** *No hart is lost from the list, none
  shares a number, clone returns only when its child can be found, exit is decided
  by the right hart.*
* **Shared globals without locks**: the break, the path buffer, the rounding mode
  and exception flags. *Each hart sees only its own.*
* **The host's memory model and compiler** for `pooltop` and lr/sc. *Blocks handed
  out are disjoint; an sc that succeeds saw no write since its lr, or only one that
  put the same value back.*
* **The guest's image and stack**: one mapping per file, a recursion for the dynamic
  loader, lists pushed downwards and read upwards. *Every byte is where the ELF
  file says, and the guest finds its arguments.*
* **Arithmetic** in six rounding modes, on bit patterns. *Every result and every
  flag is that of the exact result, rounded once.*
* **The debugger's link**: checksums, acknowledgements, retransmission. *Every
  command is done once, in order, and what the debugger is told is true.*
* **The pipeline**: *a register that is busy becomes free again.*

The line by line list of hazards is under `hazards` in `PROJECT.json`, with the
properties that watch over each, or the reason why none does.

## 2. The modules

```
GuestCode  <-- GuestMachine            what the guest is; the reference machine
    ^               ^ refinement
    |               |
    +---------- BlockInterp --> Tcache the hart with its cache
                    ^
       MCBlockInterp, BlockInterpProofs

Harts  <-- MCHarts, HartsProofs        thread creation and exit

HartSet <-- SimHeap       <-- SharedProofs     the simulator's memory pool
        <-- Brk           <-- SharedProofs     the guest's break
        <-- SyscallProxy  <-- SharedProofs     numbers and paths of system calls
        <-- FpEnv         <-- SharedProofs     rounding mode and exception flags
        <-- Atomics       <-- IntegerProofs    amo, lr and sc
            Loader        <-- LoaderProofs     the ELF image and the first stack
     all six  <-- MCShared

DebugChannel <--refinement-- GdbStub <-- MCGdbStub, GdbStubProofs
PipeSim <-- MCPipeSim, PipeSimProofs

FloatFormat <-- SoftFloat <-- FloatConvert <-- FloatEstimate
                   <-- FloatReference <-- FloatUnit, FloatOrder;  HighProduct
     FloatUnit (five instances), FloatOrder, HighProduct  <-- MCFloatUnit
     FloatOrder <-- FloatProofs;  HighProduct <-- IntegerProofs
```

### GuestCode, GuestMachine

`Code` maps each mapped address to what `decoder()` returns there, reduced to its
*class* (what the attributes of `RV-CG.def` say: whether it ends a block, must
begin one, is a conditional branch, is an sc), its length and the addresses it can
jump to. What it computes is left out: a branch may go either way and a jump
anywhere in its `dest`. So every run of every guest with this control flow is a
behaviour, and some that no guest has. The code does not change (no self-modifying
guests; see 7).

`GuestMachine` is the loop of `caveat --show`: decode at the pc, execute, again.
What is observed is the pc and the instruction last executed, with its address.
It is the abstract specification. The two interpreters differ in one thing by
design: the block interpreter replaces an sc by a compare-and-swap
(`Predecode`), where `--show` executes the sc as a plain store. The refinement
compares against the reference machine on the code with that replacement made.

### Tcache, BlockInterp

| Specification | Code |
|---|---|
| `slot`, `table`, `size`, `flushed` | `array`, `table`, `_size`, `_flushed > 0` |
| words tagged addr, meta, insn, link | the two words of `Header_t`, `Insn_t`, `Header_t*` |
| `junk` | a slot never written, or the bytes the copy loop takes from beyond the block |
| `Wild` in `table` or a link | any value that is neither 0 nor the index of a block in the cache |
| `Overwritten`, `Leftovers` | the entries the copy loop runs over, and what it can leave in them: 0, the index of any block, or `Wild` |
| `Add`, `Full`, `Place`, `FlushedBy` | `Tcache_t::add`, with `clear` inside it |
| `target`, `mismatch_target` | the same; slot 0 stands for `&mismatch_target` and `&mismatch_header` |
| `at` | where the hart is: `top` of `run_basic_block`, `find`, `decode`, `add`, `link`, `exec`; or how it ended |
| `PredictHit`, `PredictMiss`, `PredictNull` | `((*target)->addr == s.pc) ? *target : find_bb(s.pc)` |
| `FindHit`, `FindNext`, `FindMiss`, `FindWild` | one turn of `Tcache_t::find` |
| `Decode`, `DecodeStop`, `DecodeFault` | one turn of the loop of `find_bb` |
| `AddBlock`, `AddTooBig`, `AddWild`, `RejectSC` | the rest of `find_bb`, with `add` and `substitute_cas` |
| `StoreLink` | `*target = bb` |
| `Exec`, `ExecWild` | one `execute_instruction`, with what follows the last one of a block |

Three ends stand for the ends of the process: `dead` (`die`, `dieif`), `fault` (a
decode of unmapped memory) and `wild` (from here the compiled code does what the
memory happens to make it do, so nothing further is specified). Instructions that
end the process by themselves (illegal opcodes, `exit`) are not told apart: a hart
may stop after any step in any case. A guest's system call can take any time and
has no effect here, so all interleavings with other harts are already there: a
hart shares neither its cache nor its pc.

The variable `damage` records, for the properties only, that something was written
outside its place, in one of the two ways the code can do it (findings 1 and 2). The
two differ in what they spoil. A copy that runs over the table (`"copy"`) leaves any value
in its first entries, so that `find` misses blocks that are there and translates them
again, walks in circles, or leaves the array (`wild`); every block stays a good one. A link
stored over an instruction (`Stored`) spoils a block. So the properties of blocks and links
say what holds until something is stored over an instruction (`~Stored => ...`); those of
chains, of blocks being unique, of why the hart stops and of loops what holds until there is
any damage (`Undamaged => ...`). That the hart executes nothing but what the reference
machine would has no proviso, but it ends where the model does.

### Harts

One step is one access to what threads share: the read of `_list`, the
compare-and-swap, the fetch-and-add, each side of the futex handshake, each step of
the walk in exit. `tid[h]` is `Nil` (the id 0), or the hart whose thread has the id.
`kid[h]` is the hart that `h` is cloning. A new hart's `_tid` starts as any value
at all, since the constructor does not set it. `FutexWait` and `Interrupted`
contain what the kernel does: it tests the word again before it sleeps, and a
signal can end the sleep.

### SimHeap, Brk, FpEnv, SyscallProxy, Atomics, Loader: MCShared

Five modules about what harts share beside their list, and the one that puts the
guest in its place. None of them has a variable of another, as the code behind them
has no common state (but the limits of the break, which the loader computes and
`Brk` has as constants). `MCShared` puts them into one specification whose variable
`focus` says which of them moves, so that the state space is the sum of theirs and
not the product. Harts, and exceptions, are interchangeable in all of them: symmetry
is sound.

*SimHeap.* `malloc()` of `loader.cc` is every `new` of the simulator. `pooltop` is
read twice in an attempt, once for the new top and once for the comparand of the
compare-and-swap: `Rereads` says whether the build keeps both reads (`volatile`
asks for it). If another hart allocates in between, the new top comes from the old
reading and can lie below what has been handed out: this is `torn`, the variable that
records it for the properties. `malloc(0)`, a full pool, `calloc` and `realloc` are
there; `free` does nothing.

*Brk.* A step of `emulate_brk` is a read or write of `current.brk`, or the host call
in between. The assertion around `mmap` reads the break once more (`AssertBrk`) and ends the
process when another hart has moved it. `overlapped` records that two calls have been under
way at once: nothing forbids it, and the pages mapped can then be wrong, or the assertion
fail. No property holds of the pages then but that they stay in their region.

*FpEnv.* `srm`, the operation, the raising of a flag (`softfloat_exceptionFlags |=`,
a read and a write) and `sfx` are steps of their own. `intruded` and `together`
record that another hart came between. Instructions without `srm` or without `sfx`
are kinds of their own, and so are those that are given the mode as an argument (the
conversions to integers; `fcvt.l.d` and `fcvt.lu.d` have no `srm`). The exception flags are never cleared in softfloat, so a flag
that the guest has cleared comes back with its next operation, or with any hart's.

*SyscallProxy.* The map from guest to host numbers by name, and `riscv_remap()` with
its one static buffer, written by two `strcpy()`; `met` records that two harts were in
it at once.

*Atomics.* `amo` is a loop of a load and a compare-and-swap; `lr`, `sc` are a load
and the compare-and-swap that `substitute_cas` puts there, so an `sc` can succeed
after the word was changed and changed back. The property is about what a guest does
with them: adds.

*Loader.* `load_elf_file()` maps all segments of a file at once, reads the beginning
of the file, then each segment, zeroes what the file does not hold, and at last the
sections `.bss` and `.sbss`. A byte is the file and offset it came from. The dynamic
loader comes first, by recursion. `initialize_stack()` is a sequence of words pushed, with
every key of `auxv` that it sets itself, leaves out, or hands on from the host.
A program header takes one byte of the file here (`PhdrSize`) and a word two bytes.

| Specification | Code |
|---|---|
| `ReadTop`, `RereadTop`, `SwapTop`, `SwapTopFails`, `StoreSize` | the loop of `malloc` |
| `amo_load`, `amo_swap`, `lr_load`, `sc` | `amo_int64`, `lr`, `cas` |
| `EnterBrk`, `FirstBrk`, `CompareBrk`, `Remap`, `AssertBrk`, `StoreBrk` | `emulate_brk` |
| `SetMode`, `Operate`, `RaiseFlags`, `FoldFlags` | `srm`, an f-operation, `softfloat_raiseFlags`, `sfx` |
| `CopyRoot`, `CopyPath`, `CopyEnds`, `asm_syscall` | `riscv_remap`, `host_syscall` |
| `LoadInterp`, `LoadProgram`, `InitializeStack` | `load_elf_file`, `initialize_stack` |

### DebugChannel, GdbStub

`GdbStub` has the stub, the debugger and both directions of the link. A body is
characters that know which command they belong to, the two digits of the checksum one
token that fits one body only. The link may damage or lose `MaxFaults` characters and
the debugger lose patience `MaxTimeouts` times. `ReceivePacket`, `SendPacket` and every
command of `ProcessGdbCommand` are there, with what each leaves behind when it fails
half-way: a `G` whose registers were written and whose pc was not, an `M` that stored
zeroes before it found its data too short, or up to where mapped memory ends.
`RcvHexInt` gathers digits in an int and extends its sign, so that a command with an address
of more than 31 bits (`high`) is for another place than the debugger meant: `PlaceOf` says
"elsewhere", a place that no command names otherwise. `DebugChannel` is the abstract specification:
commands numbered, done once, in order, told once. `executed` is a refinement-only count
of commands done; an `s` or `c` gets no acknowledged answer, so a copy of it sent again
cannot be told from a new one and is executed again (`gdblink.cc:442`, `453`): it counts
once. `ProcessGdbException` is compiled out of the loop that would call it.

### PipeSim

One instruction enters one of three pipelines per cycle, or waits. A pipeline is a ring
of stages indexed by the cycle, whose entries point into a ring of history entries; the
loop that counts stages down runs over the *latency* of the pipeline, which can be longer
than the ring, and then visits some stages twice per cycle. The keys of `interactive()`
move the window over the ring of snapshots.

### FloatFormat, SoftFloat, FloatConvert, FloatEstimate, FloatReference, FloatUnit, FloatOrder, HighProduct

`softfloat/` comes with the program, compiled with `INLINE_LEVEL` 5, `FAST_INT64`,
`FAST_DIV64TO32`, tininess detected after rounding, and the RISC-V rules for NaNs.
Bit patterns are integers, and the formats are constants: the functions of `f16_*`,
`f32_*` and `f64_*` differ in the widths, and where they differ in more (the table
division of f16, the estimates of f32 and f64, the two-word paths) each has its own
operator. Every width of the source that is not a format's (a 32-bit accumulator, a
7-bit guard) is derived from the format as in the source, and arithmetic is modulo it.
`approxRecip32` and `approxRecipSqrt32` are not computed for scaled words: `short` is any
shortfall that their comments in `primitives.h` allow (never above, within 2.006 and 2.06
units), so the corrections that follow have to work for all.

`FloatReference` says what the results should be in another way: a value is `m * 2^e`,
the exact result is computed in integers and rounded once. `FloatUnit` executes an
operation in one step, with what srm and sfx do around it, and its properties compare.
`FloatOrder` does so for comparisons, minima, maxima and classes, which have neither: it is
a module of its own so that it can be reasoned about without what rounds, and compares with
`Place`, a number's place in the order of all numbers of its format.
`HighProduct` is `mulhu`, `mulh` and `mulhsu` of `arithmetic.h`, on words of two digits in
base `Base` (2^32 in the code), each with the sums and products wrapped as C wraps them.

## 3. What is checked

| Run | Question | Bounds | States |
|---|---|---|---|
| `mixed` | is the cache what it should be, are the hart's steps the guest's, and do they go on, through fills and flushes? | 23 slots, 3 buckets, blocks of at most 16 bytes and 8 words | 127,779 |
| `tiny` | why can the hart stop? | 14 slots, blocks of up to 15 | 7,996 |
| `clone` | list, numbers, handshake, exit | 4 harts, symmetric but for the main one | 747,919 |
| `live` | does clone return? | 3 harts | 11,107 |
| `shared` | what is left of the guest's promises when harts share globals; is the guest loaded right? | 2 harts, 2 operations each | 1,878,241 |
| `gdb` | does each command happen once, is the answer true, does it come? | 2 commands, 2 faults, 2 timeouts, a buffer of 9 | 1,519,487 |
| `pipe` | does every busy register become free? | rings of 4, latencies 3, 1 and 5, 8 cycles | 645,057 |
| `float` | is every result the exact one, rounded? | six sets of formats, see below | 823,252 |
| `flush`, `overrun`, `links`, `exit_group` | the four findings | as small as shows them | |

`mixed`
: `TypeOK`; `BlocksWellFormed` (each cached block is the run of guest instructions
  at its address, ends where the attributes and limits say, overlaps no other, and
  its links lead to blocks); `ChainsComplete` (each hash chain meets every block of
  its bucket, newest first, and ends); `NoDuplicateBlocks`; `LinksAreSuccessors` (a
  link leads where the outcome it belongs to can go, in the order the code keeps them);
  `IInv`, the inductive invariant; `UndamagedUntilFull`; and the refinement
  `ImplementsGuestMachine`: whatever becomes of the cache, what the hart executes is what
  the reference machine executes next. The model ends in `wild` where the hart takes for
  an instruction what is none, and the refinement says that it has executed nothing wrong
  before. Two properties are about going on, until there is damage: `InstructionReached`
  (`find` and the decoding loop end) and `ExecutesOn`, the fairness of the
  reference machine: where that goes on executing, the hart does too, through any number of
  flushes.

`tiny`
: the limits of a block exceed the cache, so that all three fates of a block are
  met: it fits, `add` refuses it, or `add` accepts it and it does not fit, which is damage.
  `OnlyGuestStops`.

`clone`
: `NoHartLost`, `SidsDistinct`, `CloneIsSynchronous`, `MainEndsProcess` and the
  inductive invariant `HInv`, of which `TypeOK` is part. `NoHartLost` says without
  counting that a walk from `_list` meets every pushed hart once: the pushed harts are a
  set that the walk does not leave, no smaller set is, and one of them ends it.

`live`
: `CloneReturns`.

`shared`
: `BlocksApart` (blocks of the pool share no byte and hold what was asked, until a top
  is torn); `BreakMapsExactly` (the pages mapped are those below the break, unless calls
  overlapped, and the assertion holds), `BreakStaysInRegion` (without proviso); `RoundsAsAsked`, `FlagsAccrue`;
  `OpensBelowSysroot`, `ProxiedByName`; `NoLostUpdate`; `ImageLoaded` and
  `StackReadsBack` (what a guest finds that knows only the ELF file and that lists end
  with a null). The provisos are the code's: harts do get in each other's way there, and
  the properties say how far the damage goes.

`gdb`
: `TypeOK` (the buffer is never overrun); `AnswersAreTrue` (of the place the stub reads
  out of the digits: with OK the data is there, and nothing else was touched); `NoTimeoutNeeded` (on a clean
  link neither side ever waits for the other); the refinement `ImplementsDebugChannel`;
  and `CommandsAnswered`, liveness after the last fault.

`pipe`
: `TypeOK`; `BusyIsInFlight`; `StallsEnd` (an instruction waits less than the longest
  latency); `ShowsThatCycle`.

`float`
: `CorrectlyRounded` (add, sub, mul, div, rem, sqrt, mulAdd, and the two 7-bit
  estimates), `ConversionsRounded`, `OneOrder` (comparisons, min, max, classes; fle as less),
  `HighProducts` (all words of two octal digits). float16_t has its own widths in three of
  the sets, with every kind of exponent and fraction on both sides of each border and a
  sample between; the others are small enough to take all patterns of a format, or have
  the three formats far enough apart for conversions to overflow and underflow. One
  operand of a comparison is any pattern (of 9 bits) or such a sample, the other a border.

**Why the bounds are enough.** The constants scale `conf_tcache` (1,000,000),
`conf_hash` (997), the limits of 256 bytes and 128 words, and the widths of `count`
(7 bits) and `length` (8 bits), in their order: blocks can be ended by bytes, by
words, by attributes on either side, and by the end of mapped code; buckets hold
several blocks; 23 slots hold a block of the greatest length and another, or more short ones, and behaviours
have several flushes. Undamaged states after a flush, with chained and linked
blocks in them, are among those reached. `Gap` is 2 where the array's size is even and 3 where it
is odd, the distance at which the pool's `malloc` puts the table behind it; the copy loop
reaches it in `mixed` and overwrites up to all three entries. `MixedCode` has one
instruction of every class, a jump register into the middle of blocks, code that
runs into unmapped memory, an sc outside its pattern, runs longer than both limits,
and a jump to null; `TinyCode` has one more way into a run, to a block that only just does not
fit. In `Harts` three harts can push at once and a fourth be on the
list already; the theorems cover any finite number.

**Deadlock** is not checked where the code can stop: in `mixed` and `tiny` the
guest may run off its code, and in `Harts` the process exits. In `shared` operations are
bounded and a call without a host number aborts; in `gdb` and `pipe` the bounds end the
behaviour (`NoTimeoutNeeded` says what deadlock freedom would); in `float` nothing stops.

**Fairness.** `BlockInterp!FairSpec` (run `mixed`) has `WF_vars(Next)`: a hart is one thread whose
loop waits for nobody, and the host schedules it. `Harts!FairSpec` has weak fairness
for each thread's own steps inside the simulator, for the same reason. There is none
for what the guest chooses (to make a system call) nor for signals: `CloneReturns`
does not lean on a signal to wake the parent. A compare-and-swap may fail again and
again, but only because another hart's succeeded, and harts are finite.
`GdbStub!FairSpec` has weak fairness for the stub, a loop in one thread that blocks only
on the link, and for what a debugger does with what it has received or after waiting too
long. There is none for asking, nor for the link's damage.

## 4. What the violated runs show

1. **`flush`: a store through a stale `target`** (`hart.cc:283`).
   `run_basic_block` reads `*target`, calls `find_bb`, then stores to `*target`. If
   `find_bb` flushed the cache, `target` still points at a link slot of a block that
   is gone. The new block starts at slot 2, and if it is long enough to cover that
   slot, an instruction of it becomes a pointer. `caveat.h:89-91` says every block
   is a header, instructions and links. If the stale slot lies beyond the new block
   nothing happens: the store lands in free space. The violated formula is
   `WellFormed`, without the proviso, in a behaviour whose only damage is this.
2. **`overrun`: the copy loop's length** (`hart.cc:193`). `n` counts 8-byte slots,
   the loop copies `n` objects of 16 bytes. What it writes past the block is
   overwritten by the next block, except at the end of the array, where it goes on
   into what follows: with this program's `malloc` 2 slots of padding and then the
   hash table. It happens once in each fill, in the last block or two before a flush.
3. **`links`: the order of a conditional block's two links** (`hart.cc:295`).
   `caveat.h:94-95` has the fall-through link first and the taken one second;
   `run_basic_block` predicts a taken branch from the first and a fall-through from the
   second. Of the two comments where `find_bb` makes room for them, one
   (`hart.cc:257`) agrees with the code and one (`hart.cc:261`) with `caveat.h`. What the
   guest computes does not depend on it, since a link is always confirmed; somebody
   who wrote a second user of the links from the comment would follow the wrong one.
   `LinksAreSuccessors`, in `mixed`, says that the code keeps to its own order everywhere, and
   its mutant is the order as documented.
4. **`exit_group`: only the main hart ends the process** (`proxy_syscall.cc:195`).
   `SYS_exit` and `SYS_exit_group` share their path. For a thread's `exit` sleeping
   for ever is a stand-in; for `exit_group` it means that the process never ends if
   the main hart waits for that thread. `src/README.md` line 5 says all host system
   calls are available.

One more comment in `caveat.h` differs from the code without consequence: line 102 calls
`length` the number of 16-bit parcels; the code stores bytes, modulo 256.

### Divergences without a run

Met while modelling; the models do what the code does. None is contradicted by a
document, a comment or a test of this repository, only by the RISC-V specification
or the platform's conventions.

* `fle.s` and `fle.d` call `f32_lt`, `f64_lt` (`RV-CG.def:209`, `250`), so they answer false
  for equal numbers. `FloatOrder` has them so, apart from `f32_le` and `f64_le`, which
  no instruction calls, and `OneOrder` says that fle is less. There is no `fsqrt.d`.
* Division and remainder by zero give `INT64_MAX` or `UINT64_MAX`; `INT64_MIN % -1`
  gives `INT64_MIN`. `divw` and its like test all 64 bits of the divisor and divide by
  the lower 32: a divisor whose low half is zero, or `INT32_MIN / -1`, is a host trap.
* `srliw`, `srlw`, `divuw`, `remuw` and `fcvt.wu` leave the upper half zero; the counts of
  `sllw` and `srlw` are not masked.
* `fcvt.s.l` and `fcvt.s.lu` convert the lower 32 bits (`RV-CG.def:220-221`). `fcvt.d.l` and
  `fcvt.d.lu` round with the mode some earlier instruction set. The flags of feq, flt, fle,
  fmin and fmax are not folded into `fflags`.
* Flags come back after the guest has cleared them (see FpEnv).
* A program without a fixed place that asks for the dynamic loader is mapped on top of it
  (both at `INTERP_BASE`, `loader.cc:61`, `214`, `237`): `ImageLoaded` excepts it.
  `AT_BASE` is never passed, since `at_base` is never set.
* The first stack is aligned to 16 before the words are pushed (`loader.cc:366`), so sp
  is a multiple of 16 only if argc and the number of environment strings add up to an odd
  number. Nothing keeps the region of the break from reaching into the stack or the
  dynamic loader.
* An `s` or `c` packet sent again is executed again (see GdbStub). The addresses of `m`, `M`,
  `s` and `c` lose all but 31 bits and a sign (`gdblink.cc:334-346`), and an `M` elsewhere is
  answered OK; a `G` without its pc is answered OK and clears the pc.
* `riscv_hwprobe` answers the first pair as often as there are pairs
  (`proxy_syscall.cc:276`).

## 5. What is proved

All proofs are hierarchical and checked to the last leaf; nothing is assumed but the
named assumptions on the constants. `CodeAssumption`: page zero is not mapped, every
mapped address holds an instruction, the entry is mapped. `CacheAssumption`: at
least three slots, one bucket. `BlockAssumption`: positive limits, and a count field
that can hold the greatest count (128 in the code: `CountMod >= MaxSlots`).
`HartAssumption`: finitely many harts, the main one among them, `Nil` not.
`ArgvAssumption`: a program has a name.
`ProxyAssumption`: no two guest calls have the same number, and one has the highest.
`PipeAssumption`: the bounds on latencies given below. `GdbAssumption`: commands have a
body, the buffer room for a character and its null. Those of `SimHeap`, `Brk`, `FpEnv`,
`Atomics` and `HighProduct` say that sizes and limits are numbers, that pages and words are
not empty, and that a word has a sign bit. `OrderAssumption`: formats have two bits of exponent and
one of fraction at least, operands are bit patterns, and, of arithmetic, that powers of two are
numbers and that those of a format multiply as their exponents add (`PowersOfTwo`), which the
provers do not know and which they cannot be taught without induction. TLC evaluates each in
every run of its module.

### BlockInterpProofs

For every guest, cache size, hash size, gap and limits:

| Theorem | States |
|---|---|
| `InvariantHolds` | `Spec => []IInv` |
| `TypesHold`, `BlocksStayWellFormed`, `LookupIsExact`, `BlocksAreUnique`, `StopsAreTheGuests` | `[]` of `TypeOK`, `BlocksWellFormed`, `ChainsComplete`, `NoDuplicateBlocks`, `OnlyGuestStops`, which follow from it |
| `Refinement` | `Spec => ImplementsGuestMachine` |
| `LinksPredictTheirOutcome` | `Spec => []LinksAreSuccessors` |
| `FirstFillIsClean` | `Spec => []UndamagedUntilFull` |
| `EveryLoopEnds` | `Spec => InstructionNears /\ [](StepsLeft \in 0 .. 5 + MaxSlots + TcacheSize)` |

*The invariant.* No property is inductive alone. That blocks are well formed after
`AddBlock` needs `Decoded` (what is in the buffer is the straight-line run from the
pc); that they are after `StoreLink` needs that the target is no header of a block; that
no address is translated twice needs `Untranslated` at `AddBlock`, which needs
`Searching` (the walk has passed every block not below it), which needs `Chained`; and
`Chained` gives the order, since chains run down the array. After a copy over the table
these four are lost, and all that is left is `Pointed`: an entry or a chain's link
leads to a block, to the end or to nothing that is specified, so that what `find` comes back
with is a block for the pc, however it got there, or the walk ends in `wild`. `Executing` ties the
slot being executed to the pc, which is what makes each `Exec` a step of the reference
machine. Their conjunction is `Sound`. There is one lemma per action; `AddBlock` rests on
lemmas about what the copy does to old blocks, to the new one, and to the set of heads, with
a case for a flush and one without.

*After a link is stored over an instruction.* `Sound` is then false for good, and
`IInv` goes over to `Doomed`. The argument is about where the store can hit. `target` was
a link of the block before; `find_bb` flushed the cache and put one block at its bottom,
the block about to be executed: so what is overwritten is an instruction of *that* block
(the last conjunct but one of `Placed`). The hart starts at the block's head, the
instructions in front of the overwritten one are as decoded, no branch can leave the block
before its last instruction, and so the hart comes to the pointer (`Doomed`: it is in
front of it, and everything from there to it is the guest's own), where the model ends in
`wild`. Until then each step is a step of the reference machine: hence no proviso
in `Refinement`. It does not say what the processor makes of the pointer.

*Links.* `LinkInv` says of `target`, while it is held, that the pc is one of the
successors that this slot stands for (`Predicted`), which `Exec` establishes when it
chooses the slot by the outcome. Between there and `StoreLink` the cache may be flushed:
then the slot is free, or an instruction of the new block (stored over), or one of the new
block's own links, for which nothing is known of the outcome. That last case is why
`LinkTrue` excepts a link that leads back to its own block: without the exception the
property is false, and the proof shows that there is no other.

*The first fill.* `FirstFillIsClean` shows by another invariant, `FillInv`, that neither
kind of damage can happen before the first flush while the array has room for
one more block of the greatest length: the copy of twice the block stays inside (the
lemmas bound a block by `MaxSlots` and 3), and `target` is still a live link, since
only a flush makes it stale. With the default sizes that is every guest with fewer than
about 999,800 slots of translated code: for them all the provisos above are true.

*Loops.* `EveryLoopEnds` is the part of `InstructionReached` that needs no fairness.
`StepsLeft` bounds how many steps there are until the next instruction is executed or the
run ends: a walk of a hash chain goes to a lower slot while nothing is damaged (`Chained`:
`FindDescends`; an entry that the copy loop has overwritten can lead it round for ever), a turn of the decoding loop makes the block longer by one slot
of `MaxSlots` (`DecodeGrows`), and every other action leaves the place it starts from. Each
such step that does not execute an instruction lowers it, and it is never negative; so a hart
that is scheduled cannot then stay in `find_bb()`. What it does not say is that the hart is
scheduled.

### HartsProofs

For every finite set of harts: `ThreadGroupInvariant` (`Spec => []HInv`), and from
it `TypesHold`, `NumbersAreDistinct`, `OnlyMainEndsProcess`, `CloneWaitsForChild` and,
with one step more, `ListIsComplete` (`Spec => []NoHartLost`).
`HInv` adds to the properties that no two parents hold one child (`KidsApart`), that
a thread runs only in a made hart and that an unstarted child has a parent inside
clone (`ThreadsMade`), what `_tid` is at each stage (`TidsPublished`), that following
`_next` stays among pushed harts and ends only in the main one (`ListEndsInMain`),
and that a walk in progress is on the list or has just seen the main hart last
(`WalkFindsMain`). A push needs no exclusion because of `at = "cas"`: the value read
is still a pushed hart, whether or not it is still the head. `NoHartLost` is inductive
relative to `HInv`: a push that succeeds adds one hart whose `_next` is the old head, so a
set that holds the new walk holds, without the new hart, the old one (`PushAddsOne`). It is
stated by sets, so that no sequence of the walk has to be spoken of.

`NoWakeUpLost` (`Spec => []SleepersAreWoken`) is the safety half of `CloneReturns`: a parent
that sleeps in clone has a child whose `FUTEX_WAKE` is still to come. The kernel lets it sleep
only while `_tid` is 0, when the child has not published (`TidsPublished`), and the child passes
from publishing to waking without anything between. That it makes the step is fairness.

### SharedProofs, IntegerProofs

For any finite set of harts and any values of the other constants:

| Theorem | States |
|---|---|
| `HeapInvariant`, `BlocksStayApart` | `HeapSpec => []HeapInv`, `=> []BlocksApart` |
| `OneReadingIsSafe` | with `Rereads = FALSE`, blocks are always apart, without proviso |
| `BreakStays`, `PagesFollowBreak` | `BrkSpec => []BreakStaysInRegion`, `=> []BreakMapsExactly` |
| `SysrootHolds`, `CallsGoByName` | `ProxySpec => []OpensBelowSysroot`, `=> []ProxiedByName` |
| `FpInvariant`, `RoundedAsAsked`, `FlagsAccrueAlways` | `FpSpec => []FpInv`, `=> []RoundsAsAsked`, `=> []FlagsAccrue` |
| `NoUpdateIsLost` | `AtomicsSpec => []NoLostUpdate` |
| `HighProductsExact` | `ProductSpec => []HighProducts` |

*The pool.* `HeapInv` says that the top lies above every block handed out and that a new
top held by a hart was computed from a reading that, if it still is the top, leaves room
for the block. A compare-and-swap that succeeds on a comparand read later than that is
the case that tears; `OneReadingIsSafe` shows it is the only one.

*The break.* Every value of the break, and every reading a hart holds, is a page boundary
between the rounded limits, because rounding up is monotone (lemmas on `RoundUp`) and the
address was clamped. That is not disturbed by whatever other harts do. `MapInv` adds what
is true until two calls have overlapped: one hart at most is in a call, what it has read is
the break, and the pages are those below the old break until it remaps and those below the
new one afterwards (`PagesMove`: the same set, whichever of the two is higher). What the
assertion reads is then what the call has read, so it does not end the process.

*System calls.* `EcallInv` ties the number a call goes under to its name, from the map to the
host. For the path buffer, `ProxyInv` says that of two harts inside `riscv_remap` at
once both have met another, whichever came first, and that the buffer of one that has met
none holds exactly what it copied itself, between the first `strcpy` and the call. Of those
that met one it still says that what is opened lies below the sysroot.

*The floating point environment.* `ModeInv`: a hart that has set the mode and has not been
intruded upon still finds it. `SourceInv`: every flag anywhere was raised or written by
someone. `AloneInv`: while no two harts have been under way at once, the flags of the one
computing are on their way to its `fflags`. That is what `FlagsAccrueAlways` amounts to: no flag
is invented, ever; none is missing only while harts compute one at a time, and only of
instructions that have `sfx`.

*Atomics.* Each write stamps the word; a compare-and-swap whose stamp is the current one
compares with the current word, and the word is the sum of all additions modulo `Modulus`.
An `sc` that succeeds on a word that changed and changed back adds to the same value.

*Products.* `HighProducts` is inductive; the work is in the arithmetic, nonlinear and so
split into steps the solver can do. A quotient is known by the range of its remainder
(`QuotientIs`); two digits and a carry multiply to less than a word (`ProductBound`), so
none of the wrapped sums of `mulhu` wraps; the lost lower digits never carry (`MulhuIs`).
For the signed ones: magnitudes fit in a word, the least number's too (`SignedIs`), and the
complement of the upper word plus one if the lower word is zero is the floor of the negative
quotient (`NegatedIs`). `BaseAssumption` asks that `Base` be even, for there to be a sign bit.

### LoaderProofs

For any files, page size, end of memory, arguments and host's vector, as long as the files are
linked (`Linked`, part of `LoaderAssumption`: segments apart, the headers inside the first one,
`.bss` and `.sbss` inside what a segment has beyond its file part, the entry inside a file part,
at most one dynamic loader, which asks for none):

| Theorem | States |
|---|---|
| `LoaderInvariant` | `LoaderSpec => []LInv` |
| `LoadsTheImage` | `LoaderSpec => []ImageLoaded` |
| `LaysTheStack` | `LoaderSpec => []StackReadsBack` |

*Induction.* The loops of the loader are recursive functions over `0 .. n`, and what they
compute is an induction over the headers, the strings, the entries of `auxv`. The library's
rules of induction take a predicate as parameter, which the provers cannot instantiate;
`Induction` says it of a *set* (one that has 0 and, with a number, the next, has them all), from
the well-foundedness of `Nat`. Each use names the set of turns after which what is claimed
holds. `ReadsInTurn`, `PushesInTurn` and `StringsTakeRoom` show in that way that the recursive
functions are defined, `SegmentsRead` and `AuxLaid` what they return.

*The image.* `FileLoaded`: because segments are apart, each keeps what was read for it through
the turns of the later ones, and what `.bss` zeroes was zero. That needs that no section
reaches into a segment's file part, which only `Linked` can say. `StaysInPlace`: the program,
loaded second, leaves the dynamic loader's bytes alone unless their pages meet. `HeadersThere`:
the headers are in memory whether they precede the first segment (the read into the
`prepad`) or are in it.

*The stack.* What is pushed is known word by word (`LaysOut`, `PushedLaid`); it is read
back from the other end (`ReadsFromEnd`), where the null after `argv` is found by `argc` and the one
after `envp` because no pointer is null. The pairs of `auxv` stay in step because each turn
pushes two words or none (`PairsInTurn`), so a value is never taken for a key; that
`AT_RANDOM` points at 16 bytes above the words comes from the strings' and the
headers' room (`StackRoom`).

### GdbStubProofs

For any commands of any length, any bounds on their number, on damaged characters and on
timeouts, and any size of the buffer from 2 on:

| Theorem | States |
|---|---|
| `GdbInvAlways`, `GdbStubTypeCorrect` | `Spec => []GdbInv`, `=> []TypeOK` |
| `AnswersTrue` | `Spec => []AnswersAreTrue` |
| `CommandsCurrent` | the command about to be executed is the one the debugger waits for |
| `DebugChannelImplemented` | `Spec => ImplementsDebugChannel` |
| `NobodyWaits` | `Spec => []NoTimeoutNeeded` |

*The invariant.* There are no sequence numbers in this protocol, so what keeps an old answer
from passing for a new one is the order of each line, which damage does not change: on the way
to the stub an acknowledgement of an old answer comes before every character of the next
command (`StubLine`), on the way back the answers to the last command come before the
acknowledgement of this one and that before its answers (`GdbLine`). With the position of the
unread acknowledgement as a case split (`Told`, `Acknowledged`, `Asked`, `Answered`), the stub
can only be sending the old answer, or have nothing to send yet, or be sending the answer to
the command asked, executed once. A body whose characters are not all of one command never has
the checksum of a command, and the invariant says that those in the buffer are all of the
command asked (`CommandIsCurrent`). What a body as asked does is a case split over commands
(`AnswerIsTrue`), among them a `G` without its pc and the commands with a high address, whose
data goes to the place that `PlaceOf` gives: that it is the place the debugger meant is not
proved, since it is not so.

*The refinement* maps `executed` and the debugger's own counts; every step of the stub but
the end of a command, and every step of the line, is a stutter.

*No timeouts.* `NoTimeoutNeeded` needs another invariant, `Undisturbed`: with no damage yet,
the command with all that belongs to it is in one place at a time: not asked yet (`Unasked`), on
the way to the stub, possibly partly in its buffer (`Arriving`), or executed and on the way
back (`Arrived`). A packet longer than the buffer is never acknowledged, however often it is
sent (`Unheard`), and the stub is none the worse for it. In all but the last somebody can move.

### PipeSimProofs

For any instructions, any size of the ring of stages, a history at least as long, and any
latencies from 1 up to one more than the ring (beyond that the code computes a negative index,
`pipesim.h:28`):
`PipeSimTypeCorrect`, `BusyRegistersInFlight`, `EveryStallEnds` and `WindowShowsItsCycle`, the
four properties of the run `pipe`. The invariant `PipeInv` says of each instruction in flight
in which stage it is (`cycle - Age` modulo the ring), how far it has counted down, that its
entry in the history has not been taken by another, and that no instruction has been waiting
for longer than the youngest in flight is old: so a stall ends with the one in flight that is
oldest. A latency one beyond the ring is where it is needed: a stage is then counted down twice
in the cycle after it was entered, and `Shorter` and `Remaining` say what comes of it. `DisplayInv` says which cycle
each entry of the ring of snapshots is of. Lemmas on places in a ring (`MultiplesApart`
and what follows) replace the solver's missing knowledge of modulo.

### FloatProofs

For any widths of the three formats and all operands: `ComparisonsFollowOrder`
(`OrderSpec => []OneOrder`). The code compares bit patterns as integers, after a look at the
signs; the property compares magnitudes with signs. That they agree rests on a
pattern being its sign and its magnitude (`Fields`), and a magnitude its exponent and fraction
in one number, so that an infinity is above every finite number and a NaN above that
(`Kinds`). `Ordered` is equality, less and less-or-equal, by the four cases of two signs.
`PlacesDiffer` puts -0 just before 0, which makes every place distinct; so the least of two
operands is unique, and what `minOf` finds by asking two quiet comparisons and a sign is that one
(`Least`, `Greatest`), with the same flags. fle is `Ordered` as less, as the instructions
are written. `Classes` counts the borders (1, the least normal
number, infinity) that a magnitude has reached.

### Only model-checked

* Liveness under fairness: `InstructionReached`, `ExecutesOn`, `CloneReturns`,
  `CommandsAnswered`. Rules for it need `ENABLED`, which the provers do not have
  (the bound on steps behind `InstructionReached` is proved: `EveryLoopEnds`).
* `CorrectlyRounded`, `ConversionsRounded`: what softfloat rounds is checked for
  the formats given. The arguments for all widths are about powers of two with variable
  exponents and recursive logarithms, beyond the provers.

## 6. What is not modelled

* Self-modifying code: `fence.i` does nothing, and the guest's code is a constant.
* Integer instructions other than the high products: each is one C expression of its
  operands, without state (differences from RISC-V are listed in 4).
* `riscv_hwprobe`; `hart_t::find`, which only a debugging handler that is compiled out
  calls; the wake-up of `child_tidptr`, which no code does.
* `float128_t` and the functions on arrays of words in `softfloat/` (no instruction uses
  them), and those that nothing calls (`roundPackToI32` and its like).
* `ProcessGdbException`, which nothing calls.
* Failing reads of ELF files, which end the process; the symbol table and disassembler
  (text for people); options; the status report, whose printing follows a return.
* The text output of the opcode generator.

## 7. Plan

Done: the interpreter, the thread group, what harts share, the loader, the debugger's
stub, the pipeline simulator, floating point; and a theorem for each safety property that is
checked, but for the two on rounding. Left, in this order:

1. Rounding: `RoundAt` and the rounding of `roundPackToF` agree for every format, given what the
   provers would have to be told of powers of two and of the length of a number in bits.
2. An abstract thread group that `Harts` implements, with the exit word that
   `pthread_join` waits on.
3. Code that changes and `fence.i`; `find()` by thread id; `riscv_hwprobe`.
