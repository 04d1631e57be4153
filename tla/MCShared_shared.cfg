SPECIFICATION Spec
CONSTANTS
  Hart = {h1, h2}
  PoolSize = 80
  Sizes = {0, 24}
  Counts = {2}
  Rereads = TRUE
  PageSize = 4
  brk_min = 6
  brk_max = 17
  BrkAddrs = {0, 8, 9, 13, 30}
  Flags = {nv, nx}
  RmFields = {1, 7}
  FrmValues = {5}
  FflagsValues <- NoFlags
  RiscvCalls <- SomeRiscvCalls
  HostCalls <- SomeHostCalls
  Paths = {"/lib/a", "/etc/b", "/tmp/c"}
  Prefixed = {"/lib/a", "/etc/b"}
  Modulus = 4
  Addends = {1, 3}
  MaxOps = 2
  File <- SomeFiles
  Programs <- SomePrograms
  RISCV_PGSIZE = 4
  MEM_END = 112
  BRK_SIZE = 8
  WordSize = 2
SYMMETRY Symmetry
INVARIANTS
  BlocksApart
  BreakMapsExactly
  BreakStaysInRegion
  RoundsAsAsked
  FlagsAccrue
  OpensBelowSysroot
  ProxiedByName
  NoLostUpdate
  ImageLoaded
  StackReadsBack
CHECK_DEADLOCK FALSE
