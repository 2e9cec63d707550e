\* One algorithm after another, each on small inputs or on its own test data.
CONSTANTS
  Number = {1, 2, 3, 4}
  TreeNumber = {1, 2, 3, 4, 5, 6, 7, 8, 9}
  HASH_TAB_SIZE = 3
  MAX_PARAMS = 5
  ArrayLength = 7
  HEAP_SIZE = 5
  Sizes = {0, 1, 2, 4}
  MaxRequested = 10
  K <- MCK
  H0 <- MCH0
  BLOCKS <- MCBLOCKS
  DIGEST <- MCDIGEST
  BLOCK = 8
  SIZE = 2
  MaxLength = 36
  OCTETS = 1024
  CRC = 11433
  Montgomery <- MCMontgomery
  Texts <- MCTexts
  Ciphers <- MCCiphers
  PAGE_SIZE = 4
  PTR_SIZE = 2
  STACK_TOP_MAX = 40
  MMAP_MIN_ADDR = 4
  MAX_ARG_STRLEN = 5
  MAX_ARG_STRINGS = 4
  STK_LIM = 64
  ARG_MAX = 8
  STACK_EXPAND = 8
  ArgCalls <- MCArgCalls
  PassPrograms <- MCPassPrograms
  RuntimeNames = {"cflat_finalize_and_print"}
  MAIN = "main"
  MaxFrames = 3
  MaxEvents = 8
SPECIFICATION AlgorithmsSpec
INVARIANTS
  DlListLinked
  NothingLost
  RbTreeConsistent
  QuickSorts
  MontgomeryAgrees
  HuffmanRestores
  AesIsFips
  ShaIsFips
  CrcByTable
  ArgumentsIntact
  StringsAndPointersFit
  LogIsPath
  HooksPairCalls
PROPERTIES
  DlListSorted
\* A computation ends.
CHECK_DEADLOCK FALSE
