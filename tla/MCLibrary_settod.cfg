SPECIFICATION Spec
CONSTANTS
  HeapStart = 2
  HeapLimit = 15
  WordSize = 4
  Increments <- SomeIncrements
  Letters = {"a", "b"}
  Stray <- SomeStray
  Names <- SomeNames
  Paths <- SomePaths
  MaxListed = 2
  LineSize = 2
  CacheLines = 2
  MemLines = 3
  US = 10
  TickRate = 5
  Word32 = 32
  MaxTicks = 25
  Times <- SomeTimes
  LoopsPerUs = 2
  LoopMax = 7
  Requests = {0, 1, 2, 3, 4, 5, 6, 7, 8, 9, 10, 11, 12, 13, 14, 15}
  Half = 3
  ResetPeriod = 2
  Functions = {"f", "g"}
  Callers = {"a", "b"}
  HashOf <- OneBucket
  TextStart = 1
  TextEnd = 6
  PcBucket = 2
  MaxCalls = 3
  ProgramEnd = 4
  HandlerStart = 6
  HandlerEnd = 8
  Faulty = {2, 3, 6, 7}
  Faults = {3, 6}
  MaxFrames = 3
  Nibbles = 2
  Values <- SomeValues
  Widths = {0, 1, 3, 5}
  EchoLen = 3
  Interval = 2
  PutbufSize = 2
  Controls <- SomeControls
  TxBufLen = 4
  FifoDepth = 2
  MaxPut = 2
  MaxHost = 2
  Ctors = 2
  Dtors = 2
  RingSize = 1
  FreeFds = 1
  MaxPrinted = 2
  NoDevice = nodev
  Channels = {0, 1}
  Nums = {0, 1, 2}
  FifoWords = 1
  DATA_BITS_NUM = 3
  CMD_BITS_NUM = 2
  tWHCONV = 1
  tCONV = 2
  tHCONVST = 1
INVARIANTS SetThenGet
CHECK_DEADLOCK FALSE
