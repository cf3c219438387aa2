\* Words of up to two bytes in two chains.
SPECIFICATION Spec
CONSTANTS
  Inputs         <- Streams
  MAX_WORDLEN    = 2
  HASHTABLE_SIZE = 2
  HASHCODES      = 65536
INVARIANTS Census WordsAreRuns BestIsFirstOfMostFrequent CallingConvention MemoryKept
PROPERTY ImplementsWordCount
