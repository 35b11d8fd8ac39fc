CONSTANTS
  ByteBits = 2
  TableBits = 3
  BufSize = 24
  LenClasses = 2
  lencodecount = 3
  AlignedBits = 1
  footerBits <- MCFooterBits
  basePosition <- MCBasePosition
  E8 = 3
  E8Operand = 2
  E8Tail = 4
  e8filesize = 5
  Streams <- MCStreams
  Source <- MCSource
  Goroutines = {g1, g2}
  Opener = g1
  None = None
  resourceReaderWithOffset <- MCResourceReader
  ReadBytes <- MCReadBytes
  PlaceOf <- MCPlaceOf
  ResourceReaders <- MCReaders
  ChunkSize = 3
  OriginalSize = 16
  SecuritySize = 2
  Entries <- MCEntries
  EndMarks = {4, 10, 13, 15}
  Directories <- MCDirectories
  Wims <- MCWims
SPECIFICATION LzxSpec
CHECK_DEADLOCK FALSE
INVARIANTS EndIsTold
