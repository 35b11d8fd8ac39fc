---------------------------- MODULE WimResource -----------------------------
(***************************************************************************)
(* A compressed resource of a WIM file and its reader (wim/decompress.go). *)
(* The resource's original bytes are the numbers 0 .. OriginalSize - 1, so *)
(* that a byte tells its place.  They are stored in chunks of ChunkSize,   *)
(* each as it is or compressed to fewer bytes, behind a table of offsets.  *)
(* Chunks are counted from 0.                                              *)
(***************************************************************************)
EXTENDS Integers, Sequences, SequencesExt

CONSTANTS
  ChunkSize,      \* 32768 in the code
  OriginalSize,
  Stored,         \* the stored size of each chunk, a sequence of nchunks numbers
  None

nchunks == (OriginalSize + ChunkSize - 1) \div ChunkSize

(* The original bytes of a chunk.                                          *)
Original(n) ==
  [k \in 1..Min({ChunkSize, OriginalSize - n * ChunkSize}) |-> n * ChunkSize + k - 1]

(* The section of the file: a table of the offsets of all chunks but the   *)
(* first (an entry counts as one byte here), then the chunks.              *)
base == nchunks - 1

ChunkBytes(n) == [k \in 1..Stored[n + 1] |-> [chunk |-> n, k |-> k]]

section ==
  [k \in 1..base |-> [chunk |-> nchunks, k |-> k]]
    \o FlattenSeq([n \in 1..nchunks |-> ChunkBytes(n - 1)])

-----------------------------------------------------------------------------
chunkOffset(n) ==
  IF n = nchunks THEN Len(section) ELSE base + SumFunctionOnSet(Stored, 1..n)

chunkSize(n) == chunkOffset(n + 1) - chunkOffset(n)

uncompressedSize(n) ==
  IF n < nchunks - 1 \/ OriginalSize % ChunkSize = 0
    THEN ChunkSize ELSE OriginalSize % ChunkSize

(* lzx.NewReader: a whole compressed chunk gives its original bytes, as    *)
(* many as are asked for.                                                  *)
Decompressed(bytes, size) ==
  LET n == bytes[1].chunk
  IN  IF n < nchunks /\ bytes = ChunkBytes(n)
        THEN SubSeq(Original(n), 1, size) ELSE <<>>

(* reset: the bytes the reader of chunk n delivers.                        *)
Load(n) ==
  LET bytes == SubSeq(section, chunkOffset(n) + 1, chunkOffset(n) + chunkSize(n))
  IN  IF chunkSize(n) # uncompressedSize(n)
        THEN Decompressed(bytes, uncompressedSize(n))
        ELSE [k \in DOMAIN bytes |-> bytes[k].chunk * ChunkSize + bytes[k].k - 1]

(* The reader: its chunk, and what is left of it.  newCompressedReader     *)
(* goes to a chunk and throws away the bytes before the offset.            *)
newCompressedReader(offset) ==
  LET n      == offset \div ChunkSize
      suboff == offset % ChunkSize
  IN  IF n >= nchunks \/ Len(Load(n)) < suboff THEN None
      ELSE [cur |-> n, d |-> SubSeq(Load(n), suboff + 1, Len(Load(n)))]

(* Read, again and again for n bytes: at the end of a chunk, the next one. *)
RECURSIVE Take(_, _)
Take(r, n) ==
  IF n = 0 THEN [r |-> r, bytes |-> <<>>]
  ELSE IF r.d # <<>>
    THEN LET rest == Take([r EXCEPT !.d = Tail(@)], n - 1)
         IN  [rest EXCEPT !.bytes = <<Head(r.d)>> \o @]
  ELSE IF r.cur + 1 >= nchunks THEN [r |-> r, bytes |-> <<>>]
  ELSE Take([cur |-> r.cur + 1, d |-> Load(r.cur + 1)], n)

(* All readers, and the number of the byte that one delivers next.         *)
Readers ==
  UNION {{[cur |-> n, d |-> SubSeq(Load(n), k + 1, Len(Load(n)))] : k \in 0..Len(Load(n))} :
           n \in 0..(nchunks - 1)}

Place(r) == r.cur * ChunkSize + Len(Load(r.cur)) - Len(r.d)
=============================================================================
