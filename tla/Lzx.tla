-------------------------------- MODULE Lzx ---------------------------------
(***************************************************************************)
(* The LZX decompressor of wim/lzx/lzx.go, at a smaller scale.  A byte has *)
(* ByteBits bits and all sizes follow from it as they do in the code (of   *)
(* which the values for 8 bits are given in brackets): words of 16 bits,   *)
(* code lengths up to 16, a window of 32768 = 2^15 bytes, LRU values of    *)
(* 16 bits.  The bits of f.c are a sequence; reading beyond them gives     *)
(* zeros, as in the code.                                                  *)
(*                                                                         *)
(* The source returns at most piece bytes from a Read, and at its end EOF  *)
(* or an error of its own.                                                 *)
(***************************************************************************)
EXTENDS Integers, Sequences, SequencesExt, FiniteSets

CONSTANTS
  ByteBits,       \* [8]
  TableBits,      \* [9] the bits of a first lookup in a Huffman table
  BufSize,        \* [4096]
  LenClasses,     \* [8] match lengths in a main code
  lencodecount,   \* [249]
  AlignedBits,    \* [3]
  footerBits, basePosition,   \* by slot + 1
  E8, E8Operand, E8Tail, e8filesize,   \* [0xe8, 4, 10, 12000000]
  Streams,        \* what is decompressed: [size, piece, end, ...]
  Source(_)       \* and the bytes of a stream

WordBits       == 2 * ByteBits          \* [16]
maxTreePathLen == WordBits
windowSize     == 2 ^ (WordBits - 1)    \* also maxBlockSize
maincodesplit  == 2 ^ ByteBits          \* [256]
maincodecount  == maincodesplit + Len(footerBits) * LenClasses

VARIABLES
  stream,         \* the stream that is decompressed
  f,              \* the decompressor's source, buffers, LRU and lengths
  stage,          \* of a block: "header", then "copy", or "trees", "literals",
                  \* "matches", "lengths" and "codes"; at the end "done", "failed"
                  \* or "eof" (Read returns io.EOF before it returned a byte)
  block, trees,   \* the current block's type and end, and its trees
  window, n       \* the window, and how much of it is written

lvars == <<stream, f, stage, block, trees, window, n>>

Nothing == "none"
nil  == [maxbits |-> -1]     \* no tree

(* NewReader, which refuses more than a window.                            *)
NewReader(s) ==
  /\ stream = s
  /\ f = [src |-> Source(s), b |-> <<>>, c |-> <<>>, err |-> Nothing, ret |-> Nothing,
          over |-> FALSE, unaligned |-> FALSE, lru |-> <<1, 1, 1>>,
          mainlens |-> [k \in 1..maincodecount |-> 0],
          lenlens |-> [k \in 1..lencodecount |-> 0]]
  /\ stage = IF s.size > windowSize THEN "failed" ELSE "header"
  /\ block = Nothing /\ trees = Nothing
  /\ window = [k \in 1..windowSize |-> 0] /\ n = 0

LInit == \E s \in Streams : NewReader(s)

-----------------------------------------------------------------------------
(* The source, the byte buffer and the bit buffer.                         *)

fail(g, err) == [g EXCEPT !.err = IF @ = Nothing THEN err ELSE @, !.b = <<>>]

Drop(s, k) == SubSeq(s, k + 1, Len(s))

(* io.ReadAtLeast of min bytes into room for more: what it gets.           *)
ReadAtLeast(src, room, min) ==
  LET pieces == (min + stream.piece - 1) \div stream.piece
  IN  Min({room, Len(src), pieces * stream.piece})

(* ret is what the function returns.  io.EOF becomes an "unexpected EOF"   *)
(* and leaves the buffer; any other error fails the decompressor.  The min *)
(* bytes are asked of the source even if the buffer holds some of them:    *)
(* over records (history) that they were there and the call failed.        *)
ensureAtLeast(g, min) ==
  LET got == ReadAtLeast(g.src, BufSize - Len(g.b), min)
  IN  CASE Len(g.b) >= min -> [g EXCEPT !.ret = Nothing]
        [] Len(g.b) < min /\ g.err # Nothing -> [g EXCEPT !.ret = g.err]
        [] Len(g.b) < min /\ g.err = Nothing /\ got >= min ->
             [g EXCEPT !.ret = Nothing, !.b = @ \o SubSeq(g.src, 1, got), !.src = Drop(@, got)]
        [] OTHER ->
             LET h == IF got = 0 /\ stream.end = "EOF" THEN g ELSE fail(g, stream.end)
             IN  [h EXCEPT !.ret = stream.end, !.src = Drop(@, got),
                           !.over = @ \/ Len(g.b) + got >= min]

Bits(x, k) == [j \in 1..k |-> (x \div 2 ^ (k - j)) % 2]
Val(bits)  == FoldLeft(LAMBDA v, bit : 2 * v + bit, 0, bits)

(* feed: a word is added to the bits.  After an error other than EOF it is *)
(* made of whatever bytes the buffer holds, here zeros.                    *)
AddWord(h) ==
  LET word == IF Len(h.b) >= 2 THEN Bits(h.b[2], ByteBits) \o Bits(h.b[1], ByteBits)
              ELSE Bits(0, WordBits)
  IN  IF h.ret = "EOF" THEN h ELSE [h EXCEPT !.c = @ \o word, !.b = Drop(@, 2)]

feed(g) == AddWord(ensureAtLeast(g, 2))

Peek(c, k) == Val([j \in 1..k |-> IF j <= Len(c) THEN c[j] ELSE 0])

(* getBits: the value is in val.  There are fewer than k bits after a feed *)
(* only if it found no more bytes.                                         *)
TakeBits(h, k) ==
  [f   |-> [(IF Len(h.c) < k THEN fail(h, "EOF") ELSE h) EXCEPT !.c = Drop(@, k)],
   val |-> Peek(h.c, k)]

getBits(g, k) == TakeBits(IF Len(g.c) < k THEN feed(g) ELSE g, k)

RECURSIVE getAll(_, _, _)
getAll(g, k, times) ==
  IF times = 0 THEN [f |-> g, vals |-> <<>>]
  ELSE LET one  == getBits(g, k)
           rest == getAll(one.f, k, times - 1)
       IN  [rest EXCEPT !.vals = <<one.val>> \o @]

-----------------------------------------------------------------------------
(* Huffman trees.  A symbol is counted from 0; lens[i + 1] is its length.  *)

(* The first code of each length.                                          *)
FirstCodes(lens) ==
  LET count(l) == Cardinality({i \in DOMAIN lens : lens[i] = l})
      first[l \in 1..maxTreePathLen] ==
        IF l = 1 THEN 0 ELSE 2 * (first[l - 1] + count(l - 1))
  IN  first

(* buildTable: an entry is a length and a symbol; one of length 0 leads to *)
(* a table of the codes that have more than TableBits bits.                *)
buildTable(lens) ==
  LET max     == Max({lens[i] : i \in DOMAIN lens})
      first   == FirstCodes(lens)
      code    == [i \in {j \in DOMAIN lens : lens[j] # 0} |->
                    first[lens[i]] + Cardinality({j \in 1..(i - 1) : lens[j] = lens[i]})]
      last    == Cardinality({i \in DOMAIN lens : lens[i] = max})
      core    == IF max > TableBits THEN first[TableBits + 1] \div 2 ELSE 2 ^ TableBits
      entry(S) == LET i == CHOOSE j \in S : TRUE IN <<lens[i], i - 1>>
  IN  IF max = 0 THEN [maxbits |-> 0]
      ELSE IF first[max] + last # 2 ^ max THEN nil
      ELSE [maxbits |-> max,
            table |-> [p \in 0..(2 ^ TableBits - 1) |->
              IF p >= core THEN <<0, p - core>>
              ELSE entry({i \in DOMAIN code :
                     lens[i] <= TableBits /\ code[i] = p \div 2 ^ (TableBits - lens[i])})],
            extra |-> [e \in 0..(2 ^ TableBits - 1 - core) |->
              [s \in 0..(2 ^ (max - TableBits) - 1) |->
                 entry({i \in DOMAIN code :
                    /\ lens[i] > TableBits
                    /\ code[i] = (core + e) * 2 ^ (lens[i] - TableBits)
                                   + s \div 2 ^ (max - lens[i])})]]]

(* The entry of the table that the next bits lead to.                      *)
Entry(g, h) ==
  LET short == h.table[Peek(g.c, TableBits)]
  IN  IF short[1] # 0 THEN short
      ELSE h.extra[short[2]][Peek(Drop(g.c, TableBits), h.maxbits - TableBits)]

Consume(g, e) == [f |-> [g EXCEPT !.c = Drop(@, e[1])], val |-> e[2]]

(* Mutant: a code that is not there in full is taken for one.              *)
TakeCode_NoCheck(g, h) == Consume(g, Entry(g, h))

(* Mutant: the longest code has to be there, whatever the code is.         *)
TakeCode_Eager(g, h) ==
  IF Len(g.c) >= maxTreePathLen THEN Consume(g, Entry(g, h))
  ELSE [f |-> fail(g, "EOF"), val |-> 0]

TakeCode(g, h) ==
  IF Len(g.c) >= Entry(g, h)[1] THEN Consume(g, Entry(g, h))
  ELSE [f |-> fail(g, "EOF"), val |-> 0]

(* getCode: a word is fed if the longest code might need it; that there is *)
(* none only matters if the code is longer than the bits left.             *)
getCode(g, h) ==
  IF h.maxbits = 0 THEN [f |-> fail(g, "corrupt"), val |-> 0]
  ELSE TakeCode(IF Len(g.c) < maxTreePathLen THEN feed(g) ELSE g, h)

(* The codes of a pre-tree [17, 18, 19] and the runs they stand for.       *)
deltas    == maxTreePathLen + 1
zeroRun   == deltas
longZeros == deltas + 1
sameRun   == deltas + 2

(* [4] the bits of a pre-tree's code length, and of a run of zeros; the    *)
(* shortest run.                                                           *)
LenBits == CHOOSE k \in 1..WordBits : 2 ^ k = WordBits
MinRun  == LenBits

Corrupt(g, lens) == [f |-> [g EXCEPT !.ret = "corrupt"], lens |-> lens]

(* The loop of readTree from its position i on: deltas to the lengths of   *)
(* the last block, and runs.                                               *)
RECURSIVE readLens(_, _, _, _)

NewLen(len, code) == (len + deltas - code) % deltas

Fill(lens, i, many, len) ==
  [j \in DOMAIN lens |-> IF j \in i..(i + many - 1) THEN len ELSE lens[j]]

(* A run of one length, whose delta has been read as d.                    *)
readSame(d, h, lens, i, many) ==
  IF d.val >= deltas THEN Corrupt(d.f, lens)
  ELSE readLens(d.f, h, Fill(lens, i, many, NewLen(lens[i], d.val)), i + many)

(* A run announced by code, whose bits have been read as run.              *)
readRun(code, run, h, lens, i) ==
  LET many == run.val + (IF code = longZeros THEN MinRun + 2 ^ LenBits ELSE MinRun)
  IN  IF i + many - 1 > Len(lens) THEN Corrupt(run.f, lens)
      ELSE IF code = sameRun THEN readSame(getCode(run.f, h), h, lens, i, many)
      ELSE readLens(run.f, h, Fill(lens, i, many, 0), i + many)

RunBits(code) ==
  IF code = zeroRun THEN LenBits ELSE IF code = longZeros THEN LenBits + 1 ELSE 1

readLen(c, h, lens, i) ==
  IF c.f.err # Nothing THEN [f |-> [c.f EXCEPT !.ret = c.f.err], lens |-> lens]
  ELSE IF c.val < deltas THEN readLens(c.f, h, [lens EXCEPT ![i] = NewLen(@, c.val)], i + 1)
  ELSE readRun(c.val, getBits(c.f, RunBits(c.val)), h, lens, i)

readLens(g, h, lens, i) ==
  IF i > Len(lens) THEN [f |-> [g EXCEPT !.ret = g.err], lens |-> lens]
  ELSE readLen(getCode(g, h), h, lens, i)

readTree(g, lens) ==
  LET pre == getAll(g, LenBits, deltas + 3)
  IN  IF pre.f.err # Nothing THEN [f |-> [pre.f EXCEPT !.ret = pre.f.err], lens |-> lens]
      ELSE readLens(pre.f, buildTable(pre.vals), lens, 1)

-----------------------------------------------------------------------------
(* Blocks.                                                                 *)

verbatimBlock == 1
alignedOffsetBlock == 2
uncompressedBlock == 3

Failed(g) == f' = g /\ stage' = "failed" /\ UNCHANGED <<block, trees, window, n>>

(* The three LRU values in front of an uncompressed block, of four bytes   *)
(* each, little-endian; the upper two are dropped.                         *)
LruSize == 12

LruValue(b, k) == b[4 * k + 1] + b[4 * k + 2] * 2 ^ ByteBits

(* readBlockHeader: after an odd uncompressed block a byte is dropped;     *)
(* before any uncompressed block the rest of the word, or a whole word.    *)
ReadBlockHeader ==
  LET al    == ensureAtLeast(f, 1)
      f0    == IF f.unaligned THEN [al EXCEPT !.b = Drop(@, 1), !.unaligned = FALSE] ELSE f
      type  == getBits(f0, 3)
      full  == getBits(type.f, 1)
      size  == IF full.val # 0 THEN [f |-> full.f, val |-> windowSize]
               ELSE getBits(full.f, WordBits)
      left  == Len(size.f.c)
      rest  == getBits(size.f, IF left = 0 THEN WordBits ELSE left).f
      lru   == ensureAtLeast(rest, LruSize)
  IN  /\ stage = "header" /\ n < stream.size
      /\ UNCHANGED stream
      /\ IF f.unaligned /\ al.ret # Nothing THEN Failed(al)
         ELSE IF size.val > windowSize \/ size.f.err # Nothing
                 \/ type.val \notin {verbatimBlock, alignedOffsetBlock, uncompressedBlock}
           THEN Failed(size.f)
         ELSE /\ block' = [type |-> type.val, size |-> size.val, end |-> n + size.val]
              /\ IF type.val # uncompressedBlock
                   THEN stage' = "trees" /\ f' = size.f /\ UNCHANGED <<trees, window, n>>
                   ELSE IF left > WordBits \/ lru.ret # Nothing
                     THEN f' = lru /\ stage' = "failed" /\ UNCHANGED <<trees, window, n>>
                     ELSE /\ f' = [lru EXCEPT !.lru = [k \in 1..3 |-> LruValue(lru.b, k - 1)],
                                             !.b = Drop(@, LruSize)]
                          /\ stage' = "copy"
                          /\ UNCHANGED <<trees, window, n>>

(* readBlock, an uncompressed block: what is in the buffer, then           *)
(* io.ReadFull for the rest, whose error is the block's.  It is io.EOF if  *)
(* the source has ended and had nothing left, and Read passes it on.       *)
CopyBlock ==
  LET copied == Min({block.size, Len(f.b)})
      direct == Min({block.size - copied, Len(f.src)})
      bytes  == SubSeq(f.b, 1, copied) \o SubSeq(f.src, 1, direct)
  IN  /\ stage = "copy"
      /\ f' = [f EXCEPT !.b = Drop(@, copied), !.src = Drop(@, direct),
                        !.unaligned = (block.size % 2 = 1)]
      /\ window' = [k \in DOMAIN window |->
                      IF k \in (n + 1)..(n + Len(bytes)) THEN bytes[k - n] ELSE window[k]]
      /\ IF Len(bytes) = block.size THEN stage' = "header" /\ n' = block.end
         ELSE /\ stage' = IF direct = 0 /\ stream.end = "EOF" THEN "eof" ELSE "failed"
              /\ UNCHANGED n
      /\ UNCHANGED <<stream, block, trees>>

(* readTrees, tree by tree: the aligned offset tree if the block has one,  *)
(* the main tree in two parts, and the length tree.                        *)
ReadAlignedTree ==
  LET al == getAll(f, AlignedBits, 2 ^ AlignedBits)
  IN  /\ stage = "trees"
      /\ IF block.type = alignedOffsetBlock
           THEN f' = al.f /\ trees' = [main |-> nil, length |-> nil, aligned |-> buildTable(al.vals)]
           ELSE f' = f /\ trees' = [main |-> nil, length |-> nil, aligned |-> nil]
      /\ stage' = IF block.type = alignedOffsetBlock /\ trees'.aligned = nil THEN "failed" ELSE "literals"
      /\ UNCHANGED <<stream, block, window, n>>

ReadLiteralLengths ==
  /\ stage = "literals"
  /\ \E t \in {readTree(f, SubSeq(f.mainlens, 1, maincodesplit))} :
       /\ f' = [t.f EXCEPT !.mainlens = t.lens \o Drop(@, maincodesplit)]
       /\ stage' = IF t.f.ret # Nothing THEN "failed" ELSE "matches"
  /\ UNCHANGED <<stream, block, trees, window, n>>

ReadMainTree ==
  /\ stage = "matches"
  /\ \E t \in {readTree(f, Drop(f.mainlens, maincodesplit))} :
       /\ f' = [t.f EXCEPT !.mainlens = SubSeq(@, 1, maincodesplit) \o t.lens]
       /\ trees' = [trees EXCEPT !.main = buildTable(f'.mainlens)]
       /\ stage' = IF t.f.ret # Nothing \/ trees'.main = nil THEN "failed" ELSE "lengths"
  /\ UNCHANGED <<stream, block, window, n>>

ReadLengthTree ==
  /\ stage = "lengths"
  /\ \E t \in {readTree(f, f.lenlens)} :
       /\ f' = [t.f EXCEPT !.lenlens = t.lens]
       /\ trees' = [trees EXCEPT !.length = buildTable(t.lens)]
       /\ stage' = IF t.f.ret # Nothing \/ trees'.length = nil THEN "failed" ELSE "codes"
  /\ UNCHANGED <<stream, block, window, n>>

(* The footer of an offset in a slot: verbatim bits and, in an aligned     *)
(* block, a code of the aligned tree for the lowest of them.               *)
Footer(g, slot) ==
  LET bits == footerBits[slot + 1]
      v    == getBits(g, bits - AlignedBits)
      a    == getCode(v.f, trees.aligned)
  IN  IF bits = 0 THEN [f |-> g, val |-> 0]
      ELSE IF trees.aligned # nil /\ bits >= AlignedBits
        THEN [f |-> a.f, val |-> v.val * 2 ^ AlignedBits + a.val]
      ELSE getBits(g, bits)

(* The offset of a match: one of the LRU values, which changes places with *)
(* the first, or a new one in front of them.                               *)
MatchOffset(g, slot) ==
  LET foot == Footer(g, slot)
      new  == (basePosition[slot + 1] + foot.val - 2) % 2 ^ WordBits
      old  == g.lru[slot + 1]
  IN  IF slot < 3
        THEN [f |-> [g EXCEPT !.lru = [[g.lru EXCEPT ![slot + 1] = g.lru[1]] EXCEPT ![1] = old]],
              val |-> old]
        ELSE [f |-> [foot.f EXCEPT !.lru = <<new, g.lru[1], g.lru[2]>>], val |-> new]

(* The copy of a match, byte by byte: it may overlap itself.               *)
Copied(offset, len) ==
  LET w[k \in 1..(n + len)] == IF k <= n \/ offset = 0 THEN window[k] ELSE w[k - offset]
  IN  [k \in DOMAIN window |-> IF k <= n + len THEN w[k] ELSE window[k]]

(* readCompressedBlock, one code.                                          *)
ReadCode ==
  LET main   == getCode(f, trees.main)
      code   == main.val - maincodesplit
      ext    == getCode(main.f, trees.length)
      long   == (code % LenClasses) = LenClasses - 1
      len    == (code % LenClasses) + (IF long THEN ext.val ELSE 0) + 2
      match  == MatchOffset(IF long THEN ext.f ELSE main.f, code \div LenClasses)
  IN  /\ stage = "codes" /\ n < block.end
      /\ UNCHANGED stream
      /\ IF main.f.err # Nothing THEN Failed(main.f)
         ELSE IF main.val < maincodesplit
           THEN /\ f' = main.f /\ window' = [window EXCEPT ![n + 1] = main.val] /\ n' = n + 1
                /\ UNCHANGED <<stage, block, trees>>
         ELSE IF ~(match.val <= n /\ len <= block.end - n) THEN Failed(fail(match.f, "corrupt"))
         ELSE /\ f' = match.f /\ window' = Copied(match.val, len) /\ n' = n + len
              /\ UNCHANGED <<stage, block, trees>>

EndOfBlock ==
  /\ stage = "codes" /\ n >= block.end
  /\ stage' = IF f.err # Nothing THEN "failed" ELSE "header"
  /\ UNCHANGED <<stream, f, block, trees, window, n>>

-----------------------------------------------------------------------------
(* The operand behind b[i], little-endian and signed, and its bytes.       *)
Modulus == 2 ^ (ByteBits * E8Operand)

Operand(b, i) ==
  LET u == FoldRight(LAMBDA x, v : x + v * 2 ^ ByteBits, SubSeq(b, i + 1, i + E8Operand), 0)
  IN  IF u < Modulus \div 2 THEN u ELSE u - Modulus

SetOperand(b, i, v) ==
  [k \in DOMAIN b |->
     IF k \in (i + 1)..(i + E8Operand)
       THEN ((v % Modulus) \div 2 ^ (ByteBits * (k - i - 1))) % 2 ^ ByteBits
       ELSE b[k]]

(* decodeE8 from b[i] on, of a buffer at offset 0: absolute targets become *)
(* relative again.                                                         *)
RECURSIVE decodeE8(_, _)
decodeE8(b, i) ==
  LET currentPtr == i - 1
      abs        == Operand(b, i)
      rel        == IF abs >= 0 THEN abs - currentPtr ELSE abs + e8filesize
  IN  IF i > Len(b) - E8Tail THEN b
      ELSE IF b[i] # E8 THEN decodeE8(b, i + 1)
      ELSE decodeE8(IF abs >= -currentPtr /\ abs < e8filesize THEN SetOperand(b, i, rel) ELSE b,
                    i + 1 + E8Operand)

(* Read: everything has been decompressed.                                 *)
Read ==
  /\ stage = "header" /\ n >= stream.size
  /\ stage' = "done"
  /\ window' = decodeE8(SubSeq(window, 1, stream.size), 1)
  /\ UNCHANGED <<stream, f, block, trees, n>>

LNext ==
  \/ ReadBlockHeader \/ CopyBlock
  \/ ReadAlignedTree \/ ReadLiteralLengths \/ ReadMainTree \/ ReadLengthTree
  \/ ReadCode \/ EndOfBlock \/ Read

LSpec == LInit /\ [][LNext]_lvars
=============================================================================
