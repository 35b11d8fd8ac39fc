----------------------------- MODULE LzxFormat ------------------------------
(***************************************************************************)
(* The LZX format as a compressor writes it, against which Lzx is checked. *)
(* A plan is a sequence of blocks, each with a type, the operations that   *)
(* make its bytes (a literal, or a copy of len bytes from offset back) and *)
(* the pattern of its code lengths.                                        *)
(***************************************************************************)
EXTENDS Lzx

Lit(x)            == [lit |-> TRUE, x |-> x, offset |-> 0, len |-> 1]
Copy(offset, len) == [lit |-> FALSE, x |-> 0, offset |-> offset, len |-> len]

SizeOf(ops) == FoldLeft(LAMBDA v, op : v + op.len, 0, ops)

(* The bytes the operations make, behind the bytes in w.                   *)
Expand(w, ops) ==
  LET apply(v, op) ==
        IF op.lit THEN Append(v, op.x)
        ELSE LET new[k \in 1..(Len(v) + op.len)] ==
                   IF k <= Len(v) THEN v[k] ELSE new[k - op.offset]
             IN  [k \in 1..(Len(v) + op.len) |-> new[k]]
  IN  FoldLeft(apply, w, ops)

Expanded(plan) == FoldLeft(LAMBDA w, blk : Expand(w, blk.ops), <<>>, plan)

(* The translation of call targets that decodeE8 reverses.                 *)
RECURSIVE EncodeE8(_, _)
EncodeE8(b, i) ==
  LET ptr == i - 1
      rel == Operand(b, i)
      abs == IF rel < e8filesize - ptr THEN rel + ptr ELSE rel - e8filesize
  IN  IF i > Len(b) - E8Tail THEN b
      ELSE IF b[i] # E8 THEN EncodeE8(b, i + 1)
      ELSE EncodeE8(IF rel \in (-ptr)..(e8filesize - 1) THEN SetOperand(b, i, abs) ELSE b,
                    i + 1 + E8Operand)

-----------------------------------------------------------------------------
(* Canonical Huffman codes: shorter ones first, equal ones by symbol.      *)
CodeBits(lens, sym) ==
  LET l      == lens[sym + 1]
      before == {i \in DOMAIN lens :
                   lens[i] # 0 /\ (lens[i] < l \/ (lens[i] = l /\ i <= sym))}
      weight == FoldSet(LAMBDA i, v : v + 2 ^ (maxTreePathLen - lens[i]), 0, before)
  IN  Bits(weight \div 2 ^ (maxTreePathLen - l), l)

(* The lengths of a pattern, given to the used symbols first, and then to  *)
(* the others from the last one on.                                        *)
Lengths(count, used, pattern) ==
  LET rank(s) == IF s \in used THEN Cardinality({t \in used : t <= s})
                 ELSE Cardinality(used) + Cardinality({t \in s..(count - 1) : t \notin used})
  IN  [i \in 1..count |-> IF rank(i - 1) <= Len(pattern) THEN pattern[rank(i - 1)] ELSE 0]

(* A tree: a pre-tree of equal lengths, then runs where there are some,    *)
(* and deltas.                                                             *)
PreLens == [k \in 1..(deltas + 3) |-> 3]

RunLength(lens, i, max) ==
  Max({k \in 1..Min({max, Len(lens) - i + 1}) : \A j \in i..(i + k - 1) : lens[j] = lens[i]})

RECURSIVE LensBits(_, _, _)
LensBits(old, new, i) ==
  IF i > Len(new) THEN <<>>
  ELSE
  LET code(c) == CodeBits(PreLens, c)
      delta   == code((old[i] - new[i]) % deltas)
      long    == MinRun + 2 ^ LenBits
      zeros   == IF new[i] # 0 THEN 0 ELSE RunLength(new, i, long + 2 ^ (LenBits + 1) - 1)
      short   == Min({zeros, long - 1})
      same    == RunLength(new, i, MinRun + 1)
  IN  IF zeros >= long
        THEN code(longZeros) \o Bits(zeros - long, LenBits + 1) \o LensBits(old, new, i + zeros)
      ELSE IF zeros >= MinRun
        THEN code(zeroRun) \o Bits(short - MinRun, LenBits) \o LensBits(old, new, i + short)
      ELSE IF same >= MinRun
        THEN code(sameRun) \o Bits(same - MinRun, 1) \o delta \o LensBits(old, new, i + same)
      ELSE delta \o LensBits(old, new, i + 1)

TreeBits(old, new) ==
  FlattenSeq([k \in DOMAIN PreLens |-> Bits(PreLens[k], LenBits)]) \o LensBits(old, new, 1)

-----------------------------------------------------------------------------
(* The main code of an operation, with its footer and length code; lru is  *)
(* what the latest offsets are before it.                                  *)
Slot(lru, offset) ==
  LET recent == {s \in 0..2 : lru[s + 1] = offset}
      slots  == {s \in 3..(Len(footerBits) - 1) :
                   offset + 2 \in basePosition[s + 1]..(basePosition[s + 1] + 2 ^ footerBits[s + 1] - 1)}
  IN  Min(IF recent # {} THEN recent ELSE slots)

Token(lru, op) ==
  LET slot  == Slot(lru, op.offset)
      class == Min({op.len - 2, LenClasses - 1})
  IN  IF op.lit THEN [main |-> op.x, len |-> -1, bits |-> 0, foot |-> 0]
      ELSE [main |-> maincodesplit + slot * LenClasses + class,
            len  |-> IF class = LenClasses - 1 THEN op.len - 2 - class ELSE -1,
            bits |-> IF slot < 3 THEN 0 ELSE footerBits[slot + 1],
            foot |-> IF slot < 3 THEN 0 ELSE op.offset + 2 - basePosition[slot + 1]]

NewLru(lru, op) ==
  LET s == Slot(lru, op.offset)
  IN  IF op.lit THEN lru
      ELSE IF s = 0 THEN lru
      ELSE IF s = 1 THEN <<lru[2], lru[1], lru[3]>>
      ELSE IF s = 2 THEN <<lru[3], lru[2], lru[1]>>
      ELSE <<op.offset, lru[1], lru[2]>>

LruAfter(lru, ops) == FoldLeft(NewLru, lru, ops)

Tokens(lru, ops) ==
  [k \in DOMAIN ops |-> Token(LruAfter(lru, SubSeq(ops, 1, k - 1)), ops[k])]

AlignedLens == [k \in 1..2 ^ AlignedBits |-> AlignedBits]

TokenBits(t, mainlens, lenlens, aligned) ==
  LET low == t.foot % 2 ^ AlignedBits
  IN  CodeBits(mainlens, t.main)
        \o (IF t.len = -1 THEN <<>> ELSE CodeBits(lenlens, t.len))
        \o (IF aligned /\ t.bits >= AlignedBits
              THEN Bits(t.foot \div 2 ^ AlignedBits, t.bits - AlignedBits)
                     \o CodeBits(AlignedLens, low)
              ELSE Bits(t.foot, t.bits))

-----------------------------------------------------------------------------
(* Words of bits as bytes, the lower byte first.                           *)
Words(bits) ==
  LET padded == bits \o [k \in 1..((-Len(bits)) % WordBits) |-> 0]
      byte(j) == Val(SubSeq(padded, j * ByteBits + 1, (j + 1) * ByteBits))
  IN  [j \in 1..(Len(padded) \div ByteBits) |-> byte(IF j % 2 = 1 THEN j ELSE j - 2)]

HeaderBits(type, size) ==
  Bits(type, 3) \o (IF size = windowSize THEN <<1>> ELSE <<0>> \o Bits(size, WordBits))

LruBytes(lru) ==
  FlattenSeq([k \in 1..3 |-> <<lru[k] % 2 ^ ByteBits, lru[k] \div 2 ^ ByteBits, 0, 0>>])

(* The offsets an uncompressed block leaves for the next one.              *)
BlockLru == <<2, 1, 3>>

(* A compressor: the bytes it has written, the bits it has not yet, the    *)
(* bytes the plan has made, and what it has in common with Lzx's f.        *)
Start ==
  [bytes |-> <<>>, bits |-> <<>>, made |-> <<>>, lru |-> <<1, 1, 1>>,
   mainlens |-> [k \in 1..maincodecount |-> 0], lenlens |-> [k \in 1..lencodecount |-> 0]]

PutUncompressed(e, blk) ==
  LET made == Expand(e.made, blk.ops)
      new  == Drop(made, Len(e.made))
      bits == e.bits \o HeaderBits(uncompressedBlock, Len(new))
      word == IF Len(bits) % WordBits = 0 THEN bits \o Bits(0, WordBits) ELSE bits
  IN  [e EXCEPT !.bytes = @ \o Words(word) \o LruBytes(BlockLru) \o new
                            \o (IF Len(new) % 2 = 1 THEN <<0>> ELSE <<>>),
                !.bits = <<>>, !.made = made, !.lru = BlockLru]

PutCompressed(e, blk) ==
  LET aligned == blk.type = alignedOffsetBlock
      toks    == Tokens(e.lru, blk.ops)
      mlens   == Lengths(maincodecount, {toks[k].main : k \in DOMAIN toks}, blk.pattern)
      llens   == IF \A k \in DOMAIN toks : toks[k].len = -1 THEN [k \in 1..lencodecount |-> 0]
                 ELSE Lengths(lencodecount, {}, blk.lengths)
      part(s, k) == IF k = 1 THEN SubSeq(s, 1, maincodesplit) ELSE Drop(s, maincodesplit)
  IN  [e EXCEPT !.bits = @ \o HeaderBits(blk.type, SizeOf(blk.ops))
         \o (IF aligned THEN FlattenSeq([k \in DOMAIN AlignedLens |-> Bits(AlignedLens[k], AlignedBits)])
             ELSE <<>>)
         \o TreeBits(part(e.mainlens, 1), part(mlens, 1))
         \o TreeBits(part(e.mainlens, 2), part(mlens, 2))
         \o TreeBits(e.lenlens, llens)
         \o FlattenSeq([k \in DOMAIN toks |-> TokenBits(toks[k], mlens, llens, aligned)]),
       !.made = Expand(e.made, blk.ops), !.lru = LruAfter(e.lru, blk.ops),
       !.mainlens = mlens, !.lenlens = llens]

Compressed(plan) ==
  LET e == FoldLeft(LAMBDA g, blk : IF blk.type = uncompressedBlock THEN PutUncompressed(g, blk)
                                    ELSE PutCompressed(g, blk), Start, plan)
  IN  e.bytes \o Words(e.bits)

-----------------------------------------------------------------------------
(* Read never delivers anything but the bytes that were compressed: not    *)
(* when the stream is cut, not when the source fails in the middle of it,  *)
(* whatever pieces it comes in.  It may deliver none and say io.EOF, but   *)
(* of a cut stream, and only if the cut leaves an uncompressed block with  *)
(* no more of its bytes than the buffer held.                              *)
NeverWrong ==
  /\ stage = "done" => EncodeE8(window, 1) = Expanded(stream.plan)
  /\ stage = "eof"  => /\ stream.cut # 0 /\ stream.end = "EOF"
                       /\ block.type = uncompressedBlock /\ n < block.end /\ f.src = <<>>

(* A whole stream is decompressed, whatever its blocks, their code lengths *)
(* and the pieces it comes in, unless ensureAtLeast asked for bytes that   *)
(* were already there or it is larger than the window.                     *)
WholeIsRead ==
  stage \in {"failed", "eof"} => stream.cut # 0 \/ f.over \/ stream.size > windowSize

(* "NewReader returns a new io.ReadCloser that decompresses a WIM LZX      *)
(* stream until uncompressedSize bytes have been returned" (lzx.go:585):   *)
(* io.EOF comes behind the last of these bytes, never before the first.    *)
EndIsTold == stage # "eof"
=============================================================================
