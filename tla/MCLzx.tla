------------------------------- MODULE MCLzx --------------------------------
(***************************************************************************)
(* Bytes of 2 bits: words of 4, a window of 8 bytes, code lengths up to 4, *)
(* of which 3 are looked up at first.  Whole streams of one block with any *)
(* three operations, and of two and three blocks of all types; and streams *)
(* of two blocks that are cut, or whose source fails, after every byte;    *)
(* and one of 9 bytes.                                                     *)
(***************************************************************************)
EXTENDS LzxFormat

MCFooterBits   == <<0, 0, 0, 0, 1, 1, 2>>
MCBasePosition == <<0, 1, 2, 3, 4, 6, 8>>

Patterns == << [k \in 1..16 |-> 4], <<1, 2, 3, 4, 4>>, <<3, 2, 4, 2, 4, 2>> >>

Block(type, ops, p) ==
  [type |-> type, ops |-> ops, pattern |-> Patterns[p],
   lengths |-> IF p = 1 THEN <<2, 2, 1>> ELSE <<1, 2, 2>>]

Types == {verbatimBlock, alignedOffsetBlock, uncompressedBlock}

RECURSIVE OpSeqs(_, _, _)
OpSeqs(pos, k, ops) ==
  {<<>>} \cup
  IF k = 0 THEN {}
  ELSE UNION {{<<op>> \o rest : rest \in OpSeqs(pos + op.len, k - 1, ops)} :
              op \in {o \in ops : o.offset <= pos /\ pos + o.len <= windowSize}}

AllOps == {Lit(1), Lit(3)} \cup {Copy(o, l) : o \in 1..6, l \in {2, 3, 5}}
FewOps == {Lit(3)} \cup {Copy(o, 2) : o \in 1..3}

One == {<<Block(t, ops, p)>> : t \in Types, p \in 1..3, ops \in OpSeqs(0, 3, AllOps) \ {<<>>}}

Firsts == {<<Lit(1)>>, <<Lit(3), Lit(1)>>, <<Lit(1), Lit(3), Copy(2, 2)>>, <<Lit(3), Copy(1, 3)>>}

Two ==
  {<<Block(t, fst, p), Block(u, snd, 1 + (p % 3))>> :
     t \in Types, u \in Types, p \in 1..3,
     <<fst, snd>> \in UNION {{fst} \X (OpSeqs(SizeOf(fst), 2, FewOps) \ {<<>>}) : fst \in Firsts}}

Three ==
  {<<Block(t[1], <<Lit(1)>>, p), Block(t[2], <<Lit(3), Copy(1, 2)>>, 2),
     Block(t[3], <<Copy(2, 2), Copy(1, 2)>>, 3)>> : t \in [1..3 -> Types], p \in 1..3}

ToCut == {<<Block(t, <<Lit(3), Copy(1, 3)>>, 2), Block(u, <<Copy(3, 3)>>, 1)>> : t \in Types, u \in Types}

TooLarge == <<Block(uncompressedBlock, <<Lit(3), Copy(1, 5)>>, 1), Block(verbatimBlock, <<Copy(3, 3)>>, 2)>>

LzxStream(plan, piece, end, cut) ==
  [plan |-> plan, size |-> Len(Expanded(plan)), piece |-> piece, end |-> end, cut |-> cut]

MCSource(s) ==
  LET bytes == Compressed(s.plan)
  IN  SubSeq(bytes, 1, Len(bytes) - s.cut)

Whole(plan, pieces) == {LzxStream(plan, piece, "EOF", 0) : piece \in pieces}

Cut(plan) ==
  {LzxStream(plan, piece, end, cut) :
     piece \in {3, BufSize}, end \in {"EOF", "error"}, cut \in 1..Len(Compressed(plan))}

MCStreams ==
  UNION {Whole(plan, {BufSize}) : plan \in One \cup Two \cup {TooLarge}}
    \cup UNION {Whole(plan, {1, 2, 3, 5}) : plan \in Three}
    \cup UNION {Cut(plan) : plan \in ToCut}
=============================================================================
