------------------------------ MODULE EtwEvent ------------------------------
(***************************************************************************)
(* The encoding of an ETW event: the fields that SmartField builds from Go *)
(* values (pkg/etw/fieldopt.go), the metadata blob (eventmetadata.go) and  *)
(* the data blob (eventdata.go) they are written to; and, written from the *)
(* TraceLogging format and not from this code, what a consumer reads from  *)
(* the two.                                                                *)
(*                                                                         *)
(* A blob is a sequence of bytes.  A field function appends to both blobs; *)
(* it is given here by what it appends, [em, ed].  A Go value is a record: *)
(* its type, whether it is a slice or of a derived type ("type foo int"),  *)
(* and x, the value: a number (a float is its bits), a string of bytes, a  *)
(* time in ns, a sequence of them for a slice, or the fields of a struct.  *)
(***************************************************************************)
EXTENDS Integers, Sequences, SequencesExt, TLC

CONSTANT Epoch   \* ticks of 100 ns from 1601 to 1970; 116444736000000000

inTypeANSIString == 2
inTypeFileTime   == 17
inTypeStruct     == 24
inTypeArray      == 64

outTypeDefault     == 0
outTypeBoolean     == 3
outTypeUTF8        == 35
outTypeDateTimeUTC == 38

(* The in-types of the numbers, and their widths in the data.              *)
inType ==
  [bool |-> 4, int8 |-> 3, uint8 |-> 4, int16 |-> 5, uint16 |-> 6, int32 |-> 7,
   uint32 |-> 8, int64 |-> 9, uint64 |-> 10, float32 |-> 11, float64 |-> 12,
   hex32 |-> 20, hex64 |-> 21]

Width ==
  [bool |-> 1, int8 |-> 1, uint8 |-> 1, int16 |-> 2, uint16 |-> 2, int32 |-> 4,
   uint32 |-> 4, int64 |-> 8, uint64 |-> 8, float32 |-> 4, float64 |-> 8,
   hex32 |-> 4, hex64 |-> 8]

-----------------------------------------------------------------------------
(* eventData.                                                              *)

(* binary.Write of an integer, little endian and in two's complement.      *)
LittleEndian(v, width) ==
  LET shifted[k \in 0..width] == IF k = 0 THEN v ELSE shifted[k - 1] \div 256
  IN  [k \in 1..width |-> shifted[k - 1] % 256]

writeString(s) == Append(s, 0)

(* windows.NsecToFiletime: Go's division goes towards 0.                   *)
NsecToFiletime(nsec) == (IF nsec < 0 THEN -(-nsec \div 100) ELSE nsec \div 100) + Epoch

(* uint16(len(values)), and then the values.                               *)
writeItems(items) == LittleEndian(Len(items), 2) \o FlattenSeq(items)

-----------------------------------------------------------------------------
(* eventMetadata.                                                          *)

SetHighBit(byte) == 128 + (byte % 128)

(* Seven bits at a time, the highest first.  Of the bits that the shift    *)
(* moves beyond the 28th none reaches a byte.                              *)
RECURSIVE TagBytes(_)
TagBytes(tags) ==
  IF tags % 2^21 = 0 THEN <<(tags \div 2^21) % 128>>
  ELSE <<SetHighBit(tags \div 2^21)>> \o TagBytes((tags % 2^21) * 128)

(* The tags are given by the positions of their bits; 28 are kept.         *)
TagValue(bits) == SumFunctionOnSet([b \in 0..27 |-> 2^b], bits \cap (0..27))

writeTags(bits) == TagBytes(TagValue(bits))

(* toBytes, which comes last, fills in the length.                         *)
writeEventHeader(name, tags) == <<0, 0>> \o writeTags(tags) \o writeString(name)

toBytes(em) == LittleEndian(Len(em), 2) \o SubSeq(em, 3, Len(em))

writeFieldInner(name, in, out, tags, arrSize) ==
  writeString(name)
    \o (IF out = outTypeDefault /\ tags = {} THEN <<in>>
        ELSE <<SetHighBit(in)>>
               \o (IF tags = {} THEN <<out>> ELSE <<SetHighBit(out)>> \o writeTags(tags)))
    \o (IF arrSize # 0 THEN LittleEndian(arrSize, 2) ELSE <<>>)

writeField(name, in, out, tags) == writeFieldInner(name, in, out, tags, 0)

writeArray(name, in, out, tags) == writeFieldInner(name, in + inTypeArray, out, tags, 0)

writeStruct(name, fieldCount, tags) == writeFieldInner(name, inTypeStruct, fieldCount, tags, 0)

-----------------------------------------------------------------------------
(* The field functions.                                                    *)

OutType(type) == IF type = "bool" THEN outTypeBoolean ELSE outTypeDefault

Number(type, x) ==
  IF type = "bool" THEN (IF x THEN <<1>> ELSE <<0>>) ELSE LittleEndian(x, Width[type])

(* BoolField, Int8Field .. Uint64Field, Float32Field, Float64Field, and    *)
(* the arrays of the same types.                                           *)
NumberField(name, type, x) ==
  [em |-> writeField(name, inType[type], OutType(type), {}), ed |-> Number(type, x)]

NumberArray(name, type, xs) ==
  [em |-> writeArray(name, inType[type], OutType(type), {}),
   ed |-> writeItems([k \in DOMAIN xs |-> Number(type, xs[k])])]

StringField(name, s) ==
  [em |-> writeField(name, inTypeANSIString, outTypeUTF8, {}), ed |-> writeString(s)]

StringArray(name, ss) ==
  [em |-> writeArray(name, inTypeANSIString, outTypeUTF8, {}),
   ed |-> writeItems([k \in DOMAIN ss |-> writeString(ss[k])])]

Time(name, nsec) ==
  [em |-> writeField(name, inTypeFileTime, outTypeDateTimeUTC, {}),
   ed |-> LittleEndian(NsecToFiletime(nsec), 8)]

(* Struct, of what its fields' functions append.                           *)
Struct(name, opts) ==
  [em |-> writeStruct(name, Len(opts) % 256, {}) \o FlattenSeq([k \in DOMAIN opts |-> opts[k].em]),
   ed |-> FlattenSeq([k \in DOMAIN opts |-> opts[k].ed])]

(* unsafe.Sizeof decides which of the others an int, a uint and a uintptr  *)
(* are written as.                                                         *)
IntType(intSize)     == IF intSize = 4 THEN "int32" ELSE "int64"
UintType(intSize)    == IF intSize = 4 THEN "uint32" ELSE "uint64"
UintptrType(intSize) == IF intSize = 4 THEN "hex32" ELSE "hex64"

Sized(type, intSize) ==
  CASE type = "int"     -> IntType(intSize)
    [] type = "uint"    -> UintType(intSize)
    [] type = "uintptr" -> UintptrType(intSize)
    [] OTHER            -> type

Numbers == {"bool", "int", "int8", "int16", "int32", "int64", "uint", "uint8", "uint16",
            "uint32", "uint64", "uintptr", "float32", "float64"}

(* The names of a struct's fields are not used: each gets the struct's.    *)
RECURSIVE SmartField(_, _, _)
StructOf(name, logged, intSize) ==
  Struct(name, [k \in DOMAIN logged |-> SmartField(name, logged[k].value, intSize)])

Exported(fields) == SelectSeq(fields, LAMBDA f : f.exported)

SmartField(name, v, intSize) ==
  CASE v.type \in Numbers /\ v.slice /\ ~v.derived ->
         NumberArray(name, Sized(v.type, intSize), v.x)
    [] v.type = "string" /\ v.slice /\ ~v.derived -> StringArray(name, v.x)
    [] v.type \in Numbers /\ ~v.slice -> NumberField(name, Sized(v.type, intSize), v.x)
    [] v.type \in {"string", "error"} /\ ~v.slice -> StringField(name, v.x)
    [] v.type = "time" /\ ~v.slice -> Time(name, v.x)
    [] v.type = "struct" /\ ~v.slice -> StructOf(name, Exported(v.x), intSize)
    [] OTHER -> StringField(name, v.sprint)

-----------------------------------------------------------------------------
(* The consumer.  What it reads is a sequence of [name, kind, array,       *)
(* value], and what is left of the blobs.                                  *)

StringTo(s, zero) == [value |-> SubSeq(s, 1, zero - 1), rest |-> SubSeq(s, zero + 1, Len(s))]

ReadString(s) == StringTo(s, SelectInSeq(s, LAMBDA b : b = 0))

(* Groups of seven bits, up to one without the high bit.                   *)
TagsTo(s, last) ==
  [value |-> SumFunctionOnSet([k \in 1..last |-> (s[k] % 128) * 2^(28 - 7 * k)], 1..last),
   rest  |-> SubSeq(s, last + 1, Len(s))]

ReadTags(s) == TagsTo(s, SelectInSeq(s, LAMBDA b : b < 128))

(* A number of the bytes s, the last of which holds a sign or does not.    *)
FromBytes(s, top) ==
  LET v[k \in 1..Len(s)] == IF k = 1 THEN top ELSE v[k - 1] * 256 + s[Len(s) + 1 - k]
  IN  v[Len(s)]

Unsigned(s) == FromBytes(s, s[Len(s)])
Signed(s)   == FromBytes(s, IF s[Len(s)] >= 128 THEN s[Len(s)] - 256 ELSE s[Len(s)])

Kinds ==
  [n \in {3, 5, 7, 9} |-> "int"] @@ [n \in {4, 6, 8, 10} |-> "uint"]
    @@ [n \in {11, 12} |-> "float"] @@ [n \in {20, 21} |-> "hex"]
    @@ (inTypeANSIString :> "string") @@ (inTypeFileTime :> "time") @@ (inTypeStruct :> "struct")

Sizes ==
  [n \in {3, 4} |-> 1] @@ [n \in {5, 6} |-> 2] @@ [n \in {7, 8, 11, 20} |-> 4]
    @@ [n \in {9, 10, 12, 17, 21} |-> 8]

KindOf(in, out) ==
  IF in = inTypeStruct THEN "struct" ELSE IF out = outTypeBoolean THEN "bool"
  ELSE Kinds[in]

Meaning(kind, bytes) ==
  CASE kind = "bool" -> bytes # <<0>>
    [] kind = "int"  -> Signed(bytes)
    [] kind = "time" -> Unsigned(bytes) - Epoch
    [] OTHER         -> Unsigned(bytes)

ReadItem(in, kind, s) ==
  IF in = inTypeANSIString THEN ReadString(s)
  ELSE [value |-> Meaning(kind, SubSeq(s, 1, Sizes[in])), rest |-> SubSeq(s, Sizes[in] + 1, Len(s))]

RECURSIVE ReadItems(_, _, _, _, _)
NextItem(in, kind, item, n, items) ==
  ReadItems(in, kind, item.rest, n - 1, Append(items, item.value))

ReadItems(in, kind, s, n, items) ==
  IF n = 0 THEN [value |-> items, rest |-> s]
  ELSE NextItem(in, kind, ReadItem(in, kind, s), n, items)

ReadArray(in, kind, s) ==
  ReadItems(in, kind, SubSeq(s, 3, Len(s)), Unsigned(SubSeq(s, 1, 2)), <<>>)

(* The name, the in-type, and the out-type and tags if there are any.      *)
Header(name, in, out, rest) ==
  [name |-> name, in |-> in % inTypeArray, array |-> in % 128 >= inTypeArray, out |-> out % 128,
   kind |-> KindOf(in % inTypeArray, out % 128),
   rest |-> IF out >= 128 THEN ReadTags(rest).rest ELSE rest]

HeaderFrom(name, s) ==
  IF s[1] >= 128 THEN Header(name, s[1], s[2], SubSeq(s, 3, Len(s)))
  ELSE Header(name, s[1], outTypeDefault, Tail(s))

HeaderBehind(name) == HeaderFrom(name.value, name.rest)

(* n fields, or all if n is negative; a struct has as many as its out-type *)
(* says.                                                                   *)
RECURSIVE ReadFields(_, _, _, _)
NextField(h, em, ed, value, n, fields) ==
  ReadFields(em, ed, n - 1,
             Append(fields, [name |-> h.name, kind |-> h.kind, array |-> h.array, value |-> value]))

AfterItem(h, item, n, fields) == NextField(h, h.rest, item.rest, item.value, n, fields)

AfterStruct(h, inner, n, fields) == NextField(h, inner.em, inner.ed, inner.fields, n, fields)

ReadField(h, ed, n, fields) ==
  IF h.kind = "struct" THEN AfterStruct(h, ReadFields(h.rest, ed, h.out, <<>>), n, fields)
  ELSE IF h.array THEN AfterItem(h, ReadArray(h.in, h.kind, ed), n, fields)
  ELSE AfterItem(h, ReadItem(h.in, h.kind, ed), n, fields)

ReadFields(em, ed, n, fields) ==
  IF n = 0 \/ em = <<>> THEN [fields |-> fields, em |-> em, ed |-> ed]
  ELSE ReadField(HeaderBehind(ReadString(em)), ed, n, fields)

EventWith(tags, name, ed) ==
  [tags |-> tags, name |-> name.value, fields |-> ReadFields(name.rest, ed, -1, <<>>).fields]

EventBehind(tags, ed) == EventWith(tags.value, ReadString(tags.rest), ed)

ReadEvent(em, ed) == EventBehind(ReadTags(SubSeq(em, 3, Unsigned(SubSeq(em, 1, 2)))), ed)
=============================================================================
