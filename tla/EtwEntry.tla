------------------------------ MODULE EtwEntry ------------------------------
(***************************************************************************)
(* The event that Hook.Fire (pkg/etwlogrus) makes of a log entry: its      *)
(* fields, in their order, and the bytes that WriteEvent makes of them     *)
(* with module EtwEvent; and what a consumer must see of the entry.        *)
(*                                                                         *)
(* The name of a field is one byte, so that names are in the order of the  *)
(* bytes.                                                                  *)
(***************************************************************************)
EXTENDS EtwEvent, FiniteSets

CONSTANTS Message, TimeName, ErrorKey  \* the field names "Message", "Time", "error"

FieldNames(e) ==
  SetToSortSeq(DOMAIN e.data \ {ErrorKey}, <)
    \o (IF ErrorKey \in DOMAIN e.data THEN <<ErrorKey>> ELSE <<>>)

DataFields(e, names, intSize) ==
  [k \in DOMAIN names |-> SmartField(<<names[k]>>, e.data[names[k]], intSize)]

Fields(e, intSize) ==
  <<StringField(<<Message>>, e.message), Time(<<TimeName>>, e.time)>>
    \o DataFields(e, FieldNames(e), intSize)

(* The metadata and the data of the event.                                 *)
Encode(e, name, tags, intSize) ==
  LET fs == Fields(e, intSize)
  IN  [em |-> toBytes(writeEventHeader(name, tags) \o FlattenSeq([k \in DOMAIN fs |-> fs[k].em])),
       ed |-> FlattenSeq([k \in DOMAIN fs |-> fs[k].ed])]

-----------------------------------------------------------------------------
(* What a consumer must see of a value.                                    *)
Field(name, kind, array, x) == [name |-> name, kind |-> kind, array |-> array, value |-> x]

Kind(type) ==
  CASE type = "bool" -> "bool"
    [] type \in {"int", "int8", "int16", "int32", "int64"} -> "int"
    [] type \in {"uint", "uint8", "uint16", "uint32", "uint64"} -> "uint"
    [] type = "uintptr" -> "hex"
    [] type \in {"float32", "float64"} -> "float"
    [] OTHER -> "string"

RECURSIVE Seen(_, _)
SeenAll(name, logged) == [k \in DOMAIN logged |-> Seen(name, logged[k].value)]

Seen(name, v) ==
  CASE v.type = "struct" /\ ~v.slice -> Field(name, "struct", FALSE, SeenAll(name, Exported(v.x)))
    [] v.type = "time" /\ ~v.slice -> Field(name, "time", FALSE, NsecToFiletime(v.x) - Epoch)
    [] \/ v.type \notin Numbers \cup {"string", "error"}
       \/ v.slice /\ (v.derived \/ v.type = "error") ->
         Field(name, "string", FALSE, v.sprint)
    [] OTHER -> Field(name, Kind(v.type), v.slice, v.x)

(* What the format has room for: no zero byte in a string, sixteen *)
(* bits for an array's length, seven for the number of a struct's fields.  *)
RECURSIVE Fits(_)
FitAll(logged) == Len(logged) < 128 /\ \A k \in DOMAIN logged : Fits(logged[k].value)

Fits(v) ==
  CASE v.type = "struct" /\ ~v.slice -> FitAll(Exported(v.x))
    [] v.slice /\ v.type \in Numbers \cup {"string"} /\ ~v.derived ->
         /\ Len(v.x) < 2^16
         /\ v.type = "string" => \A k \in DOMAIN v.x : 0 \notin Range(v.x[k])
    [] ~v.slice /\ v.type \in {"string", "error"} -> 0 \notin Range(v.x)
    [] OTHER -> TRUE

Before(a, b) == a # ErrorKey /\ (b = ErrorKey \/ a < b)

FitsEntry(e) == 0 \notin Range(e.message) /\ \A n \in DOMAIN e.data : Fits(e.data[n])

(* The tags that the application's options set together.                   *)
TagsOf(opts) == UNION {opts[k].x : k \in {j \in DOMAIN opts : opts[j].opt = "tags"}}

SameData(fields, names, data) ==
  /\ Range(names) = DOMAIN data /\ Len(names) = Cardinality(DOMAIN data)
  /\ \A k \in DOMAIN names : fields[k + 2] = Seen(<<names[k]>>, data[names[k]])
  /\ \A j, k \in DOMAIN names : j < k => Before(names[j], names[k])

SameFields(fields, e) ==
  /\ fields[1] = Field(<<Message>>, "string", FALSE, e.message)
  /\ fields[2] = Seen(<<TimeName>>, [type |-> "time", slice |-> FALSE, derived |-> FALSE, x |-> e.time])
  /\ SameData(fields, [k \in 1..Len(fields) - 2 |-> fields[k + 2].name[1]], e.data)
=============================================================================
