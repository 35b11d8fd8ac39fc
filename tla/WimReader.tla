----------------------------- MODULE WimReader ------------------------------
(***************************************************************************)
(* wim/wim.go: NewReader, which reads the header, the table of resources   *)
(* and the XML data of a WIM file, and then the entries of a directory,    *)
(* with the alternate streams that follow them.  WimImage is about where   *)
(* in the file the entries are read from.                                  *)
(*                                                                         *)
(* wim is the file.  A hash stands for the contents it is the hash of, 0   *)
(* for none; a resource of the table is [flags, hash, size], and the place *)
(* where its contents are is its index there.  A length field that does    *)
(* not cover what it should is "short".                                    *)
(***************************************************************************)
EXTENDS Naturals, Sequences

CONSTANT Wims

(* The elements of the XML data, and the streams of an entry, come in a    *)
(* sequence.                                                               *)
IsSequence(s) == Len(s) \in Nat /\ DOMAIN s = 1..Len(s)

InSequence == \A w \in Wims : IsSequence(w.indexes) /\ IsSequence(w.entry.streams)

VARIABLES
  wim,
  pc, i,          \* the step, and how far its loop has come
  fileData,       \* by hash: the index of the resource
  images,         \* indexes of the metadata resources
  infos,          \* per image: the number of its XML element, or 0
  file,           \* the File that readNextEntry makes
  err

vars == <<wim, pc, i, fileData, images, infos, file, err>>

noFile == [hash |-> 0, size |-> 0, offset |-> 0, streams |-> <<>>]

Given(w) ==
  /\ wim = w /\ pc = "header" /\ i = 1 /\ err = FALSE
  /\ fileData = <<>> /\ images = <<>> /\ infos = <<>> /\ file = noFile

Init == \E w \in Wims : Given(w)

Goto(label) == pc' = label /\ i' = 1

(* A ParseError, or the error of a read.                                   *)
Fail == Goto("returned") /\ err' = TRUE

Check(cond, label) == IF cond THEN Goto(label) /\ UNCHANGED err ELSE Fail

-----------------------------------------------------------------------------
supportedHdrFlags == {"rpfix", "readonly", "compressed", "lzx"}

supportedResFlags == {"metadata", "compressed"}

(* NewReader, before the table: tag, flags, size of chunks, parts.         *)
ReadHeader ==
  /\ pc = "header"
  /\ Check(/\ wim.tag /\ wim.flags \subseteq supportedHdrFlags
           /\ wim.compressionSize = 32768 /\ wim.totalParts = 1, "table")
  /\ UNCHANGED <<wim, fileData, images, infos, file>>

(* readOffsetTable: one resource, or the end of the table.                 *)
ReadOffsetTable ==
  /\ pc = "table" /\ UNCHANGED <<wim, infos, file>>
  /\ IF i > Len(wim.table)
       THEN /\ Check(~wim.tableCut /\ Len(images) = wim.imageCount, "xml")
            /\ UNCHANGED <<fileData, images>>
     ELSE IF ~(wim.table[i].flags \subseteq supportedResFlags)
       THEN Fail /\ UNCHANGED <<fileData, images>>
     ELSE /\ i' = i + 1 /\ UNCHANGED <<pc, err>>
          /\ IF "metadata" \in wim.table[i].flags
               THEN images' = Append(images, i) /\ UNCHANGED fileData
               ELSE /\ fileData' = [h \in DOMAIN fileData \cup {wim.table[i].hash} |->
                                      IF h = wim.table[i].hash THEN i ELSE fileData[h]]
                    /\ UNCHANGED images

(* readXML and Unmarshal: no data, or data with a byte order mark; no data *)
(* is an XML error as well.                                                *)
ReadXML ==
  /\ pc = "xml" /\ Check(wim.xml = "ok", "infos")
  /\ UNCHANGED <<wim, fileData, images, infos, file>>

(* The first element with the image's index.                               *)
InfoOf(n) ==
  LET found == {k \in DOMAIN wim.indexes : wim.indexes[k] = n}
  IN  IF found = {} THEN 0 ELSE CHOOSE k \in found : \A l \in found : k <= l

SetInfos ==
  /\ pc = "infos" /\ Goto("entry")
  /\ infos' = [n \in DOMAIN images |-> InfoOf(n)]
  /\ UNCHANGED <<wim, fileData, images, file, err>>

-----------------------------------------------------------------------------
(* The resource of a hash; a hash that the table does not have is an       *)
(* error.                                                                  *)
Found(hash) == hash = 0 \/ hash \in DOMAIN fileData

Offset(hash) == IF hash = 0 THEN 0 ELSE fileData[hash]

Size(offset) == IF offset = 0 THEN 0 ELSE wim.table[offset].size

(* The name of a stream of length 0.                                       *)
unnamed == ""

Isdir(e) == e.directory /\ ~e.reparse

(* readNextEntry, up to its streams.                                       *)
ReadEntry ==
  LET e == wim.entry
  IN  /\ pc = "entry" /\ UNCHANGED <<wim, fileData, images, infos>>
      /\ IF ~e.short /\ Found(e.hash) /\ (Isdir(e) <=> e.subdir)
           THEN /\ Goto("streams") /\ UNCHANGED err
                /\ file' = [noFile EXCEPT !.hash = e.hash, !.offset = Offset(e.hash),
                                          !.size = Size(Offset(e.hash))]
           ELSE Fail /\ UNCHANGED file

(* Mutant: the file keeps the resource of the entry's own hash.            *)
FileStream_KeepsOffset(s) == [file EXCEPT !.hash = s.hash, !.size = Size(Offset(s.hash))]

(* The unnamed stream right behind the entry is the file's own.            *)
FileStream(s) ==
  [file EXCEPT !.hash = s.hash, !.size = Size(Offset(s.hash)), !.offset = Offset(s.hash)]

(* readNextStream, and what readNextEntry does with the stream; other      *)
(* unnamed streams are dropped.  A reparse point has data.                 *)
ReadNextStream ==
  /\ pc = "streams" /\ UNCHANGED <<wim, fileData, images, infos>>
  /\ IF i > Len(wim.entry.streams)
       THEN Check(wim.entry.reparse => file.size # 0, "returned") /\ UNCHANGED file
     ELSE \E s \in {wim.entry.streams[i]} :
          IF s.short \/ ~Found(s.hash) THEN Fail /\ UNCHANGED file
          ELSE /\ i' = i + 1 /\ UNCHANGED <<pc, err>>
               /\ file' = IF i = 1 /\ s.name = unnamed THEN FileStream(s)
                          ELSE IF s.name # unnamed
                            THEN [file EXCEPT !.streams =
                                    Append(@, [name |-> s.name, hash |-> s.hash, offset |-> Offset(s.hash)])]
                          ELSE file

Next ==
  \/ ReadHeader \/ ReadOffsetTable \/ ReadXML \/ SetInfos \/ ReadEntry \/ ReadNextStream

Spec == Init /\ [][Next]_vars

-----------------------------------------------------------------------------
(* File.Open and Stream.Open: the contents of the resource.                *)
Contents(offset) == IF offset = 0 THEN 0 ELSE wim.table[offset].hash

(* The named ones among the streams of an entry are those of the file, in  *)
(* order.                                                                  *)
InOrder(got, streams, among) ==
  \E from \in [DOMAIN got -> {k \in among : streams[k].name # unnamed}] :
    /\ \A k \in among : streams[k].name # unnamed => \E j \in DOMAIN got : from[j] = k
    /\ \A j, k \in DOMAIN got : j < k => from[j] < from[k]
    /\ \A j \in DOMAIN got :
         got[j].name = streams[from[j]].name /\ got[j].hash = streams[from[j]].hash

(* What File.Open and Stream.Open of a file read has the hash that the     *)
(* header shows, as long as the size it shows; each named stream is there  *)
(* once and in order; and each image has the information of its own index  *)
(* (fileData, and the unnamed stream that readNextEntry puts in the place  *)
(* of the entry's own contents).                                           *)
OpensWhatItShows ==
  pc = "returned" /\ ~err =>
    /\ Contents(file.offset) = file.hash /\ file.size = Size(file.offset)
    /\ \A k \in DOMAIN file.streams : Contents(file.streams[k].offset) = file.streams[k].hash
    /\ InOrder(file.streams, wim.entry.streams, DOMAIN wim.entry.streams)
    /\ Len(infos) = wim.imageCount
    /\ \A n \in DOMAIN infos : infos[n] # 0 => wim.indexes[infos[n]] = n
=============================================================================
