----------------------------- MODULE BackupTar ------------------------------
(***************************************************************************)
(* backuptar/tar.go: WriteTarFileFromBackupStream turns the backup streams *)
(* of a file into entries of an archive, and WriteBackupStreamFromTarFile  *)
(* turns them back.  The streams are the ones BackupRead makes of a file   *)
(* in a small set; the reader and writer of BackupStream deliver them.     *)
(*                                                                         *)
(* A byte is 0 or 1, and a sparse file's ranges of zeros are not allocated.*)
(* The names of streams and entries are sequences of their parts.          *)
(***************************************************************************)
EXTENDS Integers, Sequences, SequencesExt, FiniteSets

CONSTANTS
  None,
  Files         \* the files: kind ("file" or "dir"), content, form ("normal" or
                \* "sparse"), sd, eas, eaFirst (BackupRead yields them before
                \* the data), link (or None), alts, created, and old (archived
                \* by an old version of the library)

EA == INSTANCE ExtendedAttributes
RP == INSTANCE ReparsePoint

VARIABLES
  file,         \* the file that is backed up
  readTwice,    \* r can be seeked
  streams,      \* its backup streams
  pc,           \* where WriteTar.., or then WriteBackup.., is
  i,            \* the streams, or then the entries, read so far
  hdr,          \* the tar header being collected
  data,         \* dataHdr: the index of the data stream, or 0
  curOffset,    \* copySparse's
  entries,      \* the archive
  out,          \* the streams written back
  info          \* what FileInfoFromHeader says of the first entry

vars == <<file, readTwice, streams, pc, i, hdr, data, curOffset, entries, out, info>>

-----------------------------------------------------------------------------
(* formatPAXTime and parsePAXTime of backuptar/strconv.go.  A time is an   *)
(* Integer, in units of which Base = 10^Digits make a second; a text is    *)
(* its sign, its seconds and the digits behind its point.                  *)
Digits == 2
Base   == 100

(* time.Time's Unix and Nanosecond: the second before, and the rest.       *)
Unix(ts)       == ts \div Base
Nanosecond(ts) == ts % Base

(* %09d, and TrimRight of the zeros.                                       *)
Fraction(n) ==
  LET all == <<n \div 10, n % 10>>
  IN  IF all[2] # 0 THEN all ELSE IF all[1] # 0 THEN <<all[1]>> ELSE <<>>

formatPAXTime(ts) ==
  IF Unix(ts) >= 0
    THEN [sign |-> "", secs |-> Unix(ts), sub |-> Fraction(Nanosecond(ts))]
  ELSE IF Nanosecond(ts) = 0
    THEN [sign |-> "-", secs |-> -Unix(ts), sub |-> <<>>]
  ELSE [sign |-> "-", secs |-> -(Unix(ts) + 1), sub |-> Fraction(Base - Nanosecond(ts))]

(* The digits behind the point, padded on the right.                       *)
Nsecs(sub) ==
  LET digit(k) == IF k <= Len(sub) THEN sub[k] ELSE 0
  IN  digit(1) * 10 + digit(2)

parsePAXTime(s) ==
  LET secs == IF s.sign = "-" THEN -s.secs ELSE s.secs
  IN  IF s.sign = "-" THEN secs * Base - Nsecs(s.sub) ELSE secs * Base + Nsecs(s.sub)

-----------------------------------------------------------------------------
(* The backup streams of a file.                                           *)

Stream(id, bytes) == [id |-> id, sparse |-> FALSE, name |-> <<>>, offset |-> 0, bytes |-> bytes]

(* The allocated ranges of a sparse file.                                  *)
Ranges(c) ==
  {r \in (DOMAIN c) \X (DOMAIN c) :
     /\ r[1] <= r[2] /\ \A k \in r[1]..r[2] : c[k] = 1
     /\ r[1] = 1 \/ c[r[1] - 1] = 0
     /\ r[2] = Len(c) \/ c[r[2] + 1] = 0}

Block(c, r) == [Stream("block", SubSeq(c, r[1], r[2])) EXCEPT !.offset = r[1] - 1]

SparseData(bytes) == [Stream("data", bytes) EXCEPT !.sparse = TRUE]

(* The data stream and the sparse blocks, in the forms the comment at      *)
(* tar.go:288 describes.                                                   *)
DataStreams(f) ==
  IF f.kind # "file" THEN <<>>
  ELSE CASE f.form = "normal" -> IF f.content = <<>> THEN <<>> ELSE <<Stream("data", f.content)>>
         [] f.form = "sparse" ->
              IF f.content = <<>> THEN <<SparseData(<<>>)>>
              ELSE IF Cardinality(Ranges(f.content)) = 1 THEN <<SparseData(f.content)>>
              ELSE <<SparseData(<<>>)>>
                     \o SetToSortSeq({Block(f.content, r) : r \in Ranges(f.content)},
                                     LAMBDA a, b : a.offset < b.offset)
                     \o <<[Stream("block", <<>>) EXCEPT !.offset = Len(f.content)]>>

(* The buffer of a file's EAs: as writeEa makes it, but for the zeros      *)
(* behind the last one.                                                    *)
EaBuffer(eas) ==
  LET size(ea)  == EA!fileFullEaInformationSize + Len(ea.name) + 1 + Len(ea.value)
      one(k, ea) == <<IF k = Len(eas) THEN 0 ELSE EA!Padded(size(ea)), Len(ea.name), Len(ea.value)>>
                      \o EA!Zeros(5) \o ea.name \o <<0>> \o ea.value
                      \o EA!Zeros(IF k = Len(eas) THEN 0 ELSE EA!Padded(size(ea)) - size(ea))
  IN  FlattenSeq([k \in DOMAIN eas |-> one(k, eas[k])])

EaStreams(f) == IF f.eas = <<>> THEN <<>> ELSE <<Stream("ea", EaBuffer(f.eas))>>

(* The buffer of a link (tag, subst, print, relative, printFirst, plain),  *)
(* with either name first; a tag other than "symlink" and "mountpoint" is  *)
(* someone else's.                                                         *)
ReparseBuffer(l) ==
  LET flags == IF l.tag # "symlink" THEN <<>> ELSE <<IF l.relative THEN "relative" ELSE "absolute">>
  IN  IF l.printFirst
        THEN [tag |-> l.tag, buffer |-> flags \o l.print \o l.subst,
              print |-> [offset |-> 0, length |-> Len(l.print)],
              subst |-> [offset |-> Len(l.print), length |-> Len(l.subst)]]
        ELSE [tag |-> l.tag, buffer |-> flags \o l.subst \o <<"NUL">> \o l.print \o <<"NUL">>,
              print |-> [offset |-> Len(l.subst) + 1, length |-> Len(l.print)],
              subst |-> [offset |-> 0, length |-> Len(l.subst)]]

AltStream(alt) ==
  [Stream("alternate", alt.bytes) EXCEPT !.name = <<alt.name, ":$DATA">>, !.sparse = alt.sparse]

BackupRead(f) ==
  (IF f.sd = <<>> THEN <<>> ELSE <<Stream("security", f.sd)>>)
    \o (IF f.link = None THEN <<>> ELSE <<[id |-> "reparse", rp |-> ReparseBuffer(f.link)]>>)
    \o (IF f.eaFirst THEN EaStreams(f) ELSE <<>>)
    \o DataStreams(f)
    \o (IF f.eaFirst THEN <<>> ELSE EaStreams(f))
    \o [k \in DOMAIN f.alts |-> AltStream(f.alts[k])]
    \o <<Stream("objectid", <<1>>)>>

-----------------------------------------------------------------------------
(* BasicInfoHeader.                                                        *)
BasicInfoHeader(f) ==
  [name |-> <<"name">>, size |-> IF f.kind = "file" THEN Len(f.content) ELSE 0,
   type |-> IF f.kind = "dir" THEN "dir" ELSE "reg",
   time |-> formatPAXTime(f.created), sd |-> <<>>, sddl |-> None, eas |-> {},
   link |-> <<>>, mount |-> FALSE]

(* File f is about to be backed up, by a reader that can seek or not.      *)
Given(f, seekable) ==
  /\ file = f /\ readTwice = seekable
  /\ streams = BackupRead(f)
  /\ pc = "pass1" /\ i = 0 /\ data = 0 /\ curOffset = 0
  /\ hdr = BasicInfoHeader(f)
  /\ entries = <<>> /\ out = <<>> /\ info = None

Init == \E f \in Files, seekable \in BOOLEAN : Given(f, seekable)

AtEnd == i = Len(streams)
Cur   == streams[i + 1]

Fail == pc' = "error" /\ UNCHANGED <<hdr, data, curOffset, entries>>

(* Pass 1: the header is collected from the streams, up to the data stream *)
(* if there is only one pass.                                              *)
Pass1 ==
  /\ pc = "pass1" /\ ~AtEnd
  /\ i' = i + 1
  /\ CASE Cur.id = "data" ->
            /\ data' = IF readTwice THEN 0 ELSE i + 1
            /\ pc' = IF readTwice THEN "pass1" ELSE "header"
            /\ UNCHANGED <<hdr, curOffset, entries>>
       [] Cur.id = "security" ->
            /\ hdr' = [hdr EXCEPT !.sd = Cur.bytes]
            /\ UNCHANGED <<pc, data, curOffset, entries>>
       [] Cur.id = "reparse" ->
            LET rp == RP!DecodeReparsePoint(Cur.rp)
            IN  IF ~rp.ok THEN Fail
                ELSE /\ hdr' = [hdr EXCEPT !.type = "symlink", !.link = rp.target, !.mount = rp.mount]
                     /\ UNCHANGED <<pc, data, curOffset, entries>>
       [] Cur.id = "ea" ->
            LET d == EA!DecodeExtendedAttributes(Cur.bytes)
            IN  IF ~d.ok THEN Fail
                ELSE /\ hdr' = [hdr EXCEPT !.eas = @ \cup ToSet(d.eas)]
                     /\ UNCHANGED <<pc, data, curOffset, entries>>
       [] Cur.id \in {"alternate", "objectid"} -> UNCHANGED <<pc, hdr, data, curOffset, entries>>
       [] OTHER -> Fail
  /\ UNCHANGED <<file, readTwice, streams, out, info>>

Pass1End ==
  /\ pc = "pass1" /\ AtEnd
  /\ pc' = "header"
  /\ UNCHANGED <<file, readTwice, streams, i, hdr, data, curOffset, entries, out, info>>

Entry(h) == [h |-> h, bytes |-> <<>>]

(* tar.Writer refuses a header while bytes of the last entry are missing,  *)
(* and bytes beyond the size in its header.                                *)
Full(e)          == Len(e.bytes) = e.h.size
CanAdd(bytes)    == Len(Last(entries).bytes) + Len(bytes) <= Last(entries).h.size
Add(bytes)       == [entries EXCEPT ![Len(entries)].bytes = @ \o bytes]

(* The header is written, and a reader that can seek goes back.            *)
WriteHeader ==
  /\ pc = "header"
  /\ entries' = <<Entry(hdr)>>
  /\ i' = IF readTwice THEN 0 ELSE i
  /\ pc' = IF readTwice THEN "pass2" ELSE "data"
  /\ UNCHANGED <<file, readTwice, streams, hdr, data, curOffset, out, info>>

(* Pass 2: on to the data stream.                                          *)
Pass2 ==
  /\ pc = "pass2"
  /\ IF AtEnd THEN pc' = "data" /\ UNCHANGED <<i, data>>
     ELSE /\ i' = i + 1
          /\ IF Cur.id = "data" THEN data' = i + 1 /\ pc' = "data" ELSE UNCHANGED <<pc, data>>
  /\ UNCHANGED <<file, readTwice, streams, hdr, curOffset, entries, out, info>>

(* The data stream's bytes, or the sparse blocks that follow it.           *)
CopyData ==
  /\ pc = "data"
  /\ IF data = 0 THEN pc' = "after" /\ UNCHANGED entries
     ELSE IF streams[data].bytes # <<>> \/ ~streams[data].sparse
       THEN IF hdr.size # Len(streams[data].bytes) THEN pc' = "error" /\ UNCHANGED entries
            ELSE pc' = "after" /\ entries' = Add(streams[data].bytes)
     ELSE /\ pc' = IF hdr.size > 0 THEN "sparse" ELSE "after"
          /\ UNCHANGED entries
  /\ UNCHANGED <<file, readTwice, streams, i, hdr, data, curOffset, out, info>>

(* copySparse: zeros up to the block, and its bytes; one without bytes is  *)
(* the last.                                                               *)
CopySparse ==
  /\ pc = "sparse"
  /\ IF AtEnd THEN pc' = "error" /\ UNCHANGED <<i, curOffset, entries>>
     ELSE IF Cur.id # "block" \/ Cur.offset < curOffset
       THEN pc' = "error" /\ i' = i + 1 /\ UNCHANGED <<curOffset, entries>>
     ELSE LET bytes == EA!Zeros(Cur.offset - curOffset) \o Cur.bytes
          IN  /\ i' = i + 1
              /\ IF CanAdd(bytes)
                   THEN /\ entries' = Add(bytes)
                        /\ pc' = IF Cur.bytes = <<>> THEN "after" ELSE "sparse"
                        /\ curOffset' = Cur.offset + Len(Cur.bytes)
                   ELSE pc' = "error" /\ UNCHANGED <<curOffset, entries>>
  /\ UNCHANGED <<file, readTwice, streams, hdr, data, out, info>>

(* Mutant: ":$DATA" is not trimmed from the name.                          *)
AltHeader_Untrimmed(s) ==
  [hdr EXCEPT !.name = <<"name", s.name[1], s.name[2]>>, !.size = Len(s.bytes),
              !.type = "reg", !.time = None, !.sd = <<>>, !.eas = {},
              !.link = <<>>, !.mount = FALSE]

(* The header of an alternate stream's entry: no records of its own.       *)
AltHeader(s) ==
  [hdr EXCEPT !.name = <<"name", s.name[1]>>, !.size = Len(s.bytes), !.type = "reg",
              !.time = None, !.sd = <<>>, !.eas = {}, !.link = <<>>, !.mount = FALSE]

(* The streams after the data: an entry for each alternate one.            *)
AfterData ==
  /\ pc = "after" /\ ~AtEnd
  /\ i' = i + 1
  /\ IF Cur.id = "alternate"
       THEN IF Cur.sparse \/ ~Full(Last(entries)) THEN Fail
            ELSE /\ entries' = Append(entries, [Entry(AltHeader(Cur)) EXCEPT !.bytes = Cur.bytes])
                 /\ hdr' = AltHeader(Cur)
                 /\ UNCHANGED <<pc, data, curOffset>>
     ELSE IF Cur.id \in {"ea", "objectid"} THEN UNCHANGED <<pc, hdr, data, curOffset, entries>>
     ELSE Fail
  /\ UNCHANGED <<file, readTwice, streams, out, info>>

(* The archive goes on with another file.                                  *)
NextFile == Entry([BasicInfoHeader(file) EXCEPT !.name = <<"next">>, !.size = 0, !.type = "reg"])

Packed ==
  /\ pc = "after" /\ AtEnd
  /\ pc' = IF Full(Last(entries)) THEN "info" ELSE "error"
  /\ entries' = Append(entries, NextFile)
  /\ i' = 1
  /\ UNCHANGED <<file, readTwice, streams, hdr, data, curOffset, out, info>>
-----------------------------------------------------------------------------
(* The way back, from the first entry.                                     *)

First == entries[1]

Restore(from, to, new) ==
  /\ pc = from /\ pc' = to
  /\ out' = out \o new
  /\ UNCHANGED <<file, readTwice, streams, hdr, data, curOffset, entries>>

(* The archive is an old one, whose first header has its descriptor in     *)
(* SDDL; the text may name what this system does not know.                 *)
OldHeader ==
  /\ pc = "info" /\ file.old /\ First.h.sd # <<>>
  /\ \E known \in BOOLEAN :
       entries' = [entries EXCEPT ![1].h.sd = <<>>,
                                  ![1].h.sddl = [text |-> First.h.sd, known |-> known]]
  /\ UNCHANGED <<file, readTwice, streams, pc, i, hdr, data, curOffset, out, info>>

(* FileInfoFromHeader.                                                     *)
FileInfoFromHeader ==
  /\ Restore("info", "security", <<>>)
  /\ info' = [size    |-> IF First.h.type = "reg" THEN First.h.size ELSE 0,
              created |-> parsePAXTime(First.h.time)]
  /\ UNCHANGED i

(* SecurityDescriptorFromTarHeader: the raw descriptor if there is one,    *)
(* else what SddlToSecurityDescriptor makes of a text, or its error.       *)
RestoreSecurity ==
  LET sddl == First.h.sd = <<>> /\ First.h.sddl # None
      sd   == IF sddl THEN First.h.sddl.text ELSE First.h.sd
  IN  /\ pc = "security"
      /\ IF sddl /\ ~First.h.sddl.known THEN Restore("security", "error", <<>>)
         ELSE Restore("security", "ea", IF sd = <<>> THEN <<>> ELSE <<Stream("security", sd)>>)
      /\ UNCHANGED <<i, info>>

(* ExtendedAttributesFromTarHeader ranges over a map: any order.           *)
RestoreEa ==
  /\ pc = "ea"
  /\ \E eas \in SetToSeqs(First.h.eas) :
       LET buf == EA!EncodeExtendedAttributes(eas)
       IN  IF ~buf.ok THEN Restore("ea", "error", <<>>)
           ELSE Restore("ea", "reparse", IF eas = <<>> THEN <<>> ELSE <<Stream("ea", buf.bytes)>>)
  /\ UNCHANGED <<i, info>>

(* filepath.FromSlash, on Windows.                                         *)
FromSlash(path) == [k \in DOMAIN path |-> IF path[k] = "/" THEN "\\" ELSE path[k]]

(* EncodeReparsePointFromTarHeader.                                        *)
RestoreReparse ==
  /\ pc = "reparse"
  /\ Restore("reparse", "restore",
       IF First.h.type # "symlink" THEN <<>>
       ELSE <<[id |-> "reparse",
               rp |-> RP!EncodeReparsePoint([target |-> FromSlash(First.h.link),
                                             mount  |-> First.h.mount])]>>)
  /\ UNCHANGED <<i, info>>

RestoreData ==
  /\ pc = "restore"
  /\ Restore("restore", "alternates",
       IF First.h.type # "reg" THEN <<>> ELSE <<Stream("data", First.bytes)>>)
  /\ UNCHANGED <<i, info>>

(* The next entry is an alternate stream of the file, or it is returned.   *)
RestoreAlternate ==
  LET e   == entries[i + 1]
      alt == e.h.type = "reg" /\ e.h.name[1] = First.h.name[1]
  IN  /\ pc = "alternates"
      /\ Restore("alternates", IF alt THEN "alternates" ELSE "restored",
           IF alt THEN <<[Stream("alternate", e.bytes)
                            EXCEPT !.name = Tail(e.h.name) \o <<":$DATA">>]>>
                  ELSE <<>>)
      /\ i' = i + 1
      /\ UNCHANGED info

Next ==
  \/ Pass1 \/ Pass1End \/ WriteHeader \/ Pass2 \/ CopyData \/ CopySparse
  \/ AfterData \/ Packed
  \/ OldHeader \/ FileInfoFromHeader \/ RestoreSecurity \/ RestoreEa \/ RestoreReparse
  \/ RestoreData \/ RestoreAlternate

Spec == Init /\ [][Next]_vars

-----------------------------------------------------------------------------
Of(id) == SelectSeq(out, LAMBDA s : s.id = id)

HasData   == DataStreams(file) # <<>>
HasBlocks == \E k \in DOMAIN streams : streams[k].id = "block"

HasSparseAlt == \E k \in DOMAIN file.alts : file.alts[k].sparse
HasOtherTag  == file.link # None /\ file.link.tag \notin {"symlink", "mountpoint"}

(* A link comes back with its tag and the name it shows, whose slashes are *)
(* turned.  Where it leads is made up from that name: it is the same place *)
(* if the file's was plain, the name it showed without slashes.            *)
LinkRestored(l, b) ==
  /\ b.tag = l.tag
  /\ RP!NameAt(b, b.print) = FromSlash(l.print)
  /\ l.plain => /\ RP!NameAt(b, b.subst) = l.subst
                /\ l.tag = "symlink" => b.buffer[1] = IF l.relative THEN "relative" ELSE "absolute"

(* What comes back is what was backed up: contents (sparse or not), size,  *)
(* creation time, security descriptor, link and alternate streams, and the *)
(* next file of the archive is left for the caller.  Two things are lost:  *)
(* EAs that come behind the data of a reader that cannot seek, and the     *)
(* alternate streams of a file that has no data stream.  Every file can be *)
(* packed, whichever of the forms BackupRead gives it, except one with a   *)
(* reparse point that is no link, one with a sparse alternate stream and,  *)
(* if the reader can seek, one in blocks; and every archive unpacked,      *)
(* except an old one whose SDDL says nothing to this system.               *)
RoundTrip ==
  /\ pc = "error" =>
       \/ HasData /\ HasSparseAlt
       \/ HasOtherTag
       \/ readTwice /\ HasBlocks
       \/ file.old /\ First.h.sddl # None /\ ~First.h.sddl.known
  /\ pc = "restored" =>
       /\ Of("data") = IF file.kind = "file" /\ file.link = None
                         THEN <<Stream("data", file.content)>> ELSE <<>>
       /\ info = [size |-> Len(file.content), created |-> file.created]
       /\ Of("security") = IF file.sd = <<>> THEN <<>> ELSE <<Stream("security", file.sd)>>
       /\ LET kept == readTwice \/ file.eaFirst \/ ~HasData
              eas  == EA!DecodeExtendedAttributes(IF Of("ea") = <<>> THEN <<>> ELSE Of("ea")[1].bytes)
          IN  eas.ok /\ ToSet(eas.eas) = IF kept THEN ToSet(file.eas) ELSE {}
       /\ Len(Of("reparse")) = IF file.link = None THEN 0 ELSE 1
       /\ \A k \in DOMAIN Of("reparse") : LinkRestored(file.link, Of("reparse")[k].rp)
       /\ Of("alternate") =
            IF HasData THEN [k \in DOMAIN file.alts |-> AltStream(file.alts[k])] ELSE <<>>
       /\ entries[i] = NextFile

(* "If r can be seeked, then this function is two-pass": a file whose      *)
(* contents are in sparse blocks is packed from such a reader as well.     *)
BlocksArePacked ==
  HasBlocks /\ ~HasSparseAlt => pc # "error"
=============================================================================
