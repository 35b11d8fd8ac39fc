------------------------------- MODULE MCWim --------------------------------
(***************************************************************************)
(* The three parts of the WIM reader: the decompressor, the directories of *)
(* an image, and what NewReader and readNextEntry make of a file.  A run   *)
(* is about one of them, and the others stay as they are.                  *)
(***************************************************************************)
EXTENDS MCLzx, WimReader, WimImage, TLC

VARIABLE part     \* "lzx", "image" or "reader"; "none" if a run is about something else

-----------------------------------------------------------------------------
(* A metadata resource of 16 bytes in chunks of 3, two of them compressed: *)
(* a security block of 2; the root directory at 2; its children at 6, with *)
(* streams and behind a gap; subdirectories at 11 and 14, right behind.    *)
MCEntry(length, streams) == [length |-> length, streams |-> streams]

MCEntries ==
  (2 :> MCEntry(2, 0)) @@ (6 :> MCEntry(1, 1)) @@ (8 :> MCEntry(2, 0)) @@ (11 :> MCEntry(1, 0))
    @@ (12 :> MCEntry(1, 0)) @@ (14 :> MCEntry(1, 0))

MCDirectories == (2 :> <<2>>) @@ (6 :> <<6, 8>>) @@ (11 :> <<11, 12>>) @@ (14 :> <<14>>)

Resource == INSTANCE WimResource WITH Stored <- <<3, 2, 3, 1, 3, 1>>

MCResourceReader(off) == Resource!newCompressedReader(off)
MCReadBytes(rd, len)  == Resource!Take(rd, len)
MCPlaceOf(rd)         == Resource!Place(rd)
MCReaders             == Resource!Readers

ASSUME MCImageIsValid == ReadsInOrder /\ LaidOut

-----------------------------------------------------------------------------
(* Files with two images and the contents 1 and 2, one of them twice, and  *)
(* an entry with up to two streams; and files that are damaged in one way. *)
Res(flags, hash, size) == [flags |-> flags, hash |-> hash, size |-> size]

MCTable ==
  <<Res({"compressed"}, 1, 4), Res({"metadata"}, 9, 8), Res({}, 2, 5), Res({"metadata", "compressed"}, 8, 8),
    Res({"compressed"}, 1, 4)>>

WimEntry(dir, reparse, hash, streams) ==
  [directory |-> dir, reparse |-> reparse, subdir |-> dir /\ ~reparse, hash |-> hash, short |-> FALSE,
   streams |-> streams]

MCStreamEntries == [name : {"", "s", "t"}, hash : {0, 1, 2}, short : {FALSE}]

Wim(entry) ==
  [tag |-> TRUE, flags |-> {"rpfix", "compressed", "lzx"}, compressionSize |-> 32768, totalParts |-> 1,
   imageCount |-> 2, table |-> MCTable, tableCut |-> FALSE, xml |-> "ok", indexes |-> <<2, 1, 1>>,
   entry |-> entry]

Good == {Wim(WimEntry(dir, reparse, hash, streams)) :
           dir \in BOOLEAN, reparse \in BOOLEAN, hash \in {0, 1, 2},
           streams \in BoundedSeq(MCStreamEntries, 2)}

Sample == Wim(WimEntry(FALSE, FALSE, 1, <<[name |-> "", hash |-> 2, short |-> FALSE]>>))

Damaged ==
  {[Sample EXCEPT !.tag = FALSE], [Sample EXCEPT !.flags = {"spanned"}], [Sample EXCEPT !.compressionSize = 65536],
   [Sample EXCEPT !.totalParts = 2], [Sample EXCEPT !.imageCount = 1], [Sample EXCEPT !.tableCut = TRUE],
   [Sample EXCEPT !.table[3].flags = {"free"}], [Sample EXCEPT !.xml = "none"], [Sample EXCEPT !.indexes = <<3>>],
   [Sample EXCEPT !.entry.short = TRUE], [Sample EXCEPT !.entry.hash = 3], [Sample EXCEPT !.entry.subdir = TRUE],
   [Sample EXCEPT !.entry.streams[1].short = TRUE], [Sample EXCEPT !.entry.streams[1].hash = 3]}

MCWims == Good \cup Damaged

ASSUME MCWimsInSequence == InSequence

-----------------------------------------------------------------------------
IdleStream == LzxStream(<<Block(verbatimBlock, <<Lit(1)>>, 1)>>, BufSize, "EOF", 0)

WimIdle == part = "none" /\ NewReader(IdleStream) /\ DInit /\ Given(Sample)

WimInit ==
  /\ DInit
  /\ \/ part = "lzx" /\ LInit /\ Given(Sample)
     \/ part = "image" /\ NewReader(IdleStream) /\ Given(Sample)
     \/ part = "reader" /\ NewReader(IdleStream) /\ Init

wimVars == <<part, lvars, dvars, vars>>

WimNext ==
  /\ UNCHANGED part
  /\ \/ part = "lzx" /\ LNext /\ UNCHANGED <<dvars, vars>>
     \/ part = "image" /\ DNext /\ UNCHANGED <<lvars, vars>>
     \/ part = "reader" /\ Next /\ UNCHANGED <<lvars, dvars>>

ImageSpec == part = "image" /\ WimInit /\ [][WimNext]_wimVars

LzxSpec == part = "lzx" /\ WimInit /\ [][WimNext]_wimVars
=============================================================================
