------------------------------ MODULE WimImage ------------------------------
(***************************************************************************)
(* An image of a WIM file (wim/wim.go): its metadata resource holds the    *)
(* security descriptors and then, at any offsets, its directories.  Open   *)
(* and Readdir share one reader of the resource, and with it the offset    *)
(* curOffset where they take it to be.  Readdir is called by several       *)
(* goroutines, Open by one of them; a read of the file may fail.           *)
(*                                                                         *)
(* A directory is a run of entries and an end mark of one byte; Entries    *)
(* gives the lengths of the entry that starts at a byte, without and of    *)
(* its streams.  A byte of the resource is its number, and the resource's  *)
(* reader is that of WimResource.                                          *)
(***************************************************************************)
EXTENDS Integers, Sequences

CONSTANTS
  resourceReaderWithOffset(_), ReadBytes(_, _),   \* newCompressedReader and Take,
  ResourceReaders, PlaceOf(_),                    \* Readers and Place of WimResource
  ChunkSize, OriginalSize,
  Goroutines, Opener, None,
  SecuritySize,   \* the length of the security block
  Entries,        \* by first byte: [length, streams]
  EndMarks,       \* the bytes that are end marks
  Directories     \* by offset: the first bytes of the directory's entries

VARIABLES
  sds,            \* the security descriptors have been read
  rootOffset, r, curOffset,
  m,              \* img.m: the goroutine that holds it, or None
  gpc, offset, list, result,
  skipped, sound  \* history: bytes were skipped since the reader was opened;
                  \* none had been when this Readdir began

ivars == <<sds, rootOffset, r, curOffset, m, skipped>>
gvars == <<gpc, offset, list, result, sound>>
dvars  == <<ivars, gvars>>

DInit ==
  /\ sds = FALSE /\ rootOffset = 0 /\ r = None /\ curOffset = 0 /\ m = None
  /\ gpc = [g \in Goroutines |-> "idle"]
  /\ offset = [g \in Goroutines |-> 0]
  /\ list = [g \in Goroutines |-> <<>>]
  /\ result = [g \in Goroutines |-> "none"]
  /\ skipped = FALSE /\ sound = [g \in Goroutines |-> FALSE]

-----------------------------------------------------------------------------
GoesTo(g, from, to) == gpc[g] = from /\ gpc' = [gpc EXCEPT ![g] = to]

Return(g, res) == result' = [result EXCEPT ![g] = res]

(* Open: the security descriptors are read once, without the lock.         *)
Open(g) ==
  /\ g = Opener /\ GoesTo(g, "idle", IF sds THEN "readdir" ELSE "security")
  /\ offset' = [offset EXCEPT ![g] = rootOffset]
  /\ UNCHANGED <<ivars, list, result, sound>>

ReadSecurity(g) ==
  LET rsrc == resourceReaderWithOffset(rootOffset)
      t    == ReadBytes(rsrc, SecuritySize)
  IN  \/ /\ GoesTo(g, "security", "returned")
         /\ Return(g, "ioerror")
         /\ UNCHANGED <<ivars, offset, list, sound>>
      \/ /\ GoesTo(g, "security", "readdir")
         /\ sds' = TRUE /\ r' = t.r /\ skipped' = FALSE
         /\ rootOffset' = SecuritySize /\ curOffset' = SecuritySize
         /\ offset' = [offset EXCEPT ![g] = SecuritySize]
         /\ UNCHANGED <<m, list, result, sound>>

(* File.Readdir, of any directory that has been found; the one behind the  *)
(* security block, with the root in it, is Open's.                         *)
Readdir(g, dir) ==
  /\ sds /\ dir # rootOffset /\ GoesTo(g, "idle", "readdir")
  /\ offset' = [offset EXCEPT ![g] = dir]
  /\ UNCHANGED <<ivars, list, result, sound>>

(* img.reset, on the way out of readdir.                                   *)
Fails(g, res) ==
  /\ gpc' = [gpc EXCEPT ![g] = "returned"] /\ Return(g, res)
  /\ r' = None /\ curOffset' = -1 /\ skipped' = FALSE
  /\ m' = None

Outside(off) == off < curOffset \/ off > curOffset + ChunkSize

(* readdir, up to its loop: the reader is opened anew if there is none, or *)
(* for a step back or a long one ahead; a short one ahead is read.         *)
Seek(g) ==
  LET off   == offset[g]
      again == Outside(off) \/ r = None
      from  == IF again THEN resourceReaderWithOffset(off) ELSE r
      ahead == IF again THEN 0 ELSE off - curOffset
      there == from # None /\ Len(ReadBytes(from, ahead).bytes) = ahead
  IN  /\ gpc[g] = "readdir" /\ m = None
      /\ list' = [list EXCEPT ![g] = <<>>]
      /\ sound' = [sound EXCEPT ![g] = again \/ ~skipped]
      /\ \/ \E res \in {"ioerror"} \cup (IF there THEN {} ELSE {"invalid"}) : Fails(g, res)
         \/ /\ there
            /\ gpc' = [gpc EXCEPT ![g] = "read"] /\ m' = g
            /\ r' = ReadBytes(from, ahead).r
            /\ curOffset' = IF again THEN off ELSE curOffset
            /\ skipped' = (ahead > 0 \/ (~again /\ skipped))
            /\ UNCHANGED result
      /\ UNCHANGED <<sds, rootOffset, offset>>

(* Mutant: an entry's streams are not counted in its length.               *)
EntrySize_NoStreams(e) == e.length

(* The n that readNextEntry returns, its streams' included.                *)
EntrySize(e) == e.length + e.streams

(* Open expects exactly one entry.                                         *)
EndOf(g) == IF offset[g] = rootOffset /\ Len(list[g]) # 1 THEN "invalid" ELSE "ok"

(* readNextEntry, and with it readNextStream: what a byte that begins no   *)
(* entry is taken for, is not known.                                       *)
ReadNextEntry(g) ==
  LET t == ReadBytes(r, 1)
      e == t.bytes[1]
      u == ReadBytes(r, Entries[e].length + Entries[e].streams)
  IN  /\ gpc[g] = "read"
      /\ \/ Fails(g, "ioerror") /\ UNCHANGED list
         \/ /\ ~(t.bytes # <<>> /\ e \in EndMarks \cup DOMAIN Entries)
            /\ Fails(g, "invalid") /\ UNCHANGED list
         \/ /\ t.bytes # <<>> /\ e \in EndMarks
            /\ gpc' = [gpc EXCEPT ![g] = "returned"] /\ Return(g, EndOf(g)) /\ m' = None
            /\ r' = t.r /\ curOffset' = curOffset + 1
            /\ UNCHANGED <<list, skipped>>
         \/ /\ t.bytes # <<>> /\ e \in DOMAIN Entries
            /\ list' = [list EXCEPT ![g] = Append(@, e)]
            /\ r' = u.r /\ curOffset' = curOffset + EntrySize(Entries[e])
            /\ UNCHANGED <<gpc, result, m, skipped>>
      /\ UNCHANGED <<sds, rootOffset, offset, sound>>

Returned(g) ==
  /\ GoesTo(g, "returned", "idle")
  /\ result' = [result EXCEPT ![g] = "none"]
  /\ offset' = [offset EXCEPT ![g] = 0] /\ list' = [list EXCEPT ![g] = <<>>]
  /\ sound' = [sound EXCEPT ![g] = FALSE]
  /\ UNCHANGED ivars

(* Reader.Close, while nothing is read.                                    *)
Close ==
  /\ m = None /\ \A g \in Goroutines : gpc[g] # "security"
  /\ r' = None /\ curOffset' = -1 /\ skipped' = FALSE
  /\ UNCHANGED <<sds, rootOffset, m, gvars>>

DNext ==
  \/ \E g \in Goroutines :
       \/ Open(g) \/ ReadSecurity(g) \/ Seek(g) \/ ReadNextEntry(g) \/ Returned(g)
       \/ \E dir \in DOMAIN Directories : Readdir(g, dir)
  \/ Close

DSpec == DInit /\ [][DNext]_dvars

-----------------------------------------------------------------------------
(* The reader of the resource opens at every byte and delivers the bytes   *)
(* from its place on, in order and as many as there are.                   *)
ReadsInOrder ==
  /\ OriginalSize \in Nat /\ None \notin ResourceReaders \cup Goroutines
  /\ \A off \in 0..(OriginalSize - 1) :
       resourceReaderWithOffset(off) \in ResourceReaders /\ PlaceOf(resourceReaderWithOffset(off)) = off
  /\ \A rd \in ResourceReaders : PlaceOf(rd) \in 0..OriginalSize
  /\ \A rd \in ResourceReaders, n \in 0..OriginalSize :
       PlaceOf(rd) + n <= OriginalSize =>
         /\ ReadBytes(rd, n).bytes = [k \in 1..n |-> PlaceOf(rd) + k - 1]
         /\ ReadBytes(rd, n).r \in ResourceReaders /\ PlaceOf(ReadBytes(rd, n).r) = PlaceOf(rd) + n

(* Where the k-th entry of a directory ends.                               *)
Behind(dir, k) ==
  IF k = 0 THEN dir
  ELSE LET e == Directories[dir][k] IN e + Entries[e].length + Entries[e].streams

(* The image is valid: in each directory an entry begins where the one     *)
(* before it ends, and an end mark follows the last.  The root, alone in   *)
(* its directory, is behind the security block.                            *)
LaidOut ==
  /\ SecuritySize \in DOMAIN Directories /\ Len(Directories[SecuritySize]) = 1
  /\ EndMarks \cap DOMAIN Entries = {}
  /\ \A e \in DOMAIN Entries : Entries[e].length \in Nat /\ Entries[e].streams \in Nat
  /\ \A dir \in DOMAIN Directories :
       /\ dir \in 0..(OriginalSize - 1) /\ Directories[dir] \in Seq(DOMAIN Entries)
       /\ \A k \in 0..Len(Directories[dir]) :
            /\ Behind(dir, k) \in 0..(OriginalSize - 1)
            /\ IF k < Len(Directories[dir]) THEN Directories[dir][k + 1] = Behind(dir, k)
               ELSE Behind(dir, k) \in EndMarks

(* Readdir of a valid image lists the entries of its own directory,        *)
(* wherever other calls left the reader they share, and fails only if a    *)
(* read does.  This stops once a call skips bytes ahead: readdir does not  *)
(* add them to curOffset, and the later calls read beyond their offset     *)
(* until the reader is opened anew.                                        *)
ReaddirListsItsDirectory ==
  \A g \in Goroutines :
    gpc[g] = "returned" /\ sound[g] =>
      /\ result[g] # "invalid"
      /\ result[g] = "ok" => list[g] = Directories[offset[g]]

(* What the comment of Readdir says of every call: it reads the entries of *)
(* the directory.  A call that skips bytes ahead spoils it for the next.   *)
ReaddirReadsTheEntries ==
  \A g \in Goroutines :
    gpc[g] = "returned" /\ result[g] = "ok" => list[g] = Directories[offset[g]]
=============================================================================
