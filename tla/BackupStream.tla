---------------------------- MODULE BackupStream ----------------------------
(***************************************************************************)
(* BackupStreamWriter and BackupStreamReader of backup.go: a sequence of   *)
(* streams, each a header and its bytes, is written by one caller and read *)
(* back by another, with any buffers and with any of it left unread.       *)
(*                                                                         *)
(* The medium between them is a sequence of items: the fixed part of a     *)
(* header, the name and the offset that follow it in some headers, and     *)
(* bytes.  A write to it may fail with a part of its items written; the    *)
(* caller then gives up, and the reader finds the medium cut.  The 8 bytes *)
(* of an offset count as OffsetSize.                                       *)
(***************************************************************************)
EXTENDS Naturals, Sequences

CONSTANTS
  MaxStreams,   \* bound on the streams written
  MaxSize       \* bound on the bytes of a stream

ASSUME BackupAssumption == MaxStreams \in Nat /\ MaxSize \in Nat

VARIABLES
  medium,       \* what has been written
  streams,      \* history: the [hdr, data] of the streams written, and
                \* where each begins
  wleft,        \* the writer's bytesLeft
  wpc,          \* "writing"; then "cut" in the middle of something, or "ended"
  seek,         \* the reader's source is a Seeker that "works", one that
                \* "fails" at once, one that "breaks" after the first Seek,
                \* or "none"
  eager,        \* it says what it ends by along with its last bytes
  ends,         \* what it ends by: io.EOF, or an "error" of its own
  pos, rleft,   \* how far the source has been read; the reader's bytesLeft
  rpc,          \* "ready"; or how its latest call ended: "EOF" or "error"
  got           \* the [hdr, data] the reader has delivered

wvars == <<medium, streams, wleft, wpc>>
bvars  == <<wvars, seek, eager, ends, pos, rleft, rpc, got>>

OffsetSize == 1

(* "block" is BackupSparseBlock, "data" every other id.                    *)
Headers == [id : {"data", "block"}, named : BOOLEAN, size : 0..MaxSize]

Extra(id) == IF id = "block" THEN OffsetSize ELSE 0

(* Nothing written or read yet, from a source of one kind or another.      *)
New(seeks, early, end) ==
  /\ medium = <<>> /\ streams = <<>> /\ wleft = 0 /\ wpc = "writing"
  /\ seek = seeks /\ eager = early /\ ends = end
  /\ pos = 0 /\ rleft = 0 /\ rpc = "ready" /\ got = <<>>

BInit ==
  \E seeks \in {"works", "breaks", "fails", "none"}, early \in BOOLEAN, end \in {"EOF", "error"} :
    New(seeks, early, end)

-----------------------------------------------------------------------------
Fixed(id, named, size) == [item |-> "header", id |-> id, named |-> named, size |-> size]
Item(i)                == [item |-> i, id |-> "none", named |-> FALSE, size |-> 0]

(* What of a header follows its fixed part.                                *)
Following(id, named) ==
  (IF named THEN <<Item("name")>> ELSE <<>>)
    \o (IF id = "block" THEN <<Item("offset")>> ELSE <<>>)

(* A header as it is written.                                              *)
Encoded(hdr) ==
  <<Fixed(hdr.id, hdr.named, hdr.size + Extra(hdr.id))>> \o Following(hdr.id, hdr.named)

(* WriteHeader: refused while bytes of the last stream are missing.        *)
WriteHeader(hdr) ==
  /\ wpc = "writing" /\ Len(streams) < MaxStreams
  /\ wleft = 0
  /\ streams' = Append(streams, [hdr |-> hdr, data |-> 0, at |-> Len(medium)])
  /\ \/ /\ medium' = medium \o Encoded(hdr)
        /\ wleft' = hdr.size
        /\ UNCHANGED wpc
     \/ \E n \in 0..(Len(Encoded(hdr)) - 1), part \in {<<>>, <<Item("part")>>} :
          /\ n > 0 \/ part # <<>>
          /\ medium' = medium \o (SubSeq(Encoded(hdr), 1, n) \o part)
          /\ wpc' = "cut"
          /\ UNCHANGED wleft
  /\ UNCHANGED <<seek, eager, ends, pos, rleft, rpc, got>>

(* Write of len bytes: refused if they are too many; an error if the       *)
(* writer below takes fewer.                                               *)
Write(len) ==
  /\ wpc = "writing" /\ len <= wleft
  /\ \E n \in 0..len :
       /\ medium' = medium \o [k \in 1..n |-> Item("byte")]
       /\ wleft' = wleft - n
       /\ streams' = [streams EXCEPT ![Len(streams)].data = @ + n]
       /\ wpc' = IF n = len THEN "writing" ELSE "cut"
  /\ UNCHANGED <<seek, eager, ends, pos, rleft, rpc, got>>

(* The caller stops, after a stream or in the middle of it.                *)
WriteEnds ==
  /\ wpc = "writing"
  /\ wpc' = IF wleft = 0 THEN "ended" ELSE "cut"
  /\ UNCHANGED <<medium, streams, wleft, seek, eager, ends, pos, rleft, rpc, got>>

-----------------------------------------------------------------------------
(* Read into a buffer of len bytes: as many of the bytes left as the       *)
(* source gives; the source's io.EOF is unexpected.                        *)
ReadStream(len) ==
  /\ wpc # "writing" /\ rpc = "ready" /\ rleft > 0
  /\ \/ \E n \in 1..len :
          /\ n <= rleft /\ pos + n <= Len(medium)
          /\ pos' = pos + n /\ rleft' = rleft - n
          /\ got' = [got EXCEPT ![Len(got)].data = @ + n]
          /\ rpc' = IF eager /\ pos' = Len(medium) THEN "error" ELSE "ready"
     \/ /\ pos >= Len(medium) /\ rpc' = "error"
        /\ UNCHANGED <<pos, rleft, got>>
  /\ UNCHANGED <<wvars, seek, eager, ends>>

(* Mutant: the source's io.EOF is not made unexpected, and ends the copy.  *)
CanSkip_Eof == TRUE

(* Next: a Seek, or io.Copy(io.Discard, r) that finds every byte of the    *)
(* current stream.                                                         *)
CanSkip ==
  \/ rleft = 0 \/ seek = "works"
  \/ /\ seek # "breaks"
     /\ pos + rleft < Len(medium) \/ (pos + rleft = Len(medium) /\ ~eager)

(* binary.Read of the item behind p: what the source ends by if there is   *)
(* nothing, and io.ErrUnexpectedEOF or its error if there is a part.       *)
ReadItem(p) ==
  IF p >= Len(medium) THEN ends
  ELSE IF medium[p + 1].item = "part" THEN "error" ELSE "ready"

(* Next, the header behind p.                                              *)
NextHeader(p) ==
  LET fixed == medium[p + 1]
      rest  == Len(Following(fixed.id, fixed.named))
      bad   == {k \in 0..rest : ReadItem(p + k) # "ready"}
  IN  IF ReadItem(p) # "ready" THEN rpc' = ReadItem(p) /\ UNCHANGED <<pos, rleft, got>>
      ELSE IF bad # {}
        THEN /\ rpc' = ReadItem(p + CHOOSE k \in bad : \A j \in bad : k <= j)
             /\ UNCHANGED <<pos, rleft, got>>
        ELSE /\ pos' = p + 1 + rest
             /\ rleft' = fixed.size - Extra(fixed.id)
             /\ got' = Append(got, [hdr |-> [id |-> fixed.id, named |-> fixed.named,
                                             size |-> rleft'], data |-> 0])
             /\ UNCHANGED rpc

(* Next: the rest of the current stream is skipped by a seek, which may go *)
(* past the end, or read and thrown away; then the next header.            *)
NextStream ==
  /\ wpc # "writing" /\ rpc = "ready"
  /\ IF CanSkip THEN NextHeader(pos + rleft)
     ELSE rpc' = "error" /\ UNCHANGED <<pos, rleft, got>>
  /\ UNCHANGED <<wvars, seek, eager, ends>>

BNext ==
  \/ \E hdr \in Headers : WriteHeader(hdr)
  \/ \E len \in 1..MaxSize : Write(len)
  \/ WriteEnds
  \/ \E len \in 1..MaxSize : ReadStream(len)
  \/ NextStream

BSpec == BInit /\ [][BNext]_bvars

-----------------------------------------------------------------------------
(* However little of each stream the caller of the reader takes, and       *)
(* wherever the medium was cut, the reader delivers the headers that were  *)
(* written, in their order, and never bytes beyond those of the stream.    *)
(* Next says io.EOF when all streams have been delivered: a stream with    *)
(* missing bytes is never taken for a whole one (unless a Seeker skips     *)
(* them), and only a cut exactly between two parts of a header passes for  *)
(* the end.  A medium that was not cut never ends in an error, unless its  *)
(* source fails, or returns io.EOF along with data.                        *)
ReadsWhatWasWritten ==
  /\ Len(got) <= Len(streams)
  /\ \A k \in DOMAIN got : got[k].hdr = streams[k].hdr /\ got[k].data <= streams[k].data
  /\ rpc = "EOF" =>
       /\ \/ Len(got) = Len(streams)
          \/ /\ Len(got) = Len(streams) - 1
             /\ medium[Len(medium)].item \in {"header", "name"}
       /\ seek # "works" => \A k \in DOMAIN got : streams[k].data = streams[k].hdr.size
  /\ rpc = "error" => wpc = "cut" \/ eager \/ ends = "error" \/ seek = "breaks"
=============================================================================
