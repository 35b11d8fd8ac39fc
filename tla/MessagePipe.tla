---------------------------- MODULE MessagePipe ----------------------------
(***************************************************************************)
(* win32MessageBytePipe of pipe.go: a message pipe presented as a stream   *)
(* of bytes, on which CloseWrite ends one direction by an empty message.   *)
(* One end writes (one goroutine, so that its calls do not overlap), the   *)
(* other end reads.                                                        *)
(*                                                                         *)
(* The pipe (external) is a queue of messages.  A handle in byte read mode *)
(* may take several messages in one read, and an empty one behind them     *)
(* then leaves no trace; a handle in message read mode takes at most one,  *)
(* and reports ERROR_MORE_DATA when a part of it is left.  A message is    *)
(* given by where it ends in the stream of the bytes written; the bytes in *)
(* the pipe are those behind taken.                                        *)
(***************************************************************************)
EXTENDS Naturals, Sequences

CONSTANTS
  PipeReaders,  \* the goroutines that call Read
  MaxLen,       \* bound on the length of a message and of a read buffer
  MaxBytes      \* bound on the bytes written

VARIABLES
  readMode,         \* of the reading end's handle: "byte" or "message"
  queue,            \* the ends of the messages in the pipe
  gone,             \* the writing end's handle has been closed
  wpc, writeClosed, \* the writing goroutine, and the field
  written,          \* bytes that Writes have put into the pipe
  rpc, readEOF,     \* rpc[r]: the reading goroutines, and the field
  result,           \* result[r]: [n, err] of the last win32File.Read of r
  taken             \* bytes that Reads have taken out of the pipe

wvars == <<wpc, writeClosed, written>>
rvars == <<rpc, readEOF, result, taken>>
mvars == <<readMode, queue, gone, wvars, rvars>>

(* A connected pipe, whose reading end is in one mode or the other.        *)
Opened(mode) ==
  /\ readMode = mode
  /\ queue = <<>> /\ gone = FALSE
  /\ wpc = "idle" /\ writeClosed = FALSE /\ written = 0
  /\ rpc = [r \in PipeReaders |-> "idle"] /\ readEOF = FALSE
  /\ result = [r \in PipeReaders |-> [n |-> 0, err |-> "nil"]] /\ taken = 0

MInit == \E mode \in {"byte", "message"} : Opened(mode)

-----------------------------------------------------------------------------
(* Mutant: an empty Write reaches the pipe.                                *)
Write_Empty(len) ==
  /\ wpc = "idle" /\ ~gone /\ written + len <= MaxBytes /\ ~writeClosed
  /\ queue' = Append(queue, written + len) /\ written' = written + len
  /\ UNCHANGED <<readMode, gone, wpc, writeClosed, rvars>>

(* Write.  Nothing is sent once CloseWrite has succeeded, or for no bytes; *)
(* win32File.Write may also fail (a deadline).                             *)
Write(len) ==
  /\ wpc = "idle" /\ ~gone /\ written + len <= MaxBytes
  /\ \/ /\ ~writeClosed /\ len # 0
        /\ queue' = Append(queue, written + len) /\ written' = written + len
     \/ UNCHANGED <<queue, written>>
  /\ UNCHANGED <<readMode, gone, wpc, writeClosed, rvars>>

CloseWriteBegin ==
  /\ wpc = "idle" /\ ~gone
  /\ wpc' = IF writeClosed THEN "idle" ELSE "flush"
  /\ UNCHANGED <<readMode, queue, gone, writeClosed, written, rvars>>

(* Mutant: the empty message is sent without waiting for the reader.       *)
CloseWriteFlush_Skip ==
  /\ wpc = "flush" /\ wpc' = "empty"
  /\ UNCHANGED <<readMode, queue, gone, writeClosed, written, rvars>>

(* Flush returns when the other end has read everything, or fails.         *)
CloseWriteFlush ==
  /\ wpc = "flush"
  /\ \/ queue = <<>> /\ wpc' = "empty"
     \/ wpc' = "idle"
  /\ UNCHANGED <<readMode, queue, gone, writeClosed, written, rvars>>

(* win32File.Write(nil), and writeClosed if it succeeds.                   *)
CloseWriteEmpty ==
  /\ wpc = "empty" /\ wpc' = "idle"
  /\ \/ queue' = Append(queue, written) /\ writeClosed' = TRUE
     \/ UNCHANGED <<queue, writeClosed>>
  /\ UNCHANGED <<readMode, gone, written, rvars>>

(* The writing end closes its handle; what is in the pipe stays readable.  *)
WriterCloses ==
  /\ wpc = "idle" /\ ~gone
  /\ gone' = TRUE
  /\ UNCHANGED <<readMode, queue, wvars, rvars>>

-----------------------------------------------------------------------------

(* Read: the check of readEOF, and the IO is issued.                       *)
ReadBegin(r) ==
  /\ rpc[r] = "idle"
  /\ IF readEOF
       THEN result' = [result EXCEPT ![r] = [n |-> 0, err |-> "EOF"]] /\ UNCHANGED rpc
       ELSE rpc' = [rpc EXCEPT ![r] = "read"] /\ UNCHANGED result
  /\ UNCHANGED <<readMode, queue, gone, wvars, readEOF, taken>>

(* win32File.Read of n bytes completes.  It makes io.EOF of zero bytes and *)
(* of a broken pipe.                                                       *)
Result(r, n, err) ==
  /\ taken' = taken + n
  /\ result' = [result EXCEPT ![r] = [n |-> n, err |-> IF n = 0 THEN "EOF" ELSE err]]

(* A read into a buffer of len bytes takes the first k messages, or as     *)
(* much of the k-th as there is room for.                                  *)
ReadMessages(r, k, len) ==
  /\ readMode = "message" => k = 1
  /\ \/ /\ queue[k] <= taken + len
        /\ queue' = SubSeq(queue, k + 1, Len(queue))
        /\ Result(r, queue[k] - taken, "nil")
     \/ /\ queue[k] > taken + len /\ (k > 1 => queue[k - 1] < taken + len)
        /\ queue' = SubSeq(queue, k, Len(queue))
        /\ Result(r, len, IF readMode = "message" THEN "ERROR_MORE_DATA" ELSE "nil")

(* A read that its deadline ends has taken nothing.                        *)
ReadComplete(r, len) ==
  /\ rpc[r] = "read" /\ rpc' = [rpc EXCEPT ![r] = "result"]
  /\ \/ \E k \in 1..Len(queue) : ReadMessages(r, k, len)
     \/ queue = <<>> /\ gone /\ Result(r, 0, "EOF") /\ UNCHANGED queue
  /\ UNCHANGED <<readMode, gone, wvars, readEOF>>

ReadTimeout(r) ==
  /\ rpc[r] = "read" /\ rpc' = [rpc EXCEPT ![r] = "result"]
  /\ result' = [result EXCEPT ![r] = [n |-> 0, err |-> "ErrTimeout"]]
  /\ UNCHANGED <<readMode, queue, gone, wvars, readEOF, taken>>

(* Read remembers the end, and takes ERROR_MORE_DATA for a success.        *)
ReadReturn(r) ==
  /\ rpc[r] = "result" /\ rpc' = [rpc EXCEPT ![r] = "idle"]
  /\ readEOF' = (readEOF \/ result[r].err = "EOF")
  /\ result' = [result EXCEPT ![r].err = IF @ = "ERROR_MORE_DATA" THEN "nil" ELSE @]
  /\ UNCHANGED <<readMode, queue, gone, wvars, taken>>

-----------------------------------------------------------------------------
Completes(r) == \E len \in 1..MaxLen : ReadComplete(r, len)

WriterStep == CloseWriteFlush \/ CloseWriteEmpty
ReaderStep(r) == ReadBegin(r) \/ Completes(r) \/ ReadReturn(r)

MNext ==
  \/ \E len \in 0..MaxLen : Write(len)
  \/ CloseWriteBegin \/ WriterStep \/ WriterCloses
  \/ \E r \in PipeReaders : ReaderStep(r) \/ ReadTimeout(r)

MSpec == MInit /\ [][MNext]_mvars

-----------------------------------------------------------------------------
(* The end of the stream is the end: when a Read has returned io.EOF, the  *)
(* other end has ended its stream, by CloseWrite or Close, and every byte  *)
(* it wrote has been read.  Before that a Read returns data or an error,   *)
(* never both: ERROR_MORE_DATA, of a message longer than the buffer, does  *)
(* not reach the caller.                                                   *)
EofIsLast ==
  /\ readEOF => (writeClosed \/ gone) /\ taken = written
  /\ \A r \in PipeReaders : rpc[r] = "idle" /\ result[r].n > 0 => result[r].err = "nil"

(* After a CloseWrite a reader that goes on reading comes to the end.      *)
EofArrives == writeClosed ~> readEOF
=============================================================================
