----------------------------- MODULE BackupFile -----------------------------
(***************************************************************************)
(* backup.go: OpenForBackup, BackupFileReader and BackupFileWriter, which  *)
(* own a context of the system's from their first call until Close.  The   *)
(* file is the application's to close, before or after the reader.         *)
(***************************************************************************)
EXTENDS WinCalls

Apis == {"Reader", "Writer"}

Uses(c) == me[c].api \in Apis /\ me[c].pc = "use"

OpenForBackup(c) ==
  \/ \E api \in Apis : Call(c, api, "open")
  \/ me[c].api \in Apis /\ me[c].pc = "open" /\ Open(c, "use", "idle")

(* BackupRead and BackupWrite make the context, whether they succeed or    *)
(* not; a file that is closed has no handle.                               *)
Transfer(c, outs) ==
  /\ Uses(c) /\ UNCHANGED table
  /\ \/ /\ me[c].h # Nil
        /\ \E out \in outs : me' = [me EXCEPT ![c].mem = {"ctx"}, ![c].out = out]
     \/ me[c].h = Nil /\ Return(c, "error", "use")

Read(c) == me[c].api = "Reader" /\ Transfer(c, {"done", "eof", "error"})

(* A short write is an error.                                              *)
Write(c) == me[c].api = "Writer" /\ Transfer(c, {"done", "error"})

(* The context is freed with the handle.  The system may refuse it, and of *)
(* a closed file it does: the error is dropped, and the context lost.      *)
CloseContext(c) ==
  /\ Uses(c) /\ UNCHANGED table
  /\ \/ /\ me[c].h # Nil \/ me[c].mem = {}
        /\ me' = [me EXCEPT ![c].mem = {}, ![c].pc = "file"]
     \/ /\ me[c].mem # {}
        /\ me' = [me EXCEPT ![c].flags = {"lost"}, ![c].pc = "file"]

ReaderClose(c) == me[c].api = "Reader" /\ CloseContext(c)

WriterClose(c) == me[c].api = "Writer" /\ CloseContext(c)

(* The application closes the file.                                        *)
FileClose(c) ==
  /\ me[c].api \in Apis /\ me[c].h # Nil /\ me[c].pc \in {"use", "file"}
  /\ table' = [table EXCEPT ![me[c].h] = Nil]
  /\ me' = [me EXCEPT ![c].h = Nil]

Finish(c) ==
  /\ me[c].api \in Apis /\ me[c].pc = "file" /\ me[c].h = Nil
  /\ JumpTo(c, "idle") /\ UNCHANGED table

BackupStep(c) ==
  /\ \/ OpenForBackup(c) \/ Read(c) \/ Write(c) \/ ReaderClose(c) \/ WriterClose(c)
     \/ FileClose(c) \/ Finish(c)
  /\ UNCHANGED <<size, changes>>
=============================================================================
