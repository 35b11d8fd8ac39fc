----------------------------- MODULE FinalPath ------------------------------
(***************************************************************************)
(* The path of an open file: GetFinalPathNameByHandle of internal/fs, with *)
(* the pool of buffers of internal/stringbuffer; ResolvePath and           *)
(* GetFileSystemType of pkg/fs.                                            *)
(*                                                                         *)
(* The kind of the file decides which forms of its path the system knows:  *)
(* a file on a share has no volume GUID, on a restricted one it has no     *)
(* normalized path either, a volume without a letter has no DOS path, and  *)
(* one that is gone has no path at all.                                    *)
(***************************************************************************)
EXTENDS WinCalls

CONSTANTS
  Kinds,          \* of files: "local", "share", "restricted", "noLetter", "gone"
  Buffers,
  MinWStringCap   \* 310 in the code

VARIABLES
  kind,           \* the file's
  cap, text,      \* per buffer: its length, and the string in it; an old
                  \* one that is not to be read counts as empty
  pool            \* buffers of pathPool

PInit ==
  /\ kind \in Kinds /\ pool = {}
  /\ cap = [b \in Buffers |-> 0] /\ text = [b \in Buffers |-> 0]

buffers == <<cap, text, pool>>

(* What make returns, no matter which: a buffer that nothing refers to,    *)
(* or else one of the pool, which may drop its buffers at any time.        *)
Unused == Buffers \ {me[c].buf : c \in Callers}

Fresh == {CHOOSE b \in Unused : b \notin pool \/ Unused \subseteq pool}

(* Nothing refers to a buffer any more.                                    *)
Drop(b) ==
  /\ cap' = [cap EXCEPT ![b] = 0] /\ text' = [text EXCEPT ![b] = 0]
  /\ UNCHANGED pool

-----------------------------------------------------------------------------
(* WString.                                                                *)

NewWString(c, label) ==
  \/ \E b \in pool :
       /\ pool' = pool \ {b} /\ UNCHANGED <<cap, text>>
       /\ me' = [me EXCEPT ![c].buf = b, ![c].pc = label]
  \/ \E b \in Fresh :
       /\ cap' = [cap EXCEPT ![b] = MinWStringCap] /\ text' = [text EXCEPT ![b] = 0]
       /\ me' = [me EXCEPT ![c].buf = b, ![c].pc = label] /\ pool' = pool \ {b}

(* Mutant: the length is not doubled when that would do.                   *)
NewCap_Old(n, old) ==
  LET least == IF n <= MinWStringCap THEN MinWStringCap ELSE n
  IN  IF least <= 2 * old THEN old ELSE least

NewCap(n, old) ==
  LET least == IF n <= MinWStringCap THEN MinWStringCap ELSE n
  IN  IF least <= 2 * old THEN 2 * old ELSE least

(* Mutant: the old buffer goes back to the pool, and stays in use.         *)
ResizeTo_Keeps(c, n) ==
  /\ cap' = [cap EXCEPT ![me[c].buf] = NewCap(n, @)]
  /\ pool' = pool \cup {me[c].buf} /\ UNCHANGED <<me, text>>

(* The contents are copied, and the old buffer goes back to the pool.      *)
ResizeTo(c, n) ==
  \E b \in Fresh :
    /\ cap' = [cap EXCEPT ![b] = NewCap(n, cap[me[c].buf])]
    /\ text' = [text EXCEPT ![b] = text[me[c].buf], ![me[c].buf] = 0]
    /\ pool' = (pool \ {b}) \cup {me[c].buf}
    /\ me' = [me EXCEPT ![c].buf = b]

-----------------------------------------------------------------------------
(* What the system answers when it is asked for a path: an error of the    *)
(* file's kind, some other error, or the path.                             *)
KindErrors(flags) ==
  (IF "guid" \in flags /\ kind \in {"share", "restricted", "gone"} THEN {"notFound"} ELSE {})
    \cup (IF "normalize" \in flags /\ kind = "restricted" THEN {"denied"} ELSE {})
    \cup (IF "guid" \notin flags /\ kind \in {"noLetter", "gone"} THEN {"notFound"} ELSE {})

Errors(flags) == KindErrors(flags) \cup {"error"}

(* ResolvePath's next attempt: the set of its flags, or the empty set.     *)
Retry(flags, err) ==
  IF "guid" \in flags /\ err = "notFound" THEN {flags \ {"guid"}}
  ELSE IF "normalize" \in flags /\ err = "denied" THEN {flags \ {"normalize"}} ELSE {}

ResolveStarts(c) ==
  \/ /\ me[c].pc = "idle" /\ UNCHANGED <<table, buffers>>
     /\ me' = [me EXCEPT ![c] = [Caller EXCEPT !.api = "ResolvePath", !.n = 1, !.pc = "open",
                                              !.flags = {"normalize", "guid"}]]
  \/ At(c, "ResolvePath", "open") /\ Open(c, "buffer", "idle") /\ UNCHANGED buffers

(* GetFinalPathNameByHandle; the buffer is not given back to the pool.     *)
Query(c) ==
  \/ /\ At(c, "ResolvePath", "buffer") /\ NewWString(c, "query") /\ UNCHANGED table
  \/ /\ At(c, "ResolvePath", "query") /\ Drop(me[c].buf) /\ UNCHANGED table
     /\ \E err \in Errors(me[c].flags) :
          IF Retry(me[c].flags, err) # {} /\ me[c].n < 4
            THEN \E f \in Retry(me[c].flags, err) :
                   me' = [me EXCEPT ![c].flags = f, ![c].n = @ + 1, ![c].buf = Nil,
                                    ![c].pc = "buffer"]
            ELSE me' = [me EXCEPT ![c].out = err, ![c].buf = Nil, ![c].pc = "deferred"]
  \/ /\ At(c, "ResolvePath", "query") /\ KindErrors(me[c].flags) = {} /\ UNCHANGED table
     /\ \/ size + 1 > cap[me[c].buf] /\ ResizeTo(c, size + 1)
        \/ /\ size + 1 <= cap[me[c].buf]
           /\ text' = [text EXCEPT ![me[c].buf] = size]
           /\ me' = [me EXCEPT ![c].seen = size, ![c].pc = "string"]
           /\ UNCHANGED <<cap, pool>>

(* The string up to the zero is copied; the handle is closed.              *)
ResolveReturns(c) ==
  \/ /\ At(c, "ResolvePath", "string") /\ Drop(me[c].buf) /\ UNCHANGED table
     /\ me' = [me EXCEPT ![c].got = text[me[c].buf], ![c].out = "done", ![c].buf = Nil,
                         ![c].pc = "deferred"]
  \/ At(c, "ResolvePath", "deferred") /\ CloseHandle(c, "idle") /\ UNCHANGED buffers

-----------------------------------------------------------------------------
(* GetFileSystemType: the drive must have a letter, and the buffer is      *)
(* given back by a deferred call.  With an error the buffer's string is    *)
(* returned as well, whatever it holds, which is left out here.            *)
GetFileSystemType(c) ==
  /\ UNCHANGED table
  /\ \/ /\ me[c].pc = "idle" /\ UNCHANGED buffers
        /\ me' = [me EXCEPT ![c] = [Caller EXCEPT !.api = "FsType", !.out = "error"]]
     \/ Call(c, "FsType", "buffer") /\ UNCHANGED buffers
     \/ At(c, "FsType", "buffer") /\ NewWString(c, "volume")
     \/ /\ At(c, "FsType", "volume")
        /\ \/ Return(c, "error", "free") /\ UNCHANGED buffers
           \/ /\ size + 1 <= cap[me[c].buf]
              /\ text' = [text EXCEPT ![me[c].buf] = size] /\ UNCHANGED <<cap, pool>>
              /\ me' = [me EXCEPT ![c].seen = size, ![c].pc = "string"]
     \/ /\ At(c, "FsType", "string") /\ UNCHANGED buffers
        /\ me' = [me EXCEPT ![c].got = text[me[c].buf], ![c].out = "done", ![c].pc = "free"]
     \/ /\ At(c, "FsType", "free") /\ UNCHANGED cap
        /\ text' = [text EXCEPT ![me[c].buf] = 0] /\ pool' = pool \cup {me[c].buf}
        /\ me' = [me EXCEPT ![c].buf = Nil, ![c].pc = "idle"]

PathStep(c) ==
  /\ ResolveStarts(c) \/ Query(c) \/ ResolveReturns(c) \/ GetFileSystemType(c)
  /\ UNCHANGED <<size, changes, kind>>
=============================================================================
