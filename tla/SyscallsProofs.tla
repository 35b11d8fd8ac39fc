--------------------------- MODULE SyscallsProofs ---------------------------
(***************************************************************************)
(* For any number of callers, handles, buffers and sizes, and for every    *)
(* choice of the packages in use: HandlesAreOwn, ResultIsWhole and         *)
(* GrantKeepsEntries.                                                      *)
(*                                                                         *)
(* None is inductive.  A handle or a buffer can be closed or given back    *)
(* only once because each function knows at each of its labels what it     *)
(* holds (Holds), no two callers share a buffer and none is in the pool    *)
(* while it is held (Buffered), and what is still to be returned is in the *)
(* caller's own buffer (WholeOf).  The errors that are returned are those  *)
(* that the file's kind leaves after the attempts made so far              *)
(* (AttemptsOf).  A list read for a grant has all the entries that are to  *)
(* be kept, but perhaps for that of the VM group (GrantOf).                *)
(***************************************************************************)
EXTENDS Syscalls, TLAPS

ApiNames ==
  {"none", "CreateVhdx", "CreateDiffVhd", "DetachVhd", "AttachVhd", "Disk", "Grant", "SidByName",
   "NameBySid", "EnumProcesses", "ImageName", "Reader", "Writer", "ResolvePath", "FsType", "Apply",
   "Remove", "Mappings"}

Labels ==
  {"idle", "create", "close", "open", "call", "deferred", "version", "use", "convert", "stat",
   "get", "generate", "set", "sid", "size", "lookup", "free", "ask", "file", "buffer", "query",
   "string", "volume", "mkdir", "setup", "remove", "list", "path"}

Results == {"none", "done", "error", "eof", "notFound", "denied"}

Memory == {"sd", "dacl", "path", "sid", "string", "ctx"}

Flags == {"own", "vm", "normalize", "guid", "lost"} \cup Entries

Locals ==
  [api : ApiNames, pc : Labels, h : Handles \cup {Nil}, mem : SUBSET Memory, n : Nat,
   buf : Buffers \cup {Nil}, flags : SUBSET Flags, seen : Nat, got : Nat, out : Results]

Typed ==
  /\ me \in [Callers -> Locals] /\ table \in [Handles -> Callers \cup {Nil}]
  /\ size \in Nat /\ acl \in SUBSET Flags
  /\ cap \in [Buffers -> Nat] /\ text \in [Buffers -> Nat] /\ pool \in SUBSET Buffers

(* The labels at which a function has a handle open; the file of a reader  *)
(* or a writer is the application's.                                       *)
HoldsHandle(r) ==
  \/ r.api \in {"CreateVhdx", "CreateDiffVhd"} /\ r.pc = "close"
  \/ r.api \in {"DetachVhd", "AttachVhd"} /\ r.pc \in {"call", "deferred"}
  \/ r.api = "Disk" /\ r.pc \in {"use", "convert"}
  \/ r.api = "Grant" /\ r.pc \in {"get", "generate", "set", "deferred"}
  \/ r.api = "ResolvePath" /\ r.pc \in {"buffer", "query", "string", "deferred"}
  \/ r.api = "Mappings" /\ r.pc \in {"query", "deferred"}

HoldsBuffer(r) ==
  \/ r.api = "ResolvePath" /\ r.pc \in {"query", "string"}
  \/ r.api = "FsType" /\ r.pc \in {"volume", "string", "free"}

HoldsMemory(r) ==
  \/ r.api = "Disk" /\ r.pc = "convert"
  \/ r.api = "Grant" /\ r.pc \in {"generate", "set", "deferred"}
  \/ r.api = "NameBySid" /\ r.pc \in {"size", "lookup", "deferred"}
  \/ r.api = "SidByName" /\ r.pc = "free"

OfFile(r) ==
  /\ r.pc \notin {"use", "file"} => r.h = Nil
  /\ r.pc = "open" => r.mem = {}
  /\ r.pc \in {"file", "idle"} => r.mem = {} \/ r.flags = {"lost"}

Holds(r) ==
  /\ r.pc \in {"size", "lookup"} => r.api \in {"SidByName", "NameBySid"}
  /\ r.buf # Nil <=> HoldsBuffer(r)
  /\ r.api = "Disk" => r.mem \subseteq {"path"}
  /\ IF r.api \in Apis THEN OfFile(r)
     ELSE (r.h # Nil <=> HoldsHandle(r)) /\ (r.mem # {} => HoldsMemory(r))

Tabled ==
  /\ \A c \in Callers : me[c].h # Nil => table[me[c].h] = c
  /\ \A k \in Handles : table[k] # Nil => me[table[k]].h = k

Buffered ==
  \A c \in Callers : me[c].buf # Nil =>
    me[c].buf \notin pool /\ \A d \in Callers : me[d].buf = me[c].buf => d = c

WholeOf(c) ==
  /\ me[c].pc = "string" => HoldsBuffer(me[c]) /\ text[me[c].buf] = me[c].seen
  /\ me[c].pc # "string" => me[c].got = me[c].seen
  /\ me[c].api \in {"ResolvePath", "FsType"}
       /\ me[c].pc \in {"open", "buffer", "query", "volume", "string"} => me[c].out = "none"

(* How often ResolvePath has asked is limited by the flags it has given    *)
(* up, and so is the kind of the file.                                     *)
AttemptsOf(c) ==
  /\ me[c].api = "ResolvePath" /\ me[c].pc \in {"open", "buffer", "query"} =>
       /\ me[c].n <= 3 /\ ({"guid", "normalize"} \cap me[c].flags # {} => me[c].n <= 2)
       /\ {"guid", "normalize"} \subseteq me[c].flags => me[c].n = 1
       /\ "guid" \notin me[c].flags => kind \in {"share", "restricted", "gone"}
  /\ me[c].api = "Mappings" /\ me[c].pc = "query" /\ "guid" \in me[c].flags =>
       kind \in {"noLetter", "gone"}
  /\ me[c].out = "notFound" => kind = "gone"
  /\ me[c].out = "denied" => me[c].api = "Mappings" /\ kind = "restricted"

GrantOf(c) ==
  /\ me[c].api = "Grant" /\ me[c].pc = "generate" => kept \subseteq me[c].flags \cup {"vm"}
  /\ me[c].api = "Grant" /\ me[c].pc = "set" => kept \cup {"vm"} \subseteq me[c].flags

Local(c) == Holds(me[c]) /\ WholeOf(c) /\ AttemptsOf(c) /\ GrantOf(c)

Inductive ==
  Typed /\ Tabled /\ Buffered /\ GrantKeepsEntries /\ \A c \in Callers : Local(c)

-----------------------------------------------------------------------------
(* A step of c, which becomes r, leaves the other callers alone, and opens *)
(* a handle, closes the one it has, or does neither.                       *)
Steps(c, r) ==
  /\ me' \in [Callers -> Locals] /\ r \in Locals /\ me'[c] = r
  /\ \A d \in Callers \ {c} : me'[d] = me[d]
  /\ \/ table' = table /\ r.h = me[c].h
     \/ \E k \in Handles :
          me[c].h = Nil /\ table[k] = Nil /\ table' = [table EXCEPT ![k] = c] /\ r.h = k
     \/ table' = [table EXCEPT ![me[c].h] = Nil] /\ r.h = Nil

(* Such a step gives c the record r, and leaves the other callers alone.   *)
LEMMA StepOfOne ==
  ASSUME NEW c, NEW r, Steps(c, r)
  PROVE  me'[c] = r /\ \A d \in Callers \ {c} : me'[d] = me[d]
BY Zenon DEF Steps

(* A buffer that is large enough is filled with the whole answer.          *)
LEMMA FilledWhole ==
  ASSUME size \in Nat, NEW n \in Nat, size <= n
  PROVE  Filled(n) = size
BY DEF Filled

(* A buffer that has grown has a capacity.                                 *)
LEMMA NewCapIsNat ==
  ASSUME NEW n \in Nat, NEW old \in Nat
  PROVE  NewCap(n + 1, old) \in Nat
BY SyscallsAssumption DEF NewCap

(* The table and the callers' handles agree after every such step.         *)
LEMMA TableStep ==
  ASSUME Typed, Tabled, NEW c \in Callers, NEW r, Steps(c, r)
  PROVE  Tabled' /\ table' \in [Handles -> Callers \cup {Nil}]
<1> USE SyscallsAssumption DEF Typed, Tabled
<1>0. /\ \A d \in Callers : me[d].h \in Handles \cup {Nil} /\ me'[d].h \in Handles \cup {Nil}
      /\ \A d \in Callers \ {c} : me'[d].h = me[d].h
      /\ me'[c].h = r.h
  BY DEF Steps, Locals
<1>t. table' \in [Handles -> Callers \cup {Nil}]
  BY DEF Steps
<1>1. CASE table' = table /\ r.h = me[c].h
  <2>1. \A d \in Callers : me'[d].h = me[d].h
    BY <1>0, <1>1
  <2> QED
    BY <1>1, <2>1
<1>2. ASSUME NEW k \in Handles, me[c].h = Nil, table[k] = Nil,
             table' = [table EXCEPT ![k] = c], r.h = k
      PROVE  Tabled'
  <2>1. ASSUME NEW d \in Callers, me'[d].h # Nil PROVE table'[me'[d].h] = d
    BY <1>0, <1>2, <2>1
  <2>2. ASSUME NEW i \in Handles, table'[i] # Nil PROVE me'[table'[i]].h = i
    BY <1>0, <1>2, <2>2
  <2> QED
    BY <2>1, <2>2
<1>3. CASE table' = [table EXCEPT ![me[c].h] = Nil] /\ r.h = Nil
  <2>1. ASSUME NEW d \in Callers, me'[d].h # Nil PROVE table'[me'[d].h] = d
    BY <1>0, <1>3, <2>1
  <2>2. ASSUME NEW i \in Handles, table'[i] # Nil PROVE me'[table'[i]].h = i
    BY <1>0, <1>3, <2>2
  <2> QED
    BY <1>t, <2>1, <2>2
<1> QED
  BY <1>t, <1>1, <1>2, <1>3 DEF Steps

(* The callers that a step leaves alone notice nothing of it, as long as   *)
(* it does not touch their buffers, and keeps at most the VM group's entry.*)
LEMMA OtherCaller ==
  ASSUME NEW d \in Callers, me'[d] = me[d], Local(d), kind' = kind, kept' \subseteq kept \cup {"vm"},
         me[d].buf # Nil => text'[me[d].buf] = text[me[d].buf]
  PROVE  Local(d)'
<1>1. Holds(me[d])'
  BY DEF Local, Holds, HoldsHandle, HoldsBuffer, HoldsMemory, OfFile
<1>2. WholeOf(d)'
  BY DEF Local, Holds, WholeOf, HoldsBuffer
<1>3. AttemptsOf(d)'
  BY DEF Local, AttemptsOf
<1>4. GrantOf(d)'
  BY DEF Local, GrantOf
<1> QED
  BY <1>1, <1>2, <1>3, <1>4 DEF Local

(* A step that touches no buffer.                                          *)
LEMMA ListStep ==
  ASSUME Inductive, NEW c \in Callers, NEW r, Steps(c, r), r.buf = me[c].buf, Local(c)',
         UNCHANGED <<size, cap, text, pool, kind>>, acl' \in SUBSET Flags,
         kept' \subseteq acl', kept' \subseteq kept \cup {"vm"}
  PROVE  Inductive'
<1>1. Tabled' /\ Typed'
  BY TableStep DEF Inductive, Typed, Steps
<1>2. Buffered'
  BY DEF Inductive, Buffered, Steps
<1>3. ASSUME NEW d \in Callers \ {c} PROVE Local(d)'
  BY OtherCaller DEF Inductive, Steps
<1> QED
  BY <1>1, <1>2, <1>3 DEF Inductive, GrantKeepsEntries

(* A step that touches no list of entries either.                          *)
LEMMA PlainStep ==
  ASSUME Inductive, NEW c \in Callers, NEW r, Steps(c, r), r.buf = me[c].buf, Local(c)',
         UNCHANGED <<size, cap, text, pool, kind, acl, kept>>
  PROVE  Inductive'
BY ListStep DEF Inductive, Typed, GrantKeepsEntries

(* The functions that return no more than whether they have succeeded, or  *)
(* return what they have got at once.                                      *)
Simple(r) ==
  /\ r.api \notin {"ResolvePath", "FsType", "Mappings", "Grant"}
  /\ r.pc # "string" /\ r.got = r.seen /\ r.buf = Nil

(* A function of one of the simple packages holds no buffer and has        *)
(* returned what it was told.                                              *)
LEMMA IsSimple ==
  ASSUME Inductive, NEW c \in Callers, me[c].api \notin {"ResolvePath", "FsType", "Mappings", "Grant"}
  PROVE  Simple(me[c])
BY DEF Inductive, Local, Holds, HoldsBuffer, WholeOf, Simple

(* A step of a simple function keeps the invariant when what the function  *)
(* holds at its next label is what it should.                              *)
LEMMA SimpleStep ==
  ASSUME Inductive, NEW c \in Callers, NEW r, Steps(c, r), r.buf = me[c].buf, Holds(r), Simple(r),
         r.out \notin {"notFound", "denied"} \/ (r.out = me[c].out /\ r.api = me[c].api),
         UNCHANGED <<size, cap, text, pool, kind, acl, kept>>
  PROVE  Inductive'
<1>1. me'[c] = r /\ Local(c) /\ kind' = kind
  BY DEF Steps, Inductive
<1>2. Holds(me[c])'
  BY <1>1 DEF Holds, HoldsHandle, HoldsBuffer, HoldsMemory, OfFile
<1>3. WholeOf(c)'
  BY <1>1 DEF Simple, WholeOf
<1>4. AttemptsOf(c)'
  BY <1>1 DEF Local, Simple, AttemptsOf
<1>5. GrantOf(c)'
  BY <1>1 DEF Simple, GrantOf
<1> QED
  BY <1>2, <1>3, <1>4, <1>5, PlainStep DEF Local

(* What the operations that the functions are made of make of a caller.    *)
Returned(c, out, label) == [me[c] EXCEPT !.out = out, !.pc = label]
Opened(c, k, label) == [me[c] EXCEPT !.h = k, !.pc = label]
Closed(c, label) == [me[c] EXCEPT !.h = Nil, !.n = 0, !.flags = {}, !.pc = label]

(* Assigning several fields of one caller makes it a record.               *)
LEMMA Becomes ==
  ASSUME Typed, NEW c \in Callers, NEW r \in Locals, me' = [me EXCEPT ![c] = r],
         table' = table, r.h = me[c].h
  PROVE  Steps(c, r)
BY DEF Steps, Typed

(* A call that starts takes the caller from idle to the first label of the *)
(* function.                                                               *)
LEMMA Starts ==
  ASSUME Inductive, NEW c \in Callers, NEW r \in Locals, me[c].pc = "idle",
         me' = [me EXCEPT ![c] = r], UNCHANGED <<table, size, cap, text, pool, kind, acl, kept>>,
         r.h = Nil, r.mem = {}, r.buf = Nil, r.got = r.seen,
         r.out = "none" \/ (r.out = "error" /\ r.pc = "idle"),
         \/ r.pc \in {"idle", "create", "open", "stat", "sid", "buffer", "mkdir", "remove", "list",
                     "version", "ask"}
         \/ r.pc = "size" /\ r.api = "SidByName",
         IF r.api = "ResolvePath" THEN r.pc = "open" /\ r.n = 1 /\ r.flags = {"guid", "normalize"}
         ELSE r.flags = {}
  PROVE  Inductive'
<1>1. Typed /\ me[c].h = Nil /\ me[c].buf = Nil
  BY DEF Inductive, Local, Holds, HoldsHandle, HoldsBuffer, OfFile
<1>2. Steps(c, r)
  BY <1>1, Becomes, Zenon
<1>3. me'[c] = r /\ kind' = kind
  BY <1>2 DEF Steps
<1>4. Holds(me[c])'
  <2>1. r.api \in Apis => r.flags = {}
    BY DEF Apis
  <2> QED
    BY <1>3, <2>1 DEF Holds, HoldsHandle, HoldsBuffer, OfFile
<1>5. WholeOf(c)' /\ GrantOf(c)'
  BY <1>3 DEF WholeOf, GrantOf
<1>6. AttemptsOf(c)'
  <2>1. CASE r.api = "ResolvePath"
    <3>1. /\ me'[c].n = 1 /\ "guid" \in me'[c].flags /\ "normalize" \in me'[c].flags
          /\ me'[c].api = "ResolvePath" /\ me'[c].out = "none"
      BY <1>3, <2>1
    <3> QED
      BY <3>1 DEF AttemptsOf
  <2>2. CASE r.api # "ResolvePath"
    BY <1>3, <2>2 DEF AttemptsOf
  <2> QED
    BY <2>1, <2>2
<1> QED
  BY <1>1, <1>2, <1>4, <1>5, <1>6, PlainStep DEF Local

(* The same, for the operator that starts a call.                          *)
LEMMA CallStarts ==
  ASSUME Inductive, NEW c \in Callers, NEW api \in ApiNames \ {"ResolvePath"},
         NEW label \in Labels, Call(c, api, label),
         UNCHANGED <<size, cap, text, pool, kind, acl, kept>>,
         \/ label \in {"create", "open", "stat", "sid", "buffer", "mkdir", "remove", "list"}
         \/ label = "size" /\ api = "SidByName"
  PROVE  Inductive'
<1> DEFINE r == [Caller EXCEPT !.api = api, !.pc = label]
<1>1. Caller \in Locals
  BY DEF Caller, Locals, ApiNames, Labels, Results
<1>2. r \in Locals /\ r.api = api /\ r.pc = label /\ r.h = Nil /\ r.mem = {} /\ r.buf = Nil
      /\ r.flags = {} /\ r.got = r.seen /\ r.out = "none"
  BY <1>1, Zenon DEF Locals, Caller
<1>3. me[c].pc = "idle" /\ me' = [me EXCEPT ![c] = r] /\ table' = table
  BY DEF Call
<1> HIDE DEF r
<1> QED
  BY <1>2, <1>3, Starts, Zenon

(* A return of a result changes only the result and the label.             *)
LEMMA Returns ==
  ASSUME Typed, NEW c \in Callers, NEW out \in Results, NEW label \in Labels,
         Return(c, out, label), UNCHANGED table
  PROVE  Steps(c, Returned(c, out, label))
<1>1. Returned(c, out, label) \in Locals /\ Returned(c, out, label).h = me[c].h
  BY Zenon DEF Typed, Locals, Returned
<1>2. me' = [me EXCEPT ![c] = Returned(c, out, label)]
  BY Zenon DEF Return, Returned, Typed, Locals
<1> QED
  BY <1>1, <1>2, Becomes, Zenon

(* A step to another label of the function changes only the label.         *)
LEMMA Jumps ==
  ASSUME Typed, NEW c \in Callers, NEW label \in Labels, JumpTo(c, label), UNCHANGED table
  PROVE  Steps(c, [me[c] EXCEPT !.pc = label])
<1> DEFINE r == [me[c] EXCEPT !.pc = label]
<1>1. r \in Locals /\ r.h = me[c].h
  BY DEF Typed, Locals
<1>2. me' = [me EXCEPT ![c] = r]
  BY DEF JumpTo, Typed, Locals
<1> QED
  BY <1>1, <1>2, Becomes, Zenon

(* A step that opens a handle takes a free one of the table.               *)
LEMMA Opens ==
  ASSUME Typed, NEW c \in Callers, NEW ok \in Labels, NEW failed \in Labels, Open(c, ok, failed),
         me[c].h = Nil
  PROVE  \/ \E k \in Handles : Steps(c, Opened(c, k, ok))
         \/ Steps(c, Returned(c, "error", failed))
<1>1. CASE Return(c, "error", failed) /\ UNCHANGED table
  BY <1>1, Returns DEF Results
<1>2. ASSUME NEW k \in Handles, table[k] = Nil, table' = [table EXCEPT ![k] = c],
             me' = [me EXCEPT ![c].h = k, ![c].pc = ok]
      PROVE  Steps(c, Opened(c, k, ok))
  <2>1. Opened(c, k, ok) \in Locals /\ Opened(c, k, ok).h = k
    BY ZenonT(40) DEF Typed, Locals, Opened
  <2>2. me' = [me EXCEPT ![c] = Opened(c, k, ok)]
    BY <1>2, Zenon DEF Typed, Locals, Opened
  <2> QED
    BY <1>2, <2>1, <2>2, Zenon DEF Steps, Typed
<1> QED
  BY <1>1, <1>2, Zenon DEF Open

(* A step that closes the handle frees its place in the table.             *)
LEMMA Closes ==
  ASSUME Typed, NEW c \in Callers, NEW label \in Labels, CloseHandle(c, label)
  PROVE  Steps(c, Closed(c, label))
<1>1. Closed(c, label) \in Locals /\ Closed(c, label).h = Nil
  BY Zenon DEF Typed, Locals, Closed
<1> QED
  BY <1>1 DEF CloseHandle, Steps, Typed, Closed

(* The same of simple functions.                                           *)
LEMMA SimpleChange ==
  ASSUME Inductive, NEW c \in Callers, NEW r \in Locals, me' = [me EXCEPT ![c] = r], Holds(r),
         r.h = me[c].h, r.buf = me[c].buf, r.api = me[c].api, r.pc # "string", r.got = r.seen,
         r.out = me[c].out \/ r.out \notin {"notFound", "denied"},
         me[c].api \notin {"ResolvePath", "FsType", "Mappings", "Grant"},
         UNCHANGED <<table, size, cap, text, pool, kind, acl, kept>>
  PROVE  Inductive'
<1>1. Typed /\ Simple(me[c])
  BY IsSimple DEF Inductive
<1>2. Steps(c, r)
  BY <1>1, Becomes, Zenon
<1>3. Simple(r)
  BY <1>1 DEF Simple
<1> QED
  BY <1>2, <1>3, SimpleStep

(* A simple function may return when it holds nothing.                     *)
LEMMA SimpleReturn ==
  ASSUME Inductive, NEW c \in Callers, NEW out \in {"done", "error", "eof"},
         NEW label \in Labels \ {"string"}, Return(c, out, label), Holds(Returned(c, out, label)),
         me[c].api \notin {"ResolvePath", "FsType", "Mappings", "Grant"},
         UNCHANGED <<table, size, cap, text, pool, kind, acl, kept>>
  PROVE  Inductive'
<1> DEFINE r == Returned(c, out, label)
<1>1. Typed /\ me[c] \in Locals /\ Simple(me[c])
  BY IsSimple DEF Inductive, Typed
<1>2. Steps(c, r)
  BY <1>1, Returns DEF Results
<1>3. Simple(r) /\ r.buf = me[c].buf /\ r.out \notin {"notFound", "denied"}
  BY <1>1 DEF Simple, Returned, Locals
<1> QED
  BY <1>2, <1>3, SimpleStep

(* A simple function may open a handle when it has none.                   *)
LEMMA SimpleOpen ==
  ASSUME Inductive, NEW c \in Callers, NEW ok \in Labels \ {"string"},
         NEW failed \in Labels \ {"string"}, Open(c, ok, failed), me[c].h = Nil,
         Holds(Returned(c, "error", failed)), \A k \in Handles : Holds(Opened(c, k, ok)),
         me[c].api \notin {"ResolvePath", "FsType", "Mappings", "Grant"},
         UNCHANGED <<size, cap, text, pool, kind, acl, kept>>
  PROVE  Inductive'
<1>1. Typed /\ me[c] \in Locals /\ Simple(me[c])
  BY IsSimple DEF Inductive, Typed
<1>2. CASE Steps(c, Returned(c, "error", failed))
  <2> DEFINE r == Returned(c, "error", failed)
  <2>1. Simple(r) /\ r.buf = me[c].buf /\ r.out = "error"
    BY <1>1 DEF Simple, Returned, Locals
  <2> QED
    BY <1>2, <2>1, SimpleStep
<1>3. ASSUME NEW k \in Handles, Steps(c, Opened(c, k, ok)) PROVE Inductive'
  <2> DEFINE r == Opened(c, k, ok)
  <2>1. Simple(r) /\ r.buf = me[c].buf /\ r.out = me[c].out /\ r.api = me[c].api
    BY <1>1, Zenon DEF Simple, Opened, Locals
  <2> QED
    BY <1>3, <2>1, SimpleStep
<1> QED
  BY <1>1, <1>2, <1>3, Opens

(* A simple function may close the handle it has.                          *)
LEMMA SimpleClose ==
  ASSUME Inductive, NEW c \in Callers, NEW label \in Labels \ {"string"}, CloseHandle(c, label),
         Holds(Closed(c, label)), me[c].api \notin {"ResolvePath", "FsType", "Mappings", "Grant"},
         UNCHANGED <<size, cap, text, pool, kind, acl, kept>>
  PROVE  Inductive'
<1> DEFINE r == Closed(c, label)
<1>1. Typed /\ me[c] \in Locals /\ Simple(me[c])
  BY IsSimple DEF Inductive, Typed
<1>2. Steps(c, r)
  BY <1>1, Closes
<1>3. Simple(r) /\ r.buf = me[c].buf /\ r.out = me[c].out /\ r.api = me[c].api
  BY <1>1 DEF Simple, Closed, Locals
<1> QED
  BY <1>2, <1>3, SimpleStep

-----------------------------------------------------------------------------
(* vhd.go closes what it has opened on every path, once.                   *)
LEMMA VhdHolds ==
  ASSUME Inductive, NEW c \in Callers, VhdStep(c), UNCHANGED others
  PROVE  Inductive'
<1>0. /\ Typed /\ me[c] \in Locals /\ Holds(me[c])
      /\ UNCHANGED <<size, cap, text, pool, kind, acl, kept>>
  BY DEF Inductive, Typed, Local, VhdStep, others
<1>1. ASSUME NEW api \in {"CreateVhdx", "CreateDiffVhd"}, CreateThenClose(c, api)
      PROVE  Inductive'
  <2>1. CASE Call(c, api, "create")
    BY <1>0, <1>1, <2>1, CallStarts DEF ApiNames, Labels
  <2>2. CASE At(c, api, "create") /\ Open(c, "close", "idle")
    <3>1. /\ me[c].h = Nil /\ Holds(Returned(c, "error", "idle"))
          /\ \A k \in Handles : Holds(Opened(c, k, "close"))
      BY <1>0, <1>1, <2>2, SyscallsAssumption, Zenon
         DEF At, Holds, HoldsHandle, HoldsMemory, HoldsBuffer, Apis, Returned, Opened, Locals
    <3> QED
      BY <1>0, <1>1, <2>2, <3>1, SimpleOpen DEF Labels, At
  <2>3. ASSUME At(c, api, "close"), NEW out \in {"done", "error"},
               table' = [table EXCEPT ![me[c].h] = Nil],
               me' = [me EXCEPT ![c].h = Nil, ![c].out = out, ![c].pc = "idle"]
        PROVE  Inductive'
    <3> DEFINE r == [me[c] EXCEPT !.h = Nil, !.out = out, !.pc = "idle"]
    <3>1. r \in Locals /\ r.h = Nil /\ r.out = out /\ r.buf = me[c].buf /\ r.api = api
      BY <1>0, <2>3, Zenon DEF Locals, Labels, Results, At
    <3>2. Steps(c, r)
      BY <1>0, <2>3, <3>1 DEF Steps, Typed, Locals
    <3>3. Simple(me[c])
      BY <1>1, <2>3, IsSimple DEF At
    <3>4. Holds(r) /\ Simple(r)
      BY <1>0, <1>1, <2>3, <3>3
         DEF At, Simple, Holds, HoldsHandle, HoldsMemory, HoldsBuffer, Apis, Locals
    <3> QED
      BY <1>0, <3>1, <3>2, <3>4, SimpleStep, Zenon
  <2> QED
    BY <1>1,  <2>1, <2>2, <2>3 DEF CreateThenClose
<1>2. ASSUME NEW api \in {"DetachVhd", "AttachVhd"}, OpenThenCall(c, api)
      PROVE  Inductive'
  <2>1. CASE Call(c, api, "open")
    BY <1>0, <1>2, <2>1, CallStarts DEF ApiNames, Labels
  <2>2. CASE At(c, api, "open") /\ Open(c, "call", "idle")
    <3>1. /\ me[c].h = Nil /\ Holds(Returned(c, "error", "idle"))
          /\ \A k \in Handles : Holds(Opened(c, k, "call"))
      BY <1>0, <1>2, <2>2, SyscallsAssumption, Zenon
         DEF At, Holds, HoldsHandle, HoldsMemory, HoldsBuffer, Apis, Returned, Opened, Locals
    <3> QED
      BY <1>0, <1>2, <2>2, <3>1, SimpleOpen DEF Labels, At
  <2>3. ASSUME At(c, api, "call"), UNCHANGED table, NEW out \in {"done", "error"}, Return(c, out, "deferred")
        PROVE  Inductive'
    <3>1. Holds(Returned(c, out, "deferred"))
      BY <1>0, <1>2, <2>3
         DEF At, Holds, HoldsHandle, HoldsMemory, HoldsBuffer, Apis, Returned, Locals
    <3> QED
      BY <1>0, <1>2, <2>3, <3>1, SimpleReturn DEF Labels, At
  <2>4. CASE At(c, api, "deferred") /\ CloseHandle(c, "idle")
    <3>1. Holds(Closed(c, "idle"))
      BY <1>0, <1>2, <2>4
         DEF At, Holds, HoldsHandle, HoldsMemory, HoldsBuffer, Apis, Closed, Locals
    <3> QED
      BY <1>0, <1>2, <2>4, <3>1, SimpleClose DEF Labels, At
  <2> QED
    BY <1>2, <2>1, <2>2, <2>3, <2>4 DEF OpenThenCall
<1>3. CASE OpenVirtualDiskWithParameters(c)
  <2>1. ASSUME NEW version \in Versions, me[c].pc = "idle", UNCHANGED table,
               me' = [me EXCEPT ![c] = [Caller EXCEPT !.api = "Disk", !.n = version, !.pc = "version"]]
        PROVE  Inductive'
    <3> DEFINE r == [Caller EXCEPT !.api = "Disk", !.n = version, !.pc = "version"]
    <3>1. /\ r \in Locals /\ r.api = "Disk" /\ r.pc = "version" /\ r.h = Nil /\ r.mem = {} /\ r.buf = Nil
          /\ r.flags = {} /\ r.got = r.seen /\ r.out = "none"
      BY SyscallsAssumption, Zenon DEF Locals, Caller, ApiNames, Labels, Results
    <3>2. me' = [me EXCEPT ![c] = r]
      BY <2>1
    <3> HIDE DEF r
    <3> QED
      BY <1>0, <2>1, <3>1, <3>2, Starts, Zenon
  <2>2. ASSUME At(c, "Disk", "version")
        PROVE  /\ me[c].h = Nil /\ Holds(Returned(c, "error", "idle"))
               /\ \A k \in Handles : Holds(Opened(c, k, "use"))
    BY <1>0, <2>2, SyscallsAssumption, Zenon
       DEF At, Holds, HoldsHandle, HoldsMemory, HoldsBuffer, Apis, Returned, Opened, Locals
  <2>3. CASE At(c, "Disk", "version") /\ Return(c, "error", "idle") /\ UNCHANGED table
    BY <1>0, <2>2, <2>3, SimpleReturn DEF Labels, At
  <2>4. CASE At(c, "Disk", "version") /\ Open(c, "use", "idle")
    BY <1>0, <2>2, <2>4, SimpleOpen DEF Labels, At
  <2> QED
    BY <1>3, <2>1, <2>3, <2>4, Zenon DEF OpenVirtualDiskWithParameters
<1>4. CASE UseVirtualDisk(c) \/ GetLayerVHDMountPath(c)
  <2>1. ASSUME At(c, "Disk", "use"), UNCHANGED table, NEW out \in {"done", "error"}, Return(c, out, "use")
        PROVE  Inductive'
    <3>1. Holds(Returned(c, out, "use"))
      BY <1>0, <2>1
         DEF At, Holds, HoldsHandle, HoldsMemory, HoldsBuffer, Apis, Returned, Locals
    <3> QED
      BY <1>0, <2>1, <3>1, SimpleReturn DEF Labels, At
  <2>2. CASE /\ At(c, "Disk", "use") /\ UNCHANGED table
             /\ me' = [me EXCEPT ![c].mem = @ \cup {"path"}, ![c].pc = "convert"]
    <3> DEFINE r == [me[c] EXCEPT !.mem = @ \cup {"path"}, !.pc = "convert"]
    <3>1. /\ r \in Locals /\ r.h = me[c].h /\ r.buf = me[c].buf /\ r.api = me[c].api /\ r.out = me[c].out
          /\ r.pc = "convert" /\ r.got = me[c].got /\ r.seen = me[c].seen
      BY <1>0, Zenon DEF Locals, Labels, Memory
    <3>2. me' = [me EXCEPT ![c] = r]
      BY <1>0, <2>2, Zenon DEF Typed, Locals
    <3>3. Holds(r) /\ r.got = r.seen
      BY <1>0, <2>2, IsSimple
         DEF At, Simple, Holds, HoldsHandle, HoldsMemory, HoldsBuffer, Apis, Locals
    <3> HIDE DEF r
    <3> QED
      BY <1>0, <2>2, <3>1, <3>2, <3>3, SimpleChange, Zenon DEF At
  <2>3. CASE /\ At(c, "Disk", "convert") /\ UNCHANGED table
             /\ me' = [me EXCEPT ![c].mem = @ \ {"path"}, ![c].out = "done", ![c].pc = "use"]
    <3> DEFINE r == [me[c] EXCEPT !.mem = @ \ {"path"}, !.out = "done", !.pc = "use"]
    <3>1. /\ r \in Locals /\ r.h = me[c].h /\ r.buf = me[c].buf /\ r.api = me[c].api
          /\ r.out = "done" /\ r.pc = "use"
      BY <1>0, Zenon DEF Locals, Labels, Results
    <3>2. me' = [me EXCEPT ![c] = r]
      BY <1>0, <2>3, Zenon DEF Typed, Locals
    <3>3. Holds(r) /\ r.got = r.seen
      BY <1>0, <2>3, IsSimple
         DEF At, Simple, Holds, HoldsHandle, HoldsMemory, HoldsBuffer, Apis, Locals
    <3> HIDE DEF r
    <3> QED
      BY <1>0, <2>3, <3>1, <3>2, <3>3, SimpleChange, Zenon DEF At
  <2> QED
    BY <1>4, <2>1, <2>2, <2>3, Zenon DEF UseVirtualDisk, GetLayerVHDMountPath
<1>5. CASE CloseVirtualDisk(c)
  <2> DEFINE r == [me[c] EXCEPT !.h = Nil, !.pc = "idle"]
  <2>1. r \in Locals /\ r.h = Nil /\ r.out = me[c].out /\ r.buf = me[c].buf /\ r.api = "Disk"
    BY <1>0, <1>5, Zenon DEF Locals, Labels, CloseVirtualDisk, At
  <2>2. Steps(c, r)
    BY <1>0, <1>5, <2>1 DEF Steps, Typed, Locals, CloseVirtualDisk
  <2>3. Simple(me[c])
    BY <1>5, IsSimple DEF At, CloseVirtualDisk
  <2>4. Holds(r) /\ Simple(r) /\ r.api = me[c].api
    BY <1>0, <1>5, <2>3
       DEF CloseVirtualDisk, At, Simple, Holds, HoldsHandle, HoldsMemory, HoldsBuffer, Apis, Locals
  <2> QED
    BY <1>0, <2>1, <2>2, <2>4, SimpleStep, Zenon
<1> QED
  BY <1>1, <1>2, <1>3, <1>4, <1>5 DEF VhdStep, CreateVhdx, CreateDiffVhd, DetachVhd, AttachVhd

(* The context of a reader or a writer lives no longer than its file.      *)
LEMMA BackupHolds ==
  ASSUME Inductive, NEW c \in Callers, BackupStep(c), UNCHANGED others
  PROVE  Inductive'
<1>0. /\ Typed /\ me[c] \in Locals /\ Holds(me[c])
      /\ UNCHANGED <<size, cap, text, pool, kind, acl, kept>>
  BY DEF Inductive, Typed, Local, BackupStep, others
<1>1. CASE OpenForBackup(c)
  <2>1. ASSUME NEW api \in Apis, Call(c, api, "open") PROVE Inductive'
    BY <1>0, <2>1, CallStarts DEF ApiNames, Labels, Apis
  <2>2. CASE me[c].api \in Apis /\ me[c].pc = "open" /\ Open(c, "use", "idle")
    <3>1. /\ me[c].h = Nil /\ Holds(Returned(c, "error", "idle"))
          /\ \A k \in Handles : Holds(Opened(c, k, "use"))
      BY <1>0, <2>2, SyscallsAssumption, Zenon
         DEF Holds, HoldsBuffer, OfFile, Apis, Returned, Opened, Locals
    <3> QED
      BY <1>0, <2>2, <3>1, SimpleOpen DEF Labels, Apis
  <2> QED
    BY <1>1, <2>1, <2>2 DEF OpenForBackup
<1>2. CASE Read(c) \/ Write(c)
  <2>0. Uses(c) /\ UNCHANGED table
    BY <1>2 DEF Read, Write, Transfer
  <2>1. ASSUME me[c].h # Nil, NEW out \in {"done", "eof", "error"},
               me' = [me EXCEPT ![c].mem = {"ctx"}, ![c].out = out]
        PROVE  Inductive'
    <3> DEFINE r == [me[c] EXCEPT !.mem = {"ctx"}, !.out = out]
    <3>1. /\ r \in Locals /\ r.h = me[c].h /\ r.buf = me[c].buf /\ r.api = me[c].api
          /\ r.out = out /\ r.pc = me[c].pc
      BY <1>0, Zenon DEF Locals, Results, Memory
    <3>2. me' = [me EXCEPT ![c] = r]
      BY <1>0, <2>1, Zenon DEF Typed, Locals
    <3>3. Holds(r) /\ r.got = r.seen
      BY <1>0, <2>0, <2>1, IsSimple DEF Uses, Simple, Holds, HoldsBuffer, OfFile, Apis, Locals
    <3> HIDE DEF r
    <3> QED
      BY <1>0, <2>0, <3>1, <3>2, <3>3, SimpleChange, Zenon DEF Uses, Apis
  <2>2. CASE me[c].h = Nil /\ Return(c, "error", "use")
    <3>1. Holds(Returned(c, "error", "use"))
      BY <1>0, <2>0, <2>2 DEF Uses, Holds, HoldsBuffer, OfFile, Apis, Returned, Locals
    <3> QED
      BY <1>0, <2>0, <2>2, <3>1, SimpleReturn DEF Labels, Uses, Apis
  <2> QED
    BY <1>2, <2>1, <2>2 DEF Read, Write, Transfer
<1>3. CASE CloseContext(c)
  <2>1. ASSUME NEW m \in SUBSET Memory, NEW flags \in SUBSET Flags, m = {} \/ flags = {"lost"},
               me' = [me EXCEPT ![c].mem = m, ![c].flags = flags, ![c].pc = "file"]
        PROVE  Inductive'
    <3> DEFINE r == [me[c] EXCEPT !.mem = m, !.flags = flags, !.pc = "file"]
    <3>1. /\ r \in Locals /\ r.h = me[c].h /\ r.buf = me[c].buf /\ r.api = me[c].api
          /\ r.out = me[c].out /\ r.pc = "file"
      BY <1>0, <2>1, Zenon DEF Locals, Labels
    <3>2. me' = [me EXCEPT ![c] = r]
      BY <1>0, <2>1, Zenon DEF Typed, Locals
    <3>3. Holds(r) /\ r.got = r.seen
      BY <1>0, <1>3, <2>1, IsSimple
         DEF CloseContext, Uses, Simple, Holds, HoldsBuffer, OfFile, Apis, Locals
    <3> HIDE DEF r
    <3> QED
      BY <1>0, <1>3, <3>1, <3>2, <3>3, SimpleChange, Zenon DEF CloseContext, Uses, Apis
  <2>2. me[c].mem \in SUBSET Memory /\ me[c].flags \in SUBSET Flags /\ {"lost"} \in SUBSET Flags
    BY <1>0 DEF Locals, Flags
  <2>3. CASE me' = [me EXCEPT ![c].mem = {}, ![c].pc = "file"]
    <3>1. me' = [me EXCEPT ![c].mem = {}, ![c].flags = me[c].flags, ![c].pc = "file"]
      BY <1>0, <2>3, Zenon DEF Typed, Locals
    <3> QED
      BY <2>1, <2>2, <3>1, Zenon
  <2>4. CASE me' = [me EXCEPT ![c].flags = {"lost"}, ![c].pc = "file"]
    <3>1. me' = [me EXCEPT ![c].mem = me[c].mem, ![c].flags = {"lost"}, ![c].pc = "file"]
      BY <1>0, <2>4, Zenon DEF Typed, Locals
    <3> QED
      BY <2>1, <2>2, <3>1, Zenon
  <2> QED
    BY <1>3, <2>3, <2>4 DEF CloseContext
<1>4. CASE FileClose(c)
  <2> DEFINE r == [me[c] EXCEPT !.h = Nil]
  <2>1. r \in Locals /\ r.h = Nil /\ r.out = me[c].out /\ r.buf = me[c].buf /\ r.api = me[c].api
    BY <1>0, Zenon DEF Locals, Flags
  <2>2. Steps(c, r)
    BY <1>0, <1>4, <2>1 DEF Steps, Typed, Locals, FileClose
  <2>3. Simple(me[c])
    BY <1>4, IsSimple DEF FileClose, Apis
  <2>4. Holds(r) /\ Simple(r)
    BY <1>0, <1>4, <2>3 DEF FileClose, Simple, Holds, HoldsBuffer, OfFile, Apis, Locals
  <2> QED
    BY <1>0, <2>1, <2>2, <2>4, SimpleStep, Zenon
<1>5. CASE Finish(c)
  <2> DEFINE r == [me[c] EXCEPT !.pc = "idle"]
  <2>1. /\ r \in Locals /\ r.h = me[c].h /\ r.buf = me[c].buf /\ r.api = me[c].api
        /\ r.out = me[c].out /\ r.pc = "idle"
    BY <1>0 DEF Locals, Labels
  <2>2. me' = [me EXCEPT ![c] = r]
    BY <1>0, <1>5 DEF Typed, Locals, Finish, JumpTo
  <2>3. Holds(r) /\ r.got = r.seen
    BY <1>0, <1>5, IsSimple DEF Finish, Simple, Holds, HoldsBuffer, OfFile, Apis, Locals
  <2> HIDE DEF r
  <2> QED
    BY <1>0, <1>5, <2>1, <2>2, <2>3, SimpleChange, Zenon DEF Finish, Apis
<1> QED
  BY <1>1, <1>2, <1>3, <1>4, <1>5 DEF BackupStep, ReaderClose, WriterClose

(* A list that fits is returned whole.                                     *)
LEMMA ProcessHolds ==
  ASSUME Inductive, NEW c \in Callers, ProcessStep(c), UNCHANGED others
  PROVE  Inductive'
<1>0. /\ Typed /\ me[c] \in Locals /\ Holds(me[c])
      /\ UNCHANGED <<size, cap, text, pool, kind, acl, kept>>
  BY DEF Inductive, Typed, Local, ProcessStep, others
<1>1. ASSUME NEW api \in {"EnumProcesses", "ImageName"}, Begin(c, api) PROVE Inductive'
  <2> DEFINE r == [Caller EXCEPT !.api = api, !.n = FirstCount, !.pc = "ask"]
  <2>1. /\ r \in Locals /\ r.api = api /\ r.pc = "ask" /\ r.h = Nil /\ r.mem = {} /\ r.buf = Nil
        /\ r.flags = {} /\ r.got = r.seen /\ r.out = "none"
    BY SyscallsAssumption, Zenon DEF Locals, Caller, ApiNames, Labels, Results
  <2>2. me' = [me EXCEPT ![c] = r] /\ me[c].pc = "idle" /\ table' = table
    BY <1>1 DEF Begin
  <2> HIDE DEF r
  <2> QED
    BY <1>0, <2>1, <2>2, Starts, Zenon
<1>2. ASSUME me[c].api \in {"EnumProcesses", "ImageName"}, me[c].pc = "ask", UNCHANGED table
      PROVE  /\ Return(c, "error", "idle") => Inductive'
             /\ Double(c) => Inductive'
             /\ size <= me[c].n /\ Got(c) => Inductive'
  <2>0. Simple(me[c])
    BY <1>2, IsSimple
  <2>1. Return(c, "error", "idle") => Inductive'
    <3>1. Holds(Returned(c, "error", "idle"))
      BY <1>0, <1>2 DEF Holds, HoldsHandle, HoldsMemory, HoldsBuffer, Apis, Returned, Locals
    <3> QED
      BY <1>0, <1>2, <3>1, SimpleReturn DEF Labels
  <2>2. ASSUME Double(c) PROVE Inductive'
    <3> DEFINE r == [me[c] EXCEPT !.n = 2 * @]
    <3>1. /\ r \in Locals /\ r.h = me[c].h /\ r.buf = me[c].buf /\ r.api = me[c].api
          /\ r.out = me[c].out /\ r.pc = "ask"
      BY <1>0, <1>2 DEF Locals
    <3>2. me' = [me EXCEPT ![c] = r]
      BY <1>0, <2>2 DEF Typed, Locals, Double
    <3>3. Holds(r) /\ r.got = r.seen
      BY <1>0, <1>2, <2>0 DEF Simple, Holds, HoldsHandle, HoldsMemory, HoldsBuffer, Apis, Locals
    <3> HIDE DEF r
    <3> QED
      BY <1>0, <1>2, <3>1, <3>2, <3>3, SimpleChange, Zenon
  <2>3. ASSUME size <= me[c].n, Got(c) PROVE Inductive'
    <3>0. Filled(me[c].n) = size /\ size \in Nat
      <4>1. size \in Nat /\ me[c].n \in Nat
        BY <1>0, ZenonT(40) DEF Typed, Locals
      <4> QED
        BY <2>3, <4>1, FilledWhole, Zenon
    <3> DEFINE r == [me[c] EXCEPT !.seen = size, !.got = size, !.out = "done", !.pc = "idle"]
    <3>1. /\ r \in Locals /\ r.h = me[c].h /\ r.buf = me[c].buf /\ r.api = me[c].api
          /\ r.out = "done" /\ r.pc = "idle" /\ r.got = r.seen
      BY <1>0, <3>0, Zenon DEF Locals, Labels, Results
    <3>2. me' = [me EXCEPT ![c] = r]
      BY <1>0, <2>3, <3>0, Zenon DEF Typed, Locals, Got
    <3>3. Holds(r)
      BY <1>0, <1>2, <2>0 DEF Simple, Holds, HoldsHandle, HoldsMemory, HoldsBuffer, Apis, Locals
    <3> HIDE DEF r
    <3> QED
      BY <1>0, <1>2, <3>1, <3>2, <3>3, SimpleChange, Zenon
  <2> QED
    BY <2>1, <2>2, <2>3
<1>3. size \in Nat /\ me[c].n \in Nat
  BY <1>0 DEF Typed, Locals
<1>4. CASE EnumProcesses(c)
  <2>1. ~MayHaveMore(c) => size <= me[c].n
    BY <1>3 DEF MayHaveMore, Filled
  <2> QED
    BY <1>1, <1>2, <1>4, <2>1 DEF EnumProcesses, At
<1>5. CASE QueryFullProcessImageName(c)
  BY <1>1, <1>2, <1>3, <1>5 DEF QueryFullProcessImageName, At
<1> QED
  BY <1>4, <1>5 DEF ProcessStep

(* A name or a SID that has changed between the two calls is an error.     *)
LEMMA AccountHolds ==
  ASSUME Inductive, NEW c \in Callers, AccountStep(c), UNCHANGED others
  PROVE  Inductive'
<1>0. /\ Typed /\ me[c] \in Locals /\ Holds(me[c]) /\ size \in Nat /\ me[c].n \in Nat
      /\ UNCHANGED <<size, cap, text, pool, kind, acl, kept>>
  BY DEF Inductive, Typed, Locals, Local, AccountStep, others
<1>1. CASE LookupStarts(c)
  <2>1. CASE Call(c, "SidByName", "size") \/ Call(c, "NameBySid", "sid")
    BY <1>0, <2>1, CallStarts DEF ApiNames, Labels
  <2>2. CASE /\ me[c].pc = "idle" /\ UNCHANGED table
             /\ me' = [me EXCEPT ![c] = [Caller EXCEPT !.api = "SidByName", !.out = "error"]]
    <3> DEFINE r == [Caller EXCEPT !.api = "SidByName", !.out = "error"]
    <3>1. /\ r \in Locals /\ r.api = "SidByName" /\ r.pc = "idle" /\ r.h = Nil /\ r.mem = {}
          /\ r.buf = Nil /\ r.flags = {} /\ r.got = r.seen /\ r.out = "error"
      BY Zenon DEF Locals, Caller, ApiNames, Labels, Results
    <3>2. me' = [me EXCEPT ![c] = r]
      BY <2>2
    <3> HIDE DEF r
    <3> QED
      BY <1>0, <2>2, <3>1, <3>2, Starts, Zenon
  <2> QED
    BY <1>1, <2>1, <2>2 DEF LookupStarts
<1>2. ASSUME me[c].api \in {"SidByName", "NameBySid"}, UNCHANGED table, NEW label \in {"idle", "deferred"},
             Return(c, "error", label), label = "idle" => me[c].mem = {}, label = "deferred" => me[c].api = "NameBySid"
      PROVE  Inductive'
  <2>1. Holds(Returned(c, "error", label))
    BY <1>0, <1>2 DEF Holds, HoldsHandle, HoldsMemory, HoldsBuffer, Apis, Returned, Locals
  <2> QED
    BY <1>0, <1>2, <2>1, SimpleReturn DEF Labels
<1>3. CASE convertStringSidToSid(c)
  <2>1. CASE Return(c, "error", "idle")
    BY <1>0, <1>2, <1>3, <2>1 DEF convertStringSidToSid, At, Holds, HoldsMemory, Apis
  <2>2. CASE me' = [me EXCEPT ![c].mem = {"sid"}, ![c].pc = "size"]
    <3> DEFINE r == [me[c] EXCEPT !.mem = {"sid"}, !.pc = "size"]
    <3>1. /\ r \in Locals /\ r.h = me[c].h /\ r.buf = me[c].buf /\ r.api = me[c].api
          /\ r.out = me[c].out /\ r.pc = "size"
      BY <1>0, Zenon DEF Locals, Labels, Memory
    <3>2. me' = [me EXCEPT ![c] = r]
      BY <1>0, <2>2, Zenon DEF Typed, Locals
    <3>3. Holds(r) /\ r.got = r.seen
      BY <1>0, <1>3, IsSimple DEF convertStringSidToSid, At, Simple, Holds, HoldsHandle, HoldsMemory,
                                  HoldsBuffer, Apis, Locals
    <3> HIDE DEF r
    <3> QED
      BY <1>0, <1>3, <3>1, <3>2, <3>3, SimpleChange, Zenon DEF convertStringSidToSid, At
  <2> QED
    BY <1>3, <2>1, <2>2 DEF convertStringSidToSid
<1>4. CASE LookupSize(c) \/ Lookup(c)
  <2>0. /\ me[c].pc \in {"size", "lookup"} /\ me[c].api \in {"SidByName", "NameBySid"} /\ table' = table
        /\ me[c].api = "SidByName" => me[c].mem = {}
    BY <1>0, <1>4 DEF LookupSize, Lookup, Holds, HoldsMemory, Apis
  <2>1. CASE Fails(c)
    BY <1>2, <2>0, <2>1 DEF Fails
  <2>2. CASE me[c].pc = "size" /\ me' = [me EXCEPT ![c].n = size, ![c].pc = "lookup"]
    <3> DEFINE r == [me[c] EXCEPT !.n = size, !.pc = "lookup"]
    <3>1. /\ r \in Locals /\ r.h = me[c].h /\ r.buf = me[c].buf /\ r.api = me[c].api
          /\ r.out = me[c].out /\ r.pc = "lookup"
      BY <1>0, Zenon DEF Locals, Labels
    <3>2. me' = [me EXCEPT ![c] = r]
      BY <1>0, <2>2 DEF Typed, Locals
    <3>3. Holds(r) /\ r.got = r.seen
      BY <1>0, <2>0, <2>2, IsSimple DEF Simple, Holds, HoldsHandle, HoldsMemory, HoldsBuffer, Apis, Locals
    <3> HIDE DEF r
    <3> QED
      BY <1>0, <2>0, <3>1, <3>2, <3>3, SimpleChange, Zenon
  <2>3. CASE LookupFits(c) /\ me[c].api = "SidByName"
             /\ me' = [me EXCEPT ![c].seen = size, ![c].got = Filled(me[c].n), ![c].pc = "convert"]
    <3>0. Filled(me[c].n) = size
      BY <1>0, <2>3 DEF Filled, LookupFits
    <3> DEFINE r == [me[c] EXCEPT !.seen = size, !.got = size, !.pc = "convert"]
    <3>1. /\ r \in Locals /\ r.h = me[c].h /\ r.buf = me[c].buf /\ r.api = me[c].api
          /\ r.out = me[c].out /\ r.pc = "convert" /\ r.got = r.seen
      BY <1>0, Zenon DEF Locals, Labels
    <3>2. me' = [me EXCEPT ![c] = r]
      BY <1>0, <2>3, <3>0, Zenon DEF Typed, Locals
    <3>3. Holds(r)
      BY <1>0, <2>0, <2>3 DEF Holds, HoldsHandle, HoldsMemory, HoldsBuffer, Apis, Locals
    <3> HIDE DEF r
    <3> QED
      BY <1>0, <2>0, <3>1, <3>2, <3>3, SimpleChange, Zenon
  <2>4. CASE LookupFits(c) /\ me[c].api = "NameBySid"
             /\ me' = [me EXCEPT ![c].seen = size, ![c].got = Filled(me[c].n), ![c].out = "done",
                                 ![c].pc = "deferred"]
    <3>0. Filled(me[c].n) = size
      BY <1>0, <2>4 DEF Filled, LookupFits
    <3> DEFINE r == [me[c] EXCEPT !.seen = size, !.got = size, !.out = "done", !.pc = "deferred"]
    <3>1. /\ r \in Locals /\ r.h = me[c].h /\ r.buf = me[c].buf /\ r.api = me[c].api
          /\ r.out = "done" /\ r.pc = "deferred" /\ r.got = r.seen
      BY <1>0, Zenon DEF Locals, Labels, Results
    <3>2. me' = [me EXCEPT ![c] = r]
      BY <1>0, <2>4, <3>0, Zenon DEF Typed, Locals
    <3>3. Holds(r)
      BY <1>0, <2>0, <2>4 DEF Holds, HoldsHandle, HoldsMemory, HoldsBuffer, Apis, Locals
    <3> HIDE DEF r
    <3> QED
      BY <1>0, <2>0, <3>1, <3>2, <3>3, SimpleChange, Zenon
  <2> QED
    BY <1>4, <2>1, <2>2, <2>3, <2>4 DEF LookupSize, Lookup
<1>5. CASE convertSidToStringSid(c)
  <2>0. me[c].api = "SidByName" /\ me[c].pc \in {"convert", "free"} /\ table' = table
    BY <1>5 DEF convertSidToStringSid, At
  <2>1. CASE At(c, "SidByName", "convert") /\ Fails(c)
    BY <1>0, <1>2, <2>0, <2>1 DEF Fails, At, Holds, HoldsMemory, Apis
  <2>2. ASSUME NEW m \in {{}, {"string"}}, NEW label \in {"idle", "free"}, label = "idle" => m = {},
               NEW out, out = "done" \/ out = me[c].out,
               me' = [me EXCEPT ![c].mem = m, ![c].out = out, ![c].pc = label]
        PROVE  Inductive'
    <3> DEFINE r == [me[c] EXCEPT !.mem = m, !.out = out, !.pc = label]
    <3>1. /\ r \in Locals /\ r.h = me[c].h /\ r.buf = me[c].buf /\ r.api = me[c].api
          /\ r.out = out /\ r.pc = label
      <4>1. m \in SUBSET Memory /\ label \in Labels
        BY <2>2 DEF Memory, Labels
      <4>2. out \in Results
        BY <1>0, <2>2 DEF Locals, Results
      <4> QED
        BY <1>0, <4>1, <4>2, Zenon DEF Locals
    <3>2. me' = [me EXCEPT ![c] = r]
      BY <1>0, <2>2, Zenon DEF Typed, Locals
    <3>3. Holds(r) /\ r.got = r.seen
      BY <1>0, <2>0, <2>2, IsSimple DEF Simple, Holds, HoldsHandle, HoldsMemory, HoldsBuffer, Apis, Locals
    <3> HIDE DEF r
    <3> QED
      BY <1>0, <2>0, <2>2, <3>1, <3>2, <3>3, SimpleChange, Zenon
  <2>3. CASE me' = [me EXCEPT ![c].mem = {"string"}, ![c].pc = "free"]
    <3>1. me' = [me EXCEPT ![c].mem = {"string"}, ![c].out = me[c].out, ![c].pc = "free"]
      BY <1>0, <2>3, Zenon DEF Typed, Locals
    <3> QED
      BY <2>2, <3>1, Zenon
  <2>4. CASE me' = [me EXCEPT ![c].mem = {}, ![c].out = "done", ![c].pc = "idle"]
    BY <2>2, <2>4, Zenon
  <2> QED
    BY <1>5, <2>1, <2>3, <2>4 DEF convertSidToStringSid
<1>6. CASE LookupReturns(c)
  <2> DEFINE r == [me[c] EXCEPT !.mem = {}, !.pc = "idle"]
  <2>1. /\ r \in Locals /\ r.h = me[c].h /\ r.buf = me[c].buf /\ r.api = me[c].api
        /\ r.out = me[c].out /\ r.pc = "idle"
    BY <1>0, Zenon DEF Locals, Labels
  <2>2. me' = [me EXCEPT ![c] = r]
    BY <1>0, <1>6, Zenon DEF Typed, Locals, LookupReturns
  <2>3. Holds(r) /\ r.got = r.seen
    BY <1>0, <1>6, IsSimple
       DEF LookupReturns, At, Simple, Holds, HoldsHandle, HoldsMemory, HoldsBuffer, Apis, Locals
  <2> HIDE DEF r
  <2> QED
    BY <1>0, <1>6, <2>1, <2>2, <2>3, SimpleChange, Zenon DEF LookupReturns, At
<1> QED
  BY <1>1, <1>3, <1>4, <1>5, <1>6 DEF AccountStep

-----------------------------------------------------------------------------
(* GrantVmGroupAccess sets the list that it has read, with one entry more. *)
LEMMA GrantReturn ==
  ASSUME Inductive, NEW c \in Callers, me[c].api = "Grant", NEW r, Steps(c, r),
         r.api = "Grant", r.buf = me[c].buf, r.got = me[c].got, r.seen = me[c].seen,
         r.out \notin {"notFound", "denied"} \/ r.out = me[c].out,
         r.pc \in {"idle", "create", "get", "deferred"}, Holds(r),
         UNCHANGED <<size, cap, text, pool, kind>>, acl' \in SUBSET Flags,
         kept' \subseteq acl', kept' \subseteq kept \cup {"vm"}
  PROVE  Inductive'
<1>1. me'[c] = r /\ Local(c) /\ kind' = kind
  <2>1. me'[c] = r
    BY StepOfOne, Zenon
  <2>2. Local(c)
    BY Zenon DEF Inductive
  <2>3. kind' = kind
    OBVIOUS
  <2> QED
    BY <2>1, <2>2, <2>3, Zenon
<1>2. Holds(me[c])'
  BY <1>1, ZenonT(40) DEF Holds, HoldsHandle, HoldsBuffer, HoldsMemory, OfFile
<1>3. WholeOf(c)'
  BY <1>1, Zenon DEF Local, WholeOf, HoldsBuffer
<1>4. AttemptsOf(c)' /\ GrantOf(c)'
  BY <1>1 DEF Local, AttemptsOf, GrantOf
<1> QED
  BY <1>2, <1>3, <1>4, ListStep DEF Local

(* The functions of the security package: the list set is the one read and *)
(* the entry of the group.                                                 *)
LEMMA VmGroupHolds ==
  ASSUME Inductive, NEW c \in Callers, VmGroupStep(c), UNCHANGED <<cap, text, pool, kind>>
  PROVE  Inductive'
<1>0. /\ Typed /\ me[c] \in Locals /\ Holds(me[c]) /\ GrantOf(c) /\ kept \subseteq acl
      /\ acl \in SUBSET Flags /\ UNCHANGED <<size, cap, text, pool, kind>>
  BY DEF Inductive, Typed, Local, GrantKeepsEntries, VmGroupStep
<1>1. CASE Call(c, "Grant", "stat") /\ UNCHANGED <<acl, kept>>
  BY <1>0, <1>1, CallStarts, ZenonT(40) DEF ApiNames, Labels
<1>2. ASSUME me[c].api = "Grant", UNCHANGED <<table, acl, kept>>, Return(c, "error", "deferred"), me[c].h # Nil
      PROVE  Inductive'
  <2> DEFINE r == Returned(c, "error", "deferred")
  <2>1. Holds(r) /\ r.api = "Grant" /\ r.pc = "deferred" /\ r.buf = me[c].buf /\ r.out = "error"
        /\ r.got = me[c].got /\ r.seen = me[c].seen
    BY <1>0, <1>2, ZenonT(40) DEF Holds, HoldsHandle, HoldsMemory, HoldsBuffer, Apis, Returned, Locals
  <2>2. Steps(c, r)
    BY <1>0, <1>2, Returns DEF Labels, Results
  <2> QED
    BY <1>0, <1>2, <2>1, <2>2, GrantReturn
<1>3. ASSUME At(c, "Grant", "stat"), UNCHANGED <<table, acl, kept>>,
             JumpTo(c, "create") \/ Return(c, "error", "idle")
      PROVE  Inductive'
  <2>1. CASE JumpTo(c, "create")
    <3> DEFINE r == [me[c] EXCEPT !.pc = "create"]
    <3>1. Holds(r) /\ r.api = "Grant" /\ r.pc = "create" /\ r.buf = me[c].buf /\ r.out = me[c].out
          /\ r.got = me[c].got /\ r.seen = me[c].seen
      BY <1>0, <1>3 DEF At, Holds, HoldsHandle, HoldsMemory, HoldsBuffer, Apis, Locals
    <3>2. Steps(c, r)
      BY <1>0, <1>3, <2>1, Jumps, Zenon DEF Labels
    <3> HIDE DEF r
    <3> QED
      BY <1>0, <1>3, <3>1, <3>2, GrantReturn DEF At
  <2>2. CASE Return(c, "error", "idle")
    <3> DEFINE r == Returned(c, "error", "idle")
    <3>1. Holds(r) /\ r.api = "Grant" /\ r.pc = "idle" /\ r.buf = me[c].buf /\ r.out = "error"
          /\ r.got = me[c].got /\ r.seen = me[c].seen
      BY <1>0, <1>3 DEF At, Holds, HoldsHandle, HoldsMemory, HoldsBuffer, Apis, Returned, Locals
    <3>2. Steps(c, r)
      BY <1>0, <1>3, <2>2, Returns DEF Labels, Results
    <3> HIDE DEF r
    <3> QED
      BY <1>0, <1>3, <3>1, <3>2, GrantReturn DEF At
  <2> QED
    BY <1>3, <2>1, <2>2, ZenonT(40)
<1>4. CASE createFile(c) /\ UNCHANGED <<acl, kept>>
  <2>0. me[c].api = "Grant" /\ me[c].h = Nil
    BY <1>0, <1>4 DEF createFile, At, Holds, HoldsHandle, Apis
  <2>1. CASE Steps(c, Returned(c, "error", "idle"))
    <3> DEFINE r == Returned(c, "error", "idle")
    <3>1. Holds(r) /\ r.api = "Grant" /\ r.pc = "idle" /\ r.buf = me[c].buf /\ r.out = "error"
          /\ r.got = me[c].got /\ r.seen = me[c].seen
      BY <1>0, <1>4, <2>0 DEF createFile, At, Holds, HoldsHandle, HoldsMemory, HoldsBuffer, Apis, Returned, Locals
    <3> QED
      BY <1>0, <1>4, <2>0, <2>1, <3>1, GrantReturn
  <2>2. ASSUME NEW k \in Handles, Steps(c, Opened(c, k, "get")) PROVE Inductive'
    <3> DEFINE r == Opened(c, k, "get")
    <3>1. Holds(r) /\ r.api = "Grant" /\ r.pc = "get" /\ r.buf = me[c].buf /\ r.out = me[c].out
          /\ r.got = me[c].got /\ r.seen = me[c].seen
      BY <1>0, <1>4, <2>0, SyscallsAssumption
         DEF createFile, At, Holds, HoldsHandle, HoldsMemory, HoldsBuffer, Apis, Opened, Locals
    <3> QED
      BY <1>0, <1>4, <2>0, <2>2, <3>1, GrantReturn
  <2> QED
    BY <1>0, <1>4, <2>0, <2>1, <2>2, Opens, Zenon DEF createFile, Labels
<1>5. ASSUME me[c].api = "Grant", me[c].h # Nil, UNCHANGED <<table, acl, kept>>,
             NEW m \in SUBSET Memory, NEW flags \in SUBSET Flags, NEW label \in {"generate", "set"},
             me' = [me EXCEPT ![c].mem = m, ![c].flags = flags, ![c].pc = label],
             kept \subseteq flags, label = "set" => "vm" \in flags, me[c].pc # "string"
      PROVE  Inductive'
  <2> DEFINE r == [me[c] EXCEPT !.mem = m, !.flags = flags, !.pc = label]
  <2>1. /\ r \in Locals /\ r.h = me[c].h /\ r.buf = me[c].buf /\ r.api = "Grant" /\ r.out = me[c].out
        /\ r.pc = label /\ r.flags = flags /\ r.got = me[c].got /\ r.seen = me[c].seen
    BY <1>0, <1>5, Zenon DEF Locals, Labels
  <2>2. me' = [me EXCEPT ![c] = r]
    BY <1>0, <1>5, Zenon DEF Typed, Locals
  <2>3. Holds(r)
    BY <1>0, <1>5 DEF Holds, HoldsHandle, HoldsMemory, HoldsBuffer, Apis, Locals
  <2> HIDE DEF r
  <2>4. Steps(c, r) /\ me'[c] = r /\ kind' = kind /\ Local(c)
    BY <1>0, <1>5, <2>1, <2>2, Becomes, Zenon DEF Steps, Inductive
  <2>5. Holds(me[c])'
    BY <2>3, <2>4, Zenon DEF Holds, HoldsHandle, HoldsBuffer, HoldsMemory, OfFile
  <2>6. WholeOf(c)' /\ GrantOf(c)'
    BY <1>5, <2>1, <2>4, Zenon DEF Local, WholeOf, GrantOf
  <2>7. AttemptsOf(c)'
    BY <1>5, <2>1, <2>4, Zenon DEF Local, AttemptsOf
  <2> QED
    BY <1>0, <1>5, <2>1, <2>4, <2>5, <2>6, <2>7, PlainStep, Zenon DEF Local
<1>6. CASE getSecurityInfo(c) /\ UNCHANGED <<acl, kept>>
  <2>0. me[c].api = "Grant" /\ me[c].h # Nil /\ me[c].pc = "get" /\ table' = table
    BY <1>0, <1>6 DEF getSecurityInfo, At, Holds, HoldsHandle, Apis
  <2>1. CASE Return(c, "error", "deferred")
    BY <1>2, <1>6, <2>0, <2>1
  <2>2. CASE me' = [me EXCEPT ![c].mem = {"sd"}, ![c].flags = acl, ![c].pc = "generate"]
    BY <1>0, <1>5, <1>6, <2>0, <2>2, Zenon DEF Memory
  <2> QED
    BY <1>6, <2>1, <2>2 DEF getSecurityInfo
<1>7. CASE generateDACLWithAcesAdded(c) /\ UNCHANGED <<acl, kept>>
  <2>0. me[c].api = "Grant" /\ me[c].h # Nil /\ me[c].pc = "generate" /\ table' = table
    BY <1>0, <1>7 DEF generateDACLWithAcesAdded, At, Holds, HoldsHandle, Apis
  <2>1. CASE Return(c, "error", "deferred")
    BY <1>2, <1>7, <2>0, <2>1
  <2>2. CASE me' = [me EXCEPT ![c].mem = @ \cup {"dacl"}, ![c].flags = NewDACL(@), ![c].pc = "set"]
    <3>1. /\ me[c].mem \cup {"dacl"} \in SUBSET Memory /\ me[c].flags \cup {"vm"} \in SUBSET Flags
          /\ kept \subseteq me[c].flags \cup {"vm"}
      BY <1>0, <2>0 DEF Locals, Memory, Flags, GrantOf
    <3>2. me' = [me EXCEPT ![c].mem = me[c].mem \cup {"dacl"}, ![c].flags = me[c].flags \cup {"vm"}, ![c].pc = "set"]
      BY <1>0, <2>2 DEF NewDACL, Typed, Locals
    <3> QED
      BY <1>5, <1>7, <2>0, <3>1, <3>2, Zenon
  <2> QED
    BY <1>7, <2>1, <2>2 DEF generateDACLWithAcesAdded
<1>8. CASE setSecurityInfo(c)
  <2>0. /\ me[c].api = "Grant" /\ me[c].h # Nil /\ table' = table
        /\ kept \cup {"vm"} \subseteq me[c].flags /\ me[c].flags \in SUBSET Flags
    BY <1>0, <1>8 DEF setSecurityInfo, At, Holds, HoldsHandle, Apis, GrantOf, Locals
  <2>1. CASE Return(c, "error", "deferred") /\ UNCHANGED <<acl, kept>>
    BY <1>2, <2>0, <2>1
  <2>2. CASE acl' = me[c].flags /\ kept' = kept \cup {"vm"} /\ Return(c, "done", "deferred")
    <3> DEFINE r == Returned(c, "done", "deferred")
    <3>1. Holds(r) /\ r.api = "Grant" /\ r.pc = "deferred" /\ r.buf = me[c].buf /\ r.out = "done"
          /\ r.got = me[c].got /\ r.seen = me[c].seen
      BY <1>0, <2>0, ZenonT(40) DEF Holds, HoldsHandle, HoldsMemory, HoldsBuffer, Apis, Returned, Locals
    <3>2. Steps(c, r)
      BY <1>0, <2>0, <2>2, Returns DEF Labels, Results
    <3> QED
      BY <1>0, <2>0, <2>2, <3>1, <3>2, GrantReturn
  <2> QED
    BY <1>8, <2>1, <2>2, ZenonT(40) DEF setSecurityInfo
<1>9. CASE GrantReturns(c) /\ UNCHANGED <<acl, kept>>
  <2>0. me[c].api = "Grant" /\ me[c].pc = "deferred"
    BY <1>9 DEF GrantReturns, At
  <2>1. CASE me[c].mem = {} /\ CloseHandle(c, "idle")
    <3> DEFINE r == Closed(c, "idle")
    <3>1. Holds(r) /\ r.api = "Grant" /\ r.pc = "idle" /\ r.buf = me[c].buf /\ r.out = me[c].out
          /\ r.got = me[c].got /\ r.seen = me[c].seen
      BY <1>0, <2>0, <2>1 DEF Holds, HoldsHandle, HoldsMemory, HoldsBuffer, Apis, Closed, Locals
    <3>2. Steps(c, r)
      BY <1>0, <2>1, Closes DEF Labels
    <3> QED
      BY <1>0, <1>9, <2>0, <3>1, <3>2, GrantReturn
  <2>2. ASSUME NEW what, LocalFree(c, what) PROVE Inductive'
    <3> DEFINE r == [me[c] EXCEPT !.mem = @ \ {what}]
    <3>1. /\ r \in Locals /\ r.h = me[c].h /\ r.api = "Grant" /\ r.pc = "deferred" /\ r.buf = me[c].buf
          /\ r.out = me[c].out /\ r.got = me[c].got /\ r.seen = me[c].seen
      BY <1>0, <2>0 DEF Locals
    <3>2. Holds(r)
      BY <1>0, <2>0 DEF Holds, HoldsHandle, HoldsMemory, HoldsBuffer, Apis, Locals
    <3>3. me' = [me EXCEPT ![c] = r] /\ table' = table
      BY <1>0, <2>2 DEF Typed, Locals, LocalFree
    <3> HIDE DEF r
    <3>4. Steps(c, r)
      BY <1>0, <3>1, <3>3, Becomes, Zenon
    <3> QED
      BY <1>0, <1>9, <2>0, <3>1, <3>2, <3>4, GrantReturn
  <2> QED
    BY <1>9, <2>1, <2>2 DEF GrantReturns
<1> QED
  BY <1>1, <1>3, <1>4, <1>6, <1>7, <1>8, <1>9 DEF VmGroupStep, Stat

-----------------------------------------------------------------------------
(* GetBindMappings returns the errors of a path that it cannot get around. *)
LEMMA MappingStep ==
  ASSUME Inductive, NEW c \in Callers, me[c].api = "Mappings", NEW r, Steps(c, r), Holds(r),
         r.api = "Mappings", r.buf = me[c].buf, r.pc # "string", r.got = r.seen,
         \/ r.out \notin {"notFound", "denied"}
         \/ r.out = me[c].out
         \/ r.out = "notFound" /\ kind = "gone"
         \/ r.out = "denied" /\ kind = "restricted",
         r.pc = "query" /\ "guid" \in r.flags => kind \in {"noLetter", "gone"},
         UNCHANGED <<size, cap, text, pool, kind, acl, kept>>
  PROVE  Inductive'
<1>1. me'[c] = r /\ Local(c) /\ kind' = kind
  BY DEF Steps, Inductive
<1>2. Holds(me[c])'
  BY <1>1, Zenon DEF Holds, HoldsHandle, HoldsBuffer, HoldsMemory, OfFile
<1>3. WholeOf(c)' /\ GrantOf(c)'
  BY <1>1, ZenonT(40) DEF WholeOf, GrantOf
<1>4. AttemptsOf(c)'
  BY <1>1 DEF Local, AttemptsOf
<1> QED
  BY <1>2, <1>3, <1>4, PlainStep DEF Local

(* The functions of the bindfilter package: each attempt of getFinalPath   *)
(* narrows the kind of the file.                                           *)
LEMMA BindHolds ==
  ASSUME Inductive, NEW c \in Callers, BindStep(c), UNCHANGED <<acl, kept>>
  PROVE  Inductive'
<1>0. /\ Typed /\ me[c] \in Locals /\ Holds(me[c]) /\ WholeOf(c) /\ AttemptsOf(c)
      /\ size \in Nat /\ me[c].n \in Nat
      /\ UNCHANGED <<size, cap, text, pool, kind, acl, kept>>
  BY DEF Inductive, Typed, Local, Locals, BindStep
<1>1. CASE ApplyFileBinding(c) \/ RemoveFileBinding(c)
  <2>1. CASE Call(c, "Apply", "mkdir") \/ Call(c, "Remove", "remove")
    BY <1>0, <2>1, CallStarts, ZenonT(40) DEF ApiNames, Labels
  <2>2. ASSUME me[c].api \in {"Apply", "Remove"}, UNCHANGED table, NEW out \in {"done", "error"},
               Return(c, out, "idle"), me[c].h = Nil, me[c].mem = {}
        PROVE  Inductive'
    <3>1. Holds(Returned(c, out, "idle"))
      BY <1>0, <2>2, ZenonT(40) DEF Holds, HoldsHandle, HoldsMemory, HoldsBuffer, Apis, Returned, Locals
    <3> QED
      BY <1>0, <2>2, <3>1, SimpleReturn DEF Labels
  <2>3. me[c].api \in {"Apply", "Remove"} => me[c].h = Nil /\ me[c].mem = {}
    BY <1>0 DEF Holds, HoldsHandle, HoldsMemory, Apis
  <2>4. CASE At(c, "Apply", "mkdir") /\ JumpTo(c, "setup") /\ UNCHANGED table
    <3> DEFINE r == [me[c] EXCEPT !.pc = "setup"]
    <3>1. Steps(c, r) /\ Simple(me[c])
      BY <1>0, <2>4, Jumps, IsSimple, Zenon DEF At, Labels
    <3>2. Holds(r) /\ Simple(r) /\ r.buf = me[c].buf /\ r.out = me[c].out /\ r.api = me[c].api
      BY <1>0, <2>4, <3>1, ZenonT(40) DEF At, Simple, Holds, HoldsHandle, HoldsMemory, HoldsBuffer, Apis, Locals
    <3> QED
      BY <1>0, <3>1, <3>2, SimpleStep, Zenon
  <2> QED
    BY <1>1, <2>1, <2>2, <2>3, <2>4, ZenonT(40) DEF ApplyFileBinding, RemoveFileBinding, At
<1>2. ASSUME me[c].api = "Mappings", NEW out \in {"done", "error"}, me[c].h = Nil, me[c].pc \in {"list", "path"},
             Return(c, out, "idle"), UNCHANGED table
      PROVE  Inductive'
  <2> DEFINE r == Returned(c, out, "idle")
  <2>1. Holds(r) /\ r.api = "Mappings" /\ r.buf = me[c].buf /\ r.pc = "idle" /\ r.out = out /\ r.got = r.seen
    BY <1>0, <1>2 DEF Holds, HoldsHandle, HoldsMemory, HoldsBuffer, Apis, Returned, Locals, WholeOf
  <2>2. Steps(c, r)
    BY <1>0, <1>2, Returns, Zenon DEF Labels, Results
  <2> HIDE DEF r
  <2> QED
    BY <1>0, <1>2, <2>1, <2>2, MappingStep
<1>3. CASE bfGetMappings(c)
  <2>1. CASE Call(c, "Mappings", "list")
    BY <1>0, <2>1, CallStarts, ZenonT(40) DEF ApiNames, Labels
  <2>2. ASSUME At(c, "Mappings", "list") PROVE me[c].h = Nil /\ me[c].mem = {}
    BY <1>0, <2>2, ZenonT(40) DEF At, Holds, HoldsHandle, HoldsMemory, Apis
  <2>3. CASE At(c, "Mappings", "list") /\ JumpTo(c, "path") /\ UNCHANGED table
    <3> DEFINE r == [me[c] EXCEPT !.pc = "path"]
    <3>1. Steps(c, r)
      BY <1>0, <2>3, Jumps, Zenon DEF At, Labels
    <3>2. /\ Holds(r) /\ r.api = "Mappings" /\ r.buf = me[c].buf /\ r.pc = "path" /\ r.out = me[c].out
          /\ r.got = r.seen
      BY <1>0, <2>2, <2>3 DEF At, Holds, HoldsHandle, HoldsMemory, HoldsBuffer, Apis, Locals, WholeOf
    <3> HIDE DEF r
    <3> QED
      BY <1>0, <2>3, <3>1, <3>2, MappingStep DEF At
  <2> QED
    BY <1>2, <1>3, <2>1, <2>2, <2>3, Zenon DEF bfGetMappings, At
<1>4. CASE openPath(c)
  <2>0. me[c].api = "Mappings" /\ me[c].pc = "path" /\ me[c].h = Nil /\ me[c].mem = {}
    BY <1>0, <1>4, Zenon DEF openPath, At, Holds, HoldsHandle, HoldsMemory, Apis
  <2>1. CASE Return(c, "error", "idle") /\ UNCHANGED table
    BY <1>2, <2>0, <2>1
  <2>2. ASSUME NEW k \in Handles, table[k] = Nil, table' = [table EXCEPT ![k] = c],
               me' = [me EXCEPT ![c].h = k, ![c].n = FirstPath, ![c].flags = {}, ![c].pc = "query"]
        PROVE  Inductive'
    <3> DEFINE r == [me[c] EXCEPT !.h = k, !.n = FirstPath, !.flags = {}, !.pc = "query"]
    <3>1. /\ r \in Locals /\ r.h = k /\ r.api = "Mappings" /\ r.buf = me[c].buf /\ r.pc = "query"
          /\ r.out = me[c].out /\ r.flags = {} /\ r.mem = {} /\ r.got = r.seen
      BY <1>0, <2>0, SyscallsAssumption, ZenonT(40) DEF Locals, Labels, WholeOf
    <3>2. me' = [me EXCEPT ![c] = r]
      BY <1>0, <2>2, Zenon DEF Typed, Locals
    <3> HIDE DEF r
    <3>3. Holds(r)
      BY <1>0, <2>0, <3>1, SyscallsAssumption, Zenon DEF Holds, HoldsHandle, HoldsBuffer, Apis
    <3>4. Steps(c, r)
      <4>1. /\ me' \in [Callers -> Locals] /\ me'[c] = r
            /\ \A d \in Callers \ {c} : me'[d] = me[d]
        BY <1>0, <3>1, <3>2, Zenon DEF Typed
      <4> QED
        BY <2>0, <2>2, <3>1, <4>1, Zenon DEF Steps
    <3> QED
      BY <1>0, <2>0, <3>1, <3>3, <3>4, MappingStep
  <2> QED
    BY <1>4, <2>1, <2>2, Zenon DEF openPath
<1>5. ASSUME me[c].api = "Mappings", me[c].pc = "query", UNCHANGED table,
             NEW r \in Locals, me' = [me EXCEPT ![c] = r], r.api = "Mappings", r.h = me[c].h, r.mem = me[c].mem,
             r.buf = me[c].buf, r.pc \in {"query", "deferred"}, r.got = r.seen,
             \/ r.out \notin {"notFound", "denied"}
             \/ r.out = me[c].out
             \/ r.out = "notFound" /\ kind = "gone"
             \/ r.out = "denied" /\ kind = "restricted",
             r.pc = "query" /\ "guid" \in r.flags => kind \in {"noLetter", "gone"}
      PROVE  Inductive'
  <2>1. Holds(r)
    BY <1>0, <1>5, Zenon DEF Holds, HoldsHandle, HoldsMemory, HoldsBuffer, Apis
  <2>2. Steps(c, r)
    BY <1>0, <1>5, Becomes, Zenon
  <2> QED
    BY <1>0, <1>5, <2>1, <2>2, MappingStep, Zenon
<1>6. CASE getFinalPath(c)
  <2>0. me[c].api = "Mappings" /\ me[c].pc = "query" /\ table' = table /\ me[c].got = me[c].seen
    BY <1>0, <1>6 DEF getFinalPath, At, WholeOf
  <2>1. ASSUME NEW err \in Errors(me[c].flags \cup {"normalize"}), AskGuid(c, err),
               me' = [me EXCEPT ![c].flags = {"guid"}]
        PROVE  Inductive'
    <3> DEFINE r == [me[c] EXCEPT !.flags = {"guid"}]
    <3>1. /\ r \in Locals /\ r.api = "Mappings" /\ r.h = me[c].h /\ r.mem = me[c].mem /\ r.buf = me[c].buf
          /\ r.pc = "query" /\ r.got = r.seen /\ r.out = me[c].out
      BY <1>0, <2>0 DEF Locals, Flags
    <3>2. me' = [me EXCEPT ![c] = r]
      BY <1>0, <2>1 DEF Typed, Locals
    <3>3. kind \in {"noLetter", "gone"}
      BY <2>1 DEF AskGuid, Errors, KindErrors
    <3> HIDE DEF r
    <3> QED
      BY <1>5, <2>0, <3>1, <3>2, <3>3, Zenon
  <2>2. ASSUME NEW err \in Errors(me[c].flags \cup {"normalize"}), ~AskGuid(c, err),
               Return(c, err, "deferred")
        PROVE  Inductive'
    <3>0. /\ err \in Results
          /\ err = "notFound" => kind = "gone"
          /\ err = "denied" => kind = "restricted"
      BY <1>0, <2>0, <2>2 DEF AskGuid, Errors, KindErrors, Results, AttemptsOf
    <3> DEFINE r == Returned(c, err, "deferred")
    <3>1. /\ r \in Locals /\ r.api = "Mappings" /\ r.h = me[c].h /\ r.mem = me[c].mem /\ r.buf = me[c].buf
          /\ r.pc = "deferred" /\ r.got = r.seen /\ r.out = err
      BY <1>0, <2>0, <3>0, Zenon DEF Locals, Labels, Returned
    <3>2. me' = [me EXCEPT ![c] = r]
      BY <1>0, <2>2, Zenon DEF Typed, Locals, Return, Returned
    <3> HIDE DEF r
    <3> QED
      BY <1>5, <2>0, <3>0, <3>1, <3>2, Zenon
  <2>3. CASE me' = [me EXCEPT ![c].n = size + 1]
    <3> DEFINE r == [me[c] EXCEPT !.n = size + 1]
    <3>1. /\ r \in Locals /\ r.api = "Mappings" /\ r.h = me[c].h /\ r.mem = me[c].mem /\ r.buf = me[c].buf
          /\ r.pc = "query" /\ r.got = r.seen /\ r.out = me[c].out /\ r.flags = me[c].flags
      BY <1>0, <2>0 DEF Locals
    <3>2. me' = [me EXCEPT ![c] = r]
      BY <1>0, <2>3, ZenonT(40) DEF Typed, Locals
    <3>3. "guid" \in me[c].flags => kind \in {"noLetter", "gone"}
      BY <1>0, <2>0 DEF AttemptsOf
    <3> HIDE DEF r
    <3> QED
      BY <1>5, <2>0, <3>1, <3>2, <3>3, Zenon
  <2>4. CASE /\ size < me[c].n
             /\ me' = [me EXCEPT ![c].seen = size, ![c].got = Filled(me[c].n), ![c].out = "done",
                                 ![c].pc = "deferred"]
    <3>0. Filled(me[c].n) = size
      BY <1>0, <2>4 DEF Filled
    <3> DEFINE r == [me[c] EXCEPT !.seen = size, !.got = size, !.out = "done", !.pc = "deferred"]
    <3>1. /\ r \in Locals /\ r.api = "Mappings" /\ r.h = me[c].h /\ r.mem = me[c].mem /\ r.buf = me[c].buf
          /\ r.pc = "deferred" /\ r.got = r.seen /\ r.out = "done"
      BY <1>0, <2>0, Zenon DEF Locals, Labels, Results
    <3>2. me' = [me EXCEPT ![c] = r]
      BY <1>0, <2>4, <3>0, Zenon DEF Typed, Locals
    <3> HIDE DEF r
    <3> QED
      BY <1>5, <2>0, <3>1, <3>2, Zenon
  <2> QED
    BY <1>6, <2>1, <2>2, <2>3, <2>4, Zenon DEF getFinalPath
<1>7. CASE NextMapping(c)
  <2>1. PICK label \in {"idle", "path"} : CloseHandle(c, label)
    BY <1>7 DEF NextMapping
  <2> DEFINE r == Closed(c, label)
  <2>0. me[c].api = "Mappings" /\ me[c].pc = "deferred" /\ me[c].mem = {} /\ me[c].got = me[c].seen
    BY <1>0, <1>7, Zenon DEF NextMapping, At, Holds, HoldsMemory, Apis, WholeOf
  <2>2. /\ r.api = "Mappings" /\ r.h = Nil /\ r.mem = {} /\ r.buf = me[c].buf /\ r.pc = label
        /\ r.got = r.seen /\ r.out = me[c].out
    BY <1>0, <2>0, <2>1 DEF Locals, Closed
  <2>3. Steps(c, r)
    BY <1>0, <2>1, Closes DEF Labels
  <2> HIDE DEF r
  <2>4. Holds(r)
    BY <1>0, <1>7, <2>2, Zenon DEF NextMapping, At, Holds, HoldsHandle, HoldsBuffer, Apis
  <2> QED
    BY <1>0, <1>7, <2>2, <2>3, <2>4, MappingStep DEF NextMapping, At
<1> QED
  BY <1>1, <1>3, <1>4, <1>6, <1>7 DEF BindStep

-----------------------------------------------------------------------------
(* Strings are written to buffers of the caller's own.                     *)

(* There are more buffers than callers, so one of them is not in use.      *)
LEMMA FreshIsUnused ==
  ASSUME Typed
  PROVE  Fresh \subseteq Unused
<1>1. Unused # {}
  <2> SUFFICES ASSUME Unused = {} PROVE FALSE
    OBVIOUS
  <2>1. \A b \in Buffers : \E c \in Callers : me[c].buf = b
    BY DEF Unused
  <2> DEFINE Holder(b) == CHOOSE c \in Callers : me[c].buf = b
             f == [b \in Buffers |-> Holder(b)]
  <2>a. \A b \in Buffers : Holder(b) \in Callers /\ me[Holder(b)].buf = b
    BY <2>1, Zenon
  <2> HIDE DEF Holder
  <2>2. f \in [Buffers -> Callers] /\ \A b \in Buffers : me[f[b]].buf = b
    BY <2>a
  <2> HIDE DEF f
  <2>3. \E x, y \in Buffers : x # y /\ f[x] = f[y]
    BY <2>2, BuffersAssumption
  <2> QED
    BY <2>2, <2>3
<1>2. \E b \in Unused : b \notin pool \/ Unused \subseteq pool
  BY <1>1
<1> QED
  BY <1>2 DEF Fresh

(* A step that may change c's buffer, and the pool.                        *)
LEMMA BufferStep ==
  ASSUME Inductive, NEW c \in Callers, NEW r, Steps(c, r), Local(c)',
         cap' \in [Buffers -> Nat], text' \in [Buffers -> Nat], pool' \in SUBSET Buffers,
         UNCHANGED <<size, kind, acl, kept>>, r.buf # Nil => r.buf \notin pool',
         \A d \in Callers \ {c} : me[d].buf # Nil =>
           /\ me[d].buf \notin pool' /\ r.buf # me[d].buf
           /\ text'[me[d].buf] = text[me[d].buf]
  PROVE  Inductive'
<1>1. Tabled' /\ Typed'
  <2>1. Typed /\ Tabled
    BY Zenon DEF Inductive
  <2>2. Tabled' /\ table' \in [Handles -> Callers \cup {Nil}]
    BY <2>1, TableStep, Zenon
  <2>3. me' \in [Callers -> Locals]
    BY Zenon DEF Steps
  <2>4. size' = size /\ acl' = acl
    OBVIOUS
  <2> QED
    BY <2>1, <2>2, <2>3, <2>4, Zenon DEF Typed
<1>2. Buffered'
  <2>1. me'[c] = r /\ \A d \in Callers \ {c} : me'[d] = me[d]
    BY StepOfOne, Zenon
  <2>2. ASSUME NEW d \in Callers, me'[d].buf # Nil PROVE me'[d].buf \notin pool'
    BY <2>1, <2>2
  <2>3. ASSUME NEW d \in Callers, NEW e \in Callers, me'[d].buf # Nil, me'[e].buf = me'[d].buf
        PROVE  e = d
    <3>1. CASE d = c \/ e = c
      BY <2>1, <2>3, <3>1, ZenonT(40)
    <3>2. CASE d # c /\ e # c
      BY <2>1, <2>3, <3>2 DEF Inductive, Buffered
    <3> QED
      BY <3>1, <3>2
  <2> QED
    BY <2>2, <2>3, ZenonT(40) DEF Buffered
<1>3. ASSUME NEW d \in Callers \ {c} PROVE Local(d)'
  BY OtherCaller, StepOfOne, ZenonT(40) DEF Inductive
<1> QED
  BY <1>1, <1>2, <1>3, Zenon DEF Inductive, GrantKeepsEntries

(* The same for the functions that use buffers; what they say of c.        *)
PathOf(r, told) ==
  /\ r.api \in {"ResolvePath", "FsType"} /\ Holds(r)
  /\ r.pc = "string" => HoldsBuffer(r) /\ told = r.seen
  /\ r.pc # "string" => r.got = r.seen
  /\ r.pc \in {"open", "buffer", "query", "volume", "string"} => r.out = "none"
  /\ r.out = "notFound" => kind = "gone"
  /\ r.out # "denied"

AttemptOf(r) ==
  r.api = "ResolvePath" /\ r.pc \in {"open", "buffer", "query"} =>
    /\ r.n <= 3 /\ ({"guid", "normalize"} \cap r.flags # {} => r.n <= 2)
    /\ {"guid", "normalize"} \subseteq r.flags => r.n = 1
    /\ "guid" \notin r.flags => kind \in {"share", "restricted", "gone"}

(* What a step of a function with a buffer has to establish of its caller. *)
LEMMA PathStepLocal ==
  ASSUME NEW c \in Callers, NEW r, Steps(c, r), kind' = kind,
         PathOf(r, text'[r.buf]), AttemptOf(r)
  PROVE  Local(c)'
<1>1. me'[c] = r
  BY StepOfOne, Zenon
<1>2. Holds(me[c])'
  BY <1>1 DEF PathOf, Holds, HoldsHandle, HoldsBuffer, HoldsMemory, OfFile
<1>3. WholeOf(c)' /\ GrantOf(c)'
  BY <1>1, Zenon DEF PathOf, WholeOf, GrantOf, HoldsBuffer
<1>4. AttemptsOf(c)'
  BY <1>1 DEF PathOf, AttemptsOf, AttemptOf
<1> QED
  BY <1>2, <1>3, <1>4 DEF Local

(* The functions of the fs package: the buffer in hand is the caller's     *)
(* alone, and it holds the last answer until it is converted.              *)
LEMMA PathHolds ==
  ASSUME Inductive, NEW c \in Callers, PathStep(c), UNCHANGED <<acl, kept>>
  PROVE  Inductive'
<1>0. /\ Typed /\ me[c] \in Locals /\ Holds(me[c]) /\ WholeOf(c) /\ AttemptsOf(c)
      /\ size \in Nat /\ me[c].n \in Nat /\ text \in [Buffers -> Nat] /\ cap \in [Buffers -> Nat]
      /\ pool \in SUBSET Buffers /\ UNCHANGED <<size, kind, acl, kept>> /\ kind' = kind
  BY DEF Inductive, Typed, Local, Locals, PathStep
<1>b. \A d \in Callers \ {c} : me[d].buf # Nil =>
        me[d].buf \notin pool /\ me[d].buf \notin Unused /\ me[d].buf # me[c].buf
  BY DEF Inductive, Buffered, Unused
<1>1. CASE ResolveStarts(c)
  <2>1. CASE At(c, "ResolvePath", "open") /\ Open(c, "buffer", "idle") /\ UNCHANGED buffers
    <3>0. me[c].h = Nil /\ me[c].buf = Nil /\ UNCHANGED <<size, cap, text, pool, kind, acl, kept>>
      BY <1>0, <2>1, ZenonT(40) DEF At, Holds, HoldsHandle, HoldsBuffer, Apis, buffers
    <3>1. CASE Steps(c, Returned(c, "error", "idle"))
      <4> DEFINE r == Returned(c, "error", "idle")
      <4>1. /\ r.api = "ResolvePath" /\ r.pc = "idle" /\ r.h = Nil /\ r.buf = Nil /\ r.mem = me[c].mem
            /\ r.out = "error" /\ r.got = me[c].got /\ r.seen = me[c].seen
        BY <1>0, <2>1, <3>0 DEF At, Returned, Locals
      <4> HIDE DEF r
      <4>2. PathOf(r, text'[r.buf]) /\ AttemptOf(r)
        BY <1>0, <2>1, <4>1, Zenon DEF At, PathOf, AttemptOf, Holds, HoldsHandle, HoldsMemory, HoldsBuffer, Apis, WholeOf
      <4>3. Steps(c, r)
        BY <3>1 DEF r
      <4> QED
        BY <1>0, <3>0, <4>1, <4>2, <4>3, PathStepLocal, PlainStep
    <3>2. ASSUME NEW k \in Handles, Steps(c, Opened(c, k, "buffer")) PROVE Inductive'
      <4> DEFINE r == Opened(c, k, "buffer")
      <4>1. /\ r.api = "ResolvePath" /\ r.pc = "buffer" /\ r.h = k /\ r.buf = Nil /\ r.mem = me[c].mem
            /\ r.out = me[c].out /\ r.got = me[c].got /\ r.seen = me[c].seen /\ r.n = me[c].n
            /\ r.flags = me[c].flags
        BY <1>0, <2>1, <3>0 DEF At, Opened, Locals
      <4> HIDE DEF r
      <4>2. PathOf(r, text'[r.buf])
        BY <1>0, <2>1, <4>1, SyscallsAssumption, Zenon
           DEF At, PathOf, Holds, HoldsHandle, HoldsMemory, HoldsBuffer, Apis, WholeOf
      <4>3. AttemptOf(r)
        BY <1>0, <2>1, <4>1, Zenon DEF At, AttemptOf, AttemptsOf
      <4>4. Steps(c, r)
        BY <3>2 DEF r
      <4> QED
        BY <1>0, <3>0, <4>1, <4>2, <4>3, <4>4, PathStepLocal, PlainStep, Zenon
    <3>3. Typed /\ Open(c, "buffer", "idle") /\ "buffer" \in Labels /\ "idle" \in Labels
      BY <1>0, <2>1, Zenon DEF Labels
    <3> QED
      BY <3>0, <3>1, <3>2, <3>3, Opens, ZenonT(40)
  <2>2. CASE /\ me[c].pc = "idle" /\ UNCHANGED <<table, buffers>>
             /\ me' = [me EXCEPT ![c] = [Caller EXCEPT !.api = "ResolvePath", !.n = 1, !.pc = "open",
                                                      !.flags = {"normalize", "guid"}]]
    <3> DEFINE r == [Caller EXCEPT !.api = "ResolvePath", !.n = 1, !.pc = "open",
                                   !.flags = {"normalize", "guid"}]
    <3>1. /\ r \in Locals /\ r.api = "ResolvePath" /\ r.pc = "open" /\ r.h = Nil /\ r.mem = {} /\ r.buf = Nil
          /\ r.flags = {"guid", "normalize"} /\ r.n = 1 /\ r.got = r.seen /\ r.out = "none"
      <4>1. Caller \in Locals
        BY DEF Locals, Caller, ApiNames, Labels, Results
      <4>2. r \in Locals
        BY <4>1, Zenon DEF Locals, ApiNames, Labels, Flags
      <4>3. r.flags = {"guid", "normalize"}
        BY <4>1 DEF Locals
      <4> QED
        BY <4>1, <4>2, <4>3, ZenonT(40) DEF Locals, Caller
    <3>2. /\ me' = [me EXCEPT ![c] = r] /\ UNCHANGED <<table, size, cap, text, pool, kind, acl, kept>>
          /\ me[c].pc = "idle"
      BY <1>0, <2>2 DEF buffers
    <3> HIDE DEF r
    <3> QED
      BY <3>1, <3>2, Starts, Zenon
  <2> QED
    BY <1>1, <2>1, <2>2, ZenonT(40) DEF ResolveStarts
<1>2. ASSUME me[c].pc = "buffer", UNCHANGED table,
             NEW b \in Buffers, b \in pool \/ b \in Unused, pool' = pool \ {b}, NEW label \in {"query", "volume"},
             \/ me[c].api = "ResolvePath" /\ label = "query"
             \/ me[c].api = "FsType" /\ label = "volume",
             cap' \in [Buffers -> Nat], text' \in [Buffers -> Nat],
             \A x \in Buffers \ {b} : text'[x] = text[x],
             me' = [me EXCEPT ![c].buf = b, ![c].pc = label]
      PROVE  Inductive'
  <2> DEFINE r == [me[c] EXCEPT !.buf = b, !.pc = label]
  <2>0. label \in Labels
    BY DEF Labels
  <2>1. /\ r \in Locals /\ r.h = me[c].h /\ r.api = me[c].api /\ r.pc = label /\ r.buf = b
        /\ r.mem = me[c].mem /\ r.out = me[c].out /\ r.got = me[c].got /\ r.seen = me[c].seen
        /\ r.n = me[c].n /\ r.flags = me[c].flags
    BY <1>0, <2>0, Zenon DEF Locals
  <2>2. me' = [me EXCEPT ![c] = r]
    BY <1>0, <1>2 DEF Typed, Locals
  <2> HIDE DEF r
  <2>3. Steps(c, r)
    <3>1. Typed /\ table' = table
      BY <1>0, <1>2
    <3> QED
      BY <2>1, <2>2, <3>1, Becomes, Zenon
  <2>4. PathOf(r, text'[r.buf])
    BY <1>0, <1>2, <2>1, SyscallsAssumption
       DEF PathOf, Holds, HoldsHandle, HoldsMemory, HoldsBuffer, Apis, WholeOf
  <2>5. AttemptOf(r)
    BY <1>0, <1>2, <2>1 DEF AttemptOf, AttemptsOf
  <2>6. \A d \in Callers \ {c} : me[d].buf # Nil =>
          me[d].buf \notin pool' /\ r.buf # me[d].buf /\ text'[me[d].buf] = text[me[d].buf]
    BY <1>0, <1>b, <1>2, <2>1 DEF Typed, Locals
  <2> QED
    BY <1>0, <1>2, <2>1, <2>3, <2>4, <2>5, <2>6, PathStepLocal, BufferStep
<1>3. ASSUME NEW label \in {"query", "volume"}, NewWString(c, label), me[c].pc = "buffer", UNCHANGED table,
             \/ me[c].api = "ResolvePath" /\ label = "query"
             \/ me[c].api = "FsType" /\ label = "volume"
      PROVE  Inductive'
  <2>2. ASSUME NEW b \in pool, pool' = pool \ {b}, UNCHANGED <<cap, text>>,
               me' = [me EXCEPT ![c].buf = b, ![c].pc = label]
        PROVE  Inductive'
    <3>1. /\ b \in Buffers /\ cap' \in [Buffers -> Nat] /\ text' \in [Buffers -> Nat]
          /\ \A x \in Buffers \ {b} : text'[x] = text[x]
      BY <1>0, <2>2
    <3> QED
      BY <1>2, <1>3, <2>2, <3>1, Zenon
  <2>3. ASSUME NEW b \in Fresh, pool' = pool \ {b}, cap' = [cap EXCEPT ![b] = MinWStringCap],
               text' = [text EXCEPT ![b] = 0], me' = [me EXCEPT ![c].buf = b, ![c].pc = label]
        PROVE  Inductive'
    <3>1. b \in Unused /\ b \in Buffers
      BY <1>0, <2>3, FreshIsUnused DEF Unused
    <3>2. cap' \in [Buffers -> Nat] /\ text' \in [Buffers -> Nat] /\ \A x \in Buffers \ {b} : text'[x] = text[x]
      BY <1>0, <2>3, <3>1, SyscallsAssumption
    <3> QED
      BY <1>2, <1>3, <2>3, <3>1, <3>2, Zenon
  <2> QED
    BY <1>3, <2>2, <2>3, Zenon DEF NewWString
<1>4. ASSUME me[c].api \in {"ResolvePath", "FsType"}, me[c].buf # Nil, UNCHANGED table,
             cap' \in [Buffers -> Nat], text' \in [Buffers -> Nat], pool' \in SUBSET (pool \cup {me[c].buf}),
             \A x \in Buffers \ {me[c].buf} : text'[x] = text[x],
             NEW r \in Locals, me' = [me EXCEPT ![c] = r], r.h = me[c].h, r.buf \in {me[c].buf, Nil},
             r.buf = me[c].buf => pool' = pool, PathOf(r, text'[r.buf]), AttemptOf(r)
      PROVE  Inductive'
  <2>1. Steps(c, r) /\ me[c].buf \in Buffers
    BY <1>0, <1>4, Becomes, Zenon DEF Locals
  <2>2. \A d \in Callers \ {c} : me[d].buf # Nil =>
          me[d].buf \notin pool' /\ r.buf # me[d].buf /\ text'[me[d].buf] = text[me[d].buf]
    BY <1>0, <1>b, <1>4, <2>1 DEF Typed, Locals
  <2>3. (r.buf # Nil => r.buf \notin pool') /\ pool' \in SUBSET Buffers
    BY <1>0, <1>4, <2>1, Zenon DEF Inductive, Buffered
  <2>4. Local(c)'
    BY <1>0, <1>4, <2>1, PathStepLocal, Zenon
  <2> QED
    BY <1>0, <1>4, <2>1, <2>2, <2>3, <2>4, BufferStep, Zenon
<1>5. ASSUME me[c].api \in {"ResolvePath", "FsType"}, me[c].buf # Nil PROVE me[c].buf \in Buffers
  BY <1>0, <1>5, Zenon DEF Locals
<1>6. ASSUME At(c, "ResolvePath", "query"), Drop(me[c].buf), UNCHANGED table,
             \E err \in Errors(me[c].flags) :
               IF Retry(me[c].flags, err) # {} /\ me[c].n < 4
                 THEN \E f \in Retry(me[c].flags, err) :
                        me' = [me EXCEPT ![c].flags = f, ![c].n = @ + 1, ![c].buf = Nil,
                                         ![c].pc = "buffer"]
                 ELSE me' = [me EXCEPT ![c].out = err, ![c].buf = Nil, ![c].pc = "deferred"]
      PROVE  Inductive'
  <2>0. /\ me[c].api = "ResolvePath" /\ me[c].pc = "query" /\ me[c].buf # Nil /\ me[c].h # Nil /\ me[c].mem = {}
        /\ me[c].got = me[c].seen /\ me[c].out = "none"
    BY <1>0, <1>6, Zenon DEF At, Holds, HoldsHandle, HoldsMemory, HoldsBuffer, Apis, WholeOf
  <2>1. /\ cap' \in [Buffers -> Nat] /\ text' \in [Buffers -> Nat] /\ pool' = pool
        /\ \A x \in Buffers \ {me[c].buf} : text'[x] = text[x]
    BY <1>0, <1>5, <1>6, <2>0, Zenon DEF Drop
  <2>2. /\ me[c].n <= 3 /\ ({"guid", "normalize"} \cap me[c].flags # {} => me[c].n <= 2)
        /\ {"guid", "normalize"} \subseteq me[c].flags => me[c].n = 1
        /\ "guid" \notin me[c].flags => kind \in {"share", "restricted", "gone"}
    BY <1>0, <2>0, Zenon DEF AttemptsOf
  <2>3. ASSUME NEW err \in Errors(me[c].flags), NEW f \in Retry(me[c].flags, err),
               me' = [me EXCEPT ![c].flags = f, ![c].n = @ + 1, ![c].buf = Nil, ![c].pc = "buffer"]
        PROVE  Inductive'
    <3> DEFINE r == [me[c] EXCEPT !.flags = f, !.n = @ + 1, !.buf = Nil, !.pc = "buffer"]
    <3>0. /\ f \subseteq me[c].flags
          /\ \/ "guid" \in me[c].flags /\ f = me[c].flags \ {"guid"} /\ kind \in {"share", "restricted", "gone"}
             \/ "normalize" \in me[c].flags /\ f = me[c].flags \ {"normalize"}
      BY <2>3 DEF Retry, Errors, KindErrors
    <3>1. /\ r \in Locals /\ r.h = me[c].h /\ r.buf = Nil /\ r.api = "ResolvePath" /\ r.pc = "buffer"
          /\ r.out = "none" /\ r.mem = {} /\ r.got = r.seen /\ r.n = me[c].n + 1 /\ r.flags = f
      <4>1. f \in SUBSET Flags /\ me[c].n + 1 \in Nat /\ "buffer" \in Labels
        <5>1. me[c].flags \in SUBSET Flags /\ me[c].n \in Nat
          BY <1>0, Zenon DEF Locals
        <5> QED
          BY <3>0, <5>1 DEF Labels
      <4>2. r \in Locals
        BY <1>0, <4>1, Zenon DEF Locals
      <4> QED
        BY <1>0, <2>0, <4>2, ZenonT(40) DEF Locals
    <3>2. me' = [me EXCEPT ![c] = r]
      BY <1>0, <2>3 DEF Typed, Locals
    <3> HIDE DEF r
    <3>3. PathOf(r, text'[r.buf])
      BY <2>0, <3>1, Zenon DEF PathOf, Holds, HoldsHandle, HoldsBuffer, Apis
    <3>4. AttemptOf(r)
      <4>1. r.n <= 3 /\ ({"guid", "normalize"} \cap r.flags # {} => r.n <= 2)
        <5>1. me[c].n \in Nat /\ r.n = me[c].n + 1
          BY <1>0, <3>1, Zenon DEF Locals
        <5>2. me[c].n <= 2
          BY <2>2, <3>0
        <5>3. {"guid", "normalize"} \cap r.flags # {} => {"guid", "normalize"} \subseteq me[c].flags
          BY <3>0, <3>1
        <5>4. {"guid", "normalize"} \subseteq me[c].flags => me[c].n = 1
          BY <2>2
        <5> QED
          BY <5>1, <5>2, <5>3, <5>4
      <4>2. /\ ~({"guid", "normalize"} \subseteq r.flags)
            /\ "guid" \notin r.flags => kind \in {"share", "restricted", "gone"}
        BY <2>2, <3>0, <3>1
      <4> QED
        BY <4>1, <4>2, Zenon DEF AttemptOf
    <3> QED
      BY <1>4, <1>6, <2>0, <2>1, <3>1, <3>2, <3>3, <3>4, Zenon
  <2>4. ASSUME NEW err \in Errors(me[c].flags), Retry(me[c].flags, err) = {} \/ ~(me[c].n < 4),
               me' = [me EXCEPT ![c].out = err, ![c].buf = Nil, ![c].pc = "deferred"]
        PROVE  Inductive'
    <3>0. Retry(me[c].flags, err) = {}
      BY <1>0, <2>2, <2>4
    <3>a. /\ err \in Results /\ err # "denied"
          /\ err = "notFound" => kind = "gone"
      BY <2>2, <2>4, <3>0, Zenon DEF Retry, Errors, KindErrors, Results
    <3> DEFINE r == [me[c] EXCEPT !.out = err, !.buf = Nil, !.pc = "deferred"]
    <3>1. /\ r \in Locals /\ r.h = me[c].h /\ r.buf = Nil /\ r.api = "ResolvePath" /\ r.pc = "deferred"
          /\ r.out = err /\ r.mem = {} /\ r.got = r.seen
      BY <1>0, <2>0, <3>a, Zenon DEF Locals, Labels
    <3>2. me' = [me EXCEPT ![c] = r]
      BY <1>0, <2>4, Zenon DEF Typed, Locals
    <3> HIDE DEF r
    <3>3. PathOf(r, text'[r.buf]) /\ AttemptOf(r)
      BY <2>0, <3>a, <3>1, Zenon DEF PathOf, AttemptOf, Holds, HoldsHandle, HoldsBuffer, Apis
    <3> QED
      BY <1>4, <1>6, <2>0, <2>1, <3>1, <3>2, <3>3, Zenon
  <2> QED
    BY <1>6, <2>3, <2>4, Zenon
<1>7. ASSUME At(c, "ResolvePath", "query"), ResizeTo(c, size + 1), UNCHANGED table
      PROVE  Inductive'
  <2>0. /\ me[c].api = "ResolvePath" /\ me[c].pc = "query" /\ me[c].buf \in Buffers /\ me[c].h # Nil
        /\ me[c].mem = {} /\ me[c].got = me[c].seen /\ me[c].out = "none"
    BY <1>0, <1>7, Zenon DEF At, Holds, HoldsHandle, HoldsMemory, HoldsBuffer, Apis, WholeOf, Locals
  <2>1. PICK b \in Fresh :
          /\ cap' = [cap EXCEPT ![b] = NewCap(size + 1, cap[me[c].buf])]
          /\ text' = [text EXCEPT ![b] = text[me[c].buf], ![me[c].buf] = 0]
          /\ pool' = (pool \ {b}) \cup {me[c].buf}
          /\ me' = [me EXCEPT ![c].buf = b]
    BY <1>7, Zenon DEF ResizeTo
  <2>2. b \in Buffers /\ b \in Unused /\ b # me[c].buf /\ b # Nil
    BY <1>0, FreshIsUnused, SyscallsAssumption, Zenon DEF Unused
  <2>3. NewCap(size + 1, cap[me[c].buf]) \in Nat
    <3>1. size \in Nat /\ cap[me[c].buf] \in Nat
      BY <1>0, <2>0, ZenonT(40) DEF Typed
    <3> QED
      BY <3>1, NewCapIsNat, Zenon
  <2>4. /\ cap' \in [Buffers -> Nat] /\ text' \in [Buffers -> Nat] /\ pool' \in SUBSET Buffers
        /\ \A x \in Buffers \ {b, me[c].buf} : text'[x] = text[x]
    BY <1>0, <2>0, <2>1, <2>2, <2>3
  <2> DEFINE r == [me[c] EXCEPT !.buf = b]
  <2>5. /\ r \in Locals /\ r.h = me[c].h /\ r.buf = b /\ r.api = "ResolvePath" /\ r.pc = "query"
        /\ r.out = "none" /\ r.mem = {} /\ r.got = r.seen /\ r.n = me[c].n /\ r.flags = me[c].flags
    BY <1>0, <2>0, <2>2 DEF Locals
  <2>6. me' = [me EXCEPT ![c] = r]
    BY <1>0, <2>1 DEF Typed, Locals
  <2> HIDE DEF r
  <2>7. Steps(c, r)
    BY <1>0, <1>7, <2>5, <2>6, Becomes, Zenon
  <2>8. PathOf(r, text'[r.buf])
    BY <2>0, <2>2, <2>5, Zenon DEF PathOf, Holds, HoldsHandle, HoldsBuffer, Apis
  <2>9. AttemptOf(r)
    BY <1>0, <2>0, <2>5, Zenon DEF AttemptOf, AttemptsOf
  <2>10. \A d \in Callers \ {c} : me[d].buf # Nil =>
           me[d].buf \notin pool' /\ r.buf # me[d].buf /\ text'[me[d].buf] = text[me[d].buf]
    BY <1>0, <1>b, <2>1, <2>2, <2>4, <2>5 DEF Typed, Locals
  <2>11. r.buf \notin pool'
    BY <2>1, <2>2, <2>5
  <2> QED
    BY <1>0, <2>4, <2>7, <2>8, <2>9, <2>10, <2>11, PathStepLocal, BufferStep, Zenon
<1>8. ASSUME \/ At(c, "ResolvePath", "query")
             \/ At(c, "FsType", "volume"), UNCHANGED <<table, cap, pool>>,
             text' = [text EXCEPT ![me[c].buf] = size],
             me' = [me EXCEPT ![c].seen = size, ![c].pc = "string"]
      PROVE  Inductive'
  <2>0. /\ me[c].api \in {"ResolvePath", "FsType"} /\ me[c].buf \in Buffers /\ me[c].buf # Nil
        /\ me[c].mem = {} /\ me[c].out = "none" /\ (me[c].h # Nil <=> me[c].api = "ResolvePath")
    BY <1>0, <1>8, SyscallsAssumption
       DEF At, Holds, HoldsHandle, HoldsMemory, HoldsBuffer, Apis, WholeOf, Locals
  <2>1. /\ cap' \in [Buffers -> Nat] /\ text' \in [Buffers -> Nat] /\ pool' = pool
        /\ text'[me[c].buf] = size /\ \A x \in Buffers \ {me[c].buf} : text'[x] = text[x]
    BY <1>0, <1>8, <2>0
  <2> DEFINE r == [me[c] EXCEPT !.seen = size, !.pc = "string"]
  <2>2. /\ r \in Locals /\ r.h = me[c].h /\ r.buf = me[c].buf /\ r.api = me[c].api /\ r.pc = "string"
        /\ r.out = "none" /\ r.mem = {} /\ r.seen = size
    BY <1>0, <2>0, Zenon DEF Locals, Labels
  <2>3. me' = [me EXCEPT ![c] = r]
    BY <1>0, <1>8, Zenon DEF Typed, Locals
  <2> HIDE DEF r
  <2>4. PathOf(r, text'[r.buf]) /\ AttemptOf(r)
    BY <2>0, <2>1, <2>2, Zenon DEF PathOf, AttemptOf, Holds, HoldsHandle, HoldsBuffer, Apis
  <2> QED
    BY <1>4, <1>8, <2>0, <2>1, <2>2, <2>3, <2>4, Zenon
<1>9. CASE ResolveReturns(c)
  <2>1. CASE /\ At(c, "ResolvePath", "string") /\ Drop(me[c].buf) /\ UNCHANGED table
             /\ me' = [me EXCEPT ![c].got = text[me[c].buf], ![c].out = "done", ![c].buf = Nil,
                                 ![c].pc = "deferred"]
    <3>0. /\ me[c].api = "ResolvePath" /\ me[c].buf # Nil /\ me[c].buf \in Buffers /\ me[c].h # Nil
          /\ me[c].mem = {} /\ text[me[c].buf] = me[c].seen /\ table' = table
      BY <1>0, <2>1, SyscallsAssumption
         DEF At, Holds, HoldsHandle, HoldsMemory, HoldsBuffer, Apis, WholeOf, Locals
    <3>1. /\ cap' \in [Buffers -> Nat] /\ text' \in [Buffers -> Nat] /\ pool' = pool
          /\ \A x \in Buffers \ {me[c].buf} : text'[x] = text[x]
      BY <1>0, <2>1, <3>0 DEF Drop
    <3> DEFINE r == [me[c] EXCEPT !.got = me[c].seen, !.out = "done", !.buf = Nil, !.pc = "deferred"]
    <3>2. /\ r \in Locals /\ r.h = me[c].h /\ r.buf = Nil /\ r.api = "ResolvePath" /\ r.pc = "deferred"
          /\ r.out = "done" /\ r.mem = {} /\ r.got = r.seen
      BY <1>0, <3>0, Zenon DEF Locals, Labels, Results
    <3>3. me' = [me EXCEPT ![c] = r]
      BY <1>0, <2>1, <3>0 DEF Typed, Locals
    <3> HIDE DEF r
    <3>4. PathOf(r, text'[r.buf]) /\ AttemptOf(r)
      BY <3>0, <3>2, Zenon DEF PathOf, AttemptOf, Holds, HoldsHandle, HoldsBuffer, Apis
    <3> QED
      BY <1>4, <3>0, <3>1, <3>2, <3>3, <3>4, Zenon
  <2>2. CASE At(c, "ResolvePath", "deferred") /\ CloseHandle(c, "idle") /\ UNCHANGED buffers
    <3>0. /\ me[c].api = "ResolvePath" /\ me[c].pc = "deferred" /\ me[c].buf = Nil /\ me[c].got = me[c].seen
          /\ UNCHANGED <<size, cap, text, pool, kind, acl, kept>>
      BY <1>0, <2>2, Zenon DEF At, Holds, HoldsBuffer, WholeOf, buffers
    <3> DEFINE r == Closed(c, "idle")
    <3>1. Steps(c, r)
      BY <1>0, <2>2, Closes, Zenon DEF Labels
    <3>a. me[c].mem = {}
      BY <1>0, <3>0, Zenon DEF Holds, HoldsMemory, Apis
    <3>2. /\ r.h = Nil /\ r.buf = Nil /\ r.api = "ResolvePath" /\ r.pc = "idle"
          /\ r.out = me[c].out /\ r.mem = {} /\ r.got = r.seen
      BY <1>0, <3>0, <3>a DEF Locals, Closed
    <3> HIDE DEF r
    <3>3. PathOf(r, text'[r.buf]) /\ AttemptOf(r)
      BY <1>0, <3>0, <3>2, Zenon DEF PathOf, AttemptOf, AttemptsOf, Holds, HoldsHandle, HoldsBuffer, Apis
    <3> QED
      BY <1>0, <3>0, <3>1, <3>2, <3>3, PathStepLocal, PlainStep, Zenon
  <2> QED
    BY <1>9, <2>1, <2>2 DEF ResolveReturns
<1>10. CASE GetFileSystemType(c)
  <2>0. table' = table
    BY <1>10 DEF GetFileSystemType
  <2>1. CASE /\ me[c].pc = "idle" /\ UNCHANGED buffers
             /\ me' = [me EXCEPT ![c] = [Caller EXCEPT !.api = "FsType", !.out = "error"]]
    <3> DEFINE r == [Caller EXCEPT !.api = "FsType", !.out = "error"]
    <3>1. /\ r \in Locals /\ r.api = "FsType" /\ r.pc = "idle" /\ r.h = Nil /\ r.mem = {}
          /\ r.buf = Nil /\ r.flags = {} /\ r.got = r.seen /\ r.out = "error"
      BY ZenonT(40) DEF Locals, Caller, ApiNames, Labels, Results
    <3>2. /\ me' = [me EXCEPT ![c] = r] /\ UNCHANGED <<table, size, cap, text, pool, kind, acl, kept>>
          /\ me[c].pc = "idle"
      BY <1>0, <2>0, <2>1 DEF buffers
    <3> HIDE DEF r
    <3> QED
      BY <3>1, <3>2, Starts, Zenon
  <2>2. CASE Call(c, "FsType", "buffer") /\ UNCHANGED buffers
    BY <1>0, <2>2, CallStarts, ZenonT(40) DEF ApiNames, Labels, buffers
  <2>3. CASE At(c, "FsType", "buffer") /\ NewWString(c, "volume")
    BY <1>3, <2>0, <2>3 DEF At
  <2>4. ASSUME me[c].api = "FsType", me[c].pc \in {"volume", "string", "free"}
        PROVE  me[c].buf \in Buffers /\ me[c].buf # Nil /\ me[c].h = Nil /\ me[c].mem = {}
    BY <1>0, <2>4, SyscallsAssumption, Zenon DEF Holds, HoldsHandle, HoldsMemory, HoldsBuffer, Apis, Locals
  <2>5. ASSUME me[c].api = "FsType", me[c].pc \in {"volume", "string"}, UNCHANGED buffers,
               NEW got \in Nat, NEW out \in {"done", "error"}, got = me[c].seen,
               me' = [me EXCEPT ![c].got = got, ![c].out = out, ![c].pc = "free"]
        PROVE  Inductive'
    <3> DEFINE r == [me[c] EXCEPT !.got = got, !.out = out, !.pc = "free"]
    <3>1. /\ r \in Locals /\ r.h = Nil /\ r.buf = me[c].buf /\ r.api = "FsType" /\ r.pc = "free"
          /\ r.out = out /\ r.mem = {} /\ r.got = r.seen
      BY <1>0, <2>4, <2>5 DEF Locals, Labels, Results
    <3>2. me' = [me EXCEPT ![c] = r]
      BY <1>0, <2>5 DEF Typed, Locals
    <3> HIDE DEF r
    <3>3. PathOf(r, text'[r.buf]) /\ AttemptOf(r)
      BY <2>4, <2>5, <3>1 DEF PathOf, AttemptOf, Holds, HoldsHandle, HoldsBuffer, Apis
    <3>4. cap' = cap /\ text' = text /\ pool' = pool
      BY <2>5 DEF buffers
    <3> QED
      BY <1>0, <1>4, <2>0, <2>4, <2>5, <3>1, <3>2, <3>3, <3>4, Zenon
  <2>6. CASE At(c, "FsType", "volume") /\ Return(c, "error", "free") /\ UNCHANGED buffers
    <3>1. me[c].got = me[c].seen /\ me[c].got \in Nat
      BY <1>0, <2>6, Zenon DEF At, WholeOf, Locals
    <3>2. me' = [me EXCEPT ![c].got = me[c].got, ![c].out = "error", ![c].pc = "free"]
      BY <1>0, <2>6, Zenon DEF Return, Typed, Locals
    <3> QED
      BY <2>5, <2>6, <3>1, <3>2, Zenon DEF At
  <2>7. CASE /\ At(c, "FsType", "string") /\ UNCHANGED buffers
             /\ me' = [me EXCEPT ![c].got = text[me[c].buf], ![c].out = "done", ![c].pc = "free"]
    <3>1. text[me[c].buf] = me[c].seen /\ text[me[c].buf] \in Nat
      BY <1>0, <2>4, <2>7 DEF At, WholeOf
    <3> QED
      BY <2>5, <2>7, <3>1, Zenon DEF At
  <2>8. CASE /\ At(c, "FsType", "volume") /\ text' = [text EXCEPT ![me[c].buf] = size]
             /\ UNCHANGED <<cap, pool>> /\ me' = [me EXCEPT ![c].seen = size, ![c].pc = "string"]
    BY <1>8, <2>0, <2>8
  <2>9. CASE /\ At(c, "FsType", "free") /\ UNCHANGED cap
             /\ text' = [text EXCEPT ![me[c].buf] = 0] /\ pool' = pool \cup {me[c].buf}
             /\ me' = [me EXCEPT ![c].buf = Nil, ![c].pc = "idle"]
    <3>0. me[c].api = "FsType" /\ me[c].pc = "free"
      BY <2>9 DEF At
    <3>1. /\ cap' \in [Buffers -> Nat] /\ text' \in [Buffers -> Nat]
          /\ pool' \in SUBSET (pool \cup {me[c].buf})
          /\ \A x \in Buffers \ {me[c].buf} : text'[x] = text[x]
      BY <1>0, <2>4, <2>9, <3>0
    <3> DEFINE r == [me[c] EXCEPT !.buf = Nil, !.pc = "idle"]
    <3>2. /\ r \in Locals /\ r.h = Nil /\ r.buf = Nil /\ r.api = "FsType" /\ r.pc = "idle"
          /\ r.out = me[c].out /\ r.mem = {} /\ r.got = r.seen
      BY <1>0, <2>4, <3>0, Zenon DEF Locals, Labels, WholeOf
    <3>3. me' = [me EXCEPT ![c] = r]
      BY <1>0, <2>9, Zenon DEF Typed, Locals
    <3> HIDE DEF r
    <3>4. PathOf(r, text'[r.buf]) /\ AttemptOf(r)
      BY <1>0, <3>0, <3>2, Zenon DEF PathOf, AttemptOf, AttemptsOf, Holds, HoldsHandle, HoldsBuffer, Apis
    <3> QED
      BY <1>4, <2>0, <2>4, <3>0, <3>1, <3>2, <3>3, <3>4, Zenon
  <2> QED
    BY <1>10, <2>1, <2>2, <2>3, <2>6, <2>7, <2>8, <2>9 DEF GetFileSystemType
<1>11. CASE Query(c)
  <2>1. CASE At(c, "ResolvePath", "buffer") /\ NewWString(c, "query") /\ UNCHANGED table
    BY <1>3, <2>1 DEF At
  <2>2. CASE /\ At(c, "ResolvePath", "query") /\ UNCHANGED table
             /\ text' = [text EXCEPT ![me[c].buf] = size] /\ UNCHANGED <<cap, pool>>
             /\ me' = [me EXCEPT ![c].seen = size, ![c].pc = "string"]
    BY <1>8, <2>2
  <2> QED
    BY <1>6, <1>7, <1>11, <2>1, <2>2, Zenon DEF Query
<1> QED
  BY <1>1, <1>9, <1>10, <1>11 DEF PathStep

-----------------------------------------------------------------------------
(* Nothing is held and nothing has been asked at first.                    *)
LEMMA InitHolds == SInit => Inductive
<1> SUFFICES ASSUME SInit PROVE Inductive
  OBVIOUS
<1>1. Caller \in Locals
  BY DEF Caller, Locals, ApiNames, Labels, Results
<1>2. \A c \in Callers : me[c] = Caller
  BY Zenon DEF SInit, CInit
<1>3. Typed
  BY <1>1, SyscallsAssumption, ZenonT(40) DEF SInit, CInit, PInit, VInit, Typed, Flags
<1>4. Tabled /\ Buffered /\ GrantKeepsEntries
  BY <1>2, ZenonT(40) DEF SInit, CInit, VInit, Tabled, Buffered, GrantKeepsEntries, Caller
<1>5. ASSUME NEW c \in Callers PROVE Local(c)
  <2>1. /\ me[c].api = "none" /\ me[c].pc = "idle" /\ me[c].h = Nil /\ me[c].mem = {}
        /\ me[c].buf = Nil /\ me[c].got = me[c].seen /\ me[c].out = "none"
    BY <1>2 DEF Caller
  <2>2. Holds(me[c])
    BY <2>1 DEF Holds, HoldsBuffer, HoldsHandle, Apis
  <2> QED
    BY <2>1, <2>2 DEF Local, WholeOf, AttemptsOf, GrantOf
<1> QED
  BY <1>3, <1>4, <1>5 DEF Inductive

(* Entries that others add while no caller has read the list are kept by   *)
(* whoever reads it later.                                                 *)
LEMMA OthersHold ==
  ASSUME Inductive, Others
  PROVE  Inductive'
<1>0. me' = me /\ table' = table /\ UNCHANGED <<cap, text, pool, kind>>
  BY DEF Others, SizeChanges, OtherEntry
<1>1. Tabled' /\ Buffered'
  BY <1>0 DEF Inductive, Tabled, Buffered
<1>2. Typed' /\ GrantKeepsEntries'
  <2>1. CASE SizeChanges /\ UNCHANGED <<acl, kept>>
    BY <1>0, <2>1, SyscallsAssumption DEF SizeChanges, Inductive, Typed, GrantKeepsEntries
  <2>2. CASE OtherEntry
    BY <1>0, <2>2, Zenon DEF OtherEntry, Inductive, Typed, GrantKeepsEntries, Flags
  <2> QED
    BY <2>1, <2>2 DEF Others
<1>3. ASSUME NEW c \in Callers PROVE Local(c)'
  <2>1. CASE kept' = kept
    BY <1>0, <2>1, OtherCaller DEF Inductive
  <2>2. CASE kept' # kept
    <3>1. me[c].api = "Grant" => me[c].pc \notin {"generate", "set"}
      BY <2>2 DEF Others, SizeChanges, OtherEntry, Grants
    <3>2. Local(c) /\ me'[c] = me[c] /\ text' = text /\ kind' = kind
      BY <1>0 DEF Inductive
    <3>3. GrantOf(c)'
      BY <3>1, <3>2 DEF GrantOf
    <3>4. Holds(me[c])'
      BY <3>2, Zenon DEF Local, Holds, HoldsHandle, HoldsBuffer, HoldsMemory, OfFile
    <3>5. WholeOf(c)' /\ AttemptsOf(c)'
      BY <3>2, Zenon DEF Local, WholeOf, AttemptsOf, HoldsBuffer
    <3> QED
      BY <3>3, <3>4, <3>5 DEF Local
  <2> QED
    BY <2>1, <2>2
<1> QED
  BY <1>1, <1>2, <1>3 DEF Inductive

(* The invariant, of every behaviour.                                      *)
THEOREM Invariance == SSpec => []Inductive
<1>1. Inductive /\ [SNext]_svars => Inductive'
  <2> SUFFICES ASSUME Inductive, [SNext]_svars PROVE Inductive'
    OBVIOUS
  <2>1. CASE UNCHANGED svars
    <3>0. /\ me' = me /\ table' = table /\ UNCHANGED <<size, cap, text, pool, kind>>
          /\ acl' = acl /\ kept' = kept
      BY <2>1, ZenonT(40) DEF svars
    <3>1. Typed' /\ Tabled' /\ Buffered' /\ GrantKeepsEntries'
      BY <3>0 DEF Inductive, Typed, Tabled, Buffered, GrantKeepsEntries
    <3>2. ASSUME NEW c \in Callers PROVE Local(c)'
      BY <3>0, OtherCaller DEF Inductive
    <3> QED
      BY <3>1, <3>2 DEF Inductive
  <2>2. ASSUME NEW c \in Callers, CallStep(c) PROVE Inductive'
    BY <2>2, VhdHolds, VmGroupHolds, AccountHolds, ProcessHolds, BackupHolds, PathHolds, BindHolds
       DEF CallStep
  <2> QED
    BY <2>1, <2>2, OthersHold DEF SNext
<1> QED
  BY <1>1, InitHolds, PTL DEF SSpec

(* No function works with a handle that it has not opened or has already   *)
(* closed, and none leaves one open or memory unfreed, on any path of the  *)
(* wrappers and however their steps interleave.                            *)
THEOREM SyscallsHandlesAreOwn == SSpec => []HandlesAreOwn
<1>1. Inductive => HandlesAreOwn
  <2> SUFFICES ASSUME Inductive PROVE HandlesAreOwn
    OBVIOUS
  <2>1. ASSUME NEW c \in Callers, me[c].pc = "idle"
        PROVE  me[c].h = Nil /\ (me[c].mem = {} \/ me[c].flags = {"lost"})
    BY <2>1, Zenon DEF Inductive, Local, Holds, HoldsHandle, HoldsMemory, OfFile
  <2> QED
    BY <2>1 DEF Inductive, Tabled, HandlesAreOwn
<1> QED
  BY <1>1, Invariance, PTL

(* The answer of the last call of the system is returned whole, whichever  *)
(* buffers of the pool it has gone through, and ResolvePath and            *)
(* getFinalPath return no error that another form of the path avoids.      *)
THEOREM SyscallsResultIsWhole == SSpec => []ResultIsWhole
<1>1. Inductive => ResultIsWhole
  <2> SUFFICES ASSUME Inductive, NEW c \in Callers
               PROVE  /\ me[c].out = "done" => me[c].got = me[c].seen
                      /\ me[c].out = "notFound" => kind = "gone"
                      /\ me[c].out = "denied" => me[c].api = "Mappings" /\ kind = "restricted"
    BY Zenon DEF ResultIsWhole
  <2> QED
    BY Zenon DEF Inductive, Local, WholeOf, AttemptsOf, HoldsBuffer
<1> QED
  BY <1>1, Invariance, PTL

(* GrantVmGroupAccess loses no entry but those added between its reading   *)
(* and its setting of the list, whoever else calls it at the same time.    *)
THEOREM SyscallsGrantKeepsEntries == SSpec => []GrantKeepsEntries
<1>1. Inductive => GrantKeepsEntries
  BY DEF Inductive
<1> QED
  BY <1>1, Invariance, PTL
=============================================================================
