------------------------------ MODULE Syscalls ------------------------------
(***************************************************************************)
(* The wrappers of Windows calls side by side in one process: each caller  *)
(* uses the functions of one package, and all of them share the handle     *)
(* table, the pool of string buffers and the objects they ask for.         *)
(***************************************************************************)
EXTENDS BindFilter, Vhd, VmGroupAccess, Queries, BackupFile

CONSTANT Packages    \* the packages in use

ASSUME SyscallsAssumption ==
  /\ Nil \notin Callers \cup Handles \cup Buffers
  /\ Sizes \subseteq Nat /\ Versions \subseteq Nat
  /\ FirstCount \in Nat /\ FirstPath \in Nat /\ MinWStringCap \in Nat

(* A buffer can always be made: they are not all held by callers, which    *)
(* hold at most one each.                                                  *)
ASSUME BuffersAssumption ==
  \A holder \in [Buffers -> Callers] : \E x, y \in Buffers : x # y /\ holder[x] = holder[y]

VARIABLE uses        \* per caller: the package whose functions it calls

svars == <<me, table, size, changes, kind, cap, text, pool, binds, todo, acl, kept, uses>>

SInit == CInit /\ PInit /\ BInit /\ VInit /\ uses \in [Callers -> Packages \cup {"none"}]

others == <<cap, text, pool, kind, binds, todo, acl, kept>>

CallStep(c) ==
  /\ UNCHANGED uses
  /\ \/ uses[c] = "vhd" /\ VhdStep(c) /\ UNCHANGED others
     \/ uses[c] = "security" /\ VmGroupStep(c) /\ UNCHANGED <<cap, text, pool, kind, binds, todo>>
     \/ uses[c] = "sd" /\ AccountStep(c) /\ UNCHANGED others
     \/ uses[c] = "process" /\ ProcessStep(c) /\ UNCHANGED others
     \/ uses[c] = "backup" /\ BackupStep(c) /\ UNCHANGED others
     \/ uses[c] = "fs" /\ PathStep(c) /\ UNCHANGED <<binds, todo, acl, kept>>
     \/ uses[c] = "bindfilter" /\ BindStep(c) /\ UNCHANGED <<acl, kept>>

Others ==
  /\ UNCHANGED <<uses, cap, text, pool, kind, binds, todo>>
  /\ \/ SizeChanges /\ UNCHANGED <<acl, kept>>
     \/ (\E c \in Callers : uses[c] = "security") /\ OtherEntry

SNext == (\E c \in Callers : CallStep(c)) \/ Others

(* A thread inside a function takes its next step.                         *)
SFair == \A c \in Callers : WF_svars(me[c].pc \notin {"idle", "use", "file"} /\ CallStep(c))

SSpec == SInit /\ [][SNext]_svars /\ SFair

-----------------------------------------------------------------------------
(* A function works on the handle it has opened, never on one that has     *)
(* been closed and perhaps given to someone else, and when it returns      *)
(* nothing is left open or allocated, on its error paths too.  The one     *)
(* exception is a context that BackupFileReader.Close could not free, as   *)
(* that of a file which was closed before it.                              *)
HandlesAreOwn ==
  /\ \A c \in Callers : me[c].h # Nil => table[me[c].h] = c
  /\ \A c \in Callers : me[c].pc = "idle" => me[c].h = Nil /\ (me[c].mem = {} \/ me[c].flags = {"lost"})
  /\ \A k \in Handles : table[k] # Nil => me[table[k]].h = k

(* What is returned is what the last call of the system has told, whole    *)
(* and not mixed with that of another caller, although it may change       *)
(* between two calls and the buffers are shared; and an error that has     *)
(* another way around it is not returned (the retries of ResolvePath,      *)
(* getFinalPath and EnumProcesses; LookupSidByName has none, and fails if  *)
(* the account has outgrown the length it was told).                       *)
ResultIsWhole ==
  \A c \in Callers :
    /\ me[c].out = "done" => me[c].got = me[c].seen
    /\ me[c].out = "notFound" => kind = "gone"
    /\ me[c].out = "denied" => me[c].api = "Mappings" /\ kind = "restricted"

(* Every function returns: the loops that ask again with a longer buffer   *)
(* or other flags (GetFinalPathNameByHandle, which is unsure of it) end    *)
(* once the answer has stopped changing.                                   *)
QueriesEnd ==
  \A c \in Callers :
    me[c].pc \notin {"idle", "use", "file"} ~> me[c].pc \in {"idle", "use", "file"}
=============================================================================
