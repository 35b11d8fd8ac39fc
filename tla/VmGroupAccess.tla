--------------------------- MODULE VmGroupAccess ----------------------------
(***************************************************************************)
(* GrantVmGroupAccess (pkg/security): reads the access control list of a   *)
(* file, adds the entry of the VM group to a copy, and sets the copy.      *)
(* Others may add entries of their own at any time.                        *)
(***************************************************************************)
EXTENDS WinCalls

CONSTANT Entries     \* of others

VARIABLES
  acl,          \* the entries of the file's list
  kept          \* history: entries that nothing has had a reason to lose

VInit == acl = {"own"} /\ kept = {"own"}

Stat(c) ==
  \/ Call(c, "Grant", "stat")
  \/ /\ At(c, "Grant", "stat") /\ UNCHANGED table
     /\ JumpTo(c, "create") \/ Return(c, "error", "idle")

createFile(c) == At(c, "Grant", "create") /\ Open(c, "get", "idle")

getSecurityInfo(c) ==
  /\ At(c, "Grant", "get") /\ UNCHANGED table
  /\ \/ me' = [me EXCEPT ![c].mem = {"sd"}, ![c].flags = acl, ![c].pc = "generate"]
     \/ Return(c, "error", "deferred")

(* Mutant: the entry is added to an empty list.                            *)
NewDACL_Empty(orig) == {"vm"}

NewDACL(orig) == orig \cup {"vm"}

generateDACLWithAcesAdded(c) ==
  /\ At(c, "Grant", "generate") /\ UNCHANGED table
  /\ \/ me' = [me EXCEPT ![c].mem = @ \cup {"dacl"}, ![c].flags = NewDACL(@), ![c].pc = "set"]
     \/ Return(c, "error", "deferred")

setSecurityInfo(c) ==
  /\ At(c, "Grant", "set") /\ UNCHANGED table
  /\ \/ /\ acl' = me[c].flags /\ kept' = kept \cup {"vm"}
        /\ Return(c, "done", "deferred")
     \/ Return(c, "error", "deferred") /\ UNCHANGED <<acl, kept>>

(* The new list is freed, then the descriptor, and the handle closed.      *)
GrantReturns(c) ==
  /\ At(c, "Grant", "deferred")
  /\ IF me[c].mem # {} THEN LocalFree(c, IF "dacl" \in me[c].mem THEN "dacl" ELSE "sd")
     ELSE CloseHandle(c, "idle")

VmGroupStep(c) ==
  /\ \/ Stat(c) /\ UNCHANGED <<acl, kept>>
     \/ createFile(c) /\ UNCHANGED <<acl, kept>>
     \/ getSecurityInfo(c) /\ UNCHANGED <<acl, kept>>
     \/ generateDACLWithAcesAdded(c) /\ UNCHANGED <<acl, kept>>
     \/ setSecurityInfo(c)
     \/ GrantReturns(c) /\ UNCHANGED <<acl, kept>>
  /\ UNCHANGED <<size, changes>>

(* An entry that comes between the reading and the setting of the list by  *)
(* a caller is lost: there is no way to do both at once.                   *)
Grants == {c \in Callers : me[c].api = "Grant" /\ me[c].pc \in {"generate", "set"}}

OtherEntry ==
  /\ \E e \in Entries \ acl :
       acl' = acl \cup {e} /\ kept' = IF Grants = {} THEN kept \cup {e} ELSE kept
  /\ UNCHANGED <<me, table, size, changes>>

(* The list keeps the entries it has had, and once a call has succeeded    *)
(* that of the VM group, whatever else is called at the same time          *)
(* (GrantVmGroupAccess builds on the list that it has read).               *)
GrantKeepsEntries == kept \subseteq acl
=============================================================================
