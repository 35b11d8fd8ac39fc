----------------------------- MODULE BindFilter -----------------------------
(***************************************************************************)
(* pkg/bindfilter: bindings of a root to a source, and GetBindMappings,    *)
(* which lists them with one call and then opens every path of the list,   *)
(* a target and a mount point for each binding, to ask for its final form. *)
(***************************************************************************)
EXTENDS FinalPath, FiniteSets

CONSTANTS
  Roots,
  FirstPath       \* the length of the first buffer of getFinalPath; 100 in the code

VARIABLES
  binds,          \* roots that are bound
  todo            \* per caller: the paths of its list still to be resolved

BInit == binds = {} /\ todo = [c \in Callers |-> 0]

(* os.MkdirAll and bfSetupFilter, which refuses a second target for a      *)
(* root: BINDFLT_FLAG_NO_MULTIPLE_TARGETS.                                 *)
ApplyFileBinding(c) ==
  /\ UNCHANGED <<table, todo>>
  /\ \/ Call(c, "Apply", "mkdir") /\ UNCHANGED binds
     \/ /\ At(c, "Apply", "mkdir") /\ UNCHANGED binds
        /\ JumpTo(c, "setup") \/ Return(c, "error", "idle")
     \/ /\ At(c, "Apply", "setup")
        /\ \/ \E r \in Roots \ binds : binds' = binds \cup {r} /\ Return(c, "done", "idle")
           \/ Return(c, "error", "idle") /\ UNCHANGED binds

RemoveFileBinding(c) ==
  /\ UNCHANGED <<table, todo>>
  /\ \/ Call(c, "Remove", "remove") /\ UNCHANGED binds
     \/ /\ At(c, "Remove", "remove")
        /\ \/ \E r \in binds : binds' = binds \ {r} /\ Return(c, "done", "idle")
           \/ Return(c, "error", "idle") /\ UNCHANGED binds

(* The target and the mount point of each binding.                         *)
Paths == 2 * Cardinality(binds)

bfGetMappings(c) ==
  /\ UNCHANGED <<table, binds>>
  /\ \/ Call(c, "Mappings", "list") /\ UNCHANGED todo
     \/ /\ At(c, "Mappings", "list")
        /\ \/ Return(c, "error", "idle") /\ UNCHANGED todo
           \/ /\ todo' = [todo EXCEPT ![c] = Paths]
              /\ IF binds = {} THEN Return(c, "done", "idle") ELSE JumpTo(c, "path")

-----------------------------------------------------------------------------
(* getFinalPath.                                                           *)

openPath(c) ==
  /\ At(c, "Mappings", "path") /\ UNCHANGED <<binds, todo>>
  /\ \/ \E k \in Handles :
          /\ table[k] = Nil /\ table' = [table EXCEPT ![k] = c]
          /\ me' = [me EXCEPT ![c].h = k, ![c].n = FirstPath, ![c].flags = {}, ![c].pc = "query"]
     \/ Return(c, "error", "idle") /\ UNCHANGED table

(* A volume without a letter: ask for the path with the volume's GUID.     *)
AskGuid(c, err) == err = "notFound" /\ "guid" \notin me[c].flags

getFinalPath(c) ==
  /\ At(c, "Mappings", "query") /\ UNCHANGED <<table, binds, todo>>
  /\ \/ \E err \in Errors(me[c].flags \cup {"normalize"}) :
          IF AskGuid(c, err) THEN me' = [me EXCEPT ![c].flags = {"guid"}]
          ELSE Return(c, err, "deferred")
     \/ /\ KindErrors(me[c].flags \cup {"normalize"}) = {}
        /\ \/ size >= me[c].n /\ me' = [me EXCEPT ![c].n = size + 1]
           \/ /\ size < me[c].n
              /\ me' = [me EXCEPT ![c].seen = size, ![c].got = Filled(me[c].n), ![c].out = "done",
                                  ![c].pc = "deferred"]

(* An error ends GetBindMappings, otherwise the next path is resolved.     *)
NextMapping(c) ==
  /\ At(c, "Mappings", "deferred") /\ UNCHANGED binds
  /\ IF me[c].out # "done" \/ todo[c] = 1
       THEN CloseHandle(c, "idle") /\ todo' = [todo EXCEPT ![c] = 0]
       ELSE CloseHandle(c, "path") /\ todo' = [todo EXCEPT ![c] = @ - 1]

BindStep(c) ==
  /\ \/ ApplyFileBinding(c) \/ RemoveFileBinding(c) \/ bfGetMappings(c) \/ openPath(c)
     \/ getFinalPath(c) \/ NextMapping(c)
  /\ UNCHANGED <<size, changes, kind, cap, text, pool>>
=============================================================================
