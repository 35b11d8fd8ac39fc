------------------------------ MODULE WinCalls ------------------------------
(***************************************************************************)
(* What the wrappers of single Windows calls have in common (vhd, pkg/fs,  *)
(* pkg/bindfilter, pkg/process, pkg/security, sd.go, backup.go): callers   *)
(* that each run one function at a time, the handle table of the process,  *)
(* whose numbers are given out again once they are closed, and objects     *)
(* whose names and numbers change while a function asks for them.          *)
(*                                                                         *)
(* Any call of the system may fail; the error path of a function is an     *)
(* alternative of the step that makes the call.                            *)
(***************************************************************************)
EXTENDS Naturals

CONSTANTS
  Callers,
  Handles,      \* numbers of handles
  Sizes,        \* how long a name or a list may be; stands for its contents
  MaxChanges,   \* bound: how often it changes
  Nil

VARIABLES
  me,           \* per caller: api, pc, and the local variables of the function
  table,        \* per handle: the caller that it was opened for, or Nil
  size,         \* the length of what is asked for, now
  changes

(* h, a handle; mem, memory of the system's to be freed; n, the length of  *)
(* a buffer, or a version; buf, a buffer of the pool; flags, a set that    *)
(* the function keeps; seen, what the last successful call told; out and   *)
(* got, the result of the function: how it ended, and what it returns.     *)
Caller ==
  [api |-> "none", pc |-> "idle", h |-> Nil, mem |-> {}, n |-> 0, buf |-> Nil, flags |-> {},
   seen |-> 0, got |-> 0, out |-> "none"]

CInit ==
  /\ me = [c \in Callers |-> Caller] /\ table = [k \in Handles |-> Nil]
  /\ size \in Sizes /\ changes = 0

At(c, api, label) == me[c].api = api /\ me[c].pc = label

(* The application calls a function.                                       *)
Call(c, api, label) ==
  /\ me[c].pc = "idle"
  /\ me' = [me EXCEPT ![c] = [Caller EXCEPT !.api = api, !.pc = label]]
  /\ UNCHANGED table

JumpTo(c, label) == me' = [me EXCEPT ![c].pc = label]

(* The function goes to its deferred calls with a result.                  *)
Return(c, out, label) == me' = [me EXCEPT ![c].out = out, ![c].pc = label]

(* A handle that is not in use, or an error.                               *)
Open(c, ok, failed) ==
  \/ \E k \in Handles :
       /\ table[k] = Nil /\ table' = [table EXCEPT ![k] = c]
       /\ me' = [me EXCEPT ![c].h = k, ![c].pc = ok]
  \/ Return(c, "error", failed) /\ UNCHANGED table

(* The deferred calls of a function, at its end: LocalFree, CloseHandle.   *)
LocalFree(c, what) == me' = [me EXCEPT ![c].mem = @ \ {what}] /\ UNCHANGED table

CloseHandle(c, label) ==
  /\ table' = [table EXCEPT ![me[c].h] = Nil]
  /\ me' = [me EXCEPT ![c] = [@ EXCEPT !.h = Nil, !.n = 0, !.flags = {}, !.pc = label]]

(* What the system puts into a buffer of length n.                         *)
Filled(n) == IF size < n THEN size ELSE n

(* Files are renamed, processes started, accounts renamed.                 *)
SizeChanges ==
  /\ changes < MaxChanges /\ changes' = changes + 1
  /\ size' \in Sizes \ {size}
  /\ UNCHANGED <<me, table>>
=============================================================================
