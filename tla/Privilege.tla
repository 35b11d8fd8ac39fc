----------------------------- MODULE Privilege ------------------------------
(***************************************************************************)
(* privilege.go: RunWithPrivileges, which gives the thread a token of its  *)
(* own for the time of a function call, and Enable- and                    *)
(* DisableProcessPrivileges, which change the token of the process.        *)
(* Goroutines call them at the same time, and from within a function that  *)
(* runs with privileges; Go's scheduler moves goroutines between threads,  *)
(* but for those that have called LockOSThread.                            *)
(*                                                                         *)
(* A token is the set of the privileges enabled in it.  An unrecovered     *)
(* panic ends the process.                                                 *)
(***************************************************************************)
EXTENDS Naturals

CONSTANTS
  Goroutines, Threads,
  Names,          \* names of privileges
  Assigned,       \* the privileges that the account has
  MaxDepth,       \* bound: calls of RunWithPrivileges within each other
  Absent

ASSUME PrivilegeAssumption ==
  /\ Assigned \subseteq Names /\ MaxDepth \in Nat
  /\ Absent \notin Threads /\ \A S \in SUBSET Names : S # Absent

VARIABLES
  pc,             \* per goroutine: "code" is the application's own, fn's included
  depth,          \* the calls of RunWithPrivileges whose fn is being run
  op, names,      \* the call being made: "run", "enable", "disable"; what for
  thread,         \* the thread a goroutine is on, or Absent
  locked,         \* calls of LockOSThread not undone
  handles,        \* tokens that a goroutine has open
  token,          \* per thread: the token that it impersonates, or Absent
  process,        \* the token of the process
  privNames,      \* names already looked up
  want,           \* history: what fn asked for, as long as no other call has
                  \* replaced the token
  crashed

call == <<op, names>>
rvars == <<pc, depth, op, names, thread, locked, handles, token, process, privNames, want, crashed>>

Ops == {"run", "enable", "disable"}

RInit ==
  /\ pc = [g \in Goroutines |-> "code"]
  /\ depth = [g \in Goroutines |-> 0] /\ locked = [g \in Goroutines |-> 0]
  /\ handles = [g \in Goroutines |-> 0]
  /\ op = [g \in Goroutines |-> "run"] /\ names = [g \in Goroutines |-> {}]
  /\ thread = [g \in Goroutines |-> Absent] /\ token = [t \in Threads |-> Absent]
  /\ process \in SUBSET Assigned /\ privNames = {}
  /\ want = [g \in Goroutines |-> {}] /\ crashed = FALSE

Goto(g, label) == pc' = [pc EXCEPT ![g] = label]

-----------------------------------------------------------------------------
(* The scheduler of Go.                                                    *)
Schedule(g, t) ==
  /\ thread[g] = Absent /\ \A o \in Goroutines : thread[o] # t
  /\ thread' = [thread EXCEPT ![g] = t]
  /\ UNCHANGED <<pc, depth, call, locked, handles, token, process, privNames, want, crashed>>

Deschedule(g) ==
  /\ thread[g] # Absent /\ locked[g] = 0
  /\ thread' = [thread EXCEPT ![g] = Absent]
  /\ UNCHANGED <<pc, depth, call, locked, handles, token, process, privNames, want, crashed>>

-----------------------------------------------------------------------------
(* mapPrivileges holds the mutex: a lookup fails, or all names are known.  *)
MapPrivileges(g) ==
  /\ pc[g] = "code"
  /\ \E o \in Ops, ns \in SUBSET Names \ {{}} :
       /\ o = "run" => depth[g] < MaxDepth
       /\ \/ /\ privNames' = privNames \cup ns
             /\ op' = [op EXCEPT ![g] = o] /\ names' = [names EXCEPT ![g] = ns]
             /\ Goto(g, IF o = "run" THEN "lock" ELSE "openProcess")
          \/ /\ ~(ns \subseteq privNames)
             /\ \E found \in SUBSET ns :
                  found # ns /\ privNames' = privNames \cup found
             /\ UNCHANGED <<pc, call>>
  /\ UNCHANGED <<depth, thread, locked, handles, token, process, want, crashed>>

Lock(g) ==
  /\ pc[g] = "lock" /\ Goto(g, "impersonate")
  /\ locked' = [locked EXCEPT ![g] = @ + 1]
  /\ UNCHANGED <<depth, call, thread, handles, token, process, privNames, want, crashed>>

(* newThreadToken: the new token has what the process has enabled.         *)
ImpersonateSelf(g) ==
  /\ pc[g] = "impersonate"
  /\ \/ /\ token' = [token EXCEPT ![thread[g]] = process]
        /\ want' = [want EXCEPT ![g] = {}]
        /\ Goto(g, "openThread")
     \/ Goto(g, "unlock") /\ UNCHANGED <<token, want>>
  /\ UNCHANGED <<depth, call, thread, locked, handles, process, privNames, crashed>>

(* revertToSelf, and the panic when it fails.                              *)
RevertToSelf(g, next) ==
  \/ /\ token' = [token EXCEPT ![thread[g]] = Absent]
     /\ Goto(g, next) /\ UNCHANGED crashed
  \/ crashed' = TRUE /\ UNCHANGED <<pc, token>>

(* Mutant: a token that cannot be opened is left to the thread.            *)
OpenFails_Stays(g) == Goto(g, "unlock") /\ UNCHANGED <<token, crashed>>

OpenFails(g) == RevertToSelf(g, "unlock")

OpenThreadToken(g) ==
  /\ pc[g] = "openThread"
  /\ \/ /\ handles' = [handles EXCEPT ![g] = @ + 1]
        /\ Goto(g, "adjust") /\ UNCHANGED <<token, crashed>>
     \/ OpenFails(g) /\ UNCHANGED handles
  /\ UNCHANGED <<depth, call, thread, locked, process, privNames, want>>

(* Mutant: that some privileges are missing is passed over.                *)
AllAssigned_Always(g) == TRUE

AllAssigned(g) == names[g] \subseteq Assigned

(* adjustPrivileges: the privileges that the account has are enabled also  *)
(* when some are missing (ERROR_NOT_ALL_ASSIGNED).                         *)
AdjustPrivileges(g) ==
  /\ pc[g] = "adjust"
  /\ \/ /\ token' = [token EXCEPT ![thread[g]] = @ \cup (names[g] \cap Assigned)]
        /\ IF AllAssigned(g)
             THEN /\ Goto(g, "code") /\ depth' = [depth EXCEPT ![g] = @ + 1]
                  /\ want' = [want EXCEPT ![g] = names[g]]
             ELSE Goto(g, "release") /\ UNCHANGED <<depth, want>>
     \/ Goto(g, "release") /\ UNCHANGED <<token, depth, want>>
  /\ UNCHANGED <<call, thread, locked, handles, process, privNames, crashed>>

FnReturns(g) ==
  /\ pc[g] = "code" /\ depth[g] > 0
  /\ Goto(g, "release") /\ depth' = [depth EXCEPT ![g] = @ - 1]
  /\ want' = [want EXCEPT ![g] = {}]
  /\ UNCHANGED <<call, thread, locked, handles, token, process, privNames, crashed>>

ReleaseThreadToken(g) ==
  /\ pc[g] = "release" /\ RevertToSelf(g, "close")
  /\ UNCHANGED <<depth, call, thread, locked, handles, process, privNames, want>>

CloseToken(g) ==
  /\ pc[g] = "close" /\ Goto(g, "unlock")
  /\ handles' = [handles EXCEPT ![g] = @ - 1]
  /\ UNCHANGED <<depth, call, thread, locked, token, process, privNames, want, crashed>>

Unlock(g) ==
  /\ pc[g] = "unlock" /\ Goto(g, "code")
  /\ locked' = [locked EXCEPT ![g] = @ - 1]
  /\ UNCHANGED <<depth, call, thread, handles, token, process, privNames, want, crashed>>

-----------------------------------------------------------------------------
(* enableDisableProcessPrivilege.                                          *)
OpenProcessToken(g) ==
  /\ pc[g] = "openProcess"
  /\ \/ handles' = [handles EXCEPT ![g] = @ + 1] /\ Goto(g, "adjustProcess")
     \/ Goto(g, "code") /\ UNCHANGED handles
  /\ UNCHANGED <<depth, call, thread, locked, token, process, privNames, want, crashed>>

AdjustProcess(g) ==
  /\ pc[g] = "adjustProcess" /\ Goto(g, "closeProcess")
  /\ \/ process' = IF op[g] = "enable" THEN process \cup (names[g] \cap Assigned)
                   ELSE process \ names[g]
     \/ UNCHANGED process
  /\ UNCHANGED <<depth, call, thread, locked, handles, token, privNames, want, crashed>>

CloseProcessToken(g) ==
  /\ pc[g] = "closeProcess" /\ Goto(g, "code")
  /\ handles' = [handles EXCEPT ![g] = @ - 1]
  /\ UNCHANGED <<depth, call, thread, locked, token, process, privNames, want, crashed>>

-----------------------------------------------------------------------------
RunStep(g) ==
  /\ thread[g] # Absent
  /\ \/ MapPrivileges(g) \/ Lock(g) \/ ImpersonateSelf(g) \/ OpenThreadToken(g)
     \/ AdjustPrivileges(g) \/ FnReturns(g) \/ ReleaseThreadToken(g) \/ CloseToken(g) \/ Unlock(g)
     \/ OpenProcessToken(g) \/ AdjustProcess(g) \/ CloseProcessToken(g)

RNext ==
  /\ ~crashed
  /\ \E g \in Goroutines :
       RunStep(g) \/ Deschedule(g) \/ \E t \in Threads : Schedule(g, t)

RSpec == RInit /\ [][RNext]_rvars

-----------------------------------------------------------------------------
(* No code outside of RunWithPrivileges runs with what a call has enabled, *)
(* whichever way the call ended: the threads that the scheduler has to     *)
(* give away, and those of goroutines in no call, have no token (the       *)
(* deferred releaseThreadToken before the deferred UnlockOSThread).        *)
PrivilegesAreScoped ==
  /\ \A g \in Goroutines :
       pc[g] = "code" /\ depth[g] = 0 =>
         handles[g] = 0 /\ (thread[g] # Absent => token[thread[g]] = Absent)
  /\ \A t \in Threads : (\A g \in Goroutines : thread[g] # t) => token[t] = Absent

(* fn runs with all the privileges that its call asked for, wherever other *)
(* goroutines are, until it makes a call of RunWithPrivileges of its own:  *)
(* that one takes the token of the outer call away for good.               *)
FnHasPrivileges ==
  \A g \in Goroutines :
    want[g] # {} => /\ thread[g] # Absent
                    /\ token[thread[g]] # Absent /\ want[g] \subseteq token[thread[g]]
=============================================================================
