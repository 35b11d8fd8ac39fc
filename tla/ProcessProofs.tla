--------------------------- MODULE ProcessProofs ----------------------------
(***************************************************************************)
(* What the goroutines of a process share: the ETW providers that it has   *)
(* registered (module EtwProvider), and its threads, with the tokens that  *)
(* they run with (module Privilege).                                       *)
(***************************************************************************)
EXTENDS EtwProvider, Privilege, TLAPS

-----------------------------------------------------------------------------
(***************************************************************************)
(* RunWithPrivileges, for any number of goroutines, threads and            *)
(* privileges, and calls within calls to any depth: PrivilegesAreScoped    *)
(* and FnHasPrivileges.                                                    *)
(*                                                                         *)
(* Neither is inductive.  A thread without a token stays so because only   *)
(* the goroutine on it can give it one, and that goroutine is then tied to *)
(* it: the invariant keeps the goroutines on threads of their own (Apart), *)
(* the threads without one free of tokens (Free), and accounts for what    *)
(* each goroutine has locked and opened, and for the labels at which its   *)
(* thread has a token, or none (Account).                                  *)
(***************************************************************************)
RunLabels ==
  {"code", "lock", "impersonate", "openThread", "adjust", "release", "close", "unlock",
   "openProcess", "adjustProcess", "closeProcess"}

InLock == {"impersonate", "openThread", "adjust", "release", "close", "unlock"}
InOpen == {"adjust", "release", "close", "adjustProcess", "closeProcess"}

RunTyped ==
  /\ pc \in [Goroutines -> RunLabels]
  /\ depth \in [Goroutines -> Nat] /\ locked \in [Goroutines -> Nat] /\ handles \in [Goroutines -> Nat]
  /\ names \in [Goroutines -> SUBSET Names] /\ want \in [Goroutines -> SUBSET Names]
  /\ thread \in [Goroutines -> Threads \cup {Absent}]
  /\ token \in [Threads -> (SUBSET Names) \cup {Absent}] /\ process \in SUBSET Names

Apart ==
  \A g, o \in Goroutines : thread[g] = thread[o] /\ thread[g] # Absent => g = o

Free == \A t \in Threads : (\A g \in Goroutines : thread[g] # t) => token[t] = Absent

Counts(g) ==
  /\ locked[g] = IF pc[g] \in InLock THEN depth[g] + 1 ELSE depth[g]
  /\ handles[g] = IF pc[g] \in InOpen THEN depth[g] + 1 ELSE depth[g]

Tokens(g) ==
  /\ depth[g] = 0 /\ pc[g] \notin {"openThread", "adjust", "release"} => token[thread[g]] = Absent
  /\ pc[g] \in {"openThread", "adjust"} => token[thread[g]] # Absent

Wanted(g) ==
  want[g] # {} =>
    /\ depth[g] > 0 /\ pc[g] \notin {"openThread", "adjust", "release", "close"}
    /\ token[thread[g]] # Absent /\ want[g] \subseteq token[thread[g]]

Account(g) ==
  /\ Counts(g) /\ Wanted(g)
  /\ IF thread[g] = Absent THEN locked[g] = 0 ELSE Tokens(g)

IInv == RunTyped /\ Apart /\ Free /\ \A g \in Goroutines : Account(g)

(* What a goroutine on a thread of its own leaves alone.                   *)
OthersStay(g) ==
  /\ thread' = thread
  /\ \A o \in Goroutines \ {g} :
       /\ pc'[o] = pc[o] /\ depth'[o] = depth[o] /\ locked'[o] = locked[o]
       /\ handles'[o] = handles[o] /\ want'[o] = want[o]
  /\ \A t \in Threads \ {thread[g]} : token'[t] = token[t]

(* What it has to see to, for the invariant to hold after its step.        *)
OwnHolds(g) == RunTyped' /\ OthersStay(g) /\ Counts(g)' /\ Tokens(g)' /\ Wanted(g)'

(* The states that a program starts in satisfy the invariant.              *)
LEMMA RunInitHolds == RInit => IInv
<1> SUFFICES ASSUME RInit PROVE IInv
  OBVIOUS
<1> USE PrivilegeAssumption DEF RInit
<1>1. RunTyped
  BY DEF RunTyped, RunLabels
<1>2. Apart /\ Free
  BY DEF Apart, Free
<1>3. ASSUME NEW g \in Goroutines PROVE Account(g)
  BY DEF Account, Counts, Wanted, InLock, InOpen
<1> QED
  BY <1>1, <1>2, <1>3 DEF IInv

(* The scheduler moves only goroutines that have locked nothing, so those  *)
(* outside of any call, without a token, to threads that have none (Free). *)
LEMMA SchedulerHolds ==
  ASSUME IInv, NEW g \in Goroutines, Deschedule(g) \/ \E t \in Threads : Schedule(g, t)
  PROVE  IInv'
<1>0. RunTyped /\ Apart /\ Free /\ Account(g)
  BY DEF IInv
<1>1. PICK t \in Threads \cup {Absent} :
        /\ thread' = [thread EXCEPT ![g] = t]
        /\ t # Absent => thread[g] = Absent /\ \A o \in Goroutines : thread[o] # t
        /\ t = Absent => thread[g] # Absent /\ locked[g] = 0
  BY PrivilegeAssumption DEF Schedule, Deschedule
<1>2. /\ UNCHANGED <<pc, depth, names, locked, handles, token, process, want>>
  BY DEF Schedule, Deschedule, call
<1>3. locked[g] = 0 /\ depth[g] = 0 /\ pc[g] \notin InLock
  BY <1>0, <1>1 DEF Account, Counts, RunTyped
<1>4. RunTyped'
  BY <1>0, <1>1, <1>2 DEF RunTyped
<1>5. Apart'
  BY <1>0, <1>1 DEF Apart, RunTyped
<1>6. Free'
  <2> SUFFICES ASSUME NEW u \in Threads, \A o \in Goroutines : thread'[o] # u PROVE token[u] = Absent
    BY <1>2 DEF Free
  <2>1. CASE thread[g] = u
    BY <2>1, <1>0, <1>3, PrivilegeAssumption DEF Account, Tokens, InLock
  <2>2. CASE thread[g] # u
    BY <2>2, <1>0, <1>1 DEF Free, RunTyped
  <2> QED
    BY <2>1, <2>2
<1>7. ASSUME NEW o \in Goroutines PROVE Account(o)'
  <2>1. Counts(o)'
    BY <1>2 DEF IInv, Account, Counts
  <2>2. CASE o = g
    <3>1. want[g] = {}
      BY <1>0, <1>3 DEF Account, Wanted
    <3>2. thread'[g] # Absent => token[thread'[g]] = Absent
      BY <1>0, <1>1 DEF Free, RunTyped
    <3> QED
      BY <2>1, <2>2, <3>1, <3>2, <1>2, <1>3 DEF Account, Tokens, Wanted, InLock
  <2>3. CASE o # g
    <3>1. thread'[o] = thread[o]
      BY <2>3, <1>0, <1>1 DEF RunTyped
    <3> QED
      BY <2>1, <3>1, <1>2 DEF IInv, Account, Tokens, Wanted
  <2> QED
    BY <2>2, <2>3
<1> QED
  BY <1>4, <1>5, <1>6, <1>7 DEF IInv

(* A step that leaves the other goroutines, and threads, alone keeps the   *)
(* invariant if it keeps the account of its own: no other goroutine is on  *)
(* its thread (Apart).                                                     *)
LEMMA OwnStep ==
  ASSUME IInv, NEW g \in Goroutines, thread[g] # Absent, OwnHolds(g)
  PROVE  IInv'
<1> USE DEF OwnHolds
<1>1. Apart'
  BY DEF IInv, OthersStay, Apart
<1>2. Free'
  BY DEF IInv, OthersStay, Free
<1>3. ASSUME NEW o \in Goroutines, o # g PROVE Account(o)'
  <2>1. /\ thread'[o] = thread[o] /\ pc'[o] = pc[o] /\ depth'[o] = depth[o]
        /\ locked'[o] = locked[o] /\ handles'[o] = handles[o] /\ want'[o] = want[o]
    BY <1>3 DEF OthersStay
  <2>2. thread[o] # Absent => token'[thread[o]] = token[thread[o]]
    BY <1>3 DEF IInv, RunTyped, Apart, OthersStay
  <2>3. Account(o) /\ locked[o] \in Nat /\ depth[o] \in Nat
    BY DEF IInv, RunTyped
  <2>4. thread[o] = Absent => want[o] = {}
    BY <2>3 DEF Account, Counts, Wanted
  <2> QED
    BY <2>1, <2>2, <2>3, <2>4 DEF Account, Counts, Tokens, Wanted
<1>4. Account(g)'
  BY DEF Account, OthersStay
<1> QED
  BY <1>1, <1>2, <1>3, <1>4 DEF IInv

(* A step of RunWithPrivileges touches the token of its own thread.        *)
LEMMA RunHolds ==
  ASSUME IInv, NEW g \in Goroutines, thread[g] # Absent,
         \/ MapPrivileges(g) \/ Lock(g) \/ ImpersonateSelf(g) \/ OpenThreadToken(g)
         \/ AdjustPrivileges(g) \/ FnReturns(g) \/ ReleaseThreadToken(g) \/ CloseToken(g) \/ Unlock(g)
  PROVE  IInv'
<1>0. RunTyped /\ Counts(g) /\ Tokens(g) /\ Wanted(g) /\ thread[g] \in Threads
  BY DEF IInv, Account, RunTyped
<1> SUFFICES OwnHolds(g)
  BY OwnStep
<1> USE PrivilegeAssumption DEF Goto, call
<1>1. CASE MapPrivileges(g)
  BY <1>0, <1>1, SMTT(30) DEF MapPrivileges, OwnHolds, RunTyped, RunLabels, OthersStay, Counts, InLock, InOpen,
     Tokens, Wanted
<1>2. CASE Lock(g)
  BY <1>0, <1>2, SMTT(30) DEF Lock, OwnHolds, RunTyped, RunLabels, OthersStay, Counts, InLock, InOpen,
     Tokens, Wanted
<1>3. CASE ImpersonateSelf(g)
  BY <1>0, <1>3, SMTT(30) DEF ImpersonateSelf, OwnHolds, RunTyped, RunLabels, OthersStay, Counts, InLock, InOpen,
     Tokens, Wanted
<1>4. CASE OpenThreadToken(g)
  BY <1>0, <1>4, SMTT(30) DEF OpenThreadToken, OpenFails, RevertToSelf, OwnHolds, RunTyped, RunLabels, OthersStay, Counts, InLock, InOpen,
     Tokens, Wanted
<1>5. CASE AdjustPrivileges(g)
  BY <1>0, <1>5 DEF AdjustPrivileges, AllAssigned, OwnHolds, RunTyped, RunLabels, OthersStay, Counts, InLock, InOpen,
     Tokens, Wanted
<1>6. CASE FnReturns(g)
  BY <1>0, <1>6 DEF FnReturns, OwnHolds, RunTyped, RunLabels, OthersStay, Counts, InLock, InOpen,
     Tokens, Wanted
<1>7. CASE ReleaseThreadToken(g)
  BY <1>0, <1>7 DEF ReleaseThreadToken, RevertToSelf, OwnHolds, RunTyped, RunLabels, OthersStay, Counts, InLock, InOpen,
     Tokens, Wanted
<1>8. CASE CloseToken(g)
  BY <1>0, <1>8, SMTT(30) DEF CloseToken, OwnHolds, RunTyped, RunLabels, OthersStay, Counts, InLock, InOpen,
     Tokens, Wanted
<1>9. CASE Unlock(g)
  BY <1>0, <1>9, SMTT(30) DEF Unlock, OwnHolds, RunTyped, RunLabels, OthersStay, Counts, InLock, InOpen,
     Tokens, Wanted
<1> QED
  BY <1>1, <1>2, <1>3, <1>4, <1>5, <1>6, <1>7, <1>8, <1>9

(* The calls that change the token of the process touch no thread.         *)
LEMMA ProcessTokenHolds ==
  ASSUME IInv, NEW g \in Goroutines, thread[g] # Absent,
         OpenProcessToken(g) \/ AdjustProcess(g) \/ CloseProcessToken(g)
  PROVE  IInv'
<1>0. RunTyped /\ Counts(g) /\ Tokens(g) /\ Wanted(g) /\ thread[g] \in Threads
  BY DEF IInv, Account, RunTyped
<1> SUFFICES OwnHolds(g)
  BY OwnStep
<1> USE PrivilegeAssumption DEF Goto, call
<1>1. CASE OpenProcessToken(g)
  BY <1>0, <1>1, SMTT(30) DEF OpenProcessToken, OwnHolds, RunTyped, RunLabels, OthersStay, Counts, InLock, InOpen,
     Tokens, Wanted
<1>2. CASE AdjustProcess(g)
  BY <1>0, <1>2 DEF AdjustProcess, OwnHolds, RunTyped, RunLabels, OthersStay, Counts, InLock, InOpen,
     Tokens, Wanted
<1>3. CASE CloseProcessToken(g)
  BY <1>0, <1>3, SMTT(30) DEF CloseProcessToken, OwnHolds, RunTyped, RunLabels, OthersStay, Counts, InLock, InOpen,
     Tokens, Wanted
<1> QED
  BY <1>1, <1>2, <1>3

(* The invariant, of every behaviour.                                      *)
THEOREM RunInvariance == RSpec => []IInv
<1>1. IInv /\ [RNext]_rvars => IInv'
  <2> SUFFICES ASSUME IInv, [RNext]_rvars PROVE IInv'
    OBVIOUS
  <2>1. CASE UNCHANGED rvars
    BY <2>1 DEF rvars, IInv, RunTyped, Apart, Free, Account, Counts, Tokens, Wanted
  <2>2. CASE RNext
    <3>1. PICK g \in Goroutines : RunStep(g) \/ Deschedule(g) \/ \E t \in Threads : Schedule(g, t)
      BY <2>2 DEF RNext
    <3>2. CASE RunStep(g)
      BY <3>2, RunHolds, ProcessTokenHolds DEF RunStep
    <3> QED
      BY <3>1, <3>2, SchedulerHolds
  <2> QED
    BY <2>1, <2>2
<1> QED
  BY <1>1, RunInitHolds, PTL DEF RSpec

(* RunWithPrivileges leaves no privilege behind: the code outside of it    *)
(* runs with the token of the process, and with no token left open.        *)
THEOREM Scoped == RSpec => []PrivilegesAreScoped
<1>1. IInv => PrivilegesAreScoped
  BY PrivilegeAssumption DEF IInv, RunTyped, Account, Counts, InOpen, Tokens, Free, PrivilegesAreScoped
<1> QED
  BY <1>1, RunInvariance, PTL

(* fn has its privileges: no other goroutine gets to its thread, and no    *)
(* call but one of its own replaces the token.                             *)
THEOREM Privileged == RSpec => []FnHasPrivileges
<1>1. IInv => FnHasPrivileges
  BY DEF IInv, RunTyped, Account, Counts, Wanted, FnHasPrivileges
<1> QED
  BY <1>1, RunInvariance, PTL

-----------------------------------------------------------------------------
(* The providers: the safety properties of EtwProvider for any number of   *)
(* providers, sessions and events.                                         *)

Stages == {"none", "named", "traits", "open", "removed", "closed", "failed"}

Types ==
  /\ ppc \in [Providers -> Stages]
  /\ index \in [Providers -> Nat] /\ nextIndex \in Nat
  /\ hasCallback \in [Providers -> BOOLEAN] /\ registered \subseteq Providers
  /\ session \in [Providers -> Sessions \cup {None}]
  /\ told \in [Providers -> Sessions \cup {None}]
  /\ cb \in [Providers -> {"idle", "get", "capture", "level", "any", "all", "call"}]
  /\ enabled \in [Providers -> BOOLEAN]
  /\ DOMAIN config = Providers /\ config = [p \in Providers |-> config[p]]
  /\ wpc \in [Providers -> {"idle", "enabled", "level", "keyword", "dropped", "written"}]
  /\ DOMAIN event = Providers /\ event = [p \in Providers |-> event[p]]
  /\ wanted \in [Providers -> BOOLEAN]

(* The map: what it has for an index is the provider with that index, and  *)
(* no two providers have had the same one.                                 *)
MapInv ==
  /\ \A n \in DOMAIN m : m[n] \in Providers /\ ppc[m[n]] # "none" /\ index[m[n]] = n
  /\ \A p \in Providers : ppc[p] # "none" => index[p] < nextIndex
  /\ \A p, q \in Providers :
       ppc[p] # "none" /\ ppc[q] # "none" /\ index[p] = index[q] => p = q
  /\ \A p \in Providers : ppc[p] \in {"named", "traits", "open"} => index[p] \in DOMAIN m

Shown(p) == (enabled[p] <=> session[p] # None) /\ (session[p] # None => config[p] = session[p])

(* How far the callback has come, while the provider is in the map.        *)
FieldsInv(p) ==
  /\ config[p] = Config(config[p])
  /\ cb[p] # "idle" => p \in registered
  /\ p \in registered => ppc[p] \notin {"none", "named", "closed"}
  /\ ppc[p] \in {"traits", "open"} => p \in registered
  /\ ppc[p] \in {"none", "named"} => ~enabled[p] /\ told[p] = None
  /\ ppc[p] # "none" => hasCallback[p]
  /\ ppc[p] \in {"traits", "open"} =>
       /\ cb[p] \in {"idle", "capture"} => Shown(p) /\ told[p] = session[p]
       /\ cb[p] = "call" => Shown(p)
       /\ cb[p] \in {"level", "any", "all"} => enabled[p] /\ session[p] # None
       /\ cb[p] \in {"any", "all"} => config[p].level = session[p].level
       /\ cb[p] = "all" => config[p].any = session[p].any

(* A session that has wanted the event all along is what the fields show,  *)
(* and no callback changes them.                                           *)
WantedInv(p) ==
  /\ wpc[p] = "dropped" => ~wanted[p]
  /\ wanted[p] =>
       /\ ppc[p] \in {"open", "removed", "closed"}
       /\ cb[p] \in {"idle", "capture", "call"}
       /\ enabled[p] /\ config[p] = session[p] /\ Wants(session[p], event[p])

Inductive ==
  /\ Types /\ MapInv
  /\ \A p \in Providers : FieldsInv(p) /\ WantedInv(p)

-----------------------------------------------------------------------------
(* Init satisfies the invariant.                                           *)
LEMMA InitInv == Init => Inductive
BY EtwAssumption
   DEF Init, Inductive, Types, Stages, MapInv, FieldsInv, Shown, WantedInv, Config

(* The registration of p leaves the other providers as they are.           *)
LEMMA RegistrationKeeps ==
  ASSUME Inductive, NEW p \in Providers,
         NewIndex(p) \/ Register(p) \/ SetTraits(p) \/ CloseRemove(p) \/ CloseUnregister(p)
  PROVE  Inductive'
<1> USE DEF Inductive, At
<1>1. Types'
  <2> USE DEF Types, Stages, etw, note, prod
  <2>1. CASE NewIndex(p)
    BY <2>1 DEF NewIndex
  <2>2. CASE Register(p)
    BY <2>2 DEF Register
  <2>3. CASE SetTraits(p) \/ CloseRemove(p)
    BY <2>3 DEF SetTraits, CloseRemove
  <2>4. CASE CloseUnregister(p)
    BY <2>4 DEF CloseUnregister
  <2> QED
    BY <2>1, <2>2, <2>3, <2>4
<1>2. MapInv'
  <2> USE DEF MapInv, Types, Stages
  <2>1. CASE NewIndex(p)
    BY <2>1 DEF NewIndex
  <2>2. CASE Register(p)
    BY <2>2 DEF Register, removeProvider
  <2>3. CASE SetTraits(p) \/ CloseRemove(p)
    <3>1. CASE SetTraits(p)
      BY <3>1 DEF SetTraits, removeProvider
    <3>2. CASE CloseRemove(p)
      BY <3>2 DEF CloseRemove, removeProvider
    <3> QED
      BY <2>3, <3>1, <3>2, Zenon
  <2>4. CASE CloseUnregister(p)
    BY <2>4 DEF CloseUnregister
  <2> QED
    BY <2>1, <2>2, <2>3, <2>4
<1>3. ASSUME NEW q \in Providers PROVE FieldsInv(q)'
  <2> USE DEF FieldsInv, Shown, Types, Stages, etw, note, prod
  <2>0. config' = config
    BY DEF NewIndex, Register, SetTraits, CloseRemove, CloseUnregister
  <2>1. CASE NewIndex(p)
    BY <2>0, <2>1, SMTT(30) DEF NewIndex
  <2>2. CASE Register(p)
    BY <2>0, <2>2, SMTT(30) DEF Register
  <2>3. CASE SetTraits(p) \/ CloseRemove(p)
    BY <2>0, <2>3, SMTT(30) DEF SetTraits, CloseRemove
  <2>4. CASE CloseUnregister(p)
    BY <2>0, <2>4, SMTT(30) DEF CloseUnregister
  <2> QED
    BY <2>1, <2>2, <2>3, <2>4
<1>4. ASSUME NEW q \in Providers PROVE WantedInv(q)'
  BY <1>4, SMTT(30) DEF WantedInv, Types, Stages, etw, note, prod, FieldsInv,
         NewIndex, Register, SetTraits, CloseRemove, CloseUnregister
<1> QED
  BY <1>1, <1>2, <1>3, <1>4

-----------------------------------------------------------------------------
(* The session and the callback of p.                                      *)
LEMMA CallbackKeeps ==
  ASSUME Inductive, NEW p \in Providers,
         \/ \E s \in Sessions \cup {None} : SessionChange(p, s)
         \/ CaptureState(p) \/ CallbackStep(p)
  PROVE  Inductive'
<1> USE DEF Inductive
<1>0. UNCHANGED <<reg, registered>>
  BY DEF SessionChange, CaptureState, CallbackStep, CallbackGet, CallbackCapture, CallbackLevel,
         CallbackAny, CallbackAll, CallbackCall, etw
<1>1. MapInv'
  BY <1>0, Zenon DEF MapInv, reg
<1>2. index[p] \in DOMAIN m /\ ppc[p] # "none" => m[index[p]] = p
  BY DEF MapInv, Types
<1>3. ASSUME NEW s \in Sessions \cup {None}, SessionChange(p, s) PROVE Inductive'
  <2>1. Types'
    BY <1>3 DEF SessionChange, Types, reg
  <2>2. ASSUME NEW q \in Providers PROVE FieldsInv(q)' /\ WantedInv(q)'
    BY <1>3, SMTT(30) DEF SessionChange, Types, FieldsInv, Shown, WantedInv, reg
  <2> QED
    BY <1>1, <2>1, <2>2
<1>4. CASE CaptureState(p)
  <2>1. Types'
    BY <1>4 DEF CaptureState, Types, reg, etw, prod
  <2>2. ASSUME NEW q \in Providers PROVE FieldsInv(q)' /\ WantedInv(q)'
    BY <1>4 DEF CaptureState, Types, FieldsInv, Shown, WantedInv, reg, etw, prod
  <2> QED
    BY <1>1, <2>1, <2>2
<1>5. CASE CallbackGet(p) \/ CallbackCapture(p)
  <2>0. p \in registered /\ ppc[p] # "none"
    BY <1>5, Zenon DEF CallbackGet, CallbackCapture, Step, FieldsInv
  <2>1. Types'
    BY <1>5, <1>2, <2>0, ZenonT(40) DEF CallbackGet, CallbackCapture, Step, Types, reg, etw, prod
  <2>2. ASSUME NEW q \in Providers PROVE FieldsInv(q)' /\ WantedInv(q)'
    <3>1. CASE CallbackGet(p)
      BY <1>2, <2>0, <3>1, SMTT(30)
         DEF CallbackGet, Step, Types, FieldsInv, Shown, WantedInv, MapInv, reg, etw, prod
    <3>2. CASE CallbackCapture(p)
      BY <1>2, <2>0, <3>2, SMTT(30)
         DEF CallbackCapture, Step, Types, FieldsInv, Shown, WantedInv, MapInv, reg, etw, prod
    <3> QED
      BY <1>5, <3>1, <3>2, Zenon
  <2> QED
    BY <1>1, <2>1, <2>2
<1>6. CASE CallbackLevel(p) \/ CallbackAny(p) \/ CallbackAll(p)
  <2>1. Types'
    BY <1>6 DEF CallbackLevel, CallbackAny, CallbackAll, Step, Types, reg, etw, prod
  <2>2. ASSUME NEW q \in Providers \ {p} PROVE FieldsInv(q)' /\ WantedInv(q)'
    BY <1>6, <2>2
       DEF CallbackLevel, CallbackAny, CallbackAll, Step, Types, FieldsInv, Shown, WantedInv, reg, etw, prod
  <2>3. WantedInv(p)'
    BY <1>6 DEF CallbackLevel, CallbackAny, CallbackAll, Step, Types, WantedInv, reg, etw, prod
  <2>4. FieldsInv(p)'
    BY <1>6, EtwAssumption
       DEF CallbackLevel, CallbackAny, CallbackAll, Step, Types, FieldsInv, Shown, Config, reg, etw, prod
  <2> QED
    BY <1>1, <2>1, <2>2, <2>3, <2>4
<1>7. CASE CallbackCall(p)
  <2>1. Types'
    BY <1>7 DEF CallbackCall, Step, Types, reg, etw, prod
  <2>2. ASSUME NEW q \in Providers PROVE FieldsInv(q)' /\ WantedInv(q)'
    BY <1>7 DEF CallbackCall, Step, Types, FieldsInv, Shown, WantedInv, reg, etw, prod
  <2> QED
    BY <1>1, <2>1, <2>2
<1> QED
  BY <1>3, <1>4, <1>5, <1>6, <1>7 DEF CallbackStep

-----------------------------------------------------------------------------
(* A producer on p, which reads the fields one by one.                     *)
LEMMA ProducerKeeps ==
  ASSUME Inductive, NEW p \in Providers,
         \/ \E e \in Events : WriteBegin(p, e)
         \/ CheckEnabled(p) \/ CheckLevel(p) \/ CheckKeyword(p)
  PROVE  Inductive'
<1> USE DEF Inductive
<1>0. UNCHANGED <<reg, etw, note>>
  BY DEF WriteBegin, CheckEnabled, CheckLevel, CheckKeyword, Producer
<1>1. MapInv' /\ \A q \in Providers : FieldsInv(q)'
  BY <1>0, ZenonT(40) DEF MapInv, FieldsInv, Shown, reg, etw, note
<1>2. Types'
  BY <1>0, Zenon DEF Types, reg, etw, note, WriteBegin, CheckEnabled, CheckLevel, CheckKeyword, Producer
<1>3. ASSUME NEW q \in Providers \ {p} PROVE WantedInv(q)'
  BY <1>0, <1>3, SMTT(30) DEF WantedInv, Types, reg, etw, note, WriteBegin, CheckEnabled, CheckLevel,
         CheckKeyword, Producer
<1>4. WantedInv(p)'
  <2>1. ASSUME NEW e \in Events, WriteBegin(p, e) PROVE WantedInv(p)'
    BY <1>0, <2>1, ZenonT(60) DEF WantedInv, FieldsInv, Shown, Types, reg, etw, note, WriteBegin, Wants
  <2>2. CASE CheckEnabled(p)
    BY <1>0, <2>2 DEF WantedInv, Types, reg, etw, note, CheckEnabled, Producer
  <2>3. CASE CheckLevel(p)
    BY <1>0, <2>3 DEF WantedInv, Types, reg, etw, note, CheckLevel, Producer, Wants
  <2>4. CASE CheckKeyword(p)
    BY <1>0, <2>4 DEF WantedInv, Types, reg, etw, note, CheckKeyword, Producer, Wants
  <2> QED
    BY <2>1, <2>2, <2>3, <2>4
<1> QED
  BY <1>1, <1>2, <1>3, <1>4

-----------------------------------------------------------------------------
(* Every step keeps the invariant.                                         *)
LEMMA NextInv == Inductive /\ [Next]_vars => Inductive'
<1> SUFFICES ASSUME Inductive, [Next]_vars PROVE Inductive'
  OBVIOUS
<1>1. CASE Next
  BY <1>1, RegistrationKeeps, CallbackKeeps, ProducerKeeps DEF Next
<1>2. CASE UNCHANGED vars
  BY <1>2, SMTT(30) DEF Inductive, Types, MapInv, FieldsInv, Shown, WantedInv, vars, reg, etw, note, prod
<1> QED
  BY <1>1, <1>2

(* The invariant holds throughout.                                         *)
LEMMA InvHolds == Spec => []Inductive
BY InitInv, NextInv, PTL DEF Spec

(* providerCallback and NewProviderWithOptions: between notifications an   *)
(* open provider shows its session, from its registration on, although the *)
(* callback finds it through the shared map.                               *)
THEOREM ProviderShowsSession == Spec => []ShowsSession
<1>1. Inductive => ShowsSession
  BY Zenon DEF Inductive, FieldsInv, Shown, ShowsSession
<1> QED
  BY <1>1, InvHolds, PTL

(* IsEnabledForLevelAndKeywords: reading enabled, level and keywords one   *)
(* by one drops no event that the session wanted throughout.               *)
THEOREM ProviderWantedIsWritten == Spec => []WantedIsWritten
<1>1. Inductive => WantedIsWritten
  BY DEF Inductive, WantedInv, WantedIsWritten
<1> QED
  BY <1>1, InvHolds, PTL
=============================================================================
