---------------------------- MODULE EtwProvider ----------------------------
(***************************************************************************)
(* The ETW providers of pkg/etw: their registration, the global map from   *)
(* an index to a provider that the notification callback looks them up in, *)
(* and the check that decides whether an event is worth writing.           *)
(*                                                                         *)
(* ETW (external) runs the callback on threads of its own: one at a time   *)
(* for a registration, possibly before EventRegister has returned, and     *)
(* until EventUnregister has returned.  Provider's fields carry no lock:   *)
(* the callback's assignments and the reads of IsEnabled interleave.       *)
(***************************************************************************)
EXTENDS Naturals

CONSTANTS
  Providers,    \* the providers of the process
  Sessions,     \* what a session may ask for: [level, any, all]
  Events,       \* the events producers write: [level, keyword]
  None          \* no provider, no session

(* The fields level, any and all.                                          *)
Config(c) == [level |-> c.level, any |-> c.any, all |-> c.all]

ASSUME EtwAssumption ==
  None \notin Providers /\ None \notin Sessions /\ \A s \in Sessions : s = Config(s)

VARIABLES
  m, nextIndex,     \* providers.m and providers.i
  index,            \* index[p]: provider.index
  ppc,              \* ppc[p]: where NewProviderWithOptions or Close stands
  registered,       \* the providers ETW knows
  session,          \* session[p]: what ETW's session asks of p, or None
  cb,               \* cb[p]: where the callback for p stands
  hasCallback,      \* provider.callback has been assigned
  told,             \* told[p]: the session provider.callback heard of last
  enabled, config,  \* config[p]: the fields level, any and all
  wpc, event,       \* wpc[p]: where a producer's WriteEvent on p stands
  wanted,           \* history: the session has wanted that event all along
  panicked          \* the callback has dereferenced a nil provider

reg  == <<m, nextIndex, index, ppc, hasCallback>>
etw  == <<registered, session>>
note == <<cb, told, enabled, config, panicked>>
prod == <<wpc, event, wanted>>
vars == <<reg, etw, note, prod>>

Init ==
  /\ m = [n \in {} |-> None] /\ nextIndex = 0
  /\ index = [p \in Providers |-> 0]
  /\ ppc = [p \in Providers |-> "none"]
  /\ hasCallback = [p \in Providers |-> FALSE]
  /\ registered = {}
  /\ session \in [Providers -> Sessions \cup {None}]
  /\ cb = [p \in Providers |-> "idle"]
  /\ told = [p \in Providers |-> None]
  /\ enabled = [p \in Providers |-> FALSE]
  /\ config = [p \in Providers |-> [level |-> 0, any |-> {}, all |-> {}]]
  /\ wpc = [p \in Providers |-> "idle"]
  /\ event = [p \in Providers |-> CHOOSE e \in Events : TRUE]
  /\ wanted = [p \in Providers |-> FALSE]
  /\ panicked = FALSE

-----------------------------------------------------------------------------
(* NewProviderWithOptions and Close.                                       *)

At(p, from, to) == ppc[p] = from /\ ppc' = [ppc EXCEPT ![p] = to]

(* providers.removeProvider.                                               *)
removeProvider(p) == m' = [n \in DOMAIN m \ {index[p]} |-> m[n]]

(* providers.newProvider, under its lock; the provider's ID and callback.  *)
NewIndex(p) ==
  /\ At(p, "none", "named")
  /\ m' = [n \in DOMAIN m \cup {nextIndex} |-> IF n = nextIndex THEN p ELSE m[n]]
  /\ index' = [index EXCEPT ![p] = nextIndex]
  /\ nextIndex' = nextIndex + 1
  /\ hasCallback' = [hasCallback EXCEPT ![p] = TRUE]
  /\ UNCHANGED <<etw, note, prod>>

(* eventRegister.  When it fails the deferred removeProvider undoes the    *)
(* entry; when a session is already there ETW notifies p at once.          *)
Register(p) ==
  /\ \/ /\ At(p, "named", "failed")
        /\ removeProvider(p)
        /\ UNCHANGED <<registered, cb>>
     \/ /\ At(p, "named", "traits")
        /\ registered' = registered \cup {p}
        /\ cb' = [cb EXCEPT ![p] = IF session[p] # None THEN "get" ELSE "idle"]
        /\ UNCHANGED m
  /\ UNCHANGED <<nextIndex, index, hasCallback, session, told, enabled, config>>
  /\ UNCHANGED <<panicked, prod>>

(* eventSetInformation.  A failure removes the provider from the map and   *)
(* returns; the registration stays.                                        *)
SetTraits(p) ==
  /\ \/ At(p, "traits", "open") /\ UNCHANGED m
     \/ At(p, "traits", "failed") /\ removeProvider(p)
  /\ UNCHANGED <<nextIndex, index, hasCallback, etw, note, prod>>

CloseRemove(p) ==
  /\ At(p, "open", "removed")
  /\ removeProvider(p)
  /\ UNCHANGED <<nextIndex, index, hasCallback, etw, note, prod>>

(* eventUnregister returns when no callback is running.                    *)
CloseUnregister(p) ==
  /\ At(p, "removed", "closed")
  /\ cb[p] = "idle"
  /\ registered' = registered \ {p}
  /\ UNCHANGED <<m, nextIndex, index, hasCallback, session, note, prod>>

-----------------------------------------------------------------------------
(* ETW and the callback it runs.                                           *)

(* A controller starts, changes or stops the session for p.                *)
SessionChange(p, s) ==
  /\ cb[p] = "idle" /\ s # session[p]
  /\ session' = [session EXCEPT ![p] = s]
  /\ cb' = [cb EXCEPT ![p] = IF p \in registered THEN "get" ELSE "idle"]
  /\ wanted' = [wanted EXCEPT ![p] = FALSE]
  /\ UNCHANGED <<reg, registered, told, enabled, config, panicked, wpc, event>>

(* A controller asks p for its state; the session stays as it is.          *)
CaptureState(p) ==
  /\ cb[p] = "idle" /\ p \in registered
  /\ cb' = [cb EXCEPT ![p] = "capture"]
  /\ UNCHANGED <<reg, etw, told, enabled, config, panicked, prod>>

Step(p, from, to) == cb[p] = from /\ cb' = [cb EXCEPT ![p] = to]

(* providerCallback: the lookup, and the first assignment through it.      *)
CallbackGet(p) ==
  /\ IF index[p] \in DOMAIN m
       THEN LET q == m[index[p]] IN
            /\ Step(p, "get", IF session[p] = None THEN "call" ELSE "level")
            /\ enabled' = [enabled EXCEPT ![q] = session[p] # None]
            /\ UNCHANGED panicked
       ELSE /\ Step(p, "get", "idle")
            /\ panicked' = TRUE
            /\ UNCHANGED enabled
  /\ UNCHANGED <<reg, etw, told, config, prod>>

(* The same lookup for ProviderStateCaptureState, which assigns nothing.   *)
CallbackCapture(p) ==
  /\ IF index[p] \in DOMAIN m
       THEN Step(p, "capture", "call") /\ UNCHANGED panicked
       ELSE Step(p, "capture", "idle") /\ panicked' = TRUE
  /\ UNCHANGED <<reg, etw, told, enabled, config, prod>>

(* Mutant: the keywords of the session are not stored.                     *)
CallbackLevel_Only(p) ==
  /\ Step(p, "level", "call")
  /\ config' = [config EXCEPT ![p].level = session[p].level]
  /\ UNCHANGED <<reg, etw, told, enabled, panicked, prod>>

CallbackLevel(p) ==
  /\ Step(p, "level", "any")
  /\ config' = [config EXCEPT ![p].level = session[p].level]
  /\ UNCHANGED <<reg, etw, told, enabled, panicked, prod>>

CallbackAny(p) ==
  /\ Step(p, "any", "all")
  /\ config' = [config EXCEPT ![p].any = session[p].any]
  /\ UNCHANGED <<reg, etw, told, enabled, panicked, prod>>

CallbackAll(p) ==
  /\ Step(p, "all", "call")
  /\ config' = [config EXCEPT ![p].all = session[p].all]
  /\ UNCHANGED <<reg, etw, told, enabled, panicked, prod>>

(* provider.callback, when there is one.                                   *)
CallbackCall(p) ==
  /\ Step(p, "call", "idle")
  /\ told' = [told EXCEPT ![p] = IF hasCallback[p] THEN session[p] ELSE @]
  /\ UNCHANGED <<reg, etw, enabled, config, panicked, prod>>

-----------------------------------------------------------------------------
(* WriteEvent and IsEnabledForLevelAndKeywords.                            *)

LevelOK(e, c) == e.level <= c.level

KeywordOK(e, c) ==
  e.keyword # {} => e.keyword \cap c.any # {} /\ c.all \subseteq e.keyword

Wants(s, e) == s # None /\ LevelOK(e, s) /\ KeywordOK(e, s)

Producer(p, from, ok) ==
  /\ wpc[p] = from
  /\ wpc' = [wpc EXCEPT ![p] =
               IF ~ok THEN "dropped" ELSE IF from = "enabled" THEN "level"
               ELSE IF from = "level" THEN "keyword" ELSE "written"]
  /\ UNCHANGED <<reg, etw, note, event, wanted>>

WriteBegin(p, e) ==
  /\ ppc[p] = "open" /\ wpc[p] \in {"idle", "dropped", "written"}
  /\ wpc' = [wpc EXCEPT ![p] = "enabled"]
  /\ event' = [event EXCEPT ![p] = e]
  /\ wanted' = [wanted EXCEPT ![p] = cb[p] = "idle" /\ Wants(session[p], e)]
  /\ UNCHANGED <<reg, etw, note>>

CheckEnabled(p) == Producer(p, "enabled", enabled[p])
CheckLevel(p)   == Producer(p, "level", LevelOK(event[p], config[p]))

(* Mutant: every keyword of the event has to be among the session's.       *)
CheckKeyword_All(p) ==
  Producer(p, "keyword", event[p].keyword \subseteq config[p].any)

CheckKeyword(p) == Producer(p, "keyword", KeywordOK(event[p], config[p]))

-----------------------------------------------------------------------------
CallbackStep(p) ==
  \/ CallbackGet(p) \/ CallbackCapture(p)
  \/ CallbackLevel(p) \/ CallbackAny(p) \/ CallbackAll(p) \/ CallbackCall(p)

(* What would happen after a panic is of no interest, and not excluded.    *)
Next ==
  \E p \in Providers :
    \/ NewIndex(p) \/ Register(p) \/ SetTraits(p)
    \/ CloseRemove(p) \/ CloseUnregister(p)
    \/ \E s \in Sessions \cup {None} : SessionChange(p, s)
    \/ CaptureState(p)
    \/ CallbackStep(p)
    \/ \E e \in Events : WriteBegin(p, e)
    \/ CheckEnabled(p) \/ CheckLevel(p) \/ CheckKeyword(p)

Spec == Init /\ [][Next]_vars

-----------------------------------------------------------------------------

(* Between notifications an open provider shows what its session asks for, *)
(* from the moment it was registered, and its own callback has heard of    *)
(* the session that is in force.                                           *)
ShowsSession ==
  \A p \in Providers :
    ppc[p] \in {"traits", "open"} /\ cb[p] = "idle" =>
      /\ enabled[p] <=> session[p] # None
      /\ session[p] # None => config[p] = session[p]
      /\ ppc[p] = "open" => told[p] = session[p]

(* An event that the session wants, and wanted all through the check, is   *)
(* not dropped, although the check reads the fields one by one.            *)
WantedIsWritten == \A p \in Providers : wpc[p] = "dropped" => ~wanted[p]

(* "the provider callback function needs to be able to access the provider *)
(* data when it is invoked by ETW": the map has the provider whenever ETW  *)
(* can call back for it.                                                   *)
CallbackFindsProvider == ~panicked
=============================================================================
