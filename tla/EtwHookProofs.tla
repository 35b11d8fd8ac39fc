--------------------------- MODULE EtwHookProofs ----------------------------
(***************************************************************************)
(* For every sequence of options, whatever the entries, the sessions and   *)
(* the encoding: WantedIsFired and ClosesItsProvider.                      *)
(*                                                                         *)
(* The first needs that a session which has wanted the event since Fire    *)
(* began wants it still, so that both checks see a session that does, and  *)
(* that a session which wants an event of some level wants those of the    *)
(* levels below; the second, that closeProvider is set with the provider.  *)
(***************************************************************************)
EXTENDS EtwHook, TLAPS

(* closeProvider says whether the hook has registered its provider.        *)
OpenInv ==
  /\ Application \in open /\ open \subseteq Created \cup {Application}
  /\ provider \in Created \cup {Application, Nil}
  /\ closeProvider <=> provider \in Created
  /\ ClosesItsProvider
  /\ closed => pc \in {"idle", "write", "fired"}

(* While an entry is fired, and what is still to come of it.               *)
FireInv ==
  /\ tracing \in Sought \cup {Nil}
  /\ awaited => pc \in {"write", "fired"} /\ Asks(tracing, entry)
  /\ WantedIsFired

-----------------------------------------------------------------------------
(* Providers are registered by options, and unregistered by Close.         *)
LEMMA OpenInit == HInit => OpenInv
  BY HookAssumption DEF HInit, OpenInv, ClosesItsProvider

(* An option that sets the provider sets closeProvider with it.            *)
LEMMA OpenApply ==
  ASSUME OpenInv, Apply
  PROVE  OpenInv'
<1>0. pc = "options" /\ ~closed /\ closed' = closed
  BY DEF Apply, OpenInv
<1>1. CASE WithNewETWProvider
  <2>1. ASSUME NEW p \in Created, SetProvider(p, TRUE), open' = open \cup {p}, pc' = pc
        PROVE  OpenInv'
    BY <1>0, <2>1 DEF OpenInv, ClosesItsProvider, SetProvider
  <2>2. CASE pc' = "failed" /\ UNCHANGED <<hook, open>>
    BY <1>0, <2>2 DEF OpenInv, ClosesItsProvider, hook
  <2> QED
    BY <1>1, <2>1, <2>2 DEF WithNewETWProvider
<1>2. CASE WithExistingETWProvider
  BY <1>0, <1>2, HookAssumption
     DEF WithExistingETWProvider, SetProvider, OpenInv, ClosesItsProvider
<1>3. CASE WithGetName \/ WithEventOpts
  <2>1. UNCHANGED <<pc, provider, closeProvider, open, closed>>
    BY <1>0, <1>3 DEF WithGetName, WithEventOpts
  <2> QED
    BY <2>1 DEF OpenInv, ClosesItsProvider
<1> QED
  BY <1>1, <1>2, <1>3 DEF Apply

(* Only Close unregisters, and once it has, no option is applied any more. *)
LEMMA OpenNext == OpenInv /\ [HNext]_hvars => OpenInv'
<1> SUFFICES ASSUME OpenInv, [HNext]_hvars PROVE OpenInv'
  OBVIOUS
<1>1. CASE Apply
  BY <1>1, OpenApply
<1>2. CASE Close
  <2>1. /\ UNCHANGED <<pc, provider, closeProvider>> /\ closed'
        /\ pc \in {"idle", "write", "fired"}
        /\ open' = IF closeProvider THEN open \ {provider} ELSE open
    BY <1>2 DEF Close, hook
  <2> QED
    BY <2>1, HookAssumption DEF OpenInv, ClosesItsProvider
<1>3. CASE New \/ Made \/ FireCheck \/ WriteEvent \/ FireReturns \/ TraceChange \/ UNCHANGED hvars
  <2>1. UNCHANGED <<provider, closeProvider, open, closed>>
    BY <1>3 DEF New, Made, FireCheck, WriteEvent, FireReturns, TraceChange, hook, hvars
  <2>2. \/ pc' = pc \/ (pc = "none" /\ pc' = "options")
        \/ (pc \in {"options", "idle", "write", "fired"} /\ pc' \in {"idle", "write", "fired"})
    BY <1>3 DEF New, Made, FireCheck, WriteEvent, FireReturns, TraceChange, hvars
  <2> QED
    BY <2>1, <2>2 DEF OpenInv, ClosesItsProvider
<1> QED
  BY <1>1, <1>2, <1>3 DEF HNext

(* For every sequence of options: Close unregisters the provider that the  *)
(* hook logs to exactly if the hook has registered it, and the one of the  *)
(* application stays registered.                                           *)
THEOREM HookClosesItsProvider == HSpec => []ClosesItsProvider
<1>1. OpenInv => ClosesItsProvider
  BY DEF OpenInv
<1> QED
  BY <1>1, OpenInit, OpenNext, PTL DEF HSpec

-----------------------------------------------------------------------------
(* Both checks let an event pass that the session wants: the one of Fire,  *)
(* of the entry's level and all keywords, and the one of WriteEvent.       *)
LEMMA ChecksPass ==
  ASSUME FireInv, NEW e, Asks(tracing, e), provider # Nil
  PROVE  /\ IsEnabledForLevelAndKeywords(provider, Descriptor(e).level, Descriptor(e).keyword)
         /\ logrusToETWLevelMap[e.level] \in 0..5 /\ KeepsLevel(e) =>
              IsEnabledForLevelAndKeywords(provider, logrusToETWLevelMap[e.level], AllKeywords)
<1>1. tracing \in Sought /\ tracing # Nil
  BY DEF FireInv, Asks
<1>2. AllKeywords \cap tracing.any # {} /\ AllKeywords \cap tracing.all = tracing.all
  BY <1>1, HookAssumption DEF AllKeywords, Asks
<1>3. /\ Descriptor(e).level <= tracing.level
      /\ Descriptor(e).keyword # {} =>
           Descriptor(e).keyword \cap tracing.any # {} /\ tracing.all \subseteq Descriptor(e).keyword
  BY DEF Asks, WantsEvent, Matches
<1>4. Descriptor(e).keyword # {} => Descriptor(e).keyword \cap tracing.all = tracing.all
  BY <1>3
<1>5. ASSUME logrusToETWLevelMap[e.level] \in 0..5, KeepsLevel(e)
      PROVE  logrusToETWLevelMap[e.level] <= tracing.level
  <2>1. tracing.level \in 0..255
    BY <1>1, HookAssumption
  <2> QED
    BY <1>3, <1>5, <2>1 DEF KeepsLevel
<1> QED
  BY <1>1, <1>2, <1>3, <1>4, <1>5, Zenon DEF IsEnabledForLevelAndKeywords

(* What is wanted depends on the hook's options, which are applied before  *)
(* it is fired.                                                            *)
LEMMA WantsSame ==
  ASSUME UNCHANGED getEventsOpts
  PROVE  /\ Asks(tracing, entry)' = Asks(tracing', entry')
         /\ KeepsLevel(entry)' = KeepsLevel(entry')
<1>1. EventOpts(entry)' = EventOpts(entry')
  BY Zenon DEF EventOpts
<1>2. Descriptor(entry)' = Descriptor(entry')
  BY <1>1, Zenon DEF Descriptor
<1> QED
  BY <1>2, Zenon DEF Asks, KeepsLevel

(* The session that the second check sees still wants the event, or the    *)
(* event is no longer wanted.                                              *)
LEMMA FireNext == FireInv /\ OpenInv /\ [HNext]_hvars => FireInv'
<1> SUFFICES ASSUME FireInv, OpenInv, [HNext]_hvars PROVE FireInv'
  OBVIOUS
<1>0. provider \in open => provider # Nil
  BY HookAssumption DEF OpenInv
<1>1. CASE FireCheck
  <2>1. PICK e \in {Entries[n] : n \in DOMAIN Entries} :
          /\ entry' = e /\ awaited' = Asks(tracing, e)
          /\ pc' = IF IsEnabledForLevelAndKeywords(provider, logrusToETWLevelMap[e.level], AllKeywords)
                     THEN "write" ELSE "fired"
    BY <1>1, Zenon DEF FireCheck
  <2>2. tracing' = tracing /\ provider' = provider /\ open' = open
    BY <1>1 DEF FireCheck, hook
  <2>3. awaited' /\ provider \in open /\ KeepsLevel(entry)' => pc' = "write"
    <3>1. KeepsLevel(entry)' = KeepsLevel(entry')
      BY <1>1, WantsSame DEF FireCheck, hook
    <3>2. logrusToETWLevelMap[entry'.level] \in 0..5
      BY <2>1, LevelAssumption DEF logrusToETWLevelMap
    <3> QED
      BY <1>0, <2>1, <3>1, <3>2, ChecksPass
  <2>4. awaited' => Asks(tracing, entry)'
    BY <1>1, <2>1, <2>2, WantsSame DEF FireCheck, hook
  <2> QED
    BY <2>1, <2>2, <2>3, <2>4 DEF FireInv, WantedIsFired
<1>2. CASE WriteEvent
  <2>1. UNCHANGED <<tracing, entry, awaited, provider, open, getEventsOpts>> /\ pc' = "fired"
    BY <1>2 DEF WriteEvent, hook
  <2>2. awaited => Asks(tracing, entry)'
    BY <2>1, WantsSame DEF FireInv
  <2>3. awaited /\ provider \in open => sent' # {}
    <3> SUFFICES ASSUME awaited, provider \in open PROVE sent' # {}
      OBVIOUS
    <3>1. sent' = {Written(Descriptor(entry))}
      BY <1>0, <1>2, ChecksPass DEF WriteEvent, FireInv
    <3> QED
      BY <3>1
  <2> QED
    BY <2>1, <2>2, <2>3 DEF FireInv, WantedIsFired
<1>3. CASE FireReturns
  BY <1>3 DEF FireReturns, FireInv, WantedIsFired
<1>4. CASE TraceChange
  <2>1. UNCHANGED <<pc, entry, provider, open, getEventsOpts, sent>> /\ tracing' \in Sought \cup {Nil}
    BY <1>4 DEF TraceChange, hook
  <2>2. awaited' => awaited /\ Asks(tracing', entry')
    BY <1>4, <2>1 DEF TraceChange
  <2>3. awaited' => awaited /\ Asks(tracing, entry)'
    BY <2>1, <2>2, WantsSame
  <2>4. KeepsLevel(entry)' = KeepsLevel(entry)
    BY <2>1, WantsSame, Zenon
  <2> QED
    BY <2>1, <2>3, <2>4 DEF FireInv, WantedIsFired
<1>5. CASE Close \/ UNCHANGED hvars
  <2>1. UNCHANGED <<pc, tracing, entry, awaited, provider, getEventsOpts, sent>> /\ open' \subseteq open
    BY <1>5 DEF Close, hook, hvars
  <2>2. awaited' => Asks(tracing, entry)'
    BY <2>1, WantsSame DEF FireInv
  <2>3. KeepsLevel(entry)' = KeepsLevel(entry)
    BY <2>1, WantsSame, Zenon
  <2> QED
    BY <2>1, <2>2, <2>3 DEF FireInv, WantedIsFired
<1>6. CASE New \/ Apply \/ Made
  <2>1. UNCHANGED <<tracing, awaited>> /\ pc \in {"none", "options"}
    BY <1>6 DEF New, Apply, Made
  <2> QED
    BY <2>1 DEF FireInv, WantedIsFired
<1> QED
  BY <1>1, <1>2, <1>3, <1>4, <1>5, <1>6 DEF HNext

(* For all entries, options and sessions: an event whose options do not    *)
(* lower its level, and which a session with some keyword wants while Fire *)
(* runs, passes both checks however the session changes between them, and  *)
(* is written unless the provider has been closed.                         *)
THEOREM HookWantedIsFired == HSpec => []WantedIsFired
<1>1. HInit => FireInv
  BY DEF HInit, FireInv, WantedIsFired
<1>2. FireInv => WantedIsFired
  BY DEF FireInv
<1> QED
  BY <1>1, <1>2, OpenInit, OpenNext, FireNext, PTL DEF HSpec
=============================================================================
