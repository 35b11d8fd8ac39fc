------------------------------ MODULE EtwHook -------------------------------
(***************************************************************************)
(* The logrus hook of pkg/etwlogrus: its construction from options, some   *)
(* of which register a provider or adopt one of the application's; Fire,   *)
(* which makes an event of a log entry and gives it to Provider.WriteEvent *)
(* (pkg/etw/provider.go); and Close.  Module EtwEntry encodes the event.   *)
(*                                                                         *)
(* A provider shows the session that ETW has told it of (how it gets there *)
(* is the subject of EtwProvider); a session may change between the checks *)
(* that Fire and WriteEvent make.                                          *)
(***************************************************************************)
EXTENDS Integers, Sequences, SequencesExt

CONSTANTS
  Application,    \* the provider that the application has
  Created,        \* the providers that options can create
  MaxOptions,     \* how many options a caller gives at most
  Sought,         \* what a session may ask for: [level, any, all]
  Entries,        \* log entries, a sequence
  Encoded(_, _, _, _),  \* the blobs of an event: of its entry, name and tags
                        \* and of the size of int
  defaultEventName,
  Nil             \* no provider, no session, no entry

ASSUME HookAssumption ==
  /\ Application \notin Created /\ Nil \notin Created \cup {Application} \cup Sought
  /\ \A s \in Sought : s.level \in 0..255 /\ s.any \subseteq 0..63 /\ s.all \subseteq 0..63

(* An entry: [level, message, time, data], and what the application's      *)
(* functions return for it, name and opts.                                 *)
Options == {"new", "existing", "getName", "eventOpts"}

VARIABLES
  intSize,        \* unsafe.Sizeof(int)
  pc,             \* "none", "options", "failed", "idle", "write", "fired"
  todo,           \* the options still to be applied
  provider, closeProvider, getName, getEventsOpts,   \* Hook
  open,           \* the providers that are registered
  closed,         \* the hook has been closed
  tracing,        \* the session that the provider shows
  entry,
  awaited,        \* history: the session has wanted the event since Fire began
  sent            \* the event that ETW got, [descriptor, blobs], if it got one

hook == <<provider, closeProvider, getName, getEventsOpts>>
hvars == <<intSize, pc, todo, hook, open, closed, tracing, entry, awaited, sent>>

HInit ==
  /\ intSize \in {4, 8} /\ tracing \in Sought \cup {Nil}
  /\ pc = "none" /\ todo = <<>>
  /\ provider = Nil /\ closeProvider = FALSE
  /\ getName = FALSE /\ getEventsOpts = FALSE
  /\ open = {Application} /\ closed = FALSE
  /\ entry = Nil /\ awaited = FALSE /\ sent = {}

-----------------------------------------------------------------------------
(* The constructors.                                                       *)

(* NewHook and NewHookFromProvider append an option of their own, and      *)
(* NewHookFromOpts does not.                                               *)
NewHook(opts, own) == opts \o own

New ==
  /\ pc = "none" /\ pc' = "options"
  /\ \E opts \in SeqOf(Options, MaxOptions), own \in {<<"new">>, <<"existing">>, <<>>} :
       todo' = NewHook(opts, own)
  /\ UNCHANGED <<intSize, hook, open, closed, tracing, entry, awaited, sent>>

(* Mutant: closeProvider stays as it is.                                   *)
SetProvider_Sticky(p, own) ==
  provider' = p /\ closeProvider' = (closeProvider \/ own)

SetProvider(p, own) ==
  provider' = p /\ closeProvider' = own

(* WithNewETWProvider; NewProvider may fail, and the constructor with it.  *)
WithNewETWProvider ==
  \/ /\ \E p \in Created \ open :
          SetProvider(p, TRUE) /\ open' = open \cup {p}
     /\ todo' = Tail(todo)
     /\ UNCHANGED <<pc, getName, getEventsOpts>>
  \/ /\ pc' = "failed" /\ todo' = <<>>
     /\ UNCHANGED <<hook, open>>

WithExistingETWProvider ==
  /\ SetProvider(Application, FALSE) /\ todo' = Tail(todo)
  /\ UNCHANGED <<pc, open, getName, getEventsOpts>>

WithGetName ==
  /\ getName' = TRUE /\ todo' = Tail(todo)
  /\ UNCHANGED <<pc, provider, closeProvider, getEventsOpts, open>>

WithEventOpts ==
  /\ getEventsOpts' = TRUE /\ todo' = Tail(todo)
  /\ UNCHANGED <<pc, provider, closeProvider, getName, open>>

Apply ==
  /\ pc = "options" /\ todo # <<>>
  /\ \/ Head(todo) = "new" /\ WithNewETWProvider
     \/ Head(todo) = "existing" /\ WithExistingETWProvider
     \/ Head(todo) = "getName" /\ WithGetName
     \/ Head(todo) = "eventOpts" /\ WithEventOpts
  /\ UNCHANGED <<intSize, closed, tracing, entry, awaited, sent>>

(* validate: a hook without a provider comes with an error, but comes.     *)
Made ==
  /\ pc = "options" /\ todo = <<>> /\ pc' = "idle"
  /\ UNCHANGED <<intSize, todo, hook, open, closed, tracing, entry, awaited, sent>>

-----------------------------------------------------------------------------
(* The event of an entry.                                                  *)

logrusToETWLevelMap ==
  [panic |-> 0, fatal |-> 1, error |-> 2, warn |-> 3, info |-> 4, debug |-> 5, trace |-> 5]

ASSUME LevelAssumption ==
  \A n \in DOMAIN Entries : Entries[n].level \in DOMAIN logrusToETWLevelMap

newEventDescriptor ==
  [channel |-> 11, level |-> 5, opcode |-> 0, keyword |-> {}, tags |-> {},
   activityID |-> Nil, relatedActivityID |-> Nil]

(* Mutant: a second keyword or tag replaces the first.                     *)
ApplyOpt_Replace(options, o) == [options EXCEPT ![o.opt] = o.x]

(* WithLevel, WithChannel, WithOpcode, WithActivityID and                  *)
(* WithRelatedActivityID assign; WithKeyword and WithTags add bits.        *)
ApplyOpt(options, o) ==
  IF o.opt \in {"keyword", "tags"} THEN [options EXCEPT ![o.opt] = @ \cup o.x]
  ELSE [options EXCEPT ![o.opt] = o.x]

EventOpts(e) ==
  <<[opt |-> "level", x |-> logrusToETWLevelMap[e.level]]>>
    \o (IF getEventsOpts THEN e.opts ELSE <<>>)

Descriptor(e) == FoldLeft(ApplyOpt, newEventDescriptor, EventOpts(e))

EventName(e) == IF getName /\ e.name # <<>> THEN e.name ELSE defaultEventName

-----------------------------------------------------------------------------
(* Fire and WriteEvent.                                                    *)

(* Mutant: events of the session's own level are left out.                 *)
IsEnabledForLevelAndKeywords_Below(p, level, keywords) ==
  p # Nil /\ tracing # Nil /\ level < tracing.level

IsEnabledForLevelAndKeywords(p, level, keywords) ==
  /\ p # Nil /\ tracing # Nil
  /\ level <= tracing.level
  /\ keywords # {} =>
       keywords \cap tracing.any # {} /\ keywords \cap tracing.all = tracing.all

(* ^uint64(0).                                                             *)
AllKeywords == 0..63

Matches(s, level, keyword) ==
  /\ level <= s.level
  /\ keyword # {} => keyword \cap s.any # {} /\ s.all \subseteq keyword

(* What ETW passes on: events of the session's level and keywords.         *)
WantsEvent(s, d) == Matches(s, d.level, d.keyword)

(* A session that asks for keywords wants the event of this entry.         *)
Asks(s, e) == s # Nil /\ s.any # {} /\ WantsEvent(s, Descriptor(e))

FireCheck ==
  /\ pc = "idle"
  /\ \E n \in DOMAIN Entries : LET e == Entries[n] IN
       /\ entry' = e /\ sent' = {}
       /\ awaited' = Asks(tracing, e)
       /\ pc' = IF IsEnabledForLevelAndKeywords(provider, logrusToETWLevelMap[e.level], AllKeywords)
                  THEN "write" ELSE "fired"
  /\ UNCHANGED <<intSize, todo, hook, open, closed, tracing>>

(* writeEventRaw: eventWriteTransfer of the two blobs.                     *)
Written(d) ==
  [descriptor |-> d, blobs |-> Encoded(entry, EventName(entry), d.tags, intSize)]

WriteEvent ==
  /\ pc = "write" /\ pc' = "fired"
  /\ \E d \in {Descriptor(entry)} :
       sent' = IF IsEnabledForLevelAndKeywords(provider, d.level, d.keyword) /\ provider \in open
                 THEN {Written(d)} ELSE {}
  /\ UNCHANGED <<intSize, todo, hook, open, closed, tracing, entry, awaited>>

FireReturns ==
  /\ pc = "fired" /\ pc' = "idle"
  /\ entry' = Nil /\ sent' = {} /\ awaited' = FALSE
  /\ UNCHANGED <<intSize, todo, hook, open, closed, tracing>>

(* The hook may be closed while an entry is fired, and be fired after it;  *)
(* the unregistered provider still shows the session.                      *)
Close ==
  /\ pc \in {"idle", "write", "fired"} /\ ~closed
  /\ closed' = TRUE
  /\ open' = IF closeProvider THEN open \ {provider} ELSE open
  /\ UNCHANGED <<intSize, pc, todo, hook, tracing, entry, awaited, sent>>

(* ETW's sessions start, change and stop.                                  *)
TraceChange ==
  /\ tracing' \in Sought \cup {Nil}
  /\ awaited' = (awaited /\ Asks(tracing', entry))
  /\ UNCHANGED <<intSize, pc, todo, hook, open, closed, entry, sent>>

HNext ==
  \/ New \/ Apply \/ Made \/ FireCheck \/ WriteEvent \/ FireReturns \/ Close \/ TraceChange

HSpec == HInit /\ [][HNext]_hvars

-----------------------------------------------------------------------------
(* The options of the application do not lower the level of the event      *)
(* below that of its entry.                                                *)
KeepsLevel(e) == Descriptor(e).level \in logrusToETWLevelMap[e.level]..255

(* An event that its session wants from the beginning of Fire to its end   *)
(* is written, unless the provider has been closed, although Fire looks at *)
(* the level of the entry and at no keyword of the event, and the session  *)
(* may be another one when WriteEvent looks again.  It is not said of an   *)
(* event that options give a lower level than its entry's, which Fire does *)
(* not know of, nor of a session without any keyword, for which            *)
(* IsEnabledForLevel is false.                                             *)
WantedIsFired ==
  pc = "fired" /\ awaited /\ provider \in open /\ KeepsLevel(entry) => sent # {}

(* Close unregisters the provider that the hook logs to if the hook has    *)
(* registered it, and leaves the application's alone, in whatever order    *)
(* options have made, adopted and replaced providers.                      *)
ClosesItsProvider ==
  /\ Application \in open
  /\ closed => (provider \in open <=> provider = Application)

(* "The provider will be closed when the hook is closed" is said of every  *)
(* provider that WithNewETWProvider registers.                             *)
MadeAreClosed == closed => open \subseteq {Application}
=============================================================================
