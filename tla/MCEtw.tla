------------------------------- MODULE MCEtw --------------------------------
(***************************************************************************)
(* The ETW providers of a process, and the logrus hook: a behaviour is of  *)
(* one of the two, and the other rests.                                    *)
(*                                                                         *)
(* Of the providers: two sessions that differ in level and keywords, one   *)
(* of which wants the event.  Of the hook: entries with every type that    *)
(* SmartField tells apart, options that raise and lower levels, and        *)
(* sessions on both sides of them, with keywords and without.              *)
(***************************************************************************)
EXTENDS EtwProvider, EtwHook, EtwEntry

VARIABLE part   \* "provider" or "hook"

all == <<part, vars, hvars>>

-----------------------------------------------------------------------------
MCSessions == {[level |-> 1, any |-> {"a", "b"}, all |-> {"a"}],
               [level |-> 2, any |-> {"b"}, all |-> {}]}

MCEvents == {[level |-> 1, keyword |-> {"a", "c"}]}

ProviderSymmetry == Permutations(Providers)

Value(type, x) == [type |-> type, slice |-> FALSE, derived |-> FALSE, x |-> x, sprint |-> <<>>]
Slice(type, x) == [Value(type, x) EXCEPT !.slice = TRUE]
Derived(v)     == [v EXCEPT !.derived = TRUE, !.sprint = <<40, 41>>]
Other          == [Value("map", <<>>) EXCEPT !.sprint = <<40, 42>>]

Public(v)  == [exported |-> TRUE, value |-> v]
Private(v) == [exported |-> FALSE, value |-> v]

Point == Value("struct", <<Public(Value("int16", -2)), Private(Value("string", <<5>>)),
                           Public(Value("struct", <<Public(Value("bool", TRUE))>>)),
                           Public(Value("string", <<>>))>>)

Plain == [level |-> "info", message |-> <<104, 105>>, time |-> 12345, data |-> <<>>,
          name |-> <<110>>, opts |-> <<>>]

With(data)  == [Plain EXCEPT !.data = data]
Opt(opt, x) == [opt |-> opt, x |-> x]

MCValues ==
  <<Value("bool", TRUE), Value("int", -70000), Value("int8", -128), Value("int16", -300),
   Value("int32", 2^30), Value("int64", -1), Value("uint", 70000), Value("uint8", 255),
   Value("uint16", 65535), Value("uint32", 2^30), Value("uint64", 256), Value("uintptr", 4096),
   Value("float32", 1065353), Value("float64", 1072693), Value("string", <<97, 98>>),
   Value("error", <<33>>), Value("time", -250), Value("struct", <<>>), Point,
   Derived(Value("int32", -5)), Derived(Value("string", <<97>>)), Derived(Slice("int8", <<1>>)),
   Slice("bool", <<TRUE, FALSE>>), Slice("int", <<>>), Slice("int16", <<-1, 1>>),
   Slice("uint", <<7>>), Slice("uintptr", <<1, 2>>), Slice("string", <<<<>>, <<98>>>>),
   Slice("time", <<1>>), Other,
   Value("string", <<97, 0, 98>>)>>

MCEntries ==
  [k \in DOMAIN MCValues |-> With(120 :> MCValues[k])]
    \o <<With((97 :> Value("int8", 1)) @@ (101 :> Value("error", <<33>>)) @@ (120 :> Point)),
          [Plain EXCEPT !.level = "panic", !.name = <<>>],
          [Plain EXCEPT !.level = "trace", !.opts = <<Opt("keyword", {1}), Opt("tags", {0, 31})>>],
          [Plain EXCEPT !.level = "error", !.time = -250,
             !.opts = <<Opt("tags", {2, 21, 27}), Opt("opcode", 1), Opt("keyword", {1}),
                        Opt("keyword", {2}), Opt("tags", {7})>>],
          [Plain EXCEPT !.level = "warn",
             !.opts = <<Opt("level", 1), Opt("activityID", 1), Opt("relatedActivityID", 2),
                        Opt("channel", 0)>>]>>

MCDefaultEventName == <<76, 69>>

MCSought == {[level |-> 255, any |-> 0..63, all |-> {}], [level |-> 3, any |-> {1}, all |-> {2}],
             [level |-> 2, any |-> {2}, all |-> {}], [level |-> 5, any |-> {}, all |-> {}]}

-----------------------------------------------------------------------------
MCInit ==
  /\ Init /\ HInit
  /\ \/ part = "provider" /\ intSize = 8 /\ tracing = Nil
     \/ part = "hook" /\ session = [p \in Providers |-> None]

MCNext ==
  \/ part = "provider" /\ Next /\ UNCHANGED <<part, hvars>>
  \/ part = "hook" /\ HNext /\ UNCHANGED <<part, vars>>

MCSpec == MCInit /\ [][MCNext]_all

-----------------------------------------------------------------------------
SameEvent(ev, e) ==
  /\ ev.name = EventName(e)
  /\ ev.tags = IF getEventsOpts THEN TagValue(TagsOf(e.opts)) ELSE 0
  /\ SameFields(ev.fields, e)

(* What a consumer reads of an event is its entry: the name and the tags,  *)
(* the message, the time, the entry's fields by name with the error behind *)
(* them, each with the type and the value it has in Go (Fire, SmartField). *)
EventIsRead ==
  \A ev \in sent :
    FitsEntry(entry) => SameEvent(ReadEvent(ev.blobs.em, ev.blobs.ed), entry)
=============================================================================
