--------------------------- MODULE FileLifecycle ---------------------------
(***************************************************************************)
(* What a win32File promises its callers about the life of its handle,     *)
(* said without kernel, channels, locks or counters: IO runs only between  *)
(* a successful start and its return, none starts once Close has begun,    *)
(* the handle is given back to the system once, after the last IO has      *)
(* returned, and that moment always comes.                                 *)
(***************************************************************************)

CONSTANT Ops            \* the goroutines that do IO

VARIABLES
  active,               \* those whose IO is in progress
  phase                 \* of the handle: "open", "closing" or "closed"

lvars == <<active, phase>>

LInit == active = {} /\ phase = "open"

Start(o) ==
  /\ phase = "open"
  /\ o \notin active
  /\ active' = active \cup {o}
  /\ UNCHANGED phase

Return(o) ==
  /\ o \in active
  /\ active' = active \ {o}
  /\ UNCHANGED phase

BeginClose ==
  /\ phase = "open"
  /\ phase' = "closing"
  /\ UNCHANGED active

Release ==
  /\ phase = "closing"
  /\ active = {}
  /\ phase' = "closed"
  /\ UNCHANGED active

LNext ==
  \/ \E o \in Ops : Start(o) \/ Return(o)
  \/ BeginClose
  \/ Release

LSpec == LInit /\ [][LNext]_lvars

(* A handle whose Close has begun is eventually released.                  *)
LLive == phase = "closing" ~> phase = "closed"
=============================================================================
