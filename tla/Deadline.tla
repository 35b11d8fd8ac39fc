------------------------------ MODULE Deadline ------------------------------
(***************************************************************************)
(* The deadlineHandler of file.go: the state behind SetReadDeadline and    *)
(* SetWriteDeadline.  A handler owns a channel that is closed when the     *)
(* deadline passes (every waiting IO selects on it), a flag that makes new *)
(* IO fail at once, and a timer whose callback runs in a goroutine of its  *)
(* own.  set() replaces the deadline: it must defuse the previous timer,   *)
(* or wait for its callback, before it may reset the flag and the channel. *)
(*                                                                         *)
(* set() holds setLock from its first to its last statement, so a handler  *)
(* has at most one set() in progress; goroutines queueing for the lock are *)
(* not represented.                                                        *)
(***************************************************************************)
EXTENDS Naturals

CONSTANTS
  Handlers,     \* the deadline handlers of a file
  Chans         \* channel identities that make(timeoutChan) draws from

VARIABLES
  chan,         \* chan[h]     : d.channel
  closed,       \* the channels that have been closed
  timer,        \* timer[h]    : d.timer, and how far its callback has come
  timedout,     \* timedout[h] : d.timedout
  setpc,        \* setpc[h]    : where the set() that holds setLock stands
  deadline,     \* deadline[h] : the argument of the latest set()
  panicked      \* close() was called on a closed channel

dvars == <<chan, closed, timer, timedout, setpc, deadline, panicked>>

(***************************************************************************)
(* "nil": no timer.  "armed": AfterFunc's timer is running.  "fired": the  *)
(* callback goroutine has started.  "flagged": it has set timedout.        *)
(* "done": it has closed the channel (d.timer still points to the timer).  *)
(***************************************************************************)
TimerStates == {"nil", "armed", "fired", "flagged", "done"}
SetSteps    == {"idle", "drain", "reset", "renew", "arm", "close"}
Deadlines   == {"zero", "past", "future"}

(* makeWin32File gives each handler a channel of its own; the rest of the  *)
(* struct has its zero value.                                              *)
DInit ==
  /\ chan \in {f \in [Handlers -> Chans] :
                 \A g, h \in Handlers : f[g] = f[h] => g = h}
  /\ closed = {}
  /\ timer = [h \in Handlers |-> "nil"]
  /\ timedout = [h \in Handlers |-> FALSE]
  /\ setpc = [h \in Handlers |-> "idle"]
  /\ deadline = [h \in Handlers |-> "zero"]
  /\ panicked = FALSE

-----------------------------------------------------------------------------
(* The timer's own steps.                                                  *)

(* The time passed to AfterFunc has come: the callback goroutine starts.   *)
TimerFires(h) ==
  /\ timer[h] = "armed"
  /\ timer' = [timer EXCEPT ![h] = "fired"]
  /\ UNCHANGED <<chan, closed, timedout, setpc, deadline, panicked>>

(* timeoutIO, first statement, run by the timer.                           *)
TimeoutFlag(h) ==
  /\ timer[h] = "fired"
  /\ timer' = [timer EXCEPT ![h] = "flagged"]
  /\ timedout' = [timedout EXCEPT ![h] = TRUE]
  /\ UNCHANGED <<chan, closed, setpc, deadline, panicked>>

(* close(d.channel); closing a closed channel panics.                      *)
CloseChannel(h) ==
  /\ closed' = closed \cup {chan[h]}
  /\ panicked' = (panicked \/ chan[h] \in closed)

(* timeoutIO, second statement, run by the timer.                          *)
TimeoutClose(h) ==
  /\ timer[h] = "flagged"
  /\ timer' = [timer EXCEPT ![h] = "done"]
  /\ CloseChannel(h)
  /\ UNCHANGED <<chan, timedout, setpc, deadline>>

-----------------------------------------------------------------------------
(* set(deadline), statement by statement under setLock.                    *)

(* Mutants: set() goes on although Stop() reported FALSE; set() waits for  *)
(* the channel although Stop() reported TRUE.                              *)
SetBegin_NoDrain(h, d) ==
  /\ setpc[h] = "idle"
  /\ deadline' = [deadline EXCEPT ![h] = d]
  /\ setpc' = [setpc EXCEPT ![h] = "reset"]
  /\ timer' = [timer EXCEPT ![h] = IF @ = "armed" THEN "nil" ELSE @]
  /\ UNCHANGED <<chan, closed, timedout, panicked>>

SetBegin_AlwaysDrain(h, d) ==
  /\ setpc[h] = "idle"
  /\ deadline' = [deadline EXCEPT ![h] = d]
  /\ setpc' = [setpc EXCEPT ![h] = IF timer[h] = "nil" THEN "reset" ELSE "drain"]
  /\ timer' = [timer EXCEPT ![h] = IF @ = "armed" THEN "nil" ELSE @]
  /\ UNCHANGED <<chan, closed, timedout, panicked>>

(* Lock; stop a running timer.  When the callback has already started,     *)
(* Stop() reports FALSE and set() goes on to wait for the channel.         *)
SetBegin(h, d) ==
  /\ setpc[h] = "idle"
  /\ deadline' = [deadline EXCEPT ![h] = d]
  /\ setpc' = [setpc EXCEPT ![h] =
                 IF timer[h] \in {"nil", "armed"} THEN "reset" ELSE "drain"]
  /\ timer' = [timer EXCEPT ![h] = IF @ = "armed" THEN "nil" ELSE @]
  /\ UNCHANGED <<chan, closed, timedout, panicked>>

(* <-d.channel returns only once the callback has closed the channel.      *)
SetDrain(h) ==
  /\ setpc[h] = "drain"
  /\ chan[h] \in closed
  /\ timer' = [timer EXCEPT ![h] = "nil"]
  /\ setpc' = [setpc EXCEPT ![h] = "reset"]
  /\ UNCHANGED <<chan, closed, timedout, deadline, panicked>>

(* Mutant: set() leaves the flag of the old deadline up.                   *)
SetReset_Keep(h) ==
  /\ setpc[h] = "reset"
  /\ setpc' = [setpc EXCEPT ![h] = "renew"]
  /\ UNCHANGED <<chan, closed, timer, timedout, deadline, panicked>>

SetReset(h) ==
  /\ setpc[h] = "reset"
  /\ timedout' = [timedout EXCEPT ![h] = FALSE]
  /\ setpc' = [setpc EXCEPT ![h] = "renew"]
  /\ UNCHANGED <<chan, closed, timer, deadline, panicked>>

(* Mutant: set() replaces an open channel too.                             *)
SetRenew_Always(h, c) ==
  /\ setpc[h] = "renew"
  /\ \A g \in Handlers : chan[g] # c
  /\ chan' = [chan EXCEPT ![h] = c]
  /\ closed' = closed \ {c}
  /\ setpc' = [setpc EXCEPT ![h] = "arm"]
  /\ UNCHANGED <<timer, timedout, deadline, panicked>>

(* A closed channel is replaced by a new one, an open one is kept.  c is   *)
(* a channel nobody refers to; reusing the identity of a forgotten channel *)
(* keeps the state finite without bounding the number of set() calls.      *)
SetRenew(h, c) ==
  /\ setpc[h] = "renew"
  /\ IF chan[h] \in closed
       THEN /\ \A g \in Handlers : chan[g] # c
            /\ chan' = [chan EXCEPT ![h] = c]
            /\ closed' = closed \ {c}
       ELSE UNCHANGED <<chan, closed>>
  /\ setpc' = [setpc EXCEPT ![h] = "arm"]
  /\ UNCHANGED <<timer, timedout, deadline, panicked>>

(* No deadline: return.  A future one: start the timer and return.  A past *)
(* one: run timeoutIO here, whose first statement raises the flag.         *)
SetArm(h) ==
  /\ setpc[h] = "arm"
  /\ setpc' = [setpc EXCEPT ![h] =
                 IF deadline[h] = "past" THEN "close" ELSE "idle"]
  /\ timer' = [timer EXCEPT ![h] =
                 IF deadline[h] = "future" THEN "armed" ELSE @]
  /\ timedout' = [timedout EXCEPT ![h] = @ \/ deadline[h] = "past"]
  /\ UNCHANGED <<chan, closed, deadline, panicked>>

SetClose(h) ==
  /\ setpc[h] = "close"
  /\ CloseChannel(h)
  /\ setpc' = [setpc EXCEPT ![h] = "idle"]
  /\ UNCHANGED <<chan, timer, timedout, deadline>>

SetSteady(h) == SetDrain(h) \/ SetReset(h) \/ SetArm(h) \/ SetClose(h)

TimerSteps(h) == TimerFires(h) \/ TimeoutFlag(h) \/ TimeoutClose(h)

DNext ==
  \E h \in Handlers :
    \/ TimerSteps(h)
    \/ \E d \in Deadlines : SetBegin(h, d)
    \/ SetSteady(h)
    \/ \E c \in Chans : SetRenew(h, c)

DSpec == DInit /\ [][DNext]_dvars

(***************************************************************************)
(* Fairness: the runtime runs a goroutine that can move, and an armed      *)
(* timer fires unless it is stopped.  Nobody has to call set().            *)
(***************************************************************************)
SetProgress(h) == SetSteady(h) \/ \E c \in Chans : SetRenew(h, c)

DFairness ==
  \A h \in Handlers : WF_dvars(TimerSteps(h)) /\ WF_dvars(SetProgress(h))

DFairSpec == DSpec /\ DFairness

-----------------------------------------------------------------------------
DTypeOK ==
  /\ chan \in [Handlers -> Chans]
  /\ closed \subseteq Chans
  /\ timer \in [Handlers -> TimerStates]
  /\ timedout \in [Handlers -> BOOLEAN]
  /\ setpc \in [Handlers -> SetSteps]
  /\ deadline \in [Handlers -> Deadlines]
  /\ panicked \in BOOLEAN

(* No channel is closed twice (a panic in Go): not by two callbacks, and   *)
(* not by a callback and a set() with a past deadline.                     *)
NoDoubleClose == ~panicked

(* What a handler shows when the latest deadline is the whole truth.       *)
ShowsLatest(h) ==
  /\ deadline[h] = "zero" =>
       timer[h] = "nil" /\ ~timedout[h] /\ chan[h] \notin closed
  /\ deadline[h] = "past" =>
       timer[h] = "nil" /\ timedout[h] /\ chan[h] \in closed
  /\ deadline[h] = "future" =>
       /\ timer[h] # "nil"
       /\ timedout[h] <=> timer[h] \in {"flagged", "done"}
       /\ chan[h] \in closed <=> timer[h] = "done"

(* When no set() is in progress the handler shows the latest deadline and  *)
(* nothing of an earlier one: cleared means no timer, flag down, channel   *)
(* open; past means flag up and channel closed; future means the flag and  *)
(* the channel are exactly where the one timer's callback has brought them.*)
SetTakesEffect == \A h \in Handlers : setpc[h] = "idle" => ShowsLatest(h)

(* timeoutIO raises the flag before it closes the channel: an IO woken by  *)
(* the channel that is retried at once finds the flag up, unless a new     *)
(* set() has lowered it and is about to replace the channel.               *)
WokenSeesFlag ==
  \A h \in Handlers :
    chan[h] \in closed => timedout[h] \/ setpc[h] = "renew"
=============================================================================
