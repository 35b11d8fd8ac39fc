----------------------------- MODULE HvsockDial -----------------------------
(***************************************************************************)
(* HvsockDialer.Dial and redialWait of hvsock.go: a caller that dials      *)
(* again and again with one dialer, and so with the one redial timer that  *)
(* the dialer keeps from dial to dial.                                     *)
(*                                                                         *)
(* The context (with the dialer's Deadline merged into it) may end at any  *)
(* moment, but Dial looks at it only before it begins, while it waits to   *)
(* redial, and once more at the end.                                       *)
(***************************************************************************)
EXTENDS Naturals

CONSTANT
  Retries       \* d.Retries

VARIABLES
  nowait,       \* d.RetryWait == 0; the dialer's fields do not change
  pc,           \* where Dial stands
  i,            \* the loop counter
  err,          \* err, the named result
  ctxDone,      \* ctx.Done() is closed
  running,      \* d.rt is counting
  tick,         \* a time is waiting in d.rt.C
  sock,         \* the socket: "none", "open", "closed", or "owned" by the conn
  wg,           \* sock.wg
  tries,        \* history: the connects of this Dial, up to Retries + 2
  late          \* history: its context ended before the last look at it

(* refused: an error canRedial accepts.  failed: any other error.          *)
Errors == {"nil", "refused", "failed", "context"}

Init ==
  /\ nowait \in BOOLEAN
  /\ pc = "idle" /\ i = 0 /\ err = "nil" /\ ctxDone = FALSE
  /\ running = FALSE /\ tick = FALSE
  /\ sock = "none" /\ wg = 0
  /\ tries = 0 /\ late = FALSE

-----------------------------------------------------------------------------
Goto(from, to) == pc = from /\ pc' = to

history == <<tries, late>>

(* A caller, whose last connection if any is now its own business.         *)
DialCall ==
  /\ Goto("idle", "begin")
  /\ i' = 0 /\ err' = "nil" /\ ctxDone' = FALSE /\ sock' = "none"
  /\ tries' = 0 /\ late' = FALSE
  /\ UNCHANGED <<nowait, running, tick, wg>>

ContextEnds ==
  /\ pc # "idle" /\ ~ctxDone
  /\ ctxDone' = TRUE
  /\ late' = (pc \notin {"handover", "done", "close"})
  /\ UNCHANGED <<nowait, pc, i, err, running, tick, sock, wg, tries>>

(* The check of the context, newHVSocket, Bind and prepareIO.  Returning   *)
(* before prepareIO skips its deferred wg.Done, and before newHVSocket the *)
(* deferred Close.                                                         *)
Prepare ==
  /\ pc = "begin"
  /\ \/ /\ ctxDone
        /\ err' = "context" /\ pc' = "idle"
        /\ UNCHANGED <<sock, wg>>
     \/ /\ ~ctxDone                              \* newHVSocket fails
        /\ err' = "failed" /\ pc' = "idle"
        /\ UNCHANGED <<sock, wg>>
     \/ /\ ~ctxDone                              \* Bind fails
        /\ sock' = "open" /\ err' = "failed" /\ pc' = "close"
        /\ UNCHANGED wg
     \/ /\ ~ctxDone
        /\ sock' = "open" /\ wg' = 1 /\ pc' = "connect"
        /\ UNCHANGED err
  /\ UNCHANGED <<nowait, i, ctxDone, running, tick>>

(* ConnectEx and asyncIO, which returns when the connect has an outcome.   *)
Connect ==
  /\ Goto("connect", "outcome")
  /\ err' \in {"nil", "refused", "failed"}
  /\ tries' = IF tries <= Retries + 1 THEN tries + 1 ELSE tries
  /\ UNCHANGED <<nowait, i, ctxDone, running, tick, sock, wg, late>>

canRedial(e) == e = "refused"

(* The end of the loop's body: redial if the error and the count allow it. *)
Outcome ==
  /\ pc = "outcome"
  /\ pc' = IF i < Retries /\ canRedial(err) THEN "redial"
           ELSE IF err = "nil" THEN "options" ELSE "done"
  /\ UNCHANGED <<nowait, i, err, ctxDone, running, tick, sock, wg>>

(* Mutant: the retries are not counted.                                    *)
RedialStart_NoCount ==
  /\ pc = "redial"
  /\ IF nowait
       THEN pc' = "connect" /\ UNCHANGED running
       ELSE pc' = "wait" /\ running' = TRUE
  /\ UNCHANGED <<nowait, i, err, ctxDone, tick, sock, wg>>

(* redialWait: without a wait there is nothing to do; else (re)start d.rt. *)
RedialStart ==
  /\ pc = "redial"
  /\ IF nowait
       THEN pc' = "connect" /\ i' = i + 1 /\ UNCHANGED running
       ELSE pc' = "wait" /\ running' = TRUE /\ UNCHANGED i
  /\ UNCHANGED <<nowait, err, ctxDone, tick, sock, wg>>

(* The time is sent to d.rt.C, which has room for one.                     *)
TimerFires ==
  /\ running
  /\ running' = FALSE /\ tick' = TRUE
  /\ UNCHANGED <<nowait, pc, i, err, ctxDone, sock, wg>>

(* select, case <-d.rt.C.                                                  *)
WaitOver ==
  /\ Goto("wait", "connect") /\ tick
  /\ tick' = FALSE /\ i' = i + 1
  /\ UNCHANGED <<nowait, err, ctxDone, running, sock, wg>>

(* Mutant: the timer is stopped but not drained.                           *)
WaitCancelled_NoDrain ==
  /\ Goto("wait", "done") /\ ctxDone
  /\ running' = FALSE
  /\ err' = "context"
  /\ UNCHANGED <<nowait, i, ctxDone, tick, sock, wg>>

(* select, case <-ctx.Done(): Stop, whose FALSE means the time is or will  *)
(* be in the channel.                                                      *)
WaitCancelled ==
  /\ pc = "wait" /\ ctxDone
  /\ pc' = IF running THEN "done" ELSE "drain"
  /\ running' = FALSE
  /\ err' = "context"
  /\ UNCHANGED <<nowait, i, ctxDone, tick, sock, wg>>

Drain ==
  /\ Goto("drain", "done") /\ tick
  /\ tick' = FALSE
  /\ UNCHANGED <<nowait, i, err, ctxDone, running, sock, wg>>

(* Setsockopt and GetSockName, either of which may fail.                   *)
SetOptions ==
  /\ \/ Goto("options", "check") /\ UNCHANGED err
     \/ Goto("options", "done") /\ err' = "failed"
  /\ UNCHANGED <<nowait, i, ctxDone, running, tick, sock, wg>>

(* Mutant: there is no last look at the context.                           *)
LastCheck_Skip ==
  /\ Goto("check", "handover")
  /\ UNCHANGED <<nowait, i, err, ctxDone, running, tick, sock, wg>>

(* "one last check for timeout, since asyncIO doesn't check the context".  *)
LastCheck ==
  /\ IF ctxDone THEN Goto("check", "done") /\ err' = "context"
     ELSE Goto("check", "handover") /\ UNCHANGED err
  /\ UNCHANGED <<nowait, i, ctxDone, running, tick, sock, wg>>

(* The socket becomes the connection's, whatever the context does now.     *)
HandOver ==
  /\ Goto("handover", "done")
  /\ sock' = "owned"
  /\ UNCHANGED <<nowait, i, err, ctxDone, running, tick, wg>>

(* Deferred calls run last to first: wg.Done, then Close of a socket that  *)
(* has not become the connection's.                                        *)
DeferDone ==
  /\ Goto("done", "close")
  /\ wg' = wg - 1
  /\ UNCHANGED <<nowait, i, err, ctxDone, running, tick, sock>>

(* closeHandle waits for wg.                                               *)
DeferClose ==
  /\ Goto("close", "idle")
  /\ sock # "owned" => wg = 0
  /\ sock' = IF sock = "owned" THEN "owned" ELSE "closed"
  /\ UNCHANGED <<nowait, i, err, ctxDone, running, tick, wg>>

-----------------------------------------------------------------------------
(* The steps of Dial but for its connects.                                 *)
Quietly ==
  \/ Prepare \/ Outcome \/ RedialStart \/ WaitOver \/ WaitCancelled \/ Drain
  \/ SetOptions \/ LastCheck \/ HandOver \/ DeferDone \/ DeferClose

DialStep == Connect \/ (Quietly /\ UNCHANGED history)

Ticks == TimerFires /\ UNCHANGED history

Next == DialCall \/ ContextEnds \/ Ticks \/ DialStep
=============================================================================
