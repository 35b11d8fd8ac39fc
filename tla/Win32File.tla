----------------------------- MODULE Win32File -----------------------------
(***************************************************************************)
(* win32File of file.go: overlapped IO on one handle, shared by any number *)
(* of goroutines, with deadlines and a Close that may come at any moment.  *)
(*                                                                         *)
(* Four kinds of actors take turns: the goroutines in Read, Write (or an   *)
(* IO without deadline: ConnectNamedPipe, AcceptEx, ConnectEx), the        *)
(* goroutines in Close, the single ioCompletionProcessor, and the kernel.  *)
(* The deadline handlers and their timers are those of module Deadline.    *)
(*                                                                         *)
(* A goroutine of Ops does one IO after another.  Each IO has a fresh      *)
(* ioOperation; what the model keeps under the goroutine's name is the     *)
(* state of its latest one.                                                *)
(***************************************************************************)
EXTENDS Deadline, FiniteSets, TLC

CONSTANTS
  Readers,      \* goroutines that call Read
  Writers,      \* goroutines that call Write
  Others,       \* goroutines whose IO has no deadline handler (d == nil)
  Closers,      \* goroutines that call Close
  Socket,       \* f.socket: the file is a socket, read by HvsockConn
  Outcomes,     \* how an IO may end without being cancelled
  None          \* no goroutine, no channel

Ops == Readers \cup Writers \cup Others

(* f.readDeadline and f.writeDeadline, the handlers of Read and Write.     *)
Handler(o) == IF o \in Readers THEN "read" ELSE "write"

ASSUME OpsAssumption ==
  /\ IsFiniteSet(Ops)
  /\ Readers \cap Writers = {} /\ Readers \cap Others = {}
  /\ Writers \cap Others = {}
  /\ \A o \in Readers \cup Writers : Handler(o) \in Handlers
  /\ None \notin Ops /\ None \notin Chans
  /\ Socket \in BOOLEAN
  /\ Outcomes \subseteq {"bytes", "empty", "broken", "error"}

VARIABLES
  handle,       \* f.handle: "open", or "closed" after windows.Close
  closing,      \* f.closing
  wg,           \* f.wg, the number of IOs in progress
  pc,           \* pc[o]   : where goroutine o stands
  kernel,       \* kernel[o]: the kernel's state of o's ioOperation
  cancelled,    \* cancelled[o]: CancelIoEx has named o's ioOperation
  result,       \* result[o]: the outcome the kernel gave the IO
  timeout,      \* timeout[o]: the channel asyncIO selects on
  ret,          \* ret[o]  : what the IO returned to its caller
  proc,         \* the ioOperation the processor is sending a result to
  cpc,          \* cpc[c]  : where Close stands
  since         \* history: the deadline in force when o's IO began, or
                \* "changed" once a set() has begun on its handler since

fvars == <<handle, closing, wg, pc, kernel, cancelled, result, timeout, ret,
           proc, cpc>>

vars == <<dvars, fvars, since>>

(* What the kernel can answer by itself: bytes transferred, success with   *)
(* no bytes, ERROR_BROKEN_PIPE, another error.  "aborted" is               *)
(* ERROR_OPERATION_ABORTED, the outcome of a cancellation.                 *)
Results == {"bytes", "empty", "broken", "error", "aborted"}

OpSteps == {"idle", "check", "issue", "issued", "channel", "select",
            "timedout", "finish"}

(* An ioOperation is unknown to the kernel, pending, completed and queued  *)
(* on the completion port, or in the hands of the processor.               *)
KernelStates == {"none", "pending", "queued", "taken"}

Returns == Results \cup
           {"none", "sockerr", "ErrTimeout", "ErrFileClosed", "EOF"}

FInit ==
  /\ handle = "open"
  /\ closing = FALSE
  /\ wg = 0
  /\ pc = [o \in Ops |-> "idle"]
  /\ kernel = [o \in Ops |-> "none"]
  /\ cancelled = [o \in Ops |-> FALSE]
  /\ result = [o \in Ops |-> "none"]
  /\ timeout = [o \in Ops |-> None]
  /\ ret = [o \in Ops |-> "none"]
  /\ proc = None
  /\ cpc = [c \in Closers |-> "idle"]
  /\ since = [o \in Ops |-> "changed"]

Init == DInit /\ FInit

-----------------------------------------------------------------------------
(* An IO, from the goroutine that does it.                                 *)

Goto(o, from, to) == pc[o] = from /\ pc' = [pc EXCEPT ![o] = to]

(* Mutant: prepareIO without the check of closing.                         *)
PrepareIO_NoCheck(o) ==
  /\ pc[o] = "idle"
  /\ ret' = [ret EXCEPT ![o] = "none"]
  /\ pc' = [pc EXCEPT ![o] = "issue"]
  /\ wg' = wg + 1
  /\ result' = [result EXCEPT ![o] = "none"]
  /\ UNCHANGED <<handle, closing, kernel, cancelled, timeout, proc, cpc>>
  /\ UNCHANGED <<dvars, since>>

(* prepareIO: the check of closing and the Add are one critical section of *)
(* wgLock.  A closed file answers at once.                                 *)
PrepareIO(o) ==
  /\ pc[o] = "idle"
  /\ IF closing
       THEN /\ ret' = [ret EXCEPT ![o] = "ErrFileClosed"]
            /\ UNCHANGED <<pc, wg>>
       ELSE /\ ret' = [ret EXCEPT ![o] = "none"]
            /\ pc' = [pc EXCEPT ![o] =
                        IF o \in Others \/ Socket THEN "issue" ELSE "check"]
            /\ wg' = wg + 1
  /\ result' = [result EXCEPT ![o] = "none"]
  /\ since' = [since EXCEPT ![o] =
                 IF o \notin Others /\ setpc[Handler(o)] = "idle"
                   THEN deadline[Handler(o)] ELSE "changed"]
  /\ UNCHANGED <<handle, closing, kernel, cancelled, timeout, proc, cpc>>
  /\ UNCHANGED dvars

(* Read and Write of a file (not of a socket) look at the expiry flag      *)
(* before they start; the deferred wg.Done runs on this return too.        *)
CheckTimedout(o) ==
  /\ pc[o] = "check"
  /\ IF timedout[Handler(o)]
       THEN /\ pc' = [pc EXCEPT ![o] = "idle"]
            /\ ret' = [ret EXCEPT ![o] = "ErrTimeout"]
            /\ wg' = wg - 1
       ELSE /\ pc' = [pc EXCEPT ![o] = "issue"]
            /\ UNCHANGED <<ret, wg>>
  /\ UNCHANGED <<handle, closing, kernel, cancelled, result, timeout, proc,
                 cpc>>
  /\ UNCHANGED <<dvars, since>>

(* Mutant: without FILE_SKIP_COMPLETION_PORT_ON_SUCCESS an IO that is done *)
(* at once is posted to the completion port as well.                       *)
Issue_Posts(o) ==
  /\ Goto(o, "issue", "finish")
  /\ \E r \in Outcomes :
       /\ result' = [result EXCEPT ![o] = r]
       /\ ret' = [ret EXCEPT ![o] = r]
  /\ kernel' = [kernel EXCEPT ![o] = "queued"]
  /\ UNCHANGED <<handle, closing, wg, cancelled, timeout, proc, cpc>>
  /\ UNCHANGED <<dvars, since>>

(* ReadFile, WriteFile, ... answer at once or ERROR_IO_PENDING.  An        *)
(* immediate answer posts no completion: failures never do, and the handle *)
(* has FILE_SKIP_COMPLETION_PORT_ON_SUCCESS.                               *)
Issue(o) ==
  /\ \/ /\ Goto(o, "issue", "finish")
        /\ \E r \in Outcomes :
             /\ result' = [result EXCEPT ![o] = r]
             /\ ret' = [ret EXCEPT ![o] = r]
        /\ UNCHANGED kernel
     \/ /\ Goto(o, "issue", "issued")
        /\ kernel' = [kernel EXCEPT ![o] = "pending"]
        /\ UNCHANGED <<result, ret>>
  /\ UNCHANGED <<handle, closing, wg, cancelled, timeout, proc, cpc>>
  /\ UNCHANGED <<dvars, since>>

(* CancelIoEx marks those of the named operations that are still pending.  *)
Cancel(S) ==
  cancelled' = [o \in Ops |->
                  cancelled[o] \/ (o \in S /\ kernel[o] = "pending")]

(* Mutant: asyncIO without the check of closing.                           *)
CheckClosing_Skip(o) ==
  /\ Goto(o, "issued", "channel")
  /\ UNCHANGED <<handle, closing, wg, kernel, cancelled, result, timeout, ret>>
  /\ UNCHANGED <<proc, cpc, dvars, since>>

(* asyncIO: a Close whose CancelIoEx came before this IO was issued has    *)
(* missed it, so the IO cancels itself.                                    *)
CheckClosing(o) ==
  /\ Goto(o, "issued", "channel")
  /\ Cancel(IF closing THEN {o} ELSE {})
  /\ UNCHANGED <<handle, closing, wg, kernel, result, timeout, ret, proc, cpc>>
  /\ UNCHANGED <<dvars, since>>

(* asyncIO: read d.channel under channelLock.                              *)
ReadChannel(o) ==
  /\ Goto(o, "channel", "select")
  /\ timeout' = [timeout EXCEPT ![o] =
                   IF o \in Others THEN None ELSE chan[Handler(o)]]
  /\ UNCHANGED <<handle, closing, wg, kernel, cancelled, result, ret, proc,
                 cpc>>
  /\ UNCHANGED <<dvars, since>>

(* The rendezvous on c.ch: the processor hands the result over and is free.*)
Receive(o) ==
  /\ proc = o
  /\ proc' = None
  /\ kernel' = [kernel EXCEPT ![o] = "none"]
  /\ cancelled' = [cancelled EXCEPT ![o] = FALSE]
  /\ timeout' = [timeout EXCEPT ![o] = None]

(* select, case r = <-c.ch.                                                *)
SelectResult(o) ==
  /\ Goto(o, "select", "finish")
  /\ Receive(o)
  /\ ret' = [ret EXCEPT ![o] =
       IF result[o] = "aborted"
         THEN IF closing THEN "ErrFileClosed" ELSE "aborted"
         ELSE IF Socket /\ result[o] \in {"broken", "error"}
                THEN "sockerr" ELSE result[o]]
  /\ UNCHANGED <<handle, closing, wg, result, cpc>>
  /\ UNCHANGED <<dvars, since>>

(* select, case <-timeout: the channel is closed, cancel this IO.          *)
SelectTimeout(o) ==
  /\ Goto(o, "select", "timedout")
  /\ timeout[o] \in closed
  /\ Cancel({o})
  /\ UNCHANGED <<handle, closing, wg, kernel, result, timeout, ret, proc, cpc>>
  /\ UNCHANGED <<dvars, since>>

(* Mutant: whatever came back after the deadline is a timeout.             *)
TimeoutResult_Always(o) ==
  /\ Goto(o, "timedout", "finish")
  /\ Receive(o)
  /\ ret' = [ret EXCEPT ![o] = "ErrTimeout"]
  /\ UNCHANGED <<handle, closing, wg, result, cpc>>
  /\ UNCHANGED <<dvars, since>>

(* The IO may have completed before the cancellation reached it; only an   *)
(* aborted one is reported as a timeout.                                   *)
TimeoutResult(o) ==
  /\ Goto(o, "timedout", "finish")
  /\ Receive(o)
  /\ ret' = [ret EXCEPT ![o] =
               IF result[o] = "aborted" THEN "ErrTimeout" ELSE result[o]]
  /\ UNCHANGED <<handle, closing, wg, result, cpc>>
  /\ UNCHANGED <<dvars, since>>

(* The end-of-file rules of win32File.Read and HvsockConn.Read, for a      *)
(* caller's buffer that is empty or not, and the deferred wg.Done.         *)
EofRule(r, bufEmpty) ==
  IF \/ r = "empty" /\ (~bufEmpty \/ Socket)
     \/ r = "broken" /\ ~Socket
  THEN "EOF" ELSE r

Finish(o) ==
  /\ Goto(o, "finish", "idle")
  /\ \E bufEmpty \in BOOLEAN :
       ret' = [ret EXCEPT ![o] =
                 IF o \in Readers THEN EofRule(@, bufEmpty) ELSE @]
  /\ wg' = wg - 1
  /\ UNCHANGED <<handle, closing, kernel, cancelled, result, timeout, proc,
                 cpc>>
  /\ UNCHANGED <<dvars, since>>

IOStep(o) ==
  \/ CheckTimedout(o) \/ Issue(o) \/ CheckClosing(o) \/ ReadChannel(o)
  \/ SelectResult(o) \/ SelectTimeout(o) \/ TimeoutResult(o) \/ Finish(o)

-----------------------------------------------------------------------------
(* The kernel and the completion processor.                                *)

(* A pending IO completes in its own time; a cancelled one may complete    *)
(* with ERROR_OPERATION_ABORTED, or still by itself.                       *)
Complete(o) ==
  /\ kernel[o] = "pending"
  /\ kernel' = [kernel EXCEPT ![o] = "queued"]
  /\ \E r \in Outcomes \cup (IF cancelled[o] THEN {"aborted"} ELSE {}) :
       result' = [result EXCEPT ![o] = r]
  /\ UNCHANGED <<handle, closing, wg, pc, cancelled, timeout, ret, proc, cpc>>
  /\ UNCHANGED <<dvars, since>>

(* getQueuedCompletionStatus: the processor takes one completion and then  *)
(* blocks in op.ch <- result until that operation's goroutine receives.    *)
Dequeue(o) ==
  /\ proc = None
  /\ kernel[o] = "queued"
  /\ proc' = o
  /\ kernel' = [kernel EXCEPT ![o] = "taken"]
  /\ UNCHANGED <<handle, closing, wg, pc, cancelled, result, timeout, ret, cpc>>
  /\ UNCHANGED <<dvars, since>>

-----------------------------------------------------------------------------
(* closeHandle.                                                            *)

CloserAt(c, from, to) == cpc[c] = from /\ cpc' = [cpc EXCEPT ![c] = to]

(* The swap under wgLock: the first Close goes on, a later one returns.    *)
CloseSwap(c) ==
  /\ CloserAt(c, "idle", IF closing THEN "done" ELSE "cancel")
  /\ closing' = TRUE
  /\ UNCHANGED <<handle, wg, pc, kernel, cancelled, result, timeout, ret, proc>>
  /\ UNCHANGED <<dvars, since>>

CloseCancel(c) ==
  /\ CloserAt(c, "cancel", "wait")
  /\ Cancel(Ops)
  /\ UNCHANGED <<handle, closing, wg, pc, kernel, result, timeout, ret, proc>>
  /\ UNCHANGED <<dvars, since>>

(* Mutant: closeHandle without wg.Wait.                                    *)
CloseWait_Skip(c) ==
  /\ CloserAt(c, "wait", "close")
  /\ UNCHANGED <<handle, closing, wg, pc, kernel, cancelled, result, timeout>>
  /\ UNCHANGED <<ret, proc, dvars, since>>

CloseWait(c) ==
  /\ CloserAt(c, "wait", "close")
  /\ wg = 0
  /\ UNCHANGED <<handle, closing, wg, pc, kernel, cancelled, result, timeout,
                 ret, proc>>
  /\ UNCHANGED <<dvars, since>>

CloseHandle(c) ==
  /\ CloserAt(c, "close", "done")
  /\ handle' = "closed"
  /\ UNCHANGED <<closing, wg, pc, kernel, cancelled, result, timeout, ret, proc>>
  /\ UNCHANGED <<dvars, since>>

CloseStep(c) == CloseCancel(c) \/ CloseWait(c) \/ CloseHandle(c)

-----------------------------------------------------------------------------
(* Deadlines, set while IO is in progress.                                 *)

(* SetReadDeadline and SetWriteDeadline.                                   *)
SetDeadline(h, d) ==
  /\ SetBegin(h, d)
  /\ since' = [o \in Ops |->
                 IF o \notin Others /\ Handler(o) = h
                   THEN "changed" ELSE since[o]]
  /\ UNCHANGED fvars

(* A new channel is one that no waiting IO refers to either.               *)
RenewChannel(h, c) ==
  /\ SetRenew(h, c)
  /\ \A o \in Ops : timeout[o] # c
  /\ UNCHANGED <<fvars, since>>

SetStep(h) == (SetSteady(h) /\ UNCHANGED <<fvars, since>>)
              \/ \E c \in Chans : RenewChannel(h, c)

TimerStep(h) == TimerSteps(h) /\ UNCHANGED <<fvars, since>>

-----------------------------------------------------------------------------
Next ==
  \/ \E o \in Ops : PrepareIO(o) \/ IOStep(o) \/ Complete(o) \/ Dequeue(o)
  \/ \E c \in Closers : CloseSwap(c) \/ CloseStep(c)
  \/ \E h \in Handlers :
       \/ \E d \in Deadlines : SetDeadline(h, d)
       \/ SetStep(h)
       \/ TimerStep(h)

Spec == Init /\ [][Next]_vars

(***************************************************************************)
(* Fairness.  A goroutine that can move is run; timers fire; the kernel    *)
(* completes an IO that has been cancelled (one that has not may stay      *)
(* pending for ever); the completion port is a queue, so no completion is  *)
(* passed over for ever.  Nobody has to start an IO, set a deadline or     *)
(* call Close.                                                             *)
(***************************************************************************)
Fairness ==
  /\ \A o \in Ops :
       /\ WF_vars(IOStep(o))
       /\ WF_vars(Complete(o) /\ cancelled[o])
       /\ SF_vars(Dequeue(o))
  /\ \A c \in Closers : WF_vars(CloseStep(c))
  /\ \A h \in Handlers : WF_vars(SetStep(h)) /\ WF_vars(TimerStep(h))

FairSpec == Spec /\ Fairness

-----------------------------------------------------------------------------
FTypeOK ==
  /\ handle \in {"open", "closed"}
  /\ closing \in BOOLEAN
  /\ wg \in Nat
  /\ pc \in [Ops -> OpSteps]
  /\ kernel \in [Ops -> KernelStates]
  /\ cancelled \in [Ops -> BOOLEAN]
  /\ result \in [Ops -> Results \cup {"none"}]
  /\ timeout \in [Ops -> Chans \cup {None}]
  /\ ret \in [Ops -> Returns]
  /\ proc \in Ops \cup {None}
  /\ cpc \in [Closers -> {"idle", "cancel", "wait", "close", "done"}]
  /\ since \in [Ops -> Deadlines \cup {"changed"}]

TypeOK == DTypeOK /\ FTypeOK

Active == {o \in Ops : pc[o] # "idle"}

(* Once windows.Close has been called no goroutine is inside an IO, so     *)
(* none passes the dead handle (or its reuse by the system) to the kernel, *)
(* no operation of this file is pending there and none is on its way       *)
(* through the completion port.                                            *)
ClosedMeansQuiet ==
  handle = "closed" => Active = {} /\ proc = None
                       /\ \A o \in Ops : kernel[o] = "none"

(* The kernel and the processor only ever hold operations whose goroutine  *)
(* will still receive the result: the one processor of the process never   *)
(* blocks for ever on an IO that has already returned.                     *)
NoStrayCompletion ==
  \A o \in Ops :
    /\ kernel[o] # "none" => pc[o] \in {"issued", "channel", "select", "timedout"}
    /\ proc = o => kernel[o] = "taken"

(* ERROR_OPERATION_ABORTED never reaches a caller: whoever cancelled the   *)
(* IO, the caller sees ErrFileClosed or ErrTimeout.                        *)
AbortIsTranslated == \A o \in Ops : ret[o] # "aborted"

(* A deadline or a Close that races with a completion loses no data: an IO *)
(* the kernel completed with bytes returns them, and no other IO claims to.*)
BytesAreReported ==
  \A o \in Ops : pc[o] = "idle" => (result[o] = "bytes" <=> ret[o] = "bytes")

(* An IO begun after the deadline was cleared, with no set() since, does   *)
(* not fail with ErrTimeout: an old timer never reaches into a new IO.     *)
TimeoutIsDue == \A o \in Ops : since[o] = "zero" => ret[o] # "ErrTimeout"

(* A waiting IO selects on its handler's present channel or on one that is *)
(* closed; it is never left with an orphan that nobody will close.         *)
NoOrphanChannel ==
  \A o \in Ops \ Others :
    pc[o] = "select" =>
      timeout[o] = chan[Handler(o)] \/ timeout[o] \in closed

(* Channels are told apart by nothing but which of them is in use, so TLC  *)
(* may permute them (Chans as model values, in runs without liveness).     *)
ChanSymmetry == Permutations(Chans)

(* The file keeps the promises of FileLifecycle.                           *)
Lifecycle == INSTANCE FileLifecycle WITH
  active <- Active,
  phase <- IF handle = "closed" THEN "closed"
           ELSE IF closing THEN "closing" ELSE "open"

LifecycleSpec == Lifecycle!LSpec

(* Close always gets to release the handle, whatever IO it races with.     *)
CloseReleases == Lifecycle!LLive

(* When the timer fires, an IO that is waiting stops waiting.              *)
DeadlineWakes ==
  \A o \in Ops \ Others :
    (pc[o] = "select" /\ timer[Handler(o)] = "fired") ~> pc[o] # "select"

(* No wait inside the file lasts: the processor gets rid of the result it  *)
(* is sending, and set() returns, because the callback of a timer it failed*)
(* to stop closes the channel set() waits on.                              *)
WaitsEnd ==
  /\ proc # None ~> proc = None
  /\ \A h \in Handlers : setpc[h] # "idle" ~> setpc[h] = "idle"
=============================================================================
