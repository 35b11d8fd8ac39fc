-------------------------- MODULE Win32FileProofs --------------------------
(***************************************************************************)
(* The safety properties of the deadline handlers, for every set of        *)
(* handlers and channels, and those of win32File, for any number of        *)
(* goroutines, with or without deadlines.                                  *)
(*                                                                         *)
(* The handlers' follow from one inductive invariant, DInductive, that     *)
(* says, for each step of set(), where the timer, the flag and the channel *)
(* of the handler stand.  The file's invariant takes it over: every step   *)
(* of a file is a step of the handlers or leaves them alone.               *)
(***************************************************************************)
EXTENDS Win32File, FiniteSetTheorems, TLAPS

(* Handlers never share a channel, so closing one leaves the others alone. *)
OwnChannels == \A g, h \in Handlers : chan[g] = chan[h] => g = h

(* From SetDrain on, set() has the handler to itself.                      *)
SetOwnsTimer(h) ==
  /\ setpc[h] \in {"reset", "renew", "arm", "close"} => timer[h] = "nil"
  /\ setpc[h] = "drain" => timer[h] \in {"fired", "flagged", "done"}

(* The callback that has not closed the channel yet finds it open.         *)
TimerOwnsChannel(h) ==
  /\ timer[h] \in {"armed", "fired", "flagged"} => chan[h] \notin closed
  /\ timer[h] = "done" => chan[h] \in closed
  /\ setpc[h] \in {"arm", "close"} => chan[h] \notin closed

(* The flag, at each step of set().                                        *)
FlagFollows(h) ==
  /\ setpc[h] \in {"renew", "arm"} => ~timedout[h]
  /\ setpc[h] = "close" => timedout[h] /\ deadline[h] = "past"
  /\ setpc[h] = "drain" => (timedout[h] <=> timer[h] \in {"flagged", "done"})
  /\ setpc[h] = "reset" => (chan[h] \in closed => timedout[h])

HandlerInv(h) ==
  /\ SetOwnsTimer(h) /\ TimerOwnsChannel(h) /\ FlagFollows(h)
  /\ setpc[h] = "idle" => ShowsLatest(h)

DInductive ==
  /\ DTypeOK
  /\ NoDoubleClose
  /\ OwnChannels
  /\ \A h \in Handlers : HandlerInv(h)

USE DEF TimerStates, SetSteps, Deadlines

(* Init satisfies the invariant of a deadline.                             *)
LEMMA InitDInductive == DInit => DInductive
<1> SUFFICES ASSUME DInit PROVE DInductive
  OBVIOUS
<1>1. DTypeOK
  BY DEF DInit, DTypeOK
<1>2. NoDoubleClose /\ OwnChannels
  BY DEF DInit, NoDoubleClose, OwnChannels
<1>3. ASSUME NEW h \in Handlers
      PROVE /\ timer[h] = "nil" /\ setpc[h] = "idle" /\ deadline[h] = "zero"
            /\ timedout[h] = FALSE /\ chan[h] \notin closed
  BY DEF DInit
<1>4. \A h \in Handlers : HandlerInv(h)
  BY <1>3 DEF HandlerInv, SetOwnsTimer, TimerOwnsChannel, FlagFollows,
              ShowsLatest
<1> QED
  BY <1>1, <1>2, <1>4 DEF DInductive

(***************************************************************************)
(* A step on one handler leaves the others as they are: their own fields   *)
(* by UNCHANGED, and their channel's closedness because it is not shared.  *)
(***************************************************************************)
SameFor(g) ==
  /\ chan'[g] = chan[g] /\ timer'[g] = timer[g] /\ timedout'[g] = timedout[g]
  /\ setpc'[g] = setpc[g] /\ deadline'[g] = deadline[g]
  /\ chan[g] \in closed' <=> chan[g] \in closed

(* A step that leaves a handler alone leaves its invariant alone.          *)
LEMMA SameHandlerInv ==
  ASSUME NEW g, HandlerInv(g), SameFor(g)
  PROVE  HandlerInv(g)'
  BY DEF SameFor, HandlerInv, SetOwnsTimer, TimerOwnsChannel, FlagFollows,
         ShowsLatest

(* What each action has to establish, for the handler it is a step of.     *)
StepOK(h) ==
  /\ DTypeOK' /\ NoDoubleClose' /\ OwnChannels'
  /\ HandlerInv(h)'
  /\ \A g \in Handlers \ {h} : SameFor(g)

(* It suffices to look at the handler whose step it is.                    *)
LEMMA StepSuffices ==
  ASSUME DInductive, NEW h \in Handlers, StepOK(h)
  PROVE  DInductive'
  BY SameHandlerInv DEF StepOK, DInductive

(* Every step of a deadline handler keeps the invariant.                   *)
LEMMA StepDInductive ==
  ASSUME DInductive, [DNext]_dvars
  PROVE  DInductive'
<1> USE DEF HandlerInv, SetOwnsTimer, TimerOwnsChannel, FlagFollows, ShowsLatest
<1> DEFINE Own == /\ DTypeOK /\ panicked = FALSE /\ OwnChannels
                  /\ \A h \in Handlers : HandlerInv(h)
<1>0. Own
  BY DEF DInductive, NoDoubleClose, DTypeOK
<1>1. ASSUME NEW h \in Handlers, TimerFires(h)
      PROVE  StepOK(h)
  BY <1>0, <1>1 DEF TimerFires, StepOK, SameFor, DTypeOK, NoDoubleClose, OwnChannels
<1>2. ASSUME NEW h \in Handlers, TimeoutFlag(h)
      PROVE  StepOK(h)
  BY <1>0, <1>2 DEF TimeoutFlag, StepOK, SameFor, DTypeOK, NoDoubleClose, OwnChannels
<1>3. ASSUME NEW h \in Handlers, TimeoutClose(h)
      PROVE  StepOK(h)
  BY <1>0, <1>3 DEF TimeoutClose, CloseChannel, StepOK, SameFor, DTypeOK,
                    NoDoubleClose, OwnChannels
<1>4. ASSUME NEW h \in Handlers, NEW d \in Deadlines, SetBegin(h, d)
      PROVE  StepOK(h)
  BY <1>0, <1>4 DEF SetBegin, StepOK, SameFor, DTypeOK, NoDoubleClose, OwnChannels
<1>5. ASSUME NEW h \in Handlers, SetDrain(h)
      PROVE  StepOK(h)
  BY <1>0, <1>5 DEF SetDrain, StepOK, SameFor, DTypeOK, NoDoubleClose, OwnChannels
<1>6. ASSUME NEW h \in Handlers, SetReset(h)
      PROVE  StepOK(h)
  BY <1>0, <1>6 DEF SetReset, StepOK, SameFor, DTypeOK, NoDoubleClose, OwnChannels
<1>7. ASSUME NEW h \in Handlers, NEW c \in Chans, SetRenew(h, c)
      PROVE  StepOK(h)
  BY <1>0, <1>7 DEF SetRenew, StepOK, SameFor, DTypeOK, NoDoubleClose, OwnChannels
<1>8. ASSUME NEW h \in Handlers, SetArm(h)
      PROVE  StepOK(h)
  <2>1. CASE deadline[h] = "past"
    <3>1. timedout' = [timedout EXCEPT ![h] = TRUE]
      BY <1>0, <1>8, <2>1 DEF SetArm, DTypeOK
    <3>2. timer' = timer
      BY <1>0, <1>8, <2>1 DEF SetArm, DTypeOK
    <3> QED
      BY <1>0, <1>8, <2>1, <3>1, <3>2
         DEF SetArm, StepOK, SameFor, DTypeOK, NoDoubleClose, OwnChannels
  <2>2. CASE deadline[h] = "future"
    BY <1>0, <1>8, <2>2 DEF SetArm, StepOK, SameFor, DTypeOK, NoDoubleClose, OwnChannels
  <2>3. CASE deadline[h] = "zero"
    BY <1>0, <1>8, <2>3 DEF SetArm, StepOK, SameFor, DTypeOK, NoDoubleClose, OwnChannels
  <2> QED
    BY <1>0, <2>1, <2>2, <2>3 DEF DTypeOK
<1>9. ASSUME NEW h \in Handlers, SetClose(h)
      PROVE  StepOK(h)
  BY <1>0, <1>9 DEF SetClose, CloseChannel, StepOK, SameFor, DTypeOK,
                    NoDoubleClose, OwnChannels
<1>10. CASE UNCHANGED dvars
  BY <1>0, <1>10 DEF dvars, DInductive, DTypeOK, NoDoubleClose, OwnChannels
<1>11. CASE DNext
  BY <1>1, <1>2, <1>3, <1>4, <1>5, <1>6, <1>7, <1>8, <1>9, <1>11, StepSuffices
     DEF DNext, TimerSteps, SetSteady
<1> QED
  BY <1>10, <1>11

(* The invariant of a deadline holds throughout.                           *)
LEMMA DInductiveHolds == DSpec => []DInductive
<1>1. DInductive /\ [DNext]_dvars => DInductive'
  BY StepDInductive
<1> QED
  BY InitDInductive, <1>1, PTL DEF DSpec

(* The handler's state keeps its type: deadlineHandler has no state in     *)
(* which a timer, flag or channel is missing or doubled.                   *)
THEOREM DeadlineTypes == DSpec => []DTypeOK
  BY DInductiveHolds, PTL DEF DInductive

(* close(d.channel) never panics, whichever of set() and the timer's       *)
(* callback calls it.                                                      *)
THEOREM DeadlineNoDoubleClose == DSpec => []NoDoubleClose
  BY DInductiveHolds, PTL DEF DInductive

(* Between two calls of set() the handler shows the latest deadline only.  *)
THEOREM DeadlineTakesEffect == DSpec => []SetTakesEffect
<1>1. DInductive => SetTakesEffect
  BY DEF DInductive, HandlerInv, SetTakesEffect
<1> QED
  BY <1>1, DInductiveHolds, PTL

(* Whoever is woken by a handler's closed channel finds its flag up.       *)
THEOREM DeadlineWokenSeesFlag == DSpec => []WokenSeesFlag
<1>1. DInductive => WokenSeesFlag
  BY DEF DInductive, DTypeOK, HandlerInv, SetOwnsTimer, TimerOwnsChannel,
         FlagFollows, ShowsLatest, WokenSeesFlag
<1> QED
  BY <1>1, DInductiveHolds, PTL

-----------------------------------------------------------------------------
(* Close: the counter counts the IOs in progress, a Close that has seen it *)
(* at zero is alone with the handle, and so is everyone afterwards.        *)
CloseInv ==
  /\ wg = Cardinality(Active)
  /\ handle = "closed" => closing /\ Active = {}
  /\ \A c \in Closers :
       /\ cpc[c] # "idle" => closing
       /\ cpc[c] = "close" => Active = {}

InKernel == {"issued", "channel", "select", "timedout"}

(* An ioOperation is known to the kernel or the processor only while its   *)
(* goroutine will still receive.                                           *)
KernelInv(o) ==
  /\ kernel[o] # "none" => pc[o] \in InKernel
  /\ proc = o <=> kernel[o] = "taken"

(* Only a Close (closing is set first) or the IO's own timeout cancels it. *)
CancelInv(o) ==
  /\ pc[o] \notin InKernel => cancelled[o] = FALSE
  /\ pc[o] \in {"issued", "channel", "select"}
       /\ (cancelled[o] = TRUE \/ result[o] = "aborted") => closing
  /\ ret[o] # "aborted"

ReportInv(o) ==
  /\ pc[o] \in {"check", "issue"} => result[o] = "none"
  /\ pc[o] \in {"idle", "finish"} => (result[o] = "bytes" <=> ret[o] = "bytes")

(* An IO in a select holds its handler's channel or a closed one.  While   *)
(* nobody calls set() after a cleared deadline it is the handler's, which  *)
(* stays open.                                                             *)
WaitInv(o) ==
  IF o \in Others THEN since[o] = "changed"
  ELSE /\ pc[o] = "select" =>
            timeout[o] = chan[Handler(o)] \/ timeout[o] \in closed
       /\ since[o] = "zero" =>
            /\ setpc[Handler(o)] = "idle" /\ deadline[Handler(o)] = "zero"
            /\ pc[o] # "timedout" /\ ret[o] # "ErrTimeout"
            /\ pc[o] = "select" => timeout[o] = chan[Handler(o)]

OpInv(o) == KernelInv(o) /\ CancelInv(o) /\ ReportInv(o) /\ WaitInv(o)

Inductive ==
  /\ DInductive
  /\ TypeOK
  /\ CloseInv
  /\ \A o \in Ops : OpInv(o)

-----------------------------------------------------------------------------
(* An operation with a deadline has a handler.                             *)
LEMMA HandlerType ==
  ASSUME NEW o \in Ops, o \notin Others
  PROVE  Handler(o) \in Handlers
  BY OpsAssumption DEF Ops

(* The number of IOs in progress is a natural number, zero when there is   *)
(* none, and it follows Active up and down.                                *)
LEMMA ActiveCount ==
  /\ Cardinality(Active) \in Nat
  /\ Cardinality(Active) = 0 <=> Active = {}
<1>1. IsFiniteSet(Active)
  BY OpsAssumption, FS_Subset DEF Active
<1> QED
  BY <1>1, FS_CardinalityType, FS_EmptySet

(* An operation that enters adds one to those in progress.                 *)
LEMMA ActiveUp ==
  ASSUME NEW o \in Ops, pc[o] = "idle", pc \in [Ops -> OpSteps],
         NEW s \in OpSteps, s # "idle", pc' = [pc EXCEPT ![o] = s]
  PROVE  Cardinality(Active') = Cardinality(Active) + 1
<1>1. IsFiniteSet(Active)
  BY OpsAssumption, FS_Subset DEF Active
<1>2. Active' = Active \cup {o} /\ o \notin Active
  BY DEF Active
<1> QED
  BY <1>1, <1>2, FS_AddElement

(* One that leaves takes one off.                                          *)
LEMMA ActiveDown ==
  ASSUME NEW o \in Ops, pc[o] # "idle", pc \in [Ops -> OpSteps],
         pc' = [pc EXCEPT ![o] = "idle"]
  PROVE  /\ Cardinality(Active') = Cardinality(Active) - 1
         /\ Cardinality(Active) # 0
         /\ Active' \subseteq Active
<1>1. IsFiniteSet(Active)
  BY OpsAssumption, FS_Subset DEF Active
<1>2. Active' = Active \ {o} /\ o \in Active
  BY DEF Active
<1> QED
  BY <1>1, <1>2, FS_RemoveElement, ActiveCount

(* One that stays leaves the number as it is.                              *)
LEMMA ActiveSame ==
  ASSUME NEW o \in Ops, pc[o] # "idle", pc \in [Ops -> OpSteps],
         NEW s \in OpSteps, s # "idle", pc' = [pc EXCEPT ![o] = s]
  PROVE  Active' = Active
  BY DEF Active

-----------------------------------------------------------------------------
(* A step of one goroutine's IO leaves the other IOs as they are.          *)
SameOp(p) ==
  /\ pc'[p] = pc[p] /\ kernel'[p] = kernel[p] /\ cancelled'[p] = cancelled[p]
  /\ result'[p] = result[p] /\ timeout'[p] = timeout[p] /\ ret'[p] = ret[p]
  /\ since'[p] = since[p]
  /\ proc' = p <=> proc = p
  /\ closing => closing'

(* A step that leaves an operation alone leaves its invariant alone.       *)
LEMMA SameOpInv ==
  ASSUME NEW p, OpInv(p), SameOp(p), UNCHANGED dvars
  PROVE  OpInv(p)'
  BY DEF OpInv, KernelInv, CancelInv, ReportInv, WaitInv, SameOp, dvars, Handler

IOStepOK(o) ==
  /\ FTypeOK' /\ CloseInv' /\ OpInv(o)'
  /\ UNCHANGED dvars
  /\ \A p \in Ops \ {o} : SameOp(p)

(* It suffices to look at the operation whose step it is.                  *)
LEMMA IOStepSuffices ==
  ASSUME Inductive, NEW o \in Ops, IOStepOK(o)
  PROVE  FTypeOK' /\ CloseInv' /\ \A p \in Ops : OpInv(p)'
  BY SameOpInv DEF Inductive, IOStepOK

USE DEF OpSteps, KernelStates, Results, Returns, InKernel

(* prepareIO keeps the invariant.                                          *)
LEMMA PrepareIOOK ==
  ASSUME Inductive, FTypeOK, NEW o \in Ops, PrepareIO(o)
  PROVE  IOStepOK(o)
<1>1. FTypeOK'
  BY HandlerType DEF FTypeOK, PrepareIO, Inductive, DInductive, DTypeOK
<1>2. CloseInv'
  <2>1. CASE closing
    BY <2>1 DEF PrepareIO, Inductive, CloseInv, Active
  <2>2. CASE ~closing
    <3>1. Cardinality(Active') = Cardinality(Active) + 1
      BY <2>2, ActiveUp DEF PrepareIO, FTypeOK
    <3> QED
      BY <2>2, <3>1 DEF PrepareIO, Inductive, CloseInv
  <2> QED
    BY <2>1, <2>2
<1>3. KernelInv(o)' /\ CancelInv(o)' /\ ReportInv(o)'
  BY DEF PrepareIO, FTypeOK, Inductive, OpInv, KernelInv, CancelInv, ReportInv
<1>4. WaitInv(o)'
  BY HandlerType DEF PrepareIO, FTypeOK, Inductive, OpInv, WaitInv, Handler, dvars
<1>5. UNCHANGED dvars /\ \A p \in Ops \ {o} : SameOp(p)
  BY DEF PrepareIO, FTypeOK, SameOp
<1> QED
  BY <1>1, <1>2, <1>3, <1>4, <1>5 DEF IOStepOK, OpInv

(* The look at timedout keeps the invariant.                               *)
LEMMA CheckTimedoutOK ==
  ASSUME Inductive, FTypeOK, NEW o \in Ops, CheckTimedout(o)
  PROVE  IOStepOK(o)
<1> DEFINE late == timedout[Handler(o)]
<1>0. o \notin Others /\ since[o] = "zero" => ~late
  BY HandlerType DEF Inductive, DInductive, HandlerInv, ShowsLatest, OpInv, WaitInv
<1>1. CloseInv' /\ wg' \in Nat
  <2>1. CASE late
    <3>1. Cardinality(Active') = Cardinality(Active) - 1 /\ Active' \subseteq Active
      BY <2>1, ActiveDown DEF CheckTimedout, FTypeOK
    <3>2. Cardinality(Active') \in Nat
      BY <2>1, ActiveCount, ActiveDown DEF CheckTimedout, FTypeOK
    <3> QED
      BY <2>1, <3>1, <3>2 DEF CheckTimedout, Inductive, CloseInv
  <2>2. CASE ~late
    <3>1. Active' = Active
      BY <2>2, ActiveSame DEF CheckTimedout, FTypeOK
    <3> QED
      BY <2>2, <3>1 DEF CheckTimedout, Inductive, CloseInv, FTypeOK
  <2> QED
    BY <2>1, <2>2
<1>2. FTypeOK'
  BY <1>1 DEF FTypeOK, CheckTimedout
<1>3. KernelInv(o)' /\ CancelInv(o)' /\ ReportInv(o)'
  BY DEF CheckTimedout, FTypeOK, Inductive, OpInv, KernelInv, CancelInv, ReportInv
<1>4. WaitInv(o)'
  BY <1>0 DEF CheckTimedout, FTypeOK, Inductive, OpInv, WaitInv, Handler, dvars
<1>5. UNCHANGED dvars /\ \A p \in Ops \ {o} : SameOp(p)
  BY DEF CheckTimedout, FTypeOK, SameOp
<1> QED
  BY <1>2, <1>1, <1>3, <1>4, <1>5 DEF IOStepOK, OpInv

(* The steps between prepareIO and the return keep the IO active.          *)
LEMMA MidStepClose ==
  ASSUME Inductive, FTypeOK, NEW o \in Ops, pc[o] # "idle",
         NEW s \in OpSteps, s # "idle", pc' = [pc EXCEPT ![o] = s],
         UNCHANGED <<handle, closing, wg, cpc>>
  PROVE  CloseInv'
<1>1. Active' = Active
  BY ActiveSame DEF FTypeOK
<1> QED
  BY <1>1 DEF Inductive, CloseInv

(* Issuing the IO keeps the invariant.                                     *)
LEMMA IssueOK ==
  ASSUME Inductive, FTypeOK, NEW o \in Ops, Issue(o)
  PROVE  IOStepOK(o)
<1>1. FTypeOK'
  BY OpsAssumption DEF FTypeOK, Issue, Goto
<1>2. CloseInv'
  BY MidStepClose DEF Issue, Goto
<1>3. KernelInv(o)' /\ CancelInv(o)' /\ ReportInv(o)'
  BY OpsAssumption DEF Issue, Goto, FTypeOK, Inductive, OpInv, KernelInv,
                       CancelInv, ReportInv
<1>4. WaitInv(o)'
  BY OpsAssumption DEF Issue, Goto, FTypeOK, Inductive, OpInv, WaitInv,
                       Handler, dvars
<1>5. UNCHANGED dvars /\ \A p \in Ops \ {o} : SameOp(p)
  BY DEF Issue, Goto, FTypeOK, SameOp
<1> QED
  BY <1>1, <1>2, <1>3, <1>4, <1>5 DEF IOStepOK, OpInv

(* The second look at closing keeps the invariant.                         *)
LEMMA CheckClosingOK ==
  ASSUME Inductive, FTypeOK, NEW o \in Ops, CheckClosing(o)
  PROVE  IOStepOK(o)
<1>1. FTypeOK'
  BY DEF FTypeOK, CheckClosing, Goto, Cancel
<1>2. CloseInv'
  BY MidStepClose DEF CheckClosing, Goto
<1>3. KernelInv(o)' /\ CancelInv(o)' /\ ReportInv(o)'
  BY DEF CheckClosing, Goto, Cancel, FTypeOK, Inductive, OpInv, KernelInv,
         CancelInv, ReportInv
<1>4. WaitInv(o)'
  BY DEF CheckClosing, Goto, FTypeOK, Inductive, OpInv, WaitInv, Handler, dvars
<1>5. UNCHANGED dvars /\ \A p \in Ops \ {o} : SameOp(p)
  BY DEF CheckClosing, Goto, Cancel, FTypeOK, SameOp
<1> QED
  BY <1>1, <1>2, <1>3, <1>4, <1>5 DEF IOStepOK, OpInv

(* Taking the channel of the deadline keeps the invariant.                 *)
LEMMA ReadChannelOK ==
  ASSUME Inductive, FTypeOK, NEW o \in Ops, ReadChannel(o)
  PROVE  IOStepOK(o)
<1>1. FTypeOK'
  BY HandlerType DEF FTypeOK, ReadChannel, Goto, Inductive, DInductive, DTypeOK
<1>2. CloseInv'
  BY MidStepClose DEF ReadChannel, Goto
<1>3. KernelInv(o)' /\ CancelInv(o)' /\ ReportInv(o)'
  BY DEF ReadChannel, Goto, FTypeOK, Inductive, OpInv, KernelInv, CancelInv,
         ReportInv
<1>4. WaitInv(o)'
  BY DEF ReadChannel, Goto, FTypeOK, Inductive, OpInv, WaitInv, Handler, dvars
<1>5. UNCHANGED dvars /\ \A p \in Ops \ {o} : SameOp(p)
  BY DEF ReadChannel, Goto, FTypeOK, SameOp
<1> QED
  BY <1>1, <1>2, <1>3, <1>4, <1>5 DEF IOStepOK, OpInv

(* A result that is received keeps the invariant.                          *)
LEMMA SelectResultOK ==
  ASSUME Inductive, FTypeOK, NEW o \in Ops, SelectResult(o)
  PROVE  IOStepOK(o)
<1>1. FTypeOK'
  BY DEF FTypeOK, SelectResult, Receive, Goto
<1>2. CloseInv'
  BY MidStepClose DEF SelectResult, Goto
<1>3. KernelInv(o)' /\ CancelInv(o)' /\ ReportInv(o)'
  BY OpsAssumption DEF SelectResult, Receive, Goto, FTypeOK, Inductive, OpInv,
                       KernelInv, CancelInv, ReportInv
<1>4. WaitInv(o)'
  BY DEF SelectResult, Receive, Goto, FTypeOK, Inductive, OpInv, WaitInv,
         Handler, dvars
<1>5. UNCHANGED dvars /\ \A p \in Ops \ {o} : SameOp(p)
  BY OpsAssumption DEF SelectResult, Receive, Goto, FTypeOK, SameOp
<1> QED
  BY <1>1, <1>2, <1>3, <1>4, <1>5 DEF IOStepOK, OpInv

(* A deadline that fires while waiting keeps the invariant.                *)
LEMMA SelectTimeoutOK ==
  ASSUME Inductive, FTypeOK, NEW o \in Ops, SelectTimeout(o)
  PROVE  IOStepOK(o)
<1>1. FTypeOK'
  BY DEF FTypeOK, SelectTimeout, Goto, Cancel
<1>2. CloseInv'
  BY MidStepClose, Zenon DEF SelectTimeout, Goto
<1>3. KernelInv(o)' /\ CancelInv(o)' /\ ReportInv(o)'
  BY DEF SelectTimeout, Goto, Cancel, FTypeOK, Inductive, OpInv, KernelInv,
         CancelInv, ReportInv
<1>4. WaitInv(o)'
  <2>1. o \notin Others => since[o] # "zero"
    BY HandlerType DEF SelectTimeout, Goto, Inductive, DInductive, HandlerInv,
                       ShowsLatest, OpInv, WaitInv
  <2> QED
    BY <2>1 DEF SelectTimeout, Goto, FTypeOK, Inductive, OpInv, WaitInv,
                Handler, dvars
<1>5. UNCHANGED dvars /\ \A p \in Ops \ {o} : SameOp(p)
  BY DEF SelectTimeout, Goto, Cancel, FTypeOK, SameOp
<1> QED
  BY <1>1, <1>2, <1>3, <1>4, <1>5 DEF IOStepOK, OpInv

(* The result behind a timeout keeps the invariant.                        *)
LEMMA TimeoutResultOK ==
  ASSUME Inductive, FTypeOK, NEW o \in Ops, TimeoutResult(o)
  PROVE  IOStepOK(o)
<1>1. FTypeOK'
  BY DEF FTypeOK, TimeoutResult, Receive, Goto
<1>2. CloseInv'
  BY MidStepClose DEF TimeoutResult, Goto
<1>3. KernelInv(o)' /\ CancelInv(o)' /\ ReportInv(o)'
  BY OpsAssumption DEF TimeoutResult, Receive, Goto, FTypeOK, Inductive, OpInv,
                       KernelInv, CancelInv, ReportInv
<1>4. WaitInv(o)'
  BY DEF TimeoutResult, Receive, Goto, FTypeOK, Inductive, OpInv, WaitInv,
         Handler, dvars
<1>5. UNCHANGED dvars /\ \A p \in Ops \ {o} : SameOp(p)
  BY OpsAssumption DEF TimeoutResult, Receive, Goto, FTypeOK, SameOp
<1> QED
  BY <1>1, <1>2, <1>3, <1>4, <1>5 DEF IOStepOK, OpInv

(* The return from Read or Write keeps the invariant.                      *)
LEMMA FinishOK ==
  ASSUME Inductive, FTypeOK, NEW o \in Ops, Finish(o)
  PROVE  IOStepOK(o)
<1>0. PICK e \in BOOLEAN :
        ret' = [ret EXCEPT ![o] = IF o \in Readers THEN EofRule(ret[o], e)
                                  ELSE ret[o]]
  BY DEF Finish
<1>1. ret'[o] = ret[o] \/ (ret'[o] = "EOF" /\ ret[o] \in {"empty", "broken"})
  BY <1>0 DEF EofRule, FTypeOK
<1>2. CloseInv' /\ wg' \in Nat
  <2>1. /\ Cardinality(Active') = Cardinality(Active) - 1
        /\ Cardinality(Active) # 0 /\ Active' \subseteq Active
    BY ActiveDown DEF Finish, Goto, FTypeOK
  <2>2. Cardinality(Active') \in Nat
    BY <2>1, ActiveCount
  <2> QED
    BY <2>1, <2>2 DEF Finish, Inductive, CloseInv
<1>3. FTypeOK'
  <2>1. ret' \in [Ops -> Returns]
    BY <1>0, <1>1 DEF FTypeOK
  <2> QED
    BY <2>1, <1>2 DEF FTypeOK, Finish, Goto
<1>4. KernelInv(o)' /\ CancelInv(o)' /\ ReportInv(o)'
  BY <1>1 DEF Finish, Goto, FTypeOK, Inductive, OpInv, KernelInv, CancelInv,
              ReportInv
<1>5. WaitInv(o)'
  BY <1>1 DEF Finish, Goto, FTypeOK, Inductive, OpInv, WaitInv, Handler, dvars
<1>6. UNCHANGED dvars /\ \A p \in Ops \ {o} : SameOp(p)
  BY <1>0 DEF Finish, Goto, FTypeOK, SameOp
<1> QED
  BY <1>2, <1>3, <1>4, <1>5, <1>6 DEF IOStepOK, OpInv

(* A completion in the kernel keeps the invariant.                         *)
LEMMA CompleteOK ==
  ASSUME Inductive, FTypeOK, NEW o \in Ops, Complete(o)
  PROVE  IOStepOK(o)
<1>1. PICK r \in Outcomes \cup (IF cancelled[o] THEN {"aborted"} ELSE {}) :
        result' = [result EXCEPT ![o] = r]
  BY Zenon DEF Complete
<1>2. r \in Results /\ (r = "aborted" => cancelled[o] = TRUE)
  BY <1>1, OpsAssumption DEF FTypeOK
<1>3. FTypeOK' /\ CloseInv'
  BY <1>1, <1>2 DEF FTypeOK, Complete, Inductive, CloseInv, Active
<1>4. KernelInv(o)' /\ CancelInv(o)' /\ ReportInv(o)'
  BY <1>1, <1>2 DEF Complete, FTypeOK, Inductive, OpInv, KernelInv, CancelInv,
                    ReportInv
<1>5. WaitInv(o)'
  BY DEF Complete, FTypeOK, Inductive, OpInv, WaitInv, Handler, dvars
<1>6. UNCHANGED dvars /\ \A p \in Ops \ {o} : SameOp(p)
  BY <1>1 DEF Complete, FTypeOK, SameOp
<1> QED
  BY <1>3, <1>4, <1>5, <1>6 DEF IOStepOK, OpInv

(* The completion processor keeps the invariant.                           *)
LEMMA DequeueOK ==
  ASSUME Inductive, FTypeOK, NEW o \in Ops, Dequeue(o)
  PROVE  IOStepOK(o)
<1>1. FTypeOK' /\ CloseInv'
  BY DEF FTypeOK, Dequeue, Inductive, CloseInv, Active
<1>2. KernelInv(o)' /\ CancelInv(o)' /\ ReportInv(o)'
  BY DEF Dequeue, FTypeOK, Inductive, OpInv, KernelInv, CancelInv, ReportInv
<1>3. WaitInv(o)'
  BY DEF Dequeue, FTypeOK, Inductive, OpInv, WaitInv, Handler, dvars
<1>4. UNCHANGED dvars /\ \A p \in Ops \ {o} : SameOp(p)
  BY OpsAssumption DEF Dequeue, FTypeOK, SameOp
<1> QED
  BY <1>1, <1>2, <1>3, <1>4 DEF IOStepOK, OpInv

-----------------------------------------------------------------------------
(* Close.  Its CancelIoEx touches every pending IO, and closing is set by  *)
(* then.                                                                   *)
LEMMA CloseStepsOK ==
  ASSUME Inductive, FTypeOK, NEW c \in Closers, CloseSwap(c) \/ CloseStep(c)
  PROVE  FTypeOK' /\ CloseInv' /\ \A o \in Ops : OpInv(o)'
<1> USE DEF CloserAt
<1>1. CASE CloseSwap(c)
  <2>1. FTypeOK' /\ CloseInv'
    BY <1>1 DEF CloseSwap, FTypeOK, Inductive, CloseInv, Active
  <2>2. UNCHANGED dvars /\ \A o \in Ops : SameOp(o)
    BY <1>1 DEF CloseSwap, SameOp
  <2> QED
    BY <2>1, <2>2, SameOpInv DEF Inductive
<1>2. CASE CloseCancel(c)
  <2>1. FTypeOK' /\ CloseInv'
    BY <1>2 DEF CloseCancel, Cancel, FTypeOK, Inductive, CloseInv, Active
  <2>2. ASSUME NEW o \in Ops
        PROVE  OpInv(o)'
    <3>1. closing /\ closing'
      BY <1>2 DEF CloseCancel, Inductive, CloseInv
    <3>2. KernelInv(o)' /\ CancelInv(o)' /\ ReportInv(o)'
      BY <1>2, <3>1 DEF CloseCancel, Cancel, FTypeOK, Inductive, OpInv,
                        KernelInv, CancelInv, ReportInv
    <3>3. WaitInv(o)'
      BY <1>2, Zenon DEF CloseCancel, Inductive, OpInv, WaitInv, Handler, dvars
    <3> QED
      BY <3>2, <3>3 DEF OpInv
  <2> QED
    BY <2>1, <2>2
<1>3. CASE CloseWait(c)
  <2>1. Active = {}
    BY <1>3, ActiveCount DEF CloseWait, Inductive, CloseInv
  <2>2. FTypeOK' /\ CloseInv'
    BY <1>3, <2>1 DEF CloseWait, FTypeOK, Inductive, CloseInv, Active
  <2>3. UNCHANGED dvars /\ \A o \in Ops : SameOp(o)
    BY <1>3 DEF CloseWait, SameOp
  <2> QED
    BY <2>2, <2>3, SameOpInv DEF Inductive
<1>4. CASE CloseHandle(c)
  <2>1. FTypeOK' /\ CloseInv'
    BY <1>4 DEF CloseHandle, FTypeOK, Inductive, CloseInv, Active
  <2>2. UNCHANGED dvars /\ \A o \in Ops : SameOp(o)
    BY <1>4 DEF CloseHandle, SameOp
  <2> QED
    BY <2>1, <2>2, SameOpInv DEF Inductive
<1> QED
  BY <1>1, <1>2, <1>3, <1>4 DEF CloseStep

-----------------------------------------------------------------------------
(* The deadline handlers' steps, seen from the IOs that wait on them.      *)

(* A step of a deadline leaves the operations alone.                       *)
LEMMA FileUnchangedOK ==
  ASSUME Inductive, FTypeOK, UNCHANGED fvars
  PROVE  CloseInv' /\ \A o \in Ops : KernelInv(o)' /\ CancelInv(o)' /\ ReportInv(o)'
  BY DEF Inductive, fvars, CloseInv, Active, OpInv, KernelInv, CancelInv, ReportInv

(* A step of a handler keeps the invariant.                                *)
LEMMA HandlerStepOK ==
  ASSUME Inductive, FTypeOK, NEW h \in Handlers,
         \/ TimerStep(h)
         \/ SetStep(h)
         \/ \E d \in Deadlines : SetDeadline(h, d)
  PROVE  FTypeOK' /\ CloseInv' /\ \A o \in Ops : OpInv(o)'
<1>1. UNCHANGED fvars
  BY DEF TimerStep, SetStep, SetDeadline, RenewChannel
<1>2. ASSUME NEW o \in Ops, TimerStep(h)
      PROVE  WaitInv(o)'
  <2>1. closed \subseteq closed' /\ UNCHANGED <<chan, setpc, deadline, since>>
    BY <1>2 DEF TimerStep, TimerSteps, TimerFires, TimeoutFlag, TimeoutClose,
                CloseChannel
  <2> QED
    BY <1>1, <2>1, Zenon DEF Inductive, OpInv, WaitInv, Handler, fvars
<1>3. ASSUME NEW o \in Ops, SetSteady(h), UNCHANGED since
      PROVE  WaitInv(o)'
  <2>1. /\ closed \subseteq closed' /\ UNCHANGED <<chan, deadline>>
        /\ setpc[h] # "idle" /\ \E s : setpc' = [setpc EXCEPT ![h] = s]
    BY <1>3 DEF SetSteady, SetDrain, SetReset, SetArm, SetClose, CloseChannel
  <2>2. o \notin Others /\ since[o] = "zero" =>
          setpc'[Handler(o)] = setpc[Handler(o)]
    BY <2>1, HandlerType, Zenon DEF Inductive, OpInv, WaitInv, DInductive, DTypeOK
  <2> QED
    BY <1>1, <1>3, <2>1, <2>2, Zenon DEF Inductive, OpInv, WaitInv, Handler, fvars
<1>4. ASSUME NEW o \in Ops, NEW c \in Chans, RenewChannel(h, c)
      PROVE  WaitInv(o)'
  <2>1. /\ UNCHANGED <<deadline, since>> /\ timeout[o] # c
        /\ setpc[h] = "renew" /\ setpc' = [setpc EXCEPT ![h] = "arm"]
    BY <1>4, Zenon DEF RenewChannel, SetRenew
  <2>2. \/ UNCHANGED <<chan, closed>>
        \/ /\ chan[h] \in closed /\ chan[h] # c
           /\ chan' = [chan EXCEPT ![h] = c] /\ closed' = closed \ {c}
    BY <1>4 DEF RenewChannel, SetRenew
  <2>3. o \notin Others /\ since[o] = "zero" => Handler(o) # h
    BY <2>1 DEF Inductive, OpInv, WaitInv
  <2> QED
    BY <1>1, <2>1, <2>2, <2>3, HandlerType, Zenon
       DEF Inductive, OpInv, WaitInv, Handler, fvars, DInductive, DTypeOK
<1>5. ASSUME NEW o \in Ops, NEW d \in Deadlines, SetDeadline(h, d)
      PROVE  WaitInv(o)'
  <2>1. /\ UNCHANGED <<chan, closed>>
        /\ \E s : setpc' = [setpc EXCEPT ![h] = s]
        /\ deadline' = [deadline EXCEPT ![h] = d]
        /\ since'[o] = IF o \notin Others /\ Handler(o) = h
                         THEN "changed" ELSE since[o]
    BY <1>5 DEF SetDeadline, SetBegin
  <2> QED
    BY <1>1, <2>1, HandlerType, Zenon
       DEF Inductive, OpInv, WaitInv, Handler, fvars, DInductive, DTypeOK
<1>6. FTypeOK'
  <2>1. since' \in [Ops -> Deadlines \cup {"changed"}]
    BY DEF FTypeOK, TimerStep, SetStep, SetDeadline, RenewChannel
  <2> QED
    BY <1>1, <2>1 DEF FTypeOK, fvars
<1>7. \A o \in Ops : WaitInv(o)'
  BY <1>2, <1>3, <1>4, <1>5 DEF TimerStep, SetStep
<1> QED
  BY <1>1, <1>6, <1>7, FileUnchangedOK DEF OpInv

-----------------------------------------------------------------------------
(* Every step of a file is a step of its handlers or leaves them alone.    *)
LEMMA FileImplementsDeadline == [Next]_vars => [DNext]_dvars
<1> SUFFICES ASSUME [Next]_vars PROVE [DNext]_dvars
  OBVIOUS
<1>1. CASE UNCHANGED vars
  BY <1>1 DEF vars
<1>2. ASSUME NEW o \in Ops,
             PrepareIO(o) \/ IOStep(o) \/ Complete(o) \/ Dequeue(o)
      PROVE  UNCHANGED dvars
  BY <1>2, Zenon DEF PrepareIO, IOStep, CheckTimedout, Issue, CheckClosing, ReadChannel,
              SelectResult, SelectTimeout, TimeoutResult, Finish, Complete, Dequeue
<1>3. ASSUME NEW c \in Closers, CloseSwap(c) \/ CloseStep(c)
      PROVE  UNCHANGED dvars
  BY <1>3 DEF CloseSwap, CloseStep, CloseCancel, CloseWait, CloseHandle
<1>4. ASSUME NEW h \in Handlers,
             \/ \E d \in Deadlines : SetDeadline(h, d)
             \/ SetStep(h) \/ TimerStep(h)
      PROVE  DNext
  BY <1>4 DEF DNext, SetDeadline, SetStep, TimerStep, RenewChannel
<1> QED
  BY <1>1, <1>2, <1>3, <1>4 DEF Next

(* Init satisfies the invariant.                                           *)
LEMMA InitInductive == Init => Inductive
<1> SUFFICES ASSUME Init PROVE Inductive
  OBVIOUS
<1>1. DInductive
  BY InitDInductive DEF Init
<1>2. TypeOK
  BY <1>1 DEF Init, FInit, TypeOK, FTypeOK, DInductive, OpSteps, KernelStates,
              Returns
<1>3. CloseInv
  <2>1. Active = {}
    BY DEF Init, FInit, Active
  <2> QED
    BY <2>1, FS_EmptySet DEF Init, FInit, CloseInv
<1>4. ASSUME NEW o \in Ops
      PROVE  OpInv(o)
  BY OpsAssumption DEF Init, FInit, OpInv, KernelInv, CancelInv, ReportInv, WaitInv
<1> QED
  BY <1>1, <1>2, <1>3, <1>4 DEF Inductive

(* Every step keeps the invariant.                                         *)
LEMMA StepInductive ==
  ASSUME Inductive, [Next]_vars
  PROVE  Inductive'
<1>0. FTypeOK
  BY DEF Inductive, TypeOK
<1>1. DInductive'
  BY FileImplementsDeadline, StepDInductive DEF Inductive
<1>2. FTypeOK' /\ CloseInv' /\ \A o \in Ops : OpInv(o)'
  <2>1. CASE UNCHANGED vars
    <3>1. UNCHANGED dvars /\ \A o \in Ops : SameOp(o)
      BY <2>1 DEF vars, fvars, SameOp
    <3>2. FTypeOK' /\ CloseInv'
      BY <1>0, <2>1 DEF vars, fvars, FTypeOK, Inductive, CloseInv, Active
    <3> QED
      BY <3>1, <3>2, SameOpInv DEF Inductive
  <2>2. ASSUME NEW o \in Ops,
               PrepareIO(o) \/ IOStep(o) \/ Complete(o) \/ Dequeue(o)
        PROVE  IOStepOK(o)
    BY <1>0, <2>2, PrepareIOOK, CheckTimedoutOK, IssueOK, CheckClosingOK,
       ReadChannelOK, SelectResultOK, SelectTimeoutOK, TimeoutResultOK,
       FinishOK, CompleteOK, DequeueOK DEF IOStep
  <2> QED
    BY <1>0, <2>1, <2>2, IOStepSuffices, CloseStepsOK, HandlerStepOK DEF Next
<1>3. TypeOK'
  BY <1>1, <1>2 DEF DInductive, TypeOK
<1> QED
  BY <1>1, <1>2, <1>3 DEF Inductive

(* The invariant holds throughout.                                         *)
LEMMA InductiveHolds == Spec => []Inductive
<1>1. Inductive /\ [Next]_vars => Inductive'
  BY StepInductive
<1> QED
  BY InitInductive, <1>1, PTL DEF Spec

-----------------------------------------------------------------------------
(* The state of win32File, its ioOperations and its deadline handlers      *)
(* keeps its type under any interleaving.                                  *)
THEOREM FileTypes == Spec => []TypeOK
  BY InductiveHolds, PTL DEF Inductive

(* Close releases the handle only when no goroutine is inside an IO and    *)
(* neither the kernel nor the processor holds an operation of the file.    *)
THEOREM FileClosedMeansQuiet == Spec => []ClosedMeansQuiet
<1>1. Inductive => ClosedMeansQuiet
  BY DEF Inductive, TypeOK, FTypeOK, CloseInv, OpInv, KernelInv, InKernel,
         Active, ClosedMeansQuiet
<1> QED
  BY <1>1, InductiveHolds, PTL

(* The completion processor never holds a result nobody will receive.      *)
THEOREM FileNoStrayCompletion == Spec => []NoStrayCompletion
<1>1. Inductive => NoStrayCompletion
  BY DEF Inductive, OpInv, KernelInv, InKernel, NoStrayCompletion
<1> QED
  BY <1>1, InductiveHolds, PTL

(* ERROR_OPERATION_ABORTED never reaches a caller of asyncIO.              *)
THEOREM FileAbortIsTranslated == Spec => []AbortIsTranslated
<1>1. Inductive => AbortIsTranslated
  BY DEF Inductive, OpInv, CancelInv, AbortIsTranslated
<1> QED
  BY <1>1, InductiveHolds, PTL

(* Bytes that were transferred are reported, whatever asyncIO raced with.  *)
THEOREM FileBytesAreReported == Spec => []BytesAreReported
<1>1. Inductive => BytesAreReported
  BY DEF Inductive, OpInv, ReportInv, BytesAreReported
<1> QED
  BY <1>1, InductiveHolds, PTL

(* An IO begun after the deadline was cleared does not time out.           *)
THEOREM FileTimeoutIsDue == Spec => []TimeoutIsDue
<1>1. Inductive => TimeoutIsDue
  BY DEF Inductive, OpInv, WaitInv, TimeoutIsDue
<1> QED
  BY <1>1, InductiveHolds, PTL

(* No IO waits on a channel that no deadline will ever close.              *)
THEOREM FileNoOrphanChannel == Spec => []NoOrphanChannel
<1>1. Inductive => NoOrphanChannel
  BY DEF Inductive, OpInv, WaitInv, NoOrphanChannel
<1> QED
  BY <1>1, InductiveHolds, PTL

-----------------------------------------------------------------------------
(* win32File implements FileLifecycle: IO starts only on an open file, and *)
(* the handle is released once, with no IO in progress.                    *)
THEOREM FileImplementsLifecycle == Spec => LifecycleSpec
<1> USE DEF Lifecycle!LNext, Lifecycle!lvars, Lifecycle!Start,
            Lifecycle!Return, Lifecycle!BeginClose, Lifecycle!Release
<1>1. Init => Lifecycle!LInit
  BY DEF Init, FInit, Lifecycle!LInit, Active
<1>2. ASSUME Inductive, [Next]_vars
      PROVE  [Lifecycle!LNext]_(Lifecycle!lvars)
  <2>0. FTypeOK
    BY <1>2 DEF Inductive, TypeOK
  <2>1. CASE UNCHANGED vars
    BY <2>1 DEF vars, fvars, Active
  <2>2. ASSUME NEW o \in Ops, PrepareIO(o)
        PROVE  [Lifecycle!LNext]_(Lifecycle!lvars)
    <3>1. CASE closing
      BY <2>2, <3>1, Zenon DEF PrepareIO, Active
    <3>2. CASE ~closing
      <4>1. Active' = Active \cup {o} /\ o \notin Active
        BY <2>0, <2>2, <3>2 DEF PrepareIO, Active, FTypeOK
      <4>2. handle = "open" /\ UNCHANGED <<handle, closing>>
        BY <1>2, <2>0, <2>2, <3>2 DEF PrepareIO, Inductive, CloseInv, FTypeOK
      <4> QED
        BY <3>2, <4>1, <4>2
    <3> QED
      BY <3>1, <3>2
  <2>3. ASSUME NEW o \in Ops, IOStep(o)
        PROVE  [Lifecycle!LNext]_(Lifecycle!lvars)
    <3>1. UNCHANGED <<handle, closing>>
      BY <2>3, Zenon DEF IOStep, CheckTimedout, Issue, CheckClosing, ReadChannel,
                  SelectResult, SelectTimeout, TimeoutResult, Finish
    <3>2. Active' = Active \/ (o \in Active /\ Active' = Active \ {o})
      <4>1. o \in Active
        BY <2>3, Zenon DEF IOStep, CheckTimedout, Issue, CheckClosing, ReadChannel, Goto,
                    SelectResult, SelectTimeout, TimeoutResult, Finish, Active
      <4>2. CASE CheckTimedout(o)
        BY <2>0, <4>1, <4>2 DEF CheckTimedout, Active, FTypeOK
      <4>3. CASE Issue(o)
        BY <2>0, <4>1, <4>3 DEF Issue, Goto, Active, FTypeOK
      <4>4. CASE CheckClosing(o)
        BY <2>0, <4>1, <4>4 DEF CheckClosing, Goto, Active, FTypeOK
      <4>7. CASE ReadChannel(o)
        BY <2>0, <4>1, <4>7 DEF ReadChannel, Goto, Active, FTypeOK
      <4>8. CASE SelectTimeout(o)
        BY <2>0, <4>1, <4>8 DEF SelectTimeout, Goto, Active, FTypeOK
      <4>5. CASE SelectResult(o) \/ TimeoutResult(o)
        BY <2>0, <4>1, <4>5 DEF SelectResult, TimeoutResult, Goto, Active, FTypeOK
      <4>6. CASE Finish(o)
        BY <2>0, <4>1, <4>6 DEF Finish, Goto, Active, FTypeOK
      <4> QED
        BY <2>3, <4>2, <4>3, <4>4, <4>5, <4>6, <4>7, <4>8 DEF IOStep
    <3> QED
      BY <3>1, <3>2
  <2>4. ASSUME NEW o \in Ops, Complete(o) \/ Dequeue(o)
        PROVE  [Lifecycle!LNext]_(Lifecycle!lvars)
    <3>1. Active' = Active /\ UNCHANGED <<handle, closing>>
      BY <2>4 DEF Complete, Dequeue, Active
    <3> QED
      BY <3>1
  <2>5. ASSUME NEW c \in Closers, CloseSwap(c) \/ CloseStep(c)
        PROVE  [Lifecycle!LNext]_(Lifecycle!lvars)
    <3>1. Active' = Active
      BY <2>5 DEF CloseSwap, CloseStep, CloseCancel, CloseWait, CloseHandle, Active
    <3>2. CASE CloseSwap(c)
      BY <1>2, <2>0, <3>1, <3>2 DEF CloseSwap, Inductive, CloseInv, FTypeOK
    <3>3. CASE CloseCancel(c) \/ CloseWait(c)
      BY <3>1, <3>3 DEF CloseCancel, CloseWait
    <3>4. CASE CloseHandle(c)
      BY <1>2, <2>0, <3>1, <3>4 DEF CloseHandle, CloserAt, Inductive, CloseInv, FTypeOK
    <3> QED
      BY <2>5, <3>2, <3>3, <3>4 DEF CloseStep
  <2>6. ASSUME NEW h \in Handlers,
               \/ \E d \in Deadlines : SetDeadline(h, d)
               \/ SetStep(h) \/ TimerStep(h)
        PROVE  [Lifecycle!LNext]_(Lifecycle!lvars)
    <3>1. UNCHANGED fvars
      BY <2>6 DEF SetDeadline, SetStep, RenewChannel, TimerStep
    <3> QED
      BY <3>1 DEF fvars, Active
  <2> QED
    BY <1>2, <2>1, <2>2, <2>3, <2>4, <2>5, <2>6, Zenon DEF Next
<1>3. Inductive /\ [Next]_vars => [Lifecycle!LNext]_(Lifecycle!lvars)
  BY <1>2
<1> QED
  BY <1>1, <1>3, InductiveHolds, PTL DEF Spec, LifecycleSpec, Lifecycle!LSpec
=============================================================================
