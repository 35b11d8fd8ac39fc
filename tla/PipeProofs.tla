----------------------------- MODULE PipeProofs -----------------------------
(***************************************************************************)
(* The listener's safety for any number of callers and clients, and, below *)
(* it, that of the message pipe.                                           *)
(*                                                                         *)
(* The listener's invariant says what each stage of listenerRoutine knows  *)
(* (StageInv) and how it ends (EndInv).                                    *)
(***************************************************************************)
EXTENDS PipeListener, MessagePipe, TLAPS

(* What each stage of listenerRoutine knows about the connecting goroutine,*)
(* the error it will answer with and the state of its handles.             *)
StageInv ==
  /\ lrpc \in {"connect", "abort"} <=> conpc # "none"
  /\ lrpc \notin {"connect", "abort"} => inst = "none"
  /\ inst = "none" => peer = None
  /\ lrpc # "abort" /\ conpc # "none" => pclosing = FALSE
  /\ conpc = "send" /\ pclosing = FALSE => conerr # "ErrFileClosed"
  /\ conerr # "ErrPipeListenerClosed"
  /\ lrpc = "reply" => perr \in {"nil", "error", "ErrPipeListenerClosed"}

(* The end of the routine, and Accept or Close seen from the callers.      *)
EndInv ==
  /\ done = TRUE => lrpc = "exit"
  /\ \A k \in PipeClosers : kpc[k] = "returned" => done = TRUE

Inductive == TypeOK /\ StageInv /\ AcceptIsServed /\ EndInv

(* Init satisfies the invariant.                                           *)
LEMMA InitInductive == PInit => Inductive
<1> SUFFICES ASSUME PInit PROVE Inductive
  OBVIOUS
<1>1. TypeOK
  BY DEF PInit, TypeOK, Errors
<1>2. StageInv
  BY DEF PInit, StageInv
<1>3. AcceptIsServed /\ EndInv
  BY ListenerAssumption DEF PInit, AcceptIsServed, EndInv
<1> QED
  BY <1>1, <1>2, <1>3 DEF Inductive

(* The callers' own steps, and the clients', do not touch the routine.     *)
LEMMA CallerStep ==
  ASSUME Inductive,
         \/ \E a \in Acceptors : AcceptCall(a) \/ AcceptDone(a) \/ ConnClose(a)
         \/ \E k \in PipeClosers : CloseCall(k) \/ CloseReturn(k)
  PROVE  Inductive'
<1> USE DEF lrvars, Inductive, Errors
<1>1. TypeOK'
  BY DEF TypeOK, AcceptCall, AcceptDone, ConnClose, CloseCall, CloseReturn
<1>2. StageInv'
  BY DEF StageInv, AcceptCall, AcceptDone, ConnClose, CloseCall, CloseReturn
<1>3. AcceptIsServed'
  BY DEF TypeOK, AcceptIsServed, AcceptCall, AcceptDone, ConnClose, CloseCall,
         CloseReturn
<1>4. EndInv'
  BY DEF TypeOK, EndInv, AcceptCall, AcceptDone, ConnClose, CloseCall, CloseReturn
<1> QED
  BY <1>1, <1>2, <1>3, <1>4

(* DialPipe and hanging up keep the invariant.                             *)
LEMMA ClientStep ==
  ASSUME Inductive, NEW d \in Dialers,
         \/ DialCall(d) \/ ContextDone(d) \/ DialTry(d) \/ DialOpened(d)
         \/ HangUp(d) \/ DialEnd(d)
  PROVE  Inductive'
<1> USE DEF lrvars, callvars, Inductive, Errors
<1>1. TypeOK'
  <2>1. CASE DialTry(d)
    BY <2>1 DEF TypeOK, DialTry
  <2>2. CASE HangUp(d) \/ DialOpened(d)
    BY <2>2 DEF TypeOK, HangUp, DialOpened, Leaves
  <2>3. CASE DialCall(d)
    BY <2>3 DEF TypeOK, DialCall
  <2>4. CASE ContextDone(d)
    BY <2>4 DEF TypeOK, ContextDone
  <2>5. CASE DialEnd(d)
    BY <2>5 DEF TypeOK, DialEnd
  <2> QED
    BY <2>1, <2>2, <2>3, <2>4, <2>5
<1>2. StageInv'
  <2>1. CASE HangUp(d) \/ DialOpened(d)
    <3>1. peer = d => inst # "none"
      BY ListenerAssumption DEF StageInv
    <3> QED
      BY <2>1, <3>1 DEF HangUp, DialOpened, Leaves, StageInv, TypeOK
  <2> QED
    BY <2>1, ZenonT(40) DEF TypeOK, StageInv, DialCall, ContextDone, DialTry, DialEnd
<1>3. AcceptIsServed'
  BY DEF AcceptIsServed, DialCall, ContextDone, DialTry, HangUp, Leaves, DialOpened, DialEnd
<1>4. EndInv'
  BY DEF EndInv, DialCall, ContextDone, DialTry, HangUp, Leaves, DialOpened, DialEnd
<1> QED
  BY <1>1, <1>2, <1>3, <1>4

(* listenerRoutine and connectPipe.                                        *)
LEMMA RoutineStep ==
  ASSUME Inductive,
         \/ ListenerStep \/ ConnectStep
         \/ \E a \in Acceptors : TakeAccept(a)
         \/ \E k \in PipeClosers : ServeClose(k)
  PROVE  Inductive'
<1> USE ListenerAssumption DEF callvars, Inductive, Errors, CloseSent, Settled
<1>1. CASE MakePipe
  BY <1>1 DEF MakePipe, TypeOK, StageInv, AcceptIsServed, EndInv
<1>2. CASE ConnectResult
  BY <1>2 DEF ConnectResult, TypeOK, StageInv, AcceptIsServed, EndInv
<1>3. CASE AbortResult
  BY <1>3 DEF AbortResult, TypeOK, StageInv, AcceptIsServed, EndInv
<1>4. CASE Reply
  <2>1. serving \in Acceptors => acceptpc[serving] = "wait"
    BY <1>4 DEF Reply, TypeOK, AcceptIsServed
  <2>2. perr \in {"nil", "error", "ErrPipeListenerClosed"}
    BY <1>4 DEF Reply, StageInv
  <2>3. TypeOK'
    <3>1. acceptpc' \in [Acceptors -> {"idle", "offer", "wait"}]
      BY <1>4, Zenon DEF Reply, TypeOK
    <3>2. aret' \in [Acceptors -> {"none", "conn", "error", "ErrPipeListenerClosed"}]
      BY <1>4, <2>2 DEF Reply, TypeOK
    <3> QED
      BY <1>4, <3>1, <3>2 DEF Reply, TypeOK
  <2>4. StageInv' /\ EndInv'
    BY <1>4 DEF Reply, TypeOK, StageInv, EndInv
  <2>5. AcceptIsServed'
    BY <1>4, <2>1 DEF Reply, TypeOK, AcceptIsServed
  <2> QED
    BY <2>3, <2>4, <2>5
<1>5. CASE FinishHandle
  BY <1>5 DEF FinishHandle, TypeOK, StageInv, AcceptIsServed, EndInv
<1>10. CASE FinishDone
  BY <1>10 DEF FinishDone, TypeOK, StageInv, AcceptIsServed, EndInv
<1>6. CASE ConnectStep
  <2>1. CASE ConnectStart
    BY <2>1 DEF ConnectStart, ConnectEnds, TypeOK, StageInv, AcceptIsServed, EndInv
  <2>2. CASE ConnectIssue
    BY <2>2 DEF ConnectIssue, ConnectEnds, TypeOK, StageInv, AcceptIsServed, EndInv
  <2>3. CASE ConnectAborted
    BY <2>3 DEF ConnectAborted, ConnectEnds, TypeOK, StageInv, AcceptIsServed, EndInv
  <2> QED
    BY <1>6, <2>1, <2>2, <2>3 DEF ConnectStep
<1>7. ASSUME NEW a \in Acceptors, TakeAccept(a)
      PROVE  Inductive'
  BY <1>7 DEF TakeAccept, TypeOK, StageInv, AcceptIsServed, EndInv
<1>8. ASSUME NEW k \in PipeClosers, TakeClose(k)
      PROVE  Inductive'
  BY <1>8 DEF TakeClose, TypeOK, StageInv, AcceptIsServed, EndInv
<1>9. ASSUME NEW k \in PipeClosers, ConnectClose(k)
      PROVE  Inductive'
  BY <1>9 DEF ConnectClose, TypeOK, StageInv, AcceptIsServed, EndInv
<1> QED
  BY <1>1, <1>2, <1>3, <1>4, <1>5, <1>6, <1>7, <1>8, <1>9, <1>10
     DEF ListenerStep, ServeClose

(* The invariant holds throughout.                                         *)
LEMMA InductiveHolds == PSpec => []Inductive
<1>1. ASSUME Inductive, [PNext]_pvars PROVE Inductive'
  <2>1. CASE UNCHANGED pvars
    BY <1>1, <2>1 DEF pvars, lrvars, callvars, Inductive, TypeOK, StageInv,
                      AcceptIsServed, EndInv
  <2> QED
    BY <1>1, <2>1, CallerStep, ClientStep, RoutineStep DEF PNext
<1>2. Inductive /\ [PNext]_pvars => Inductive'
  BY <1>1
<1> QED
  BY InitInductive, <1>2, PTL DEF PSpec

(* Accept returns a connection, ErrPipeListenerClosed or a failure, but    *)
(* neither ERROR_NO_DATA nor ErrFileClosed.                                *)
THEOREM ListenerTypes == PSpec => []TypeOK
  BY InductiveHolds, PTL DEF Inductive

(* No pipe instance and no connecting goroutine survives its round.        *)
THEOREM ListenerNothingLeftBehind == PSpec => []NothingLeftBehind
<1>1. Inductive => NothingLeftBehind
  BY DEF Inductive, StageInv, TypeOK, NothingLeftBehind
<1> QED
  BY <1>1, InductiveHolds, PTL

(* Each waiting Accept is the one the routine is working for.              *)
THEOREM ListenerAcceptIsServed == PSpec => []AcceptIsServed
  BY InductiveHolds, PTL DEF Inductive

(* After Close has returned no Accept hands out a connection.              *)
THEOREM ListenerNoConnAfterClose == PSpec => NoConnAfterClose
<1>1. ASSUME Inductive, [PNext]_pvars
      PROVE  [\A k \in PipeClosers, a \in Acceptors :
                (kpc[k] = "returned" /\ aret'[a] = "conn") => aret[a] = "conn"]_pvars
  <2>1. SUFFICES ASSUME PNext, NEW k \in PipeClosers, kpc[k] = "returned",
                        NEW a \in Acceptors, aret'[a] = "conn"
                 PROVE  aret[a] = "conn"
    BY <1>1
  <2>2. lrpc = "exit"
    BY <1>1, <2>1 DEF Inductive, EndInv
  <2>3. CASE ListenerStep
    BY <2>2, <2>3 DEF ListenerStep, MakePipe, ConnectResult, AbortResult, Reply,
                      FinishHandle, FinishDone
  <2>4. CASE ConnectStep
    BY <2>1, <2>4 DEF ConnectStep, ConnectStart, ConnectIssue, ConnectAborted,
                      ConnectEnds, callvars
  <2>5. ASSUME NEW b \in Acceptors,
               AcceptCall(b) \/ AcceptDone(b) \/ ConnClose(b) \/ TakeAccept(b)
        PROVE  aret[a] = "conn"
    BY <1>1, <2>1, <2>5 DEF Inductive, TypeOK, AcceptCall, AcceptDone, ConnClose,
                            TakeAccept
  <2>6. ASSUME NEW j \in PipeClosers, CloseCall(j) \/ CloseReturn(j) \/ ServeClose(j)
        PROVE  aret[a] = "conn"
    BY <2>1, <2>6 DEF CloseCall, CloseReturn, ServeClose, TakeClose, ConnectClose
  <2>7. ASSUME NEW d \in Dialers,
               \/ DialCall(d) \/ ContextDone(d) \/ DialTry(d) \/ DialOpened(d)
               \/ HangUp(d) \/ DialEnd(d)
        PROVE  aret[a] = "conn"
    BY <2>1, <2>7 DEF DialCall, ContextDone, DialTry, DialOpened, Leaves, HangUp,
                     DialEnd, callvars
  <2> QED
    BY <2>1, <2>3, <2>4, <2>5, <2>6, <2>7 DEF PNext
<1>2. Inductive /\ [PNext]_pvars =>
        [\A k \in PipeClosers, a \in Acceptors :
           (kpc[k] = "returned" /\ aret'[a] = "conn") => aret[a] = "conn"]_pvars
  BY <1>1
<1> QED
  BY <1>2, InductiveHolds, PTL DEF PSpec, NoConnAfterClose

-----------------------------------------------------------------------------
(* A Close has been called; and where the routine stands only because of   *)
(* one.  The first handle, with the name, is open everywhere else.         *)
CloseCalled == \E k \in PipeClosers : kpc[k] # "idle"

Ending ==
  \/ lrpc \in {"abort", "finish", "notify", "exit"}
  \/ lrpc = "reply" /\ perr = "ErrPipeListenerClosed"

NameInv ==
  /\ Ending => CloseCalled
  /\ first = FALSE => CloseCalled
  /\ NameOutlivesErrors

(* Every step keeps the invariant of the name.                             *)
LEMMA NameStep ==
  ASSUME Inductive, NameInv, [PNext]_pvars
  PROVE  NameInv'
<1> USE DEF NameInv, CloseCalled, Ending, NameOutlivesErrors
<1>1. CASE UNCHANGED pvars
  BY <1>1 DEF pvars, lrvars, callvars
<1>2. CASE ListenerStep
  <2> USE DEF callvars
  <2>1. CASE MakePipe
    BY <2>1 DEF MakePipe
  <2>2. CASE ConnectResult
    BY <2>2 DEF ConnectResult, Settled, Inductive, StageInv
  <2>3. CASE AbortResult
    BY <2>3 DEF AbortResult, Settled
  <2>4. CASE Reply
    BY <2>4 DEF Reply
  <2>5. CASE FinishHandle \/ FinishDone
    BY <2>5 DEF FinishHandle, FinishDone
  <2> QED
    BY <1>2, <2>1, <2>2, <2>3, <2>4, <2>5 DEF ListenerStep
<1>3. CASE ConnectStep
  BY <1>3 DEF ConnectStep, ConnectStart, ConnectIssue, ConnectAborted, ConnectEnds, callvars
<1>4. ASSUME NEW a \in Acceptors,
             AcceptCall(a) \/ AcceptDone(a) \/ ConnClose(a) \/ TakeAccept(a)
      PROVE  NameInv'
  BY <1>4 DEF AcceptCall, AcceptDone, ConnClose, TakeAccept, lrvars
<1>5. ASSUME NEW k \in PipeClosers, CloseCall(k) \/ CloseReturn(k) \/ ServeClose(k)
      PROVE  NameInv'
  <2>1. kpc'[k] # "idle"
    BY <1>5 DEF CloseCall, CloseReturn, ServeClose, TakeClose, ConnectClose, CloseSent,
                Inductive, TypeOK
  <2> QED
    BY <2>1
<1>6. ASSUME NEW d \in Dialers,
             \/ DialCall(d) \/ ContextDone(d) \/ DialTry(d) \/ DialOpened(d)
             \/ HangUp(d) \/ DialEnd(d)
      PROVE  NameInv'
  <2> USE DEF lrvars, callvars, Inductive, TypeOK
  <2>1. CASE DialTry(d)
    BY <2>1 DEF DialTry, NameExists
  <2>2. CASE HangUp(d) \/ DialOpened(d)
    BY <2>2 DEF HangUp, DialOpened, Leaves
  <2>3. CASE DialCall(d) \/ ContextDone(d) \/ DialEnd(d)
    BY <2>3 DEF DialCall, ContextDone, DialEnd
  <2> QED
    BY <1>6, <2>1, <2>2, <2>3
<1> QED
  BY <1>1, <1>2, <1>3, <1>4, <1>5, <1>6 DEF PNext

(* Whatever fails between Accepts and clients, the name stays until a      *)
(* Close: the routine gives its first handle up in no other way.           *)
THEOREM ListenerNameOutlivesErrors == PSpec => []NameOutlivesErrors
<1>1. PInit => NameInv
  BY DEF PInit, NameInv, CloseCalled, Ending, NameOutlivesErrors
<1>2. Inductive /\ NameInv /\ [PNext]_pvars => NameInv'
  BY NameStep
<1>3. NameInv => NameOutlivesErrors
  BY DEF NameInv
<1> QED
  BY <1>1, <1>2, <1>3, InductiveHolds, PTL DEF PSpec

-----------------------------------------------------------------------------
(***************************************************************************)
(* The message pipe, for any number of readers and all lengths of messages *)
(* and of buffers: EofIsLast.                                              *)
(*                                                                         *)
(* The reader takes an empty read for the end of the stream.  That it is   *)
(* the end rests on the writer: before CloseWrite has succeeded no message *)
(* in the pipe is empty, and since CloseWrite waits for the reader to have *)
(* read everything, its empty message is alone in the pipe.                *)
(***************************************************************************)
Typed ==
  /\ queue \in Seq(Nat) /\ written \in Nat /\ taken \in Nat
  /\ result \in [PipeReaders -> [n : Nat, err : {"nil", "EOF", "ERROR_MORE_DATA", "ErrTimeout"}]]
  /\ rpc \in [PipeReaders -> {"idle", "read", "result"}]
  /\ readEOF \in BOOLEAN /\ gone \in BOOLEAN /\ writeClosed \in BOOLEAN

Increasing(s) == \A j, k \in 1..Len(s) : j < k => s[j] < s[k]

(* The messages in the pipe hold the bytes that have not been read, and    *)
(* each of them some.                                                      *)
Filled ==
  /\ queue = <<>> => taken = written
  /\ queue # <<>> => queue[Len(queue)] = written
  /\ \A k \in 1..Len(queue) : taken < queue[k]
  /\ Increasing(queue)

Ended == (writeClosed \/ gone) /\ taken = written

PipeInv ==
  /\ Typed
  /\ ~writeClosed => Filled
  /\ writeClosed => taken = written /\ queue \in {<<>>, <<written>>}
  /\ wpc \in {"flush", "empty"} => ~writeClosed /\ ~gone
  /\ wpc = "empty" => queue = <<>>
  /\ readEOF => Ended
  /\ \A r \in PipeReaders :
       /\ result[r].n > 0 => result[r].err \in {"nil", "ERROR_MORE_DATA"}
       /\ rpc[r] = "result" /\ result[r].err = "EOF" => Ended
       /\ rpc[r] = "idle" => result[r].err # "ERROR_MORE_DATA"

-----------------------------------------------------------------------------
(* The messages from the k-th on, which are left when those before it have *)
(* been taken.                                                             *)
LEMMA Rest ==
  ASSUME NEW s \in Seq(Nat), Increasing(s), NEW k \in 1..Len(s)
  PROVE  LET t == SubSeq(s, k, Len(s)) IN
         /\ t \in Seq(Nat) /\ t # <<>> /\ Increasing(t)
         /\ t[Len(t)] = s[Len(s)] /\ \A i \in 1..Len(t) : s[k] <= t[i]
<1> DEFINE t == SubSeq(s, k, Len(s))
<1>1. /\ t \in Seq(Nat) /\ Len(t) = Len(s) + 1 - k
      /\ \A i \in 1..Len(s) + 1 - k : t[i] = s[k + i - 1]
  OBVIOUS
<1>2. Len(s) \in Nat /\ k \in Nat /\ 1 <= k /\ k <= Len(s)
  OBVIOUS
<1> HIDE DEF t
<1>3. t # <<>> /\ Len(t) \in 1..Len(s) + 1 - k /\ k + Len(t) - 1 = Len(s)
  BY <1>1, <1>2
<1>4. t[Len(t)] = s[Len(s)]
  BY <1>1, <1>3
<1>5. \A i \in 1..Len(t) : k + i - 1 \in 1..Len(s) /\ t[i] = s[k + i - 1]
  BY <1>1, <1>2
<1>6. ASSUME NEW i \in 1..Len(t) PROVE s[k] <= t[i]
  <2>1. CASE i = 1
    <3>1. t[i] = s[k] /\ s[k] \in Nat
      BY <1>2, <1>5, <2>1
    <3> QED
      BY <3>1
  <2>2. CASE i # 1
    <3>1. k < k + i - 1 /\ k + i - 1 \in 1..Len(s) /\ t[i] = s[k + i - 1]
      BY <1>2, <1>5, <2>2
    <3>2. s[k] < s[k + i - 1] /\ s[k] \in Nat /\ s[k + i - 1] \in Nat
      BY <3>1 DEF Increasing
    <3> QED
      BY <3>1, <3>2
  <2> QED
    BY <2>1, <2>2
<1>7. Increasing(t)
  <2> SUFFICES ASSUME NEW i \in 1..Len(t), NEW j \in 1..Len(t), i < j PROVE t[i] < t[j]
    BY DEF Increasing
  <2>1. k + i - 1 < k + j - 1
    BY <1>2
  <2>2. s[k + i - 1] < s[k + j - 1]
    BY <1>5, <2>1 DEF Increasing
  <2> QED
    BY <1>5, <2>2
<1> QED
  BY <1>1, <1>3, <1>4, <1>6, <1>7 DEF t

(* The last of the messages ends behind all others.                        *)
LEMMA LastIsHighest ==
  ASSUME NEW s \in Seq(Nat), Increasing(s), NEW k \in 1..Len(s)
  PROVE  s[k] \in Nat /\ s[Len(s)] \in Nat /\ s[k] <= s[Len(s)]
<1>1. Len(s) \in 1..Len(s) /\ s[k] \in Nat /\ s[Len(s)] \in Nat
  OBVIOUS
<1>2. k = Len(s) \/ k < Len(s)
  OBVIOUS
<1> QED
  BY <1>1, <1>2 DEF Increasing

(* An open message pipe satisfies the invariant.                           *)
LEMMA PipeInit == MInit => PipeInv
<1> SUFFICES ASSUME MInit PROVE PipeInv
  OBVIOUS
<1>1. queue = <<>> /\ queue \in Seq(Nat) /\ Len(queue) = 0 /\ taken = 0 /\ written = 0
  BY DEF MInit, Opened
<1>2. Filled
  BY <1>1 DEF Filled, Increasing
<1>3. Typed
  <2>2. result \in [PipeReaders -> [n : Nat, err : {"nil", "EOF", "ERROR_MORE_DATA", "ErrTimeout"}]]
    BY DEF MInit, Opened
  <2> QED
    BY <1>1, <2>2 DEF MInit, Opened, Typed
<1> QED
  BY <1>1, <1>2, <1>3 DEF MInit, Opened, PipeInv

(* Writing: no empty message goes before the end.                          *)
LEMMA PipeWrite ==
  ASSUME PipeInv, NEW len \in Nat, Write(len)
  PROVE  PipeInv'
<1>0. UNCHANGED <<readMode, gone, wpc, writeClosed, rpc, readEOF, result, taken>> /\ ~gone /\ wpc = "idle"
  BY DEF Write, rvars
<1>1. CASE UNCHANGED <<queue, written>>
  BY <1>0, <1>1 DEF PipeInv, Typed, Filled, Ended
<1>2. CASE /\ ~writeClosed /\ len # 0
           /\ queue' = Append(queue, written + len) /\ written' = written + len
  <2>1. Typed'
    BY <1>0, <1>2 DEF PipeInv, Typed
  <2>2. Filled'
    <3>1. /\ Len(queue') = Len(queue) + 1 /\ queue'[Len(queue) + 1] = written'
          /\ \A k \in 1..Len(queue) : queue'[k] = queue[k]
      BY <1>2 DEF PipeInv, Typed
    <3>2. taken <= written /\ \A k \in 1..Len(queue) : queue[k] <= written
      <4>0. Filled /\ Increasing(queue) /\ queue \in Seq(Nat) /\ taken \in Nat /\ written \in Nat
        BY <1>2 DEF PipeInv, Typed, Filled
      <4>1. CASE queue = <<>>
        BY <4>0, <4>1 DEF Filled
      <4>2. CASE queue # <<>>
        <5>1. Len(queue) \in 1..Len(queue) /\ queue[Len(queue)] = written /\ taken < queue[Len(queue)]
          BY <4>0, <4>2 DEF Filled
        <5> QED
          BY <4>0, <5>1, LastIsHighest
      <4> QED
        BY <4>1, <4>2
    <3>3. \A k \in 1..Len(queue') : k \in 1..Len(queue) \/ k = Len(queue) + 1
      BY <3>1 DEF PipeInv, Typed
    <3>4. \A k \in 1..Len(queue') : taken < queue'[k]
      BY <1>2, <3>1, <3>2, <3>3 DEF PipeInv, Typed, Filled
    <3>5. Increasing(queue')
      <4> SUFFICES ASSUME NEW j \in 1..Len(queue'), NEW k \in 1..Len(queue'), j < k
                   PROVE  queue'[j] < queue'[k]
        BY DEF Increasing
      <4>1. j \in 1..Len(queue)
        BY <3>1 DEF PipeInv, Typed
      <4>2. CASE k \in 1..Len(queue)
        BY <1>2, <3>1, <4>1, <4>2 DEF PipeInv, Filled, Increasing
      <4>3. CASE k = Len(queue) + 1
        <5>1. queue'[k] = written + len /\ queue'[j] = queue[j] /\ queue[j] <= written /\ queue[j] \in Nat
          BY <1>2, <3>1, <3>2, <4>1, <4>3 DEF PipeInv, Typed
        <5>2. written \in Nat /\ len > 0
          BY <1>2 DEF PipeInv, Typed
        <5> QED
          BY <5>1, <5>2
      <4> QED
        BY <3>3, <4>2, <4>3
    <3>6. queue' # <<>>
      BY <3>1 DEF PipeInv, Typed
    <3> QED
      BY <1>0, <3>1, <3>4, <3>5, <3>6 DEF Filled
  <2> QED
    BY <1>0, <1>2, <2>1, <2>2 DEF PipeInv, Ended
<1> QED
  BY <1>1, <1>2 DEF Write

(* Reading: what is taken are bytes, unless the stream has ended.          *)
LEMMA PipeRead ==
  ASSUME PipeInv, NEW r \in PipeReaders, NEW len \in Nat \ {0}, ReadComplete(r, len)
  PROVE  PipeInv'
<1>0. /\ UNCHANGED <<readMode, gone, wpc, writeClosed, written, readEOF>>
      /\ rpc' = [rpc EXCEPT ![r] = "result"]
  BY DEF ReadComplete, wvars
(* What remains to be shown of a read of n bytes.                          *)
<1>1. ASSUME NEW n \in Nat, NEW err \in {"nil", "EOF", "ERROR_MORE_DATA"}, Result(r, n, err),
             err = "EOF" => n = 0, n = 0 => Ended, taken + n <= written, queue' \in Seq(Nat),
             ~writeClosed => Filled', writeClosed => queue' \in {<<>>, <<written>>},
             queue = <<>> => queue' = <<>>
      PROVE  PipeInv'
  <2>1. /\ taken' = taken + n
        /\ result' = [result EXCEPT ![r] = [n |-> n, err |-> IF n = 0 THEN "EOF" ELSE err]]
    BY <1>1 DEF Result
  <2>2. Typed'
    BY <1>0, <1>1, <2>1 DEF PipeInv, Typed
  <2>3. Ended => Ended' /\ n = 0
    BY <1>0, <1>1, <2>1 DEF PipeInv, Typed, Ended
  <2>4. n = 0 => Ended'
    BY <1>1, <2>3
  <2>5. /\ result'[r].n = n /\ result'[r].err = (IF n = 0 THEN "EOF" ELSE err) /\ rpc'[r] = "result"
        /\ \A q \in PipeReaders \ {r} : result'[q] = result[q] /\ rpc'[q] = rpc[q]
    BY <1>0, <2>1 DEF PipeInv, Typed
  <2>6. ASSUME NEW q \in PipeReaders
        PROVE  /\ result'[q].n > 0 => result'[q].err \in {"nil", "ERROR_MORE_DATA"}
               /\ rpc'[q] = "result" /\ result'[q].err = "EOF" => Ended'
               /\ rpc'[q] = "idle" => result'[q].err # "ERROR_MORE_DATA"
    <3>1. CASE q = r
      BY <1>1, <2>4, <2>5, <3>1
    <3>2. CASE q # r
      BY <2>3, <2>5, <3>2 DEF PipeInv
    <3> QED
      BY <3>1, <3>2
  <2>7. writeClosed => taken' = written
    BY <1>1, <2>1 DEF PipeInv, Typed
  <2> QED
    BY <1>0, <1>1, <2>2, <2>3, <2>6, <2>7 DEF PipeInv
<1>2. CASE queue = <<>> /\ gone /\ Result(r, 0, "EOF") /\ UNCHANGED queue
  <2>1. taken' = taken + 0
    BY <1>2 DEF Result
  <2>2. Ended /\ taken + 0 = taken
    BY <1>2 DEF PipeInv, Typed, Filled, Ended
  <2>3. ~writeClosed => Filled'
    BY <1>0, <1>2, <2>1, <2>2 DEF PipeInv, Filled
  <2> QED
    BY <1>1, <1>2, <2>2, <2>3 DEF PipeInv, Typed, Ended
<1>3. ASSUME NEW k \in 1..Len(queue), ReadMessages(r, k, len) PROVE PipeInv'
  <2>0. queue \in Seq(Nat) /\ queue # <<>> /\ taken \in Nat /\ written \in Nat /\ queue[k] \in Nat
    BY <1>3 DEF PipeInv, Typed
  <2>1. CASE writeClosed
    <3>1. queue = <<written>> /\ taken = written /\ k = 1 /\ queue[k] = taken
      BY <1>3, <2>0, <2>1 DEF PipeInv
    <3>2. queue' = <<>> /\ Result(r, queue[k] - taken, "nil")
      BY <1>3, <2>0, <3>1 DEF ReadMessages
    <3>3. Result(r, 0, "nil") /\ Ended
      BY <2>0, <2>1, <3>1, <3>2 DEF Ended
    <3> QED
      BY <1>1, <2>0, <2>1, <3>1, <3>2, <3>3
  <2>2. CASE ~writeClosed
    <3>1. Filled /\ taken < queue[k] /\ queue[k] <= written
      <4>1. Filled /\ Increasing(queue) /\ queue[Len(queue)] = written
        BY <2>0, <2>2 DEF PipeInv, Filled
      <4> QED
        BY <1>3, <2>0, <4>1, LastIsHighest DEF Filled
    <3>2. CASE queue[k] <= taken + len /\ queue' = SubSeq(queue, k + 1, Len(queue))
                 /\ Result(r, queue[k] - taken, "nil")
      <4>1. queue[k] - taken \in Nat /\ queue[k] - taken # 0 /\ taken + (queue[k] - taken) = queue[k]
        BY <2>0, <3>1
      <4>2. taken' = queue[k]
        BY <3>2, <4>1 DEF Result
      <4>3. queue' \in Seq(Nat) /\ Filled'
        <5>1. CASE k = Len(queue)
          <6>1. queue' = <<>> /\ queue[k] = written
            BY <2>0, <3>1, <3>2, <5>1 DEF Filled
          <6>2. Len(queue') = 0 /\ queue' \in Seq(Nat)
            BY <6>1
          <6> QED
            BY <1>0, <4>2, <6>1, <6>2 DEF Filled, Increasing
        <5>2. CASE k + 1 \in 1..Len(queue)
          <6>1. /\ queue' \in Seq(Nat) /\ queue' # <<>> /\ Increasing(queue')
                /\ queue'[Len(queue')] = queue[Len(queue)]
                /\ \A i \in 1..Len(queue') : queue[k + 1] <= queue'[i]
            BY <2>0, <3>1, <3>2, <5>2, Rest DEF Filled
          <6>2. queue[k] < queue[k + 1] /\ queue[k + 1] \in Nat
            BY <1>3, <2>0, <3>1, <5>2, SMTT(30) DEF Filled, Increasing
          <6>3. ASSUME NEW i \in 1..Len(queue') PROVE taken' < queue'[i]
            <7>1. queue[k + 1] <= queue'[i] /\ queue'[i] \in Nat
              BY <6>1
            <7> QED
              BY <2>0, <4>2, <6>2, <7>1
          <6> QED
            BY <1>0, <2>0, <3>1, <6>1, <6>3 DEF Filled
        <5> QED
          BY <1>3, <2>0, <5>1, <5>2
      <4> QED
        BY <1>1, <2>0, <2>2, <3>1, <3>2, <4>1, <4>3
    <3>3. CASE queue[k] > taken + len /\ queue' = SubSeq(queue, k, Len(queue))
                 /\ Result(r, len, IF readMode = "message" THEN "ERROR_MORE_DATA" ELSE "nil")
      <4>1. taken' = taken + len
        BY <3>3 DEF Result
      <4>2. /\ queue' \in Seq(Nat) /\ queue' # <<>> /\ Increasing(queue')
            /\ queue'[Len(queue')] = queue[Len(queue)]
            /\ \A i \in 1..Len(queue') : queue[k] <= queue'[i]
        BY <1>3, <2>0, <3>1, <3>3, Rest DEF Filled
      <4>3. ASSUME NEW i \in 1..Len(queue') PROVE taken' < queue'[i]
        <5>1. queue[k] <= queue'[i] /\ queue'[i] \in Nat
          BY <4>2
        <5> QED
          BY <2>0, <3>3, <4>1, <5>1, SMTT(30)
      <4>4. Filled'
        BY <1>0, <2>0, <3>1, <4>2, <4>3 DEF Filled
      <4> QED
        BY <1>1, <2>0, <2>2, <3>1, <3>3, <4>2, <4>4, SMTT(30)
    <3> QED
      BY <1>3, <3>2, <3>3 DEF ReadMessages
  <2> QED
    BY <2>1, <2>2
<1> QED
  BY <1>2, <1>3 DEF ReadComplete

(* Every step of the message pipe keeps the invariant.                     *)
LEMMA PipeNext == PipeInv /\ [MNext]_mvars => PipeInv'
<1> SUFFICES ASSUME PipeInv, [MNext]_mvars PROVE PipeInv'
  OBVIOUS
<1>1. ASSUME NEW len \in 0..MaxLen, Write(len) PROVE PipeInv'
  BY <1>1, PipeWrite
<1>2. ASSUME NEW r \in PipeReaders, Completes(r) PROVE PipeInv'
  BY <1>2, PipeRead DEF Completes
<1>3. CASE CloseWriteBegin
  BY <1>3 DEF CloseWriteBegin, PipeInv, Typed, Filled, Ended, rvars
<1>4. CASE CloseWriteFlush
  BY <1>4 DEF CloseWriteFlush, PipeInv, Typed, Filled, Ended, rvars
<1>5. CASE CloseWriteEmpty
  <2>0. /\ UNCHANGED <<gone, written, rpc, readEOF, result, taken>> /\ wpc' = "idle"
        /\ queue = <<>> /\ taken = written /\ ~writeClosed
    BY <1>5 DEF CloseWriteEmpty, PipeInv, Filled, rvars
  <2>1. CASE UNCHANGED <<queue, writeClosed>>
    BY <2>0, <2>1 DEF PipeInv, Typed, Filled, Ended
  <2>2. CASE queue' = Append(queue, written) /\ writeClosed'
    <3>1. queue' = <<written>> /\ queue' \in Seq(Nat)
      BY <2>0, <2>2 DEF PipeInv, Typed
    <3>2. Typed'
      BY <1>5, <2>0, <3>1 DEF CloseWriteEmpty, PipeInv, Typed
    <3> QED
      BY <2>0, <2>2, <3>1, <3>2 DEF PipeInv, Ended
  <2> QED
    BY <1>5, <2>1, <2>2 DEF CloseWriteEmpty
<1>6. CASE WriterCloses
  BY <1>6 DEF WriterCloses, PipeInv, Typed, Filled, Ended, wvars, rvars
<1>7. ASSUME NEW r \in PipeReaders, ReadBegin(r) PROVE PipeInv'
  <2>0. UNCHANGED <<queue, gone, wpc, writeClosed, written, readEOF, taken>> /\ rpc[r] = "idle"
    BY <1>7 DEF ReadBegin, wvars
  <2>1. CASE readEOF
    <3>1. rpc' = rpc /\ result' = [result EXCEPT ![r] = [n |-> 0, err |-> "EOF"]]
      BY <1>7, <2>1 DEF ReadBegin
    <3>2. /\ result'[r].n = 0 /\ result'[r].err = "EOF"
          /\ \A q \in PipeReaders \ {r} : result'[q] = result[q]
      BY <3>1 DEF PipeInv, Typed
    <3>3. Typed'
      BY <2>0, <3>1 DEF PipeInv, Typed
    <3> QED
      BY <2>0, <2>1, <3>1, <3>2, <3>3 DEF PipeInv, Filled, Ended
  <2>2. CASE ~readEOF
    <3>1. result' = result /\ rpc' = [rpc EXCEPT ![r] = "read"]
      BY <1>7, <2>2 DEF ReadBegin
    <3> QED
      BY <2>0, <3>1 DEF PipeInv, Typed, Filled, Ended
  <2> QED
    BY <2>1, <2>2
<1>8. ASSUME NEW r \in PipeReaders, ReadTimeout(r) PROVE PipeInv'
  <2>0. UNCHANGED <<queue, gone, wpc, writeClosed, written, readEOF, taken>>
    BY <1>8 DEF ReadTimeout, wvars
  <2>1. /\ rpc' = [rpc EXCEPT ![r] = "result"]
        /\ result' = [result EXCEPT ![r] = [n |-> 0, err |-> "ErrTimeout"]]
    BY <1>8 DEF ReadTimeout
  <2>2. /\ rpc'[r] = "result" /\ result'[r].n = 0 /\ result'[r].err = "ErrTimeout"
        /\ \A q \in PipeReaders \ {r} : rpc'[q] = rpc[q] /\ result'[q] = result[q]
    BY <2>1 DEF PipeInv, Typed
  <2>3. Typed'
    BY <2>0, <2>1 DEF PipeInv, Typed
  <2> QED
    BY <2>0, <2>2, <2>3 DEF PipeInv, Filled, Ended
<1>9. ASSUME NEW r \in PipeReaders, ReadReturn(r) PROVE PipeInv'
  BY <1>9 DEF ReadReturn, PipeInv, Typed, Filled, Ended, wvars
<1>10. CASE UNCHANGED mvars
  BY <1>10 DEF mvars, wvars, rvars, PipeInv, Typed, Filled, Ended
<1> QED
  BY <1>1, <1>2, <1>3, <1>4, <1>5, <1>6, <1>7, <1>8, <1>9, <1>10
     DEF MNext, WriterStep, ReaderStep

(* When a Read has returned io.EOF the other end has called CloseWrite or  *)
(* closed its handle and every byte that it wrote has been read; and no    *)
(* Read returns bytes together with an error.                              *)
THEOREM PipeEofIsLast == MSpec => []EofIsLast
<1>1. PipeInv => EofIsLast
  BY DEF PipeInv, Typed, Ended, EofIsLast
<1> QED
  BY <1>1, PipeInit, PipeNext, PTL DEF MSpec
=============================================================================
