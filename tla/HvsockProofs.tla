---------------------------- MODULE HvsockProofs ----------------------------
(***************************************************************************)
(* The safety properties of Hvsock for any number of retries, goroutines   *)
(* and bytes.  Dial, Accept and the connection touch variables of their    *)
(* own, so the invariant has a part for each, and a step of one of them    *)
(* has to keep only its own part.                                          *)
(***************************************************************************)
EXTENDS Hvsock, TLAPS

(* Where Dial's prepareIO counts it in wg.                                 *)
Counted == {"connect", "outcome", "redial", "wait", "drain", "options", "check", "handover",
            "done"}

(* Dial.  In a wait the timer runs or has sent its time, not both; the     *)
(* drain finds that time.  The socket is open up to the end, where it is   *)
(* handed over with no error, or closed.                                   *)
DialInv ==
  /\ pc \in {"idle", "begin", "close"} \cup Counted
  /\ running \in BOOLEAN /\ tick \in BOOLEAN
  /\ pc = "wait" => (running <=> ~tick)
  /\ pc = "drain" => ~running /\ tick
  /\ TimerIsQuiet
  /\ wg = IF pc \in Counted THEN 1 ELSE 0
  /\ pc = "begin" => sock = "none"
  /\ pc \in Counted \ {"done"} => sock = "open"
  /\ pc = "idle" => sock # "open"
  /\ pc \in {"options", "check", "handover"} => err = "nil"
  /\ sock = "owned" => err = "nil"

(* What Dial will say.  A redial is begun only with tries left, one more   *)
(* than the loop has counted; a refusal is the result only where none is   *)
(* left.  Between the last look at the context and the return it can end,  *)
(* but not late.                                                           *)
ToldInv ==
  /\ i \in 0..Retries /\ tries \in Nat
  /\ pc = "begin" => i = 0 /\ tries = 0
  /\ pc = "connect" => tries = i
  /\ pc \in {"outcome", "redial", "wait"} => tries = i + 1
  /\ pc \in {"redial", "wait"} => i < Retries
  /\ pc \in {"idle", "done", "close"} /\ err = "refused" => tries = Retries + 1
  /\ pc = "drain" => err = "context"
  /\ err = "context" => ctxDone
  /\ late => ctxDone
  /\ pc = "handover" \/ sock = "owned" => ~late

(* Accept.  Only a socket that is handed over goes with no error.          *)
AcceptInv ==
  /\ apc \in {"idle", "prepare", "accept", "options", "done", "close"}
  /\ apc \in {"prepare", "accept", "options"} => asock = "open" /\ aerr = "none"
  /\ apc \notin {"prepare", "accept", "options"} => (asock = "owned" <=> aerr = "nil")
  /\ apc = "idle" => asock # "open"

(* The connection.  Each byte that Write counts is in the stream, and a    *)
(* round is begun only while some are left; after the peer's end nothing   *)
(* comes, so that what is read and what waits is all there is.             *)
WriterInv(w) ==
  /\ t[w] \in 0..BufLen /\ t[w] = sent[w]
  /\ gpc[w] = "send" => t[w] < BufLen
  /\ gpc[w] = "returned" => (ret[w] = "nil" <=> t[w] = BufLen)

Labels == {"idle", "loop", "send", "recv", "shutdown", "wait", "clear", "returned"}

ConnInv ==
  /\ gpc \in [C!Goroutines -> Labels] /\ ret \in [C!Goroutines -> C!Errors]
  /\ t \in [Writers -> Nat] /\ sent \in [Writers -> Nat]
  /\ inq \in Nat /\ got \in Nat
  /\ fin => got + inq = Incoming
  /\ \A w \in Writers : WriterInv(w)
  /\ \A r \in Readers : ret[r] = "EOF" => fin /\ got = Incoming

Inductive == DialInv /\ ToldInv /\ AcceptInv /\ ConnInv

-----------------------------------------------------------------------------
(* Init satisfies the invariant.                                           *)
LEMMA InitInv == Init => Inductive
<1> SUFFICES ASSUME Init PROVE Inductive
  OBVIOUS
<1>1. DialInv
  BY Zenon DEF Init, D!Init, DialInv, TimerIsQuiet, Counted
<1>2. ToldInv
  BY HvsockAssumption DEF Init, D!Init, ToldInv
<1>3. AcceptInv
  BY DEF Init, L!Init, AcceptInv
<1>4. ConnInv
  BY HvsockAssumption DEF Init, C!Init, ConnInv, WriterInv, C!Goroutines, Labels, C!Errors
<1> QED
  BY <1>1, <1>2, <1>3, <1>4 DEF Inductive

(* One step of Dial, of the timer or of the context.                       *)
LEMMA DialKeeps == ASSUME DialInv, D!Next PROVE DialInv'
<1> USE DEF DialInv, TimerIsQuiet, Counted
<1>1. CASE D!DialCall
  BY <1>1 DEF D!DialCall, D!Goto
<1>2. CASE D!ContextEnds
  BY <1>2 DEF D!ContextEnds
<1>3. CASE D!Ticks
  BY <1>3 DEF D!Ticks, D!TimerFires, D!history
<1>4. CASE D!Connect
  BY <1>4 DEF D!Connect, D!Goto
<1>5. CASE D!Prepare /\ UNCHANGED D!history
  BY <1>5 DEF D!Prepare, D!history
<1>6. CASE D!Outcome /\ UNCHANGED D!history
  BY <1>6 DEF D!Outcome, D!canRedial, D!history
<1>7. CASE D!RedialStart /\ UNCHANGED D!history
  BY <1>7 DEF D!RedialStart, D!history
<1>8. CASE D!WaitOver /\ UNCHANGED D!history
  BY <1>8 DEF D!WaitOver, D!Goto, D!history
<1>9. CASE D!WaitCancelled /\ UNCHANGED D!history
  BY <1>9 DEF D!WaitCancelled, D!history
<1>10. CASE D!Drain /\ UNCHANGED D!history
  BY <1>10 DEF D!Drain, D!Goto, D!history
<1>11. CASE D!SetOptions /\ UNCHANGED D!history
  BY <1>11 DEF D!SetOptions, D!Goto, D!history
<1>12. CASE D!LastCheck /\ UNCHANGED D!history
  BY <1>12 DEF D!LastCheck, D!Goto, D!history
<1>13. CASE D!HandOver /\ UNCHANGED D!history
  BY <1>13 DEF D!HandOver, D!Goto, D!history
<1>14. CASE D!DeferDone /\ UNCHANGED D!history
  BY <1>14 DEF D!DeferDone, D!Goto, D!history
<1>15. CASE D!DeferClose /\ UNCHANGED D!history
  BY <1>15 DEF D!DeferClose, D!Goto, D!history
<1> QED
  BY <1>1, <1>2, <1>3, <1>4, <1>5, <1>6, <1>7, <1>8, <1>9,
     <1>10, <1>11, <1>12, <1>13, <1>14, <1>15
     DEF D!Next, D!DialStep, D!Quietly

(* It keeps what is said of the tries and of the context as well.          *)
LEMMA ToldKeeps == ASSUME DialInv, ToldInv, D!Next PROVE ToldInv'
<1> USE HvsockAssumption DEF DialInv, ToldInv, Counted
<1>1. CASE D!DialCall
  BY <1>1 DEF D!DialCall, D!Goto
<1>2. CASE D!ContextEnds
  BY <1>2 DEF D!ContextEnds
<1>3. CASE D!Ticks
  BY <1>3 DEF D!Ticks, D!TimerFires, D!history
<1>4. CASE D!Connect
  BY <1>4 DEF D!Connect, D!Goto
<1>5. CASE D!Prepare /\ UNCHANGED D!history
  BY <1>5 DEF D!Prepare, D!history
<1>6. CASE D!Outcome /\ UNCHANGED D!history
  BY <1>6 DEF D!Outcome, D!canRedial, D!history
<1>7. CASE D!RedialStart /\ UNCHANGED D!history
  BY <1>7 DEF D!RedialStart, D!history
<1>8. CASE D!WaitOver /\ UNCHANGED D!history
  BY <1>8 DEF D!WaitOver, D!Goto, D!history
<1>9. CASE D!WaitCancelled /\ UNCHANGED D!history
  BY <1>9 DEF D!WaitCancelled, D!history
<1>10. CASE D!Drain /\ UNCHANGED D!history
  BY <1>10 DEF D!Drain, D!Goto, D!history
<1>11. CASE D!SetOptions /\ UNCHANGED D!history
  BY <1>11 DEF D!SetOptions, D!Goto, D!history
<1>12. CASE D!LastCheck /\ UNCHANGED D!history
  BY <1>12 DEF D!LastCheck, D!Goto, D!history
<1>13. CASE D!HandOver /\ UNCHANGED D!history
  BY <1>13 DEF D!HandOver, D!Goto, D!history
<1>14. CASE D!DeferDone /\ UNCHANGED D!history
  BY <1>14 DEF D!DeferDone, D!Goto, D!history
<1>15. CASE D!DeferClose /\ UNCHANGED D!history
  BY <1>15 DEF D!DeferClose, D!Goto, D!history
<1> QED
  BY <1>1, <1>2, <1>3, <1>4, <1>5, <1>6, <1>7, <1>8, <1>9,
     <1>10, <1>11, <1>12, <1>13, <1>14, <1>15
     DEF D!Next, D!DialStep, D!Quietly

(* One step of Accept or of the listener's Close.                          *)
LEMMA AcceptKeeps == ASSUME AcceptInv, L!Next PROVE AcceptInv'
BY DEF AcceptInv, L!Next, L!AcceptCall, L!AcceptStep, L!AcceptPrepare, L!AcceptEx,
       L!AcceptOptions, L!AcceptDone, L!AcceptClose, L!CloseCall, L!CloseHandle, L!Goto

-----------------------------------------------------------------------------
(* Write's part of the connection, which no other goroutine touches.       *)
LEMMA WriteKeeps ==
  ASSUME ConnInv, NEW w \in Writers, C!WriteStep(w) PROVE ConnInv'
<1> USE HvsockAssumption DEF ConnInv, WriterInv, C!Goroutines, Labels, C!Errors
<1>1. CASE C!WriteLoop(w)
  BY <1>1 DEF C!WriteLoop, C!Return, C!Goto, C!opErr
<1>2. CASE C!WriteSend(w)
  <2>1. ASSUME NEW e \in C!IOError("write"), C!Return(w, "send", C!opErr(e)),
               UNCHANGED <<t, sent>>
        PROVE  ConnInv'
    <3>1. C!opErr(e) \in C!Errors /\ C!opErr(e) # "nil"
      BY DEF C!IOError, C!opErr, C!Errors
    <3> QED
      BY <1>2, <2>1, <3>1 DEF C!WriteSend, C!Return, C!Goto
  <2>2. ASSUME NEW n \in 1..(BufLen - t[w]),
               sent' = [sent EXCEPT ![w] = @ + n], t' = [t EXCEPT ![w] = @ + n],
               C!Goto(w, "send", "loop"), UNCHANGED ret
        PROVE  ConnInv'
    <3>1. t[w] \in Nat /\ sent[w] = t[w] /\ n \in Nat /\ t[w] + n \in 0..BufLen
      OBVIOUS
    <3>2. UNCHANGED <<inq, fin, got>>
      BY <1>2 DEF C!WriteSend
    <3>3. /\ gpc' \in [C!Goroutines -> Labels]
          /\ t' \in [Writers -> Nat] /\ sent' \in [Writers -> Nat]
      BY <2>2, <3>1 DEF C!Goto
    <3>4. ASSUME NEW v \in Writers PROVE WriterInv(v)'
      BY <2>2, <3>1 DEF C!Goto
    <3> QED
      BY <2>2, <3>2, <3>3, <3>4
  <2> QED
    BY <1>2, <2>1, <2>2 DEF C!WriteSend
<1> QED
  BY <1>1, <1>2 DEF C!WriteStep

(* A step of a goroutine that does not write leaves the writers' part.     *)
LEMMA WritersAreLeft ==
  ASSUME ConnInv, NEW g \in C!Goroutines \ Writers, NEW label \in Labels, NEW e \in C!Errors,
         gpc' = [gpc EXCEPT ![g] = label], ret' = ret \/ ret' = [ret EXCEPT ![g] = e],
         UNCHANGED <<t, sent>>
  PROVE  /\ gpc' \in [C!Goroutines -> Labels] /\ ret' \in [C!Goroutines -> C!Errors]
         /\ t' \in [Writers -> Nat] /\ sent' \in [Writers -> Nat]
         /\ \A w \in Writers : WriterInv(w)'
         /\ \A r \in Readers \ {g} : ret'[r] = ret[r]
<1>1. Writers \subseteq C!Goroutines /\ Readers \subseteq C!Goroutines
  BY DEF C!Goroutines
<1>2. \A w \in Writers : gpc'[w] = gpc[w] /\ ret'[w] = ret[w]
  BY <1>1 DEF ConnInv
<1> QED
  BY <1>1, <1>2 DEF ConnInv, WriterInv

(* HvsockConn.Read keeps the connection's invariant.                       *)
LEMMA ReadKeeps ==
  ASSUME ConnInv, NEW r \in Readers, C!ReadBegin(r) \/ C!ReadRecv(r) PROVE ConnInv'
<1> r \in C!Goroutines \ Writers
  BY HvsockAssumption DEF C!Goroutines
<1> DEFINE Moved(label, e) == /\ gpc' = [gpc EXCEPT ![r] = label]
                              /\ ret' = ret \/ ret' = [ret EXCEPT ![r] = e]
<1>1. CASE C!ReadBegin(r)
  <2>1. PICK label \in Labels : Moved(label, "ErrSocketClosed")
    BY <1>1 DEF C!ReadBegin, C!Return, C!Goto, C!opErr, Labels
  <2>2. UNCHANGED <<t, sent, inq, fin, got>>
    BY <1>1 DEF C!ReadBegin
  <2> QED
    BY <2>1, <2>2, WritersAreLeft, Zenon DEF ConnInv, Labels, C!Errors
<1>2. CASE C!ReadRecv(r)
  <2>0. UNCHANGED <<t, sent, fin>>
    BY <1>2 DEF C!ReadRecv
  <2>1. ASSUME NEW n \in 1..inq, inq' = inq - n, got' = got + n, C!Return(r, "recv", "nil")
        PROVE  ConnInv'
    <3>1. Moved("returned", "nil") /\ ret'[r] = "nil"
      BY <2>1 DEF C!Return, C!Goto, ConnInv
    <3>2. inq' \in Nat /\ got' \in Nat /\ got' + inq' = got + inq /\ inq # 0
      BY <2>1 DEF ConnInv
    <3>3. \A q \in Readers : ret[q] # "EOF"
      BY <3>2, HvsockAssumption DEF ConnInv
    <3>4. \A q \in Readers : ret'[q] # "EOF"
      BY <3>1, <3>3, <2>0, WritersAreLeft, Zenon DEF Labels, C!Errors
    <3> QED
      BY <3>1, <3>2, <3>4, <2>0, WritersAreLeft, Zenon DEF ConnInv, Labels, C!Errors
  <2>2. ASSUME inq = 0, fin, C!Return(r, "recv", "EOF"), UNCHANGED <<inq, got>> PROVE ConnInv'
    <3>1. Moved("returned", "EOF") /\ got = Incoming
      BY <2>2, HvsockAssumption DEF C!Return, C!Goto, ConnInv
    <3> QED
      BY <3>1, <2>0, <2>2, WritersAreLeft, Zenon DEF ConnInv, Labels, C!Errors
  <2>3. ASSUME NEW e \in C!IOError("read"), C!Return(r, "recv", C!opErr(e)), UNCHANGED <<inq, got>>
        PROVE  ConnInv'
    <3>0. e \in {"WSAESHUTDOWN", "ErrTimeout", "ErrFileClosed"}
      BY <2>3 DEF C!IOError
    <3>1. C!opErr(e) \in C!Errors /\ C!opErr(e) # "EOF"
      BY <3>0 DEF C!opErr, C!Errors
    <3>2. Moved("returned", C!opErr(e)) /\ ret'[r] # "EOF"
      BY <2>3, <3>1 DEF C!Return, C!Goto, ConnInv
    <3> QED
      BY <3>1, <3>2, <2>0, <2>3, WritersAreLeft, Zenon DEF ConnInv, Labels, C!Errors
  <2> QED
    BY <1>2, <2>1, <2>2, <2>3 DEF C!ReadRecv
<1> QED
  BY <1>1, <1>2

(* The half-closes and Close.                                              *)
LEMMA ClosersKeep ==
  ASSUME ConnInv, NEW g \in Shutters \cup Closers,
         C!ShutdownCheck(g) \/ C!ShutdownCall(g) \/ C!CloseBegin(g) \/ C!CloseStep(g)
  PROVE  ConnInv'
<1>1. g \in C!Goroutines \ Writers /\ g \notin Readers
  BY HvsockAssumption DEF C!Goroutines
<1>2. UNCHANGED <<t, sent, inq, fin, got>>
  BY DEF C!ShutdownCheck, C!ShutdownCall, C!CloseBegin, C!CloseStep, C!CloseHandle, C!CloseClear
<1> DEFINE Moved(label, e) == /\ gpc' = [gpc EXCEPT ![g] = label]
                              /\ ret' = ret \/ ret' = [ret EXCEPT ![g] = e]
<1>3. ASSUME NEW label \in Labels, NEW e \in C!Errors, Moved(label, e) PROVE ConnInv'
  BY <1>1, <1>2, <1>3, WritersAreLeft DEF ConnInv
<1>4. CASE C!ShutdownCheck(g)
  <2>1. Moved("returned", "ErrSocketClosed") \/ Moved("shutdown", "none")
    BY <1>4 DEF C!ShutdownCheck, C!Return, C!Goto, C!opErr
  <2> QED
    BY <2>1, <1>3 DEF Labels, C!Errors
<1>5. CASE C!ShutdownCall(g)
  <2>1. Moved("returned", "nil") \/ Moved("returned", "WSAENOTSOCK")
    BY <1>5 DEF C!ShutdownCall, C!Return, C!Goto, C!opErr
  <2> QED
    BY <2>1, <1>3 DEF Labels, C!Errors
<1>6. CASE C!CloseBegin(g) \/ C!CloseStep(g)
  <2>1. Moved("returned", "none") \/ Moved("wait", "none") \/ Moved("clear", "none")
    BY <1>6 DEF C!CloseBegin, C!CloseStep, C!CloseHandle, C!CloseClear, C!Goto
  <2> QED
    BY <2>1, <1>3 DEF Labels, C!Errors
<1> QED
  BY <1>4, <1>5, <1>6

(* The peer keeps it as well.                                              *)
LEMMA PeerKeeps == ASSUME ConnInv, C!PeerSends \/ C!PeerEnds PROVE ConnInv'
BY HvsockAssumption DEF ConnInv, WriterInv, C!PeerSends, C!PeerEnds

-----------------------------------------------------------------------------
(* Every step keeps the invariant.                                         *)
LEMMA NextInv == Inductive /\ [Next]_vars => Inductive'
<1> SUFFICES ASSUME Inductive, [Next]_vars PROVE Inductive'
  OBVIOUS
<1> USE DEF Inductive
<1>1. ASSUME UNCHANGED dvars PROVE DialInv'
  BY <1>1 DEF dvars, DialInv, TimerIsQuiet
<1>0. ASSUME UNCHANGED dvars PROVE ToldInv'
  BY <1>0 DEF dvars, ToldInv
<1>2. ASSUME UNCHANGED lvars PROVE AcceptInv'
  BY <1>2 DEF lvars, AcceptInv
<1>3. ASSUME UNCHANGED cvars PROVE ConnInv'
  BY <1>3 DEF cvars, ConnInv, WriterInv
<1>4. CASE Dialing
  BY <1>4, <1>2, <1>3, DialKeeps, ToldKeeps DEF Dialing
<1>5. CASE Accepting
  BY <1>5, <1>0, <1>1, <1>3, AcceptKeeps DEF Accepting
<1>6. CASE Using
  <2>1. C!Next /\ UNCHANGED <<role, dvars, lvars>>
    BY <1>6 DEF Using
  <2>2. ConnInv'
    BY <2>1, WriteKeeps, ReadKeeps, ClosersKeep, PeerKeeps DEF C!Next
  <2> QED
    BY <2>1, <2>2, <1>0, <1>1, <1>2
<1>7. CASE UNCHANGED vars
  BY <1>7, <1>0, <1>1, <1>2, <1>3 DEF vars
<1> QED
  BY <1>4, <1>5, <1>6, <1>7 DEF Next

(* The invariant holds throughout.                                         *)
LEMMA InvHolds == Spec => []Inductive
BY InitInv, NextInv, PTL DEF Spec

-----------------------------------------------------------------------------
(* redialWait: between two waits the timer is stopped and its channel      *)
(* empty, however often the context ended as the timer fired.              *)
THEOREM SocketTimerIsQuiet == Spec => []TimerIsQuiet
<1>1. Inductive => TimerIsQuiet
  BY DEF Inductive, DialInv
<1> QED
  BY <1>1, InvHolds, PTL

(* Dial and Accept: every early return closes the socket it made.          *)
THEOREM SocketNoLeak == Spec => []NoSocketLeak
<1>1. Inductive => NoSocketLeak
  BY DEF Inductive, DialInv, AcceptInv, NoSocketLeak, Counted
<1> QED
  BY <1>1, InvHolds, PTL

(* HvsockConn.Write and Read: the counts and io.EOF, whatever shutdown,    *)
(* Close and deadlines do meanwhile.                                       *)
THEOREM SocketStreamsAreTold == Spec => []StreamsAreTold
<1>1. Inductive => StreamsAreTold
  BY DEF Inductive, ConnInv, WriterInv, StreamsAreTold
<1> QED
  BY <1>1, InvHolds, PTL

(* HvsockDialer.Dial: for any number of retries and however they end, no   *)
(* connection under a context that ended before the last look at it, no    *)
(* context error without such an end, and no refusal before its last try.  *)
THEOREM SocketDialTellsWhy == Spec => []DialTellsWhy
<1>1. Inductive => DialTellsWhy
  BY DEF Inductive, ToldInv, DialTellsWhy
<1> QED
  BY <1>1, InvHolds, PTL
=============================================================================
