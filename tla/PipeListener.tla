---------------------------- MODULE PipeListener ----------------------------
(***************************************************************************)
(* The named pipe listener of pipe.go, its callers and its clients.        *)
(*                                                                         *)
(* One goroutine, listenerRoutine, serves Accept and Close requests that   *)
(* reach it over unbuffered channels.  For each Accept it creates a pipe   *)
(* instance, starts a goroutine in connectPipe, and waits for that         *)
(* goroutine or for a Close.  Clients (DialPipe) connect to the free       *)
(* instance as soon as it exists, before or after ConnectNamedPipe.        *)
(*                                                                         *)
(* The server's win32File appears through its promise (FileLifecycle): its *)
(* Close makes a later prepareIO fail, cancels the pending connect, and    *)
(* returns when the connect has ended.                                     *)
(***************************************************************************)
EXTENDS Naturals

CONSTANTS
  Acceptors,    \* goroutines that call Accept
  PipeClosers,  \* goroutines that call Close, once each
  Dialers,      \* clients that dial, hang up and dial again
  Mishaps,      \* what may go wrong: "hangup", a client that leaves before it
                \* is accepted; "connect", a ConnectNamedPipe that fails;
                \* "create", an instance that cannot be created; "dial",
                \* an opened handle that cannot be made a connection
  None          \* no goroutine

ASSUME ListenerAssumption ==
  /\ None \notin Acceptors /\ None \notin Dialers
  /\ Mishaps \subseteq {"hangup", "connect", "create", "dial"}

VARIABLES
  lrpc,         \* where listenerRoutine stands
  serving,      \* the Accept it is working for
  perr,         \* the err of the response it is about to send
  inst,         \* the kernel's state of the instance being connected
  peer,         \* the client connected to that instance
  pclosing,     \* p.Close() has begun on that instance
  conpc,        \* where the goroutine in connectPipe stands
  conerr,       \* what connectPipe returned
  first,        \* l.firstHandle is open
  done,         \* l.doneCh is closed
  acceptpc, aret, \* [a]: where Accept stands, what it returned
  kpc,          \* kpc[k]: where Close stands
  dpc, dialDone \* [d]: where a client stands; its context is done

lrvars == <<lrpc, serving, perr, inst, peer, pclosing, conpc, conerr, first,
            done>>
callvars == <<acceptpc, aret, kpc>>
pvars  == <<lrvars, callvars, dpc, dialDone>>

Errors == {"nil", "NO_DATA", "ErrFileClosed", "ErrPipeListenerClosed", "error"}

(* ListenPipe: the first instance exists, the routine is started.          *)
PInit ==
  /\ lrpc = "select" /\ serving = None /\ perr = "nil"
  /\ inst = "none" /\ peer = None /\ pclosing = FALSE
  /\ conpc = "none" /\ conerr = "nil"
  /\ first = TRUE /\ done = FALSE
  /\ acceptpc = [a \in Acceptors |-> "idle"]
  /\ aret = [a \in Acceptors |-> "none"]
  /\ kpc = [k \in PipeClosers |-> "idle"]
  /\ dpc = [d \in Dialers |-> "idle"]
  /\ dialDone = [d \in Dialers |-> FALSE]

-----------------------------------------------------------------------------
(* Accept and Close, on the caller's side.                                 *)

AcceptCall(a) ==
  /\ acceptpc[a] = "idle" /\ aret[a] # "conn"
  /\ acceptpc' = [acceptpc EXCEPT ![a] = "offer"]
  /\ aret' = [aret EXCEPT ![a] = "none"]
  /\ UNCHANGED <<lrvars, kpc, dpc, dialDone>>

(* Accept's select, case <-l.doneCh.                                       *)
AcceptDone(a) ==
  /\ acceptpc[a] = "offer" /\ done
  /\ acceptpc' = [acceptpc EXCEPT ![a] = "idle"]
  /\ aret' = [aret EXCEPT ![a] = "ErrPipeListenerClosed"]
  /\ UNCHANGED <<lrvars, kpc, dpc, dialDone>>

(* The caller is finished with an accepted connection.                     *)
ConnClose(a) ==
  /\ acceptpc[a] = "idle" /\ aret[a] = "conn"
  /\ aret' = [aret EXCEPT ![a] = "none"]
  /\ UNCHANGED <<lrvars, acceptpc, kpc, dpc, dialDone>>

CloseCall(k) ==
  /\ kpc[k] = "idle"
  /\ kpc' = [kpc EXCEPT ![k] = "offer"]
  /\ UNCHANGED <<lrvars, acceptpc, aret, dpc, dialDone>>

(* Mutant: Close does not wait for doneCh.                                 *)
CloseReturn_NoWait(k) ==
  /\ kpc[k] = "wait"
  /\ kpc' = [kpc EXCEPT ![k] = "returned"]
  /\ UNCHANGED <<lrvars, acceptpc, aret, dpc, dialDone>>

(* Close returns when doneCh is closed, its request taken or not.          *)
CloseReturn(k) ==
  /\ kpc[k] \in {"offer", "wait"} /\ done
  /\ kpc' = [kpc EXCEPT ![k] = "returned"]
  /\ UNCHANGED <<lrvars, acceptpc, aret, dpc, dialDone>>

(* The rendezvous on closeCh: the routine has received this Close.         *)
CloseSent(k) ==
  /\ kpc[k] = "offer"
  /\ kpc' = [kpc EXCEPT ![k] = "wait"]

-----------------------------------------------------------------------------
(* listenerRoutine.                                                        *)

TakeClose(k) ==
  /\ lrpc = "select"
  /\ CloseSent(k)
  /\ lrpc' = "finish"
  /\ UNCHANGED <<serving, perr, inst, peer, pclosing, conpc, conerr, first, done>>
  /\ UNCHANGED <<acceptpc, aret, dpc, dialDone>>

TakeAccept(a) ==
  /\ lrpc = "select" /\ acceptpc[a] = "offer"
  /\ acceptpc' = [acceptpc EXCEPT ![a] = "wait"]
  /\ lrpc' = "make" /\ serving' = a
  /\ UNCHANGED <<perr, inst, peer, pclosing, conpc, conerr, first, done>>
  /\ UNCHANGED <<aret, kpc, dpc, dialDone>>

(* makeServerPipe, and the start of the connecting goroutine.              *)
MakePipe ==
  /\ lrpc = "make"
  /\ \/ /\ lrpc' = "connect" /\ inst' = "free" /\ pclosing' = FALSE
        /\ conpc' = "start"
        /\ UNCHANGED perr
     \/ /\ "create" \in Mishaps
        /\ lrpc' = "reply" /\ perr' = "error"
        /\ UNCHANGED <<inst, pclosing, conpc>>
  /\ UNCHANGED <<serving, peer, conerr, first, done, callvars, dpc, dialDone>>

(* makeConnectedServerPipe with err as its result: listenerRoutine tries   *)
(* again on ERROR_NO_DATA and answers the Accept otherwise.                *)
Settled(err) ==
  /\ inst' = "none" /\ peer' = None /\ conpc' = "none"
  /\ IF err = "NO_DATA"
       THEN lrpc' = "make" /\ UNCHANGED perr
       ELSE lrpc' = "reply" /\ perr' = err

(* select, case err = <-ch: on an error p is closed, without it p goes to  *)
(* the Accept; either way the routine is rid of the instance.              *)
ConnectResult ==
  /\ lrpc = "connect" /\ conpc = "send"
  /\ Settled(conerr)
  /\ UNCHANGED <<serving, pclosing, conerr, first, done, callvars, dpc, dialDone>>

(* select, case <-l.closeCh: p.Close() begins.                             *)
ConnectClose(k) ==
  /\ lrpc = "connect"
  /\ CloseSent(k)
  /\ pclosing' = TRUE
  /\ lrpc' = "abort"
  /\ UNCHANGED <<serving, perr, inst, peer, conpc, conerr, first, done>>
  /\ UNCHANGED <<acceptpc, aret, dpc, dialDone>>

(* Mutants: the error of the aborted connect is passed on as it is; the    *)
(* routine does not wait for the connecting goroutine; it ends without     *)
(* answering the Accept.                                                   *)
AbortResult_Raw ==
  /\ lrpc = "abort" /\ conpc = "send"
  /\ Settled(conerr)
  /\ UNCHANGED <<serving, pclosing, conerr, first, done, callvars, dpc, dialDone>>

AbortResult_NoWait ==
  /\ lrpc = "abort"
  /\ lrpc' = "reply" /\ perr' = "ErrPipeListenerClosed"
  /\ UNCHANGED <<serving, inst, peer, pclosing, conpc, conerr, first, done>>
  /\ UNCHANGED <<callvars, dpc, dialDone>>

(* p.Close() has returned and the connecting goroutine has answered.       *)
AbortResult ==
  /\ lrpc = "abort" /\ conpc = "send"
  /\ Settled(IF conerr \in {"nil", "ErrFileClosed"}
                 THEN "ErrPipeListenerClosed" ELSE conerr)
  /\ UNCHANGED <<serving, pclosing, conerr, first, done, callvars, dpc, dialDone>>

(* Mutant: any error ends the routine.                                     *)
Reply_AnyError ==
  /\ lrpc = "reply"
  /\ acceptpc' = [acceptpc EXCEPT ![serving] = "idle"]
  /\ aret' = [aret EXCEPT ![serving] = IF perr = "nil" THEN "conn" ELSE perr]
  /\ serving' = None
  /\ lrpc' = IF perr = "nil" THEN "select" ELSE "finish"
  /\ UNCHANGED <<perr, inst, peer, pclosing, conpc, conerr, first, done>>
  /\ UNCHANGED <<kpc, dpc, dialDone>>

(* responseCh <- acceptResponse{p, err}.                                   *)
Reply ==
  /\ lrpc = "reply"
  /\ acceptpc' = [acceptpc EXCEPT ![serving] = "idle"]
  /\ aret' = [aret EXCEPT ![serving] = IF perr = "nil" THEN "conn" ELSE perr]
  /\ serving' = None
  /\ lrpc' = IF perr = "ErrPipeListenerClosed" THEN "finish" ELSE "select"
  /\ UNCHANGED <<perr, inst, peer, pclosing, conpc, conerr, first, done>>
  /\ UNCHANGED <<kpc, dpc, dialDone>>

FinishHandle ==
  /\ lrpc = "finish" /\ lrpc' = "notify"
  /\ first' = FALSE
  /\ UNCHANGED <<serving, perr, inst, peer, pclosing, conpc, conerr, done>>
  /\ UNCHANGED <<callvars, dpc, dialDone>>

FinishDone ==
  /\ lrpc = "notify" /\ lrpc' = "exit"
  /\ done' = TRUE
  /\ UNCHANGED <<serving, perr, inst, peer, pclosing, conpc, conerr, first>>
  /\ UNCHANGED <<callvars, dpc, dialDone>>

-----------------------------------------------------------------------------
(* connectPipe, in a goroutine of its own.                                 *)

ConnectEnds(err) ==
  /\ conpc' = "send" /\ conerr' = err
  /\ UNCHANGED <<lrpc, serving, perr, inst, peer, pclosing, first, done>>
  /\ UNCHANGED <<callvars, dpc, dialDone>>

(* prepareIO fails on a closed file.                                       *)
ConnectStart ==
  /\ conpc = "start"
  /\ IF pclosing THEN ConnectEnds("ErrFileClosed")
     ELSE /\ conpc' = "issue"
          /\ UNCHANGED <<lrpc, serving, perr, inst, peer, pclosing, conerr, first>>
          /\ UNCHANGED <<done, callvars, dpc, dialDone>>

(* ConnectNamedPipe answers at once when a client is there already         *)
(* (ERROR_PIPE_CONNECTED, a success) or has come and gone (ERROR_NO_DATA), *)
(* and otherwise leaves the connect pending.                               *)
ConnectIssue ==
  /\ conpc = "issue"
  /\ \/ inst = "connected" /\ ConnectEnds("nil")
     \/ inst = "gone" /\ ConnectEnds("NO_DATA")
     \/ /\ inst = "free" /\ conpc' = "pending"
        /\ UNCHANGED <<lrpc, serving, perr, inst, peer, pclosing, conerr, first>>
        /\ UNCHANGED <<done, callvars, dpc, dialDone>>
     \/ "connect" \in Mishaps /\ ConnectEnds("error")

(* A pending connect is cancelled by p.Close(), or by itself in asyncIO    *)
(* when p.Close() came before it was issued; either way asyncIO sees       *)
(* closing and says ErrFileClosed.                                         *)
ConnectAborted ==
  /\ conpc = "pending" /\ pclosing
  /\ ConnectEnds("ErrFileClosed")

-----------------------------------------------------------------------------
(* Clients: DialPipe and its variants.                                     *)

DialCall(d) ==
  /\ dpc[d] = "idle"
  /\ dpc' = [dpc EXCEPT ![d] = "try"]
  /\ dialDone' = [dialDone EXCEPT ![d] = FALSE]
  /\ UNCHANGED <<lrvars, callvars>>

(* The timeout of DialPipe, or the caller's cancellation.                  *)
ContextDone(d) ==
  /\ dpc[d] = "try"
  /\ dialDone' = [dialDone EXCEPT ![d] = TRUE]
  /\ UNCHANGED <<lrvars, callvars, dpc>>

(* The name exists while some instance does.                               *)
NameExists ==
  first \/ inst # "none" \/ \E a \in Acceptors : aret[a] = "conn"

(* Mutant: the loop does not look at its context.                          *)
DialTry_NoContext(d) ==
  /\ dpc[d] = "try" /\ inst = "free"
  /\ dpc' = [dpc EXCEPT ![d] = "opened"]
  /\ inst' = "connected" /\ peer' = d
  /\ UNCHANGED <<lrpc, serving, perr, pclosing, conpc, conerr, first, done>>
  /\ UNCHANGED <<callvars, dialDone>>

(* One turn of tryDialPipe's loop.  CreateFile takes the free instance and *)
(* completes a pending connect; with no free instance it reports           *)
(* ERROR_PIPE_BUSY and the loop goes on.                                   *)
DialTry(d) ==
  /\ dpc[d] = "try"
  /\ \/ /\ dialDone[d]
        /\ dpc' = [dpc EXCEPT ![d] = "cancelled"]
        /\ UNCHANGED <<inst, peer, conpc, conerr>>
     \/ /\ ~dialDone[d] /\ inst = "free"
        /\ dpc' = [dpc EXCEPT ![d] = "opened"]
        /\ inst' = "connected" /\ peer' = d
        /\ IF conpc = "pending" THEN conpc' = "send" /\ conerr' = "nil"
           ELSE UNCHANGED <<conpc, conerr>>
     \/ /\ ~dialDone[d] /\ ~NameExists
        /\ dpc' = [dpc EXCEPT ![d] = "notfound"]
        /\ UNCHANGED <<inst, peer, conpc, conerr>>
  /\ UNCHANGED <<lrpc, serving, perr, pclosing, first, done, callvars, dialDone>>

(* The client's handle is closed; before it was accepted the instance is   *)
(* left in the state that makes ConnectNamedPipe fail.                     *)
Leaves(d) ==
  /\ dpc' = [dpc EXCEPT ![d] = "idle"]
  /\ inst' = IF peer = d THEN "gone" ELSE inst
  /\ peer' = IF peer = d THEN None ELSE peer
  /\ UNCHANGED <<lrpc, serving, perr, pclosing, conpc, conerr, first, done>>
  /\ UNCHANGED <<callvars, dialDone>>

(* The client closes its end.                                              *)
HangUp(d) ==
  /\ dpc[d] = "connected"
  /\ peer = d => "hangup" \in Mishaps
  /\ Leaves(d)

(* What DialPipeAccessImpLevel does with the handle.  When                 *)
(* getNamedPipeInfo fails it returns the error with the handle open: the   *)
(* instance stays connected to a client that no one is.  When              *)
(* makeWin32File fails it closes the handle.                               *)
DialOpened(d) ==
  /\ dpc[d] = "opened"
  /\ \/ /\ dpc' = [dpc EXCEPT ![d] = "connected"]
        /\ UNCHANGED <<lrvars, callvars, dialDone>>
     \/ /\ "dial" \in Mishaps
        /\ dpc' = [dpc EXCEPT ![d] = "idle"]
        /\ peer' = IF peer = d THEN None ELSE peer
        /\ UNCHANGED <<lrpc, serving, perr, inst, pclosing, conpc, conerr, first>>
        /\ UNCHANGED <<done, callvars, dialDone>>
     \/ "dial" \in Mishaps /\ Leaves(d)

DialEnd(d) ==
  /\ dpc[d] \in {"cancelled", "notfound"}
  /\ dpc' = [dpc EXCEPT ![d] = "idle"]
  /\ UNCHANGED <<lrvars, callvars, dialDone>>

-----------------------------------------------------------------------------
ListenerStep ==
  MakePipe \/ ConnectResult \/ AbortResult \/ Reply \/ FinishHandle \/ FinishDone

ConnectStep == ConnectStart \/ ConnectIssue \/ ConnectAborted

ServeClose(k) == TakeClose(k) \/ ConnectClose(k)

PNext ==
  \/ ListenerStep
  \/ ConnectStep
  \/ \E a \in Acceptors :
       AcceptCall(a) \/ AcceptDone(a) \/ ConnClose(a) \/ TakeAccept(a)
  \/ \E k \in PipeClosers : CloseCall(k) \/ CloseReturn(k) \/ ServeClose(k)
  \/ \E d \in Dialers :
       \/ DialCall(d) \/ ContextDone(d) \/ DialTry(d) \/ DialOpened(d)
       \/ HangUp(d) \/ DialEnd(d)

PSpec == PInit /\ [][PNext]_pvars

(***************************************************************************)
(* Fairness: goroutines that can move are run.  select chooses at random   *)
(* among its ready cases, so a Close that is offered whenever the routine  *)
(* returns to a select is taken in the end.  No one has to call Accept,    *)
(* Close or Dial, and no client has to connect.                            *)
(***************************************************************************)
PFairness ==
  /\ WF_pvars(ListenerStep) /\ WF_pvars(ConnectStep)
  /\ \A a \in Acceptors : WF_pvars(AcceptDone(a))
  /\ \A k \in PipeClosers : WF_pvars(CloseReturn(k)) /\ SF_pvars(ServeClose(k))
  /\ \A d \in Dialers : WF_pvars(DialTry(d) \/ DialOpened(d))

PFairSpec == PSpec /\ PFairness

-----------------------------------------------------------------------------
(* aret's part of it says that Accept returns a connection, its own        *)
(* ErrPipeListenerClosed or a failure, but never the errors the routine    *)
(* deals with itself (ERROR_NO_DATA, and ErrFileClosed of a pipe it closed)*)
TypeOK ==
  /\ lrpc \in {"select", "make", "connect", "abort", "reply", "finish",
              "notify", "exit"}
  /\ serving \in Acceptors \cup {None}
  /\ perr \in Errors /\ conerr \in Errors
  /\ inst \in {"none", "free", "connected", "gone"}
  /\ peer \in Dialers \cup {None}
  /\ conpc \in {"none", "start", "issue", "pending", "send"}
  /\ pclosing \in BOOLEAN /\ first \in BOOLEAN /\ done \in BOOLEAN
  /\ acceptpc \in [Acceptors -> {"idle", "offer", "wait"}]
  /\ aret \in [Acceptors -> {"none", "conn", "error", "ErrPipeListenerClosed"}]
  /\ kpc \in [PipeClosers -> {"idle", "offer", "wait", "returned"}]
  /\ dpc \in [Dialers -> {"idle", "try", "opened", "connected", "cancelled",
                          "notfound"}]
  /\ dialDone \in [Dialers -> BOOLEAN]

(* Between two requests, and after the routine's end, nothing of a round   *)
(* is left over: no pipe instance is open that nobody owns, and no         *)
(* connecting goroutine is blocked on a channel nobody reads.              *)
NothingLeftBehind ==
  lrpc \notin {"connect", "abort"} => inst = "none" /\ conpc = "none"

(* Whoever waits for an answer to Accept is the one being served: no       *)
(* Accept is forgotten by the retry loop or by a Close, none is answered   *)
(* twice, and a Close never leaves one waiting.                            *)
AcceptIsServed ==
  \A a \in Acceptors :
    acceptpc[a] = "wait" <=> (serving = a /\ lrpc \in {"make", "connect", "abort", "reply"})

(* Only a Close makes the name disappear: however Accepts and clients may  *)
(* fail, a client is told that the pipe does not exist only after a Close. *)
NameOutlivesErrors ==
  (\E d \in Dialers : dpc[d] = "notfound") => \E k \in PipeClosers : kpc[k] # "idle"

(* No connection is handed out after Close has returned.                   *)
NoConnAfterClose ==
  [][\A k \in PipeClosers, a \in Acceptors :
       (kpc[k] = "returned" /\ aret'[a] = "conn") => aret[a] = "conn"]_pvars

(* The connect that a Close aborts ends by an error of its own:            *)
(* ERROR_NO_DATA, when its client came and left before it was accepted, or *)
(* a failure.  The routine goes on, with the Close already taken.          *)
LosesClose ==
  lrpc = "abort" /\ conpc = "send" /\ conerr \notin {"nil", "ErrFileClosed"}

(* Close returns.                                                          *)
CloseReturns == \A k \in PipeClosers : kpc[k] = "offer" ~> kpc[k] = "returned"

(* Close returns, unless the connect it aborts has ended by its own error; *)
(* and with the same proviso an Accept in progress returns when a Close    *)
(* has been taken: neither waits for the other, or for a client.           *)
CloseReturnsOrLost ==
  []~LosesClose =>
    /\ CloseReturns
    /\ \A a \in Acceptors, k \in PipeClosers :
         (kpc[k] = "wait" /\ acceptpc[a] # "idle") ~> acceptpc[a] = "idle"

(* A dial whose context is done returns.                                   *)
DialGivesUp ==
  \A d \in Dialers :
    (dpc[d] = "try" /\ dialDone[d]) ~> dpc[d] \notin {"try", "opened"}
=============================================================================
