--------------------------- MODULE MCConnections ----------------------------
(***************************************************************************)
(* Connections and their listeners: the named pipe listener with its       *)
(* clients, and the two kinds of connections that are more than a          *)
(* win32File, a Hyper-V socket and a message pipe read as bytes.  A run is *)
(* about one of them, and the others stay as they are.                     *)
(***************************************************************************)
EXTENDS Hvsock, MessagePipe, PipeListener

VARIABLE net    \* "hvsock", "pipe" or "listener"

all == <<net, vars, mvars, pvars>>

-----------------------------------------------------------------------------
(* A connection is used alike however it was made.  Of those that Dial     *)
(* made the ones of a first try are used, and of those that Accept made    *)
(* the ones whose listener is open.                                        *)
Usable ==
  Connected =>
    IF role = "dial" THEN tries = 1 /\ ~nowait /\ ~ctxDone
    ELSE lpc = "idle" \/ lpc' # lpc

Socket(A) == net = "hvsock" /\ A /\ Usable /\ UNCHANGED <<net, mvars, pvars>>
Piped(A)  == net = "pipe" /\ A /\ UNCHANGED <<net, vars, pvars>>
Listen(A) == net = "listener" /\ A /\ UNCHANGED <<net, vars, mvars>>

(* A socket that is closed and a pipe that is read to its end may rest;    *)
(* the listener and its callers never have nothing to do.                  *)
Rest == net # "listener" /\ UNCHANGED all

MCInit ==
  /\ PInit
  /\ \/ net = "hvsock" /\ Init /\ Opened("byte")
     \/ net = "pipe" /\ Idle /\ MInit
     \/ net = "listener" /\ Idle /\ Opened("byte")

MCNext == Socket(Next) \/ Piped(MNext) \/ Listen(PNext) \/ Rest

(* Of the pipe: the goroutines run, and a read that it has data for is     *)
(* completed; deadlines do not get ahead of it for ever.                   *)
MCSpec ==
  /\ MCInit /\ [][MCNext]_all
  /\ WF_all(Socket(DialRuns)) /\ WF_all(Socket(TimerRuns))
  /\ WF_all(Socket(AcceptRuns)) /\ WF_all(Socket(CloseRuns))
  /\ \A r \in PipeReaders : WF_all(Piped(ReaderStep(r))) /\ SF_all(Piped(Completes(r)))
  /\ PFairness
=============================================================================
