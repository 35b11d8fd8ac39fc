------------------------------- MODULE Hvsock -------------------------------
(***************************************************************************)
(* A Hyper-V socket from its making to its Close: a caller dials until a   *)
(* Dial hands it a connection (HvsockDial), or accepts until an Accept     *)
(* does (HvsockListener); the connection then serves the calls of any      *)
(* number of goroutines (HvsockConn).                                      *)
(***************************************************************************)
EXTENDS Naturals

CONSTANTS Retries, Writers, Readers, Shutters, Closers, BufLen, Incoming

ASSUME HvsockAssumption ==
  /\ Retries \in Nat /\ BufLen \in Nat \ {0} /\ Incoming \in Nat
  /\ Writers \cap (Readers \cup Shutters \cup Closers) = {}
  /\ Readers \cap (Shutters \cup Closers) = {}

VARIABLE role          \* the socket's maker: "dial" or "accept"
VARIABLES nowait, pc, i, err, ctxDone, running, tick, sock, wg, tries, late
VARIABLES apc, asock, aerr, lpc, lhandle, lwg
VARIABLES closing, handle, gpc, ret, t, sent, inq, fin, got, shut, stranger

D == INSTANCE HvsockDial
L == INSTANCE HvsockListener
C == INSTANCE HvsockConn

dvars == <<nowait, pc, i, err, ctxDone, running, tick, sock, wg, tries, late>>
lvars == <<apc, asock, aerr, lpc, lhandle, lwg>>
cvars == <<closing, handle, gpc, ret, t, sent, inq, fin, got, shut, stranger>>
vars  == <<role, dvars, lvars, cvars>>

Init ==
  /\ role \in {"dial", "accept"}
  /\ D!Init /\ L!Init /\ C!Init
  /\ role = "accept" => nowait                  \* the dialer is not used

(* A socket that is never used.                                            *)
Idle == role = "accept" /\ Init

(* The connection is the caller's when Dial or Accept has returned it.     *)
Connected ==
  (pc = "idle" /\ sock = "owned") \/ (apc = "idle" /\ asock = "owned")

Dialing ==
  role = "dial" /\ ~Connected /\ D!Next /\ UNCHANGED <<role, lvars, cvars>>

Accepting ==
  /\ role = "accept" /\ L!Next
  /\ Connected => lpc = "wait" /\ apc' = apc     \* a Close under way goes on
  /\ UNCHANGED <<role, dvars, cvars>>

Using == Connected /\ C!Next /\ UNCHANGED <<role, dvars, lvars>>

Next == Dialing \/ Accepting \/ Using

Spec == Init /\ [][Next]_vars

(* What is scheduled fairly: goroutines run, timers fire, and a connect    *)
(* gets an outcome; no one has to dial or accept, and no client has to     *)
(* come.                                                                   *)
DialRuns   == Dialing /\ D!DialStep
TimerRuns  == Dialing /\ D!Ticks
AcceptRuns == Accepting /\ L!AcceptStep /\ (apc = "accept" => lpc # "idle")
CloseRuns  == Accepting /\ L!CloseHandle

-----------------------------------------------------------------------------

(* Between two waits the redial timer is stopped and its channel empty, so *)
(* that Reset starts a full wait ("should already be stopped and drained").*)
TimerIsQuiet == pc \notin {"wait", "drain"} => ~running /\ ~tick

(* A Dial or Accept that fails leaves no open socket behind, and one that  *)
(* succeeds hands its open socket over.                                    *)
NoSocketLeak ==
  /\ pc = "idle" => sock # "open" /\ wg = 0 /\ (sock = "owned" => err = "nil")
  /\ apc = "idle" => asock # "open" /\ (asock = "owned" <=> aerr = "nil")

(* "Close closes the listener, causing any pending Accept calls to fail",  *)
(* and returns.                                                            *)
ListenerCloses == lpc = "wait" ~> lpc = "returned" /\ apc = "idle"

(* What Dial returns has its reason.  A context that ended while it was    *)
(* connecting, waiting or setting options, and not only behind its last    *)
(* look at it, gets no connection, although neither ConnectEx nor a wait   *)
(* whose timer is ready looks at it; "context" is returned of a context    *)
(* that has ended; and a peer's refusal only when every one of the retries *)
(* has been made.                                                          *)
DialTellsWhy ==
  pc = "idle" =>
    /\ sock = "owned" => ~late
    /\ err = "context" => ctxDone
    /\ err = "refused" => tries = Retries + 1

(* Dial returns: neither its deferred Close waits for its own wg, nor does *)
(* the drain of the timer wait for a time that was already taken.          *)
DialReturns == pc # "idle" ~> pc = "idle"

(* What Read and Write say of the streams is true.  Write's count is that  *)
(* of its bytes in the stream, wherever a deadline, a CloseWrite or a      *)
(* Close cuts the loop off, and there is no error exactly when it is the   *)
(* whole buffer.  io.EOF means that the peer has ended its stream and      *)
(* every byte of it has been read: an IO that was cut off is never taken   *)
(* for the end.                                                            *)
StreamsAreTold ==
  /\ \A w \in Writers :
       gpc[w] = "returned" => t[w] = sent[w] /\ (ret[w] = "nil" <=> t[w] = BufLen)
  /\ \A r \in Readers : ret[r] = "EOF" => fin /\ got = Incoming

=============================================================================
