--------------------------- MODULE HvsockListener ---------------------------
(***************************************************************************)
(* HvsockListener of hvsock.go: a goroutine that calls Accept until it has *)
(* a connection, and another one that closes the listener meanwhile.       *)
(*                                                                         *)
(* Accept makes the new connection's socket first and then uses two files: *)
(* the listener's, as one of its IOs, and that socket, which it closes     *)
(* unless it returns it.                                                   *)
(***************************************************************************)
EXTENDS Naturals

VARIABLES
  apc,          \* where Accept stands
  asock,        \* its socket: "none", "open", "closed" or "owned" by the conn
  aerr,         \* what Accept returned
  lpc,          \* where the listener's Close stands
  lhandle,      \* l.sock.handle: "open" or "closed"
  lwg           \* l.sock.wg

Init ==
  /\ apc = "idle" /\ asock = "none" /\ aerr = "none"
  /\ lpc = "idle" /\ lhandle = "open" /\ lwg = 0

lclosing == lpc # "idle"

Goto(from, to) == apc = from /\ apc' = to

(* newHVSocket, which may fail.                                            *)
AcceptCall ==
  /\ \/ /\ Goto("idle", "prepare")
        /\ asock' = "open" /\ aerr' = "none"
     \/ /\ Goto("idle", "idle")
        /\ asock' = "none" /\ aerr' = "failed"
  /\ UNCHANGED <<lpc, lhandle, lwg>>

(* Mutant: an Accept that finds the listener closed stays counted.         *)
AcceptPrepare_StaysCounted ==
  /\ Goto("prepare", IF lclosing THEN "close" ELSE "accept")
  /\ aerr' = IF lclosing THEN "ErrFileClosed" ELSE aerr
  /\ lwg' = 1
  /\ UNCHANGED <<asock, lpc, lhandle>>

(* prepareIO of the listener's file.                                       *)
AcceptPrepare ==
  /\ Goto("prepare", IF lclosing THEN "close" ELSE "accept")
  /\ aerr' = IF lclosing THEN "ErrFileClosed" ELSE aerr
  /\ lwg' = IF lclosing THEN lwg ELSE lwg + 1
  /\ UNCHANGED <<asock, lpc, lhandle>>

(* AcceptEx and asyncIO end by a client, by an error, or by the Close.     *)
AcceptEx ==
  /\ apc = "accept"
  /\ \/ apc' = "options" /\ UNCHANGED aerr
     \/ apc' = "done" /\ aerr' = "failed"
     \/ lclosing /\ apc' = "done" /\ aerr' = "ErrFileClosed"
  /\ UNCHANGED <<asock, lpc, lhandle, lwg>>

(* Mutant: the socket is the connection's before its options are set.      *)
AcceptOptions_Early ==
  /\ Goto("options", "done")
  /\ asock' = "owned"
  /\ aerr' \in {"nil", "failed"}
  /\ UNCHANGED <<lpc, lhandle, lwg>>

(* Setsockopt with the listener's handle; then the socket is handed over.  *)
AcceptOptions ==
  /\ Goto("options", "done")
  /\ \/ asock' = "owned" /\ aerr' = "nil"
     \/ aerr' = "failed" /\ UNCHANGED asock
  /\ UNCHANGED <<lpc, lhandle, lwg>>

(* The deferred calls, last to first: wg.Done, and Close of the socket.    *)
AcceptDone ==
  /\ Goto("done", "close")
  /\ lwg' = lwg - 1
  /\ UNCHANGED <<asock, aerr, lpc, lhandle>>

AcceptClose ==
  /\ Goto("close", "idle")
  /\ asock' = IF asock = "owned" THEN "owned" ELSE "closed"
  /\ UNCHANGED <<aerr, lpc, lhandle, lwg>>

(* Close: win32File.Close of the listener's socket.                        *)
CloseCall ==
  /\ lpc = "idle" /\ lpc' = "wait"
  /\ UNCHANGED <<apc, asock, aerr, lhandle, lwg>>

CloseHandle ==
  /\ lpc = "wait" /\ lwg = 0
  /\ lpc' = "returned" /\ lhandle' = "closed"
  /\ UNCHANGED <<apc, asock, aerr, lwg>>

AcceptStep ==
  \/ AcceptPrepare \/ AcceptEx \/ AcceptOptions \/ AcceptDone \/ AcceptClose

Next == AcceptCall \/ AcceptStep \/ CloseCall \/ CloseHandle
=============================================================================
