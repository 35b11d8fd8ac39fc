----------------------------- MODULE HvsockConn -----------------------------
(***************************************************************************)
(* HvsockConn of hvsock.go: Write, which sends its buffer in as many IOs   *)
(* as the kernel makes of it, Read, the half-closes CloseRead and          *)
(* CloseWrite, and Close, called by any goroutines at the same time.       *)
(*                                                                         *)
(* The socket's win32File appears through its promise (FileLifecycle): no  *)
(* IO starts once closing is set, and the handle is closed when the last   *)
(* IO has returned.  shutdown is not an IO of that file: it looks at       *)
(* closing and then uses the handle without being counted.                 *)
(***************************************************************************)
EXTENDS Naturals

CONSTANTS
  Writers,      \* goroutines that call Write, once each
  Readers,      \* goroutines that call Read
  Shutters,     \* goroutines that call CloseRead or CloseWrite, once each
  Closers,      \* goroutines that call Close, once each
  BufLen,       \* the length of a Write's buffer
  Incoming      \* how many bytes the peer sends before it ends its stream

VARIABLES
  closing, handle,  \* of sock: handle is "open", "stale" (closed, the field
                    \* not yet cleared) or "zero"
  gpc,              \* gpc[g]: where goroutine g stands
  ret,              \* ret[g]: what its call returned
  t,                \* t[g]: Write's count of bytes sent
  sent,             \* sent[w]: bytes of w's Write in the stream to the peer
  inq, fin,         \* bytes from the peer not yet read; the peer's end is here
  got,              \* bytes that Reads have returned
  shut,             \* the directions that have been shut down
  stranger          \* history: a handle reused by the system was shut down

Goroutines == Writers \cup Readers \cup Shutters \cup Closers

Errors == {"none", "nil", "EOF", "ErrTimeout", "ErrFileClosed", "ErrSocketClosed",
           "WSAESHUTDOWN", "WSAENOTSOCK"}

Init ==
  /\ closing = FALSE /\ handle = "open"
  /\ gpc = [g \in Goroutines |-> "idle"]
  /\ ret = [g \in Goroutines |-> "none"]
  /\ t = [w \in Writers |-> 0]
  /\ sent = [w \in Writers |-> 0] /\ inq = 0 /\ fin = FALSE /\ got = 0
  /\ shut = {} /\ stranger = FALSE

-----------------------------------------------------------------------------
Goto(g, from, to) == gpc[g] = from /\ gpc' = [gpc EXCEPT ![g] = to]

Return(g, from, e) == Goto(g, from, "returned") /\ ret' = [ret EXCEPT ![g] = e]

(* opErr: a closed file is a closed socket to the caller.                  *)
opErr(e) == IF e = "ErrFileClosed" THEN "ErrSocketClosed" ELSE e

(* An IO of the socket ends without a transfer: its direction is shut      *)
(* down, its deadline passes or Close cancels it.                          *)
IOError(dir) ==
  (IF dir \in shut THEN {"WSAESHUTDOWN"} ELSE {})
    \cup {"ErrTimeout"} \cup (IF closing THEN {"ErrFileClosed"} ELSE {})

(* Write, the head of its loop, and write's prepareIO.                     *)
WriteLoop(w) ==
  /\ \/ gpc[w] = "idle" \/ gpc[w] = "loop"
  /\ IF t[w] = BufLen THEN Return(w, gpc[w], "nil")
     ELSE IF closing THEN Return(w, gpc[w], opErr("ErrFileClosed"))
     ELSE Goto(w, gpc[w], "send") /\ UNCHANGED ret
  /\ UNCHANGED <<closing, handle, t, sent, inq, fin, got, shut, stranger>>

(* Mutant: an error gives up the count of the bytes already sent.          *)
WriteSend_ForgetCount(w) ==
  /\ \/ \E n \in 1..(BufLen - t[w]) :
          /\ "write" \notin shut
          /\ sent' = [sent EXCEPT ![w] = @ + n]
          /\ t' = [t EXCEPT ![w] = @ + n]
          /\ Goto(w, "send", "loop")
          /\ UNCHANGED ret
     \/ /\ \E e \in IOError("write") : Return(w, "send", opErr(e))
        /\ t' = [t EXCEPT ![w] = 0]
        /\ UNCHANGED sent
  /\ UNCHANGED <<closing, handle, inq, fin, got, shut, stranger>>

(* WSASend and asyncIO: the kernel takes some of the bytes, or an error    *)
(* ends the loop.                                                          *)
WriteSend(w) ==
  /\ \/ \E n \in 1..(BufLen - t[w]) :
          /\ "write" \notin shut
          /\ sent' = [sent EXCEPT ![w] = @ + n]
          /\ t' = [t EXCEPT ![w] = @ + n]
          /\ Goto(w, "send", "loop")
          /\ UNCHANGED ret
     \/ /\ \E e \in IOError("write") : Return(w, "send", opErr(e))
        /\ UNCHANGED <<t, sent>>
  /\ UNCHANGED <<closing, handle, inq, fin, got, shut, stranger>>

(* Read: prepareIO.                                                        *)
ReadBegin(r) ==
  /\ gpc[r] \in {"idle", "returned"}
  /\ IF closing THEN Return(r, gpc[r], opErr("ErrFileClosed"))
     ELSE Goto(r, gpc[r], "recv") /\ UNCHANGED ret
  /\ UNCHANGED <<closing, handle, t, sent, inq, fin, got, shut, stranger>>

(* WSARecv and asyncIO: bytes, or none at the end of the peer's stream, or *)
(* an error.                                                               *)
ReadRecv(r) ==
  /\ \/ \E n \in 1..inq :
          inq' = inq - n /\ got' = got + n /\ Return(r, "recv", "nil")
     \/ /\ inq = 0 /\ fin
        /\ Return(r, "recv", "EOF") /\ UNCHANGED <<inq, got>>
     \/ \E e \in IOError("read") :
          Return(r, "recv", opErr(e)) /\ UNCHANGED <<inq, got>>
  /\ UNCHANGED <<closing, handle, t, sent, fin, shut, stranger>>

(* shutdown: the look at closing.                                          *)
ShutdownCheck(s) ==
  /\ IF closing THEN Return(s, "idle", opErr("ErrSocketClosed"))
     ELSE Goto(s, "idle", "shutdown") /\ UNCHANGED ret
  /\ UNCHANGED <<closing, handle, t, sent, inq, fin, got, shut, stranger>>

(* shutdown: windows.Shutdown of whatever conn.sock.handle holds by now,   *)
(* the socket, a number the system may have given to another socket, or 0. *)
ShutdownCall(s) ==
  /\ \/ /\ handle = "open"
        /\ \E dir \in {"read", "write"} : shut' = shut \cup {dir}
        /\ Return(s, "shutdown", "nil")
        /\ UNCHANGED stranger
     \/ /\ handle = "stale"
        /\ Return(s, "shutdown", "nil")
        /\ stranger' = TRUE
        /\ UNCHANGED shut
     \/ /\ handle # "open"
        /\ Return(s, "shutdown", opErr("WSAENOTSOCK"))
        /\ UNCHANGED <<shut, stranger>>
  /\ UNCHANGED <<closing, handle, t, sent, inq, fin, got>>

(* Close: the swap, the close of the handle after the last IO, and the     *)
(* assignment that clears the field.                                       *)
CloseBegin(c) ==
  /\ Goto(c, "idle", IF closing THEN "returned" ELSE "wait")
  /\ closing' = TRUE
  /\ UNCHANGED <<handle, ret, t, sent, inq, fin, got, shut, stranger>>

CloseHandle(c) ==
  /\ Goto(c, "wait", "clear")
  /\ \A g \in Writers \cup Readers : gpc[g] \notin {"send", "recv"}
  /\ handle' = "stale"
  /\ UNCHANGED <<closing, ret, t, sent, inq, fin, got, shut, stranger>>

CloseClear(c) ==
  /\ Goto(c, "clear", "returned")
  /\ handle' = "zero"
  /\ UNCHANGED <<closing, ret, t, sent, inq, fin, got, shut, stranger>>

(* The peer sends and ends its stream; nothing arrives at a closed socket  *)
(* or one shut down for reading.                                           *)
PeerSends ==
  /\ got + inq < Incoming /\ "read" \notin shut /\ handle = "open"
  /\ inq' = inq + 1
  /\ UNCHANGED <<closing, handle, gpc, ret, t, sent, fin, got, shut, stranger>>

PeerEnds ==
  /\ got + inq = Incoming /\ ~fin
  /\ fin' = TRUE
  /\ UNCHANGED <<closing, handle, gpc, ret, t, sent, inq, got, shut, stranger>>

-----------------------------------------------------------------------------
WriteStep(w) == WriteLoop(w) \/ WriteSend(w)
CloseStep(c) == CloseHandle(c) \/ CloseClear(c)

Next ==
  \/ \E w \in Writers : WriteStep(w)
  \/ \E r \in Readers : ReadBegin(r) \/ ReadRecv(r)
  \/ \E s \in Shutters : ShutdownCheck(s) \/ ShutdownCall(s)
  \/ \E c \in Closers : CloseBegin(c) \/ CloseStep(c)
  \/ PeerSends \/ PeerEnds
=============================================================================
