---------------------------- MODULE BackupProofs ----------------------------
(***************************************************************************)
(* For any number of streams of any size: ReadsWhatWasWritten.             *)
(*                                                                         *)
(* The reader has nothing but counts to find its way, so the invariant     *)
(* says what is where: each stream begins where the one before it ends,    *)
(* with its header in one piece (Laid), but perhaps for the last, whose    *)
(* header may be cut (Broken); and the reader's position and bytesLeft     *)
(* always add up to the end of a stream (Reached).                         *)
(***************************************************************************)
EXTENDS BackupStream, TLAPS

Items ==
  [item : {"header", "name", "offset", "byte", "part"}, id : {"data", "block", "none"},
   named : BOOLEAN, size : Nat]

Streams == [hdr : Headers, data : Nat, at : Nat]

Delivered == [hdr : Headers, data : Nat]

Typed ==
  /\ medium \in Seq(Items) /\ streams \in Seq(Streams)
  /\ wleft \in Nat /\ wpc \in {"writing", "cut", "ended"}
  /\ pos \in Nat /\ rleft \in Nat /\ rpc \in {"ready", "EOF", "error"}
  /\ got \in Seq(Delivered) /\ ends \in {"EOF", "error"}

(* Where the bytes of a stream begin, and where they end if none is        *)
(* missing.                                                                *)
Data(s) == s.at + Len(Encoded(s.hdr))
End(s)  == Data(s) + s.hdr.size

(* The first n items of a stream's header are in the medium.               *)
Starts(m, s, n) == s.at + n <= Len(m) /\ \A j \in 1..n : m[s.at + j] = Encoded(s.hdr)[j]

Complete(m, s) == Starts(m, s, Len(Encoded(s.hdr)))

(* The medium ends in the header, between two items or within one.         *)
Broken(m, s) ==
  \E n \in 0..(Len(Encoded(s.hdr)) - 1) :
    /\ Starts(m, s, n)
    /\ \/ n > 0 /\ Len(m) = s.at + n
       \/ Len(m) = s.at + n + 1 /\ m[s.at + n + 1].item = "part"

Laid ==
  /\ streams = <<>> => medium = <<>> /\ wleft = 0
  /\ streams # <<>> => streams[1].at = 0
  /\ \A k \in 1..Len(streams) : streams[k].at <= Len(medium) /\ streams[k].data <= streams[k].hdr.size
  /\ \A k \in 1..(Len(streams) - 1) :
       /\ Complete(medium, streams[k]) /\ streams[k].data = streams[k].hdr.size
       /\ streams[k + 1].at = End(streams[k])

(* The stream that is being written, or was last.                          *)
Latest(s) ==
  \/ /\ Complete(medium, s) /\ Len(medium) = Data(s) + s.data
     /\ wleft = s.hdr.size - s.data
  \/ wpc = "cut" /\ Broken(medium, s)

Written ==
  /\ Laid
  /\ streams # <<>> => Latest(streams[Len(streams)])
  /\ wpc = "ended" => wleft = 0

Reached ==
  /\ wpc = "writing" => pos = 0 /\ rleft = 0 /\ got = <<>> /\ rpc = "ready"
  /\ got = <<>> => pos = 0 /\ rleft = 0
  /\ got # <<>> =>
       LET s == streams[Len(got)] IN
       /\ Complete(medium, s) /\ pos <= Len(medium)
       /\ pos = Data(s) + got[Len(got)].data
       /\ got[Len(got)].data + rleft = s.hdr.size

Inductive == Typed /\ Written /\ Reached /\ ReadsWhatWasWritten

-----------------------------------------------------------------------------
(* Positions count a header, the bytes before and those that come now.     *)
LEMMA Sum ==
  ASSUME NEW a \in Nat, NEW b \in Nat, NEW n \in Nat
  PROVE  (a + b) + n = a + (b + n)
  OBVIOUS

(* The items that have no contents of their own.                           *)
LEMMA ItemIs ==
  ASSUME NEW i \in {"name", "offset", "byte", "part"}
  PROVE  Item(i) \in Items /\ Item(i).item = i
BY DEF Item, Items

(* WriteHeader: what follows the fixed part.                               *)
LEMMA FollowingIs ==
  ASSUME NEW id, NEW named
  PROVE  LET f == Following(id, named) IN
         /\ f \in Seq(Items) /\ Len(f) \in Nat /\ Len(f) <= 2
         /\ \A j \in 1..Len(f) : f[j].item \in {"name", "offset"}
         /\ \A j \in 1..(Len(f) - 1) : f[j].item = "name"
<1>. DEFINE a == Item("name")
            b == Item("offset")
<1>2. a \in Items /\ a.item = "name" /\ b \in Items /\ b.item = "offset"  BY ItemIs
<1>. HIDE DEF a, b
<1>3. CASE named /\ id = "block"
  <2>1. Following(id, named) = <<a>> \o <<b>>  BY <1>3 DEF Following, a, b
  <2>2. <<a>> \in Seq(Items) /\ <<b>> \in Seq(Items)  BY <1>2
  <2>. DEFINE f == Following(id, named)
  <2>3. f \in Seq(Items) /\ Len(f) = 2 /\ f[1] = a /\ f[2] = b  BY <2>1, <2>2
  <2>. HIDE DEF f
  <2>4. \A j \in 1..2 : j = 1 \/ j = 2  OBVIOUS
  <2>5. \A j \in 1..Len(f) : f[j].item \in {"name", "offset"}  BY <2>3, <2>4, <1>2
  <2>6. \A j \in 1..(Len(f) - 1) : f[j].item = "name"  BY <2>3, <1>2
  <2>. QED  BY <2>3, <2>5, <2>6 DEF f
<1>4. CASE named /\ id # "block"
  <2>1. Following(id, named) = <<a>> \o <<>>  BY <1>4 DEF Following, a, b
  <2>. QED  BY <2>1, <1>2
<1>5. CASE ~named /\ id = "block"
  <2>1. Following(id, named) = <<>> \o <<b>>  BY <1>5 DEF Following, a, b
  <2>. QED  BY <2>1, <1>2
<1>6. CASE ~named /\ id # "block"
  <2>1. Following(id, named) = <<>> \o <<>>  BY <1>6 DEF Following
  <2>. QED  BY <2>1
<1>. QED  BY <1>3, <1>4, <1>5, <1>6

(* WriteHeader: the header as a whole.                                     *)
LEMMA EncodedIs ==
  ASSUME NEW hdr \in Headers
  PROVE  /\ Encoded(hdr) \in Seq(Items)
         /\ Len(Encoded(hdr)) = 1 + Len(Following(hdr.id, hdr.named))
         /\ Len(Encoded(hdr)) \in Nat \ {0}
         /\ Encoded(hdr)[1] = Fixed(hdr.id, hdr.named, hdr.size + Extra(hdr.id))
         /\ \A j \in 1..Len(Encoded(hdr)) : Encoded(hdr)[j].item # "part"
         /\ \A j \in 1..(Len(Encoded(hdr)) - 1) : Encoded(hdr)[j].item \in {"header", "name"}
<1>. DEFINE f == Following(hdr.id, hdr.named)
            h == Fixed(hdr.id, hdr.named, hdr.size + Extra(hdr.id))
            e == Encoded(hdr)
<1>1. /\ f \in Seq(Items) /\ Len(f) \in Nat
      /\ \A j \in 1..Len(f) : f[j].item \in {"name", "offset"}
      /\ \A j \in 1..(Len(f) - 1) : f[j].item = "name"
  BY FollowingIs
<1>2. h \in Items /\ h.item = "header"
  <2>1. hdr.id \in {"data", "block"} /\ hdr.named \in BOOLEAN /\ hdr.size \in Nat
    BY BackupAssumption DEF Headers
  <2>2. hdr.size + Extra(hdr.id) \in Nat  BY <2>1 DEF Extra, OffsetSize
  <2>. QED  BY <2>1, <2>2 DEF Fixed, Items
<1>3. e = <<h>> \o f  BY DEF Encoded
<1>. HIDE DEF f, h, e
<1>4. /\ e \in Seq(Items) /\ Len(e) = 1 + Len(f) /\ e[1] = h
      /\ \A j \in 2..Len(e) : e[j] = f[j - 1]
  BY <1>1, <1>2, <1>3
<1>5. \A j \in 1..Len(e) : e[j].item # "part"
  <2>. SUFFICES ASSUME NEW j \in 1..Len(e) PROVE e[j].item # "part"  OBVIOUS
  <2>1. CASE j = 1  BY <2>1, <1>2, <1>4
  <2>2. CASE j # 1
    <3>1. j \in 2..Len(e) /\ j - 1 \in 1..Len(f)  BY <2>2, <1>1, <1>4
    <3>. QED  BY <3>1, <1>1, <1>4
  <2>. QED  BY <2>1, <2>2
<1>6. \A j \in 1..(Len(e) - 1) : e[j].item \in {"header", "name"}
  <2>. SUFFICES ASSUME NEW j \in 1..(Len(e) - 1) PROVE e[j].item \in {"header", "name"}  OBVIOUS
  <2>1. CASE j = 1  BY <2>1, <1>2, <1>4
  <2>2. CASE j # 1
    <3>1. j \in 2..Len(e) /\ j - 1 \in 1..(Len(f) - 1)  BY <2>2, <1>1, <1>4
    <3>. QED  BY <3>1, <1>1, <1>4
  <2>. QED  BY <2>1, <2>2
<1>. QED  BY <1>1, <1>4, <1>5, <1>6 DEF e, f, h

(* Items behind items.                                                     *)
LEMMA Concat ==
  ASSUME NEW m \in Seq(Items), NEW t \in Seq(Items)
  PROVE  /\ m \o t \in Seq(Items) /\ Len(m) \in Nat /\ Len(t) \in Nat
         /\ Len(m \o t) = Len(m) + Len(t)
         /\ \A j \in 1..Len(m) : (m \o t)[j] = m[j]
         /\ \A j \in 1..Len(t) : (m \o t)[Len(m) + j] = t[j]
OBVIOUS

(* What has been written stays where it is.                                *)
LEMMA StartsGrows ==
  ASSUME NEW m \in Seq(Items), NEW t \in Seq(Items), NEW s \in Streams, NEW n \in Nat, Starts(m, s, n)
  PROVE  Starts(m \o t, s, n)
<1>1. s.at \in Nat  BY DEF Streams
<1>2. \A j \in 1..n : s.at + j \in 1..Len(m)  BY <1>1 DEF Starts
<1>3. Len(m \o t) = Len(m) + Len(t) /\ \A j \in 1..Len(m) : (m \o t)[j] = m[j]  OBVIOUS
<1>. QED  BY <1>1, <1>2, <1>3 DEF Starts

(* More items on the medium keep a complete header complete.               *)
LEMMA CompleteGrows ==
  ASSUME NEW m \in Seq(Items), NEW t \in Seq(Items), NEW s \in Streams, Complete(m, s)
  PROVE  Complete(m \o t, s)
<1>1. Len(Encoded(s.hdr)) \in Nat  BY EncodedIs DEF Streams
<1>. QED  BY <1>1, StartsGrows DEF Complete

(* A header cannot be both whole and cut.                                  *)
LEMMA CompleteNotBroken ==
  ASSUME NEW m \in Seq(Items), NEW s \in Streams, Complete(m, s)
  PROVE  ~Broken(m, s)
<1>. SUFFICES ASSUME Broken(m, s) PROVE FALSE  OBVIOUS
<1>. DEFINE e == Encoded(s.hdr)
<1>1. Len(e) \in Nat \ {0} /\ \A j \in 1..Len(e) : e[j].item # "part"  BY EncodedIs DEF Streams
<1>2. s.at \in Nat /\ Len(m) \in Nat  BY DEF Streams
<1>3. s.at + Len(e) <= Len(m) /\ \A j \in 1..Len(e) : m[s.at + j] = e[j]  BY DEF Complete, Starts
<1>4. PICK n \in 0..(Len(e) - 1) :
        \/ n > 0 /\ Len(m) = s.at + n
        \/ Len(m) = s.at + n + 1 /\ m[s.at + n + 1].item = "part"
  BY DEF Broken
<1>. HIDE DEF e
<1>5. n \in Nat /\ n + 1 \in 1..Len(e)  BY <1>1
<1>6. s.at + (n + 1) = s.at + n + 1  BY <1>2, <1>5
<1>7. m[s.at + n + 1] = e[n + 1]  BY <1>3, <1>5, <1>6
<1>8. m[s.at + n + 1].item # "part"  BY <1>1, <1>5, <1>7
<1>9. ~(Len(m) = s.at + n)  BY <1>1, <1>2, <1>3, <1>5, SMTT(30)
<1>. QED  BY <1>4, <1>8, <1>9, Zenon

-----------------------------------------------------------------------------
(* A new reader and writer satisfy the invariant.                          *)
LEMMA InitInductive == BInit => Inductive
<1>. SUFFICES ASSUME BInit PROVE Inductive  OBVIOUS
<1>1. Typed  BY DEF BInit, New, Typed
<1>2. Written  BY DEF BInit, New, Written, Laid
<1>3. Reached  BY DEF BInit, New, Reached
<1>4. ReadsWhatWasWritten  BY DEF BInit, New, ReadsWhatWasWritten
<1>. QED  BY <1>1, <1>2, <1>3, <1>4 DEF Inductive

(* While the writer writes, the reader has not begun.                      *)
LEMMA WriterSteps ==
  ASSUME Inductive, wpc = "writing", UNCHANGED <<seek, eager, ends, pos, rleft, rpc, got>>,
         streams' \in Seq(Streams)
  PROVE  Reached' /\ ReadsWhatWasWritten'
<1>1. pos' = 0 /\ rleft' = 0 /\ got' = <<>> /\ rpc' = "ready"  BY DEF Inductive, Reached
<1>2. Reached'  BY <1>1 DEF Reached
<1>3. ReadsWhatWasWritten'
  <2>1. Len(got') = 0 /\ DOMAIN got' = {} /\ Len(streams') \in Nat  BY <1>1
  <2>. QED  BY <1>1, <2>1 DEF ReadsWhatWasWritten
<1>. QED  BY <1>2, <1>3

(* WriteHeader: a new stream, of which as much is written as may be.       *)
LEMMA NewStream ==
  ASSUME Typed, Written, wpc = "writing", wleft = 0, NEW s \in Streams, NEW t \in Seq(Items),
         s.at = Len(medium), s.data = 0, streams' = Append(streams, s), medium' = medium \o t
  PROVE  Laid' /\ medium' \in Seq(Items) /\ streams' \in Seq(Streams) /\ streams' # <<>>
         /\ streams'[Len(streams')] = s
<1>. DEFINE L == Len(streams)
<1>1. /\ L \in Nat /\ Len(streams') = L + 1 /\ streams'[L + 1] = s
      /\ \A k \in 1..L : streams'[k] = streams[k] /\ streams[k] \in Streams
      /\ streams' \in Seq(Streams) /\ streams' # <<>>
  <2>1. streams \in Seq(Streams)  BY DEF Typed
  <2>2. L \in Nat /\ \A k \in 1..L : streams[k] \in Streams  BY <2>1
  <2>3. /\ Len(streams') = L + 1 /\ streams'[L + 1] = s /\ streams' \in Seq(Streams)
        /\ \A k \in 1..L : streams'[k] = streams[k]
    BY <2>1
  <2>4. streams' # <<>>  BY <2>2, <2>3
  <2>. QED  BY <2>2, <2>3, <2>4
<1>2. /\ medium \in Seq(Items) /\ medium' \in Seq(Items) /\ Len(medium) \in Nat
      /\ Len(t) \in Nat /\ Len(medium') = Len(medium) + Len(t)
  BY DEF Typed
<1>. HIDE DEF L
<1>3. L = 0 => streams = <<>>  BY DEF L, Typed
<1>4. L # 0 => /\ Complete(medium, streams[L]) /\ streams[L].data = streams[L].hdr.size
               /\ End(streams[L]) = Len(medium)
  <2>. SUFFICES ASSUME L # 0
                PROVE  /\ Complete(medium, streams[L]) /\ streams[L].data = streams[L].hdr.size
                       /\ End(streams[L]) = Len(medium)
    OBVIOUS
  <2>1. streams # <<>>  BY DEF L, Typed
  <2>2. /\ Complete(medium, streams[L]) /\ Len(medium) = Data(streams[L]) + streams[L].data
        /\ 0 = streams[L].hdr.size - streams[L].data
    BY <2>1 DEF Written, Latest, L
  <2>3. streams[L] \in Streams  BY <1>1
  <2>4. streams[L].hdr.size \in Nat /\ streams[L].data \in Nat  BY <2>3, BackupAssumption DEF Streams, Headers
  <2>5. streams[L].hdr.size = streams[L].data  BY <2>2, <2>4
  <2>. QED  BY <2>2, <2>5 DEF End
<1>5. streams'[1].at = 0
  <2>1. CASE L = 0  BY <2>1, <1>1, <1>3 DEF Written, Laid
  <2>2. CASE L # 0  BY <2>2, <1>1 DEF Written, Laid, L
  <2>. QED  BY <2>1, <2>2
<1>6. ASSUME NEW k \in 1..(L + 1)
      PROVE  streams'[k].at <= Len(medium') /\ streams'[k].data <= streams'[k].hdr.size
  <2>1. CASE k = L + 1
    <3>1. s.hdr.size \in Nat  BY BackupAssumption DEF Streams, Headers
    <3>. QED  BY <2>1, <3>1, <1>1, <1>2
  <2>2. CASE k # L + 1
    <3>1. k \in 1..L /\ streams[k] \in Streams  BY <2>2, <1>1
    <3>2. streams[k].at <= Len(medium) /\ streams[k].data <= streams[k].hdr.size
      BY <3>1 DEF Written, Laid, L
    <3>3. streams[k].at \in Nat  BY <3>1 DEF Streams
    <3>. QED  BY <3>1, <3>2, <3>3, <1>1, <1>2
  <2>. QED  BY <2>1, <2>2, Zenon
<1>7. ASSUME NEW k \in 1..L
      PROVE  /\ Complete(medium', streams'[k]) /\ streams'[k].data = streams'[k].hdr.size
             /\ streams'[k + 1].at = End(streams'[k])
  <2>1. streams'[k] = streams[k] /\ streams[k] \in Streams  BY <1>1
  <2>2. /\ Complete(medium, streams[k]) /\ streams[k].data = streams[k].hdr.size
        /\ streams'[k + 1].at = End(streams[k])
    <3>1. CASE k = L  BY <3>1, <1>1, <1>4
    <3>2. CASE k # L
      <4>1. k \in 1..(L - 1) /\ k + 1 \in 1..L  BY <3>2, <1>1
      <4>. QED  BY <4>1, <1>1 DEF Written, Laid, L
    <3>. QED  BY <3>1, <3>2, Zenon
  <2>. QED  BY <2>1, <2>2, <1>2, CompleteGrows
<1>8. Laid'
  <2>1. Len(streams') - 1 = L  BY <1>1
  <2>. QED  BY <1>1, <1>5, <1>6, <1>7, <2>1, Zenon DEF Laid
<1>. QED  BY <1>1, <1>2, <1>8

(* WriteHeader, whole or cut, keeps the invariant.                         *)
LEMMA WriteHeaderStep ==
  ASSUME Inductive, NEW hdr \in Headers, WriteHeader(hdr)
  PROVE  Inductive'
<1>. DEFINE e == Encoded(hdr)
<1>0. PICK s : s = [hdr |-> hdr, data |-> 0, at |-> Len(medium)]  BY Zenon
<1>1. /\ e \in Seq(Items) /\ Len(e) \in Nat \ {0} /\ \A j \in 1..Len(e) : e[j] \in Items
  BY EncodedIs
<1>2. medium \in Seq(Items) /\ Len(medium) \in Nat /\ Typed /\ Written  BY DEF Inductive, Typed
<1>3. /\ wpc = "writing" /\ wleft = 0 /\ streams' = Append(streams, s)
      /\ UNCHANGED <<seek, eager, ends, pos, rleft, rpc, got>>
  BY <1>0 DEF WriteHeader
<1>4. s \in Streams /\ s.hdr = hdr /\ s.data = 0 /\ s.at = Len(medium)  BY <1>0, <1>2 DEF Streams
<1>5. hdr.size \in Nat  BY BackupAssumption DEF Headers
<1>6. /\ Laid' /\ medium' \in Seq(Items) /\ streams' \in Seq(Streams) /\ streams' # <<>>
      /\ streams'[Len(streams')] = s
      /\ Latest(s)' /\ wleft' \in Nat /\ wpc' \in {"writing", "cut"}
  <2>1. CASE medium' = medium \o e /\ wleft' = hdr.size /\ UNCHANGED wpc
    <3>. HIDE DEF e
    <3>1. /\ Laid' /\ medium' \in Seq(Items) /\ streams' \in Seq(Streams) /\ streams' # <<>>
          /\ streams'[Len(streams')] = s
      BY <2>1, <1>1, <1>2, <1>3, <1>4, NewStream, Zenon
    <3>2. /\ Len(medium') = Len(medium) + Len(e)
          /\ \A j \in 1..Len(e) : medium'[Len(medium) + j] = e[j]
      BY <2>1, <1>1, <1>2
    <3>3. Complete(medium', s)  BY <3>2, <1>1, <1>2, <1>4 DEF Complete, Starts, e
    <3>4. Len(medium') = Data(s) + s.data /\ wleft' = s.hdr.size - s.data
      BY <3>2, <2>1, <1>1, <1>2, <1>4, <1>5 DEF Data, e
    <3>5. Latest(s)'  BY <3>3, <3>4 DEF Latest
    <3>. QED  BY <3>1, <3>5, <2>1, <1>3, <1>5
  <2>2. CASE \E n \in 0..(Len(e) - 1), part \in {<<>>, <<Item("part")>>} :
               /\ n > 0 \/ part # <<>>
               /\ medium' = medium \o (SubSeq(e, 1, n) \o part)
               /\ wpc' = "cut" /\ UNCHANGED wleft
    <3>. HIDE DEF e
    <3>1. PICK n \in 0..(Len(e) - 1), part \in {<<>>, <<Item("part")>>} :
               /\ n > 0 \/ part # <<>>
               /\ medium' = medium \o (SubSeq(e, 1, n) \o part)
               /\ wpc' = "cut" /\ UNCHANGED wleft
      BY <2>2, Zenon
    <3>. DEFINE b == SubSeq(e, 1, n)
                t == b \o part
    <3>2. n \in Nat /\ n <= Len(e) /\ b \in Seq(Items) /\ Len(b) = n /\ \A j \in 1..n : b[j] = e[j]
      BY <1>1
    <3>. HIDE DEF b
    <3>3. part \in Seq(Items) /\ Len(part) \in Nat
      <4>1. CASE part = <<>>  BY <4>1
      <4>2. CASE part = <<Item("part")>>
        <5>1. Item("part") \in Items  BY ItemIs
        <5>. QED  BY <4>2, <5>1
      <4>. QED  BY <4>1, <4>2
    <3>4. t \in Seq(Items) /\ Len(t) = n + Len(part) /\ \A j \in 1..n : t[j] = e[j]
      BY <3>2, <3>3
    <3>5. part # <<>> => Len(part) = 1 /\ Len(t) = n + 1 /\ t[n + 1].item = "part"
      <4>1. CASE part = <<>>  BY <4>1
      <4>2. CASE part = <<Item("part")>>
        <5>. DEFINE x == Item("part")
        <5>1. x \in Items /\ x.item = "part"  BY ItemIs
        <5>. HIDE DEF x
        <5>2. part = <<x>>  BY <4>2 DEF x
        <5>3. Len(part) = 1 /\ part[1] = x  BY <5>2
        <5>4. t[Len(b) + 1] = part[1]
          <6>1. \A j \in 1..Len(part) : t[Len(b) + j] = part[j]  BY <3>2, <3>3, Concat, Zenon
          <6>2. 1 \in 1..Len(part)  BY <5>3
          <6>. QED  BY <6>1, <6>2, Zenon
        <5>. QED  BY <5>1, <5>3, <5>4, <3>2, <3>4
      <4>. QED  BY <4>1, <4>2
    <3>. HIDE DEF t
    <3>6. medium' = medium \o t  BY <3>1 DEF t, b
    <3>7. /\ Laid' /\ medium' \in Seq(Items) /\ streams' \in Seq(Streams) /\ streams' # <<>>
          /\ streams'[Len(streams')] = s
      BY <3>4, <3>6, <1>1, <1>2, <1>3, <1>4, NewStream, Zenon
    <3>8. /\ Len(medium') = Len(medium) + Len(t) /\ Len(t) \in Nat
          /\ \A j \in 1..Len(t) : medium'[Len(medium) + j] = t[j]
      BY <3>4, <3>6, <1>2, Concat, Zenon
    <3>9. Starts(medium', s, n)
      <4>1. \A j \in 1..n : j \in 1..Len(t)  BY <3>2, <3>3, <3>4
      <4>2. \A j \in 1..n : medium'[s.at + j] = e[j]  BY <4>1, <3>4, <3>8, <1>4
      <4>3. s.at + n <= Len(medium')  BY <3>2, <3>3, <3>4, <3>8, <1>2, <1>4
      <4>. QED  BY <4>2, <4>3, <1>4 DEF Starts, e
    <3>10. \/ n > 0 /\ Len(medium') = s.at + n
           \/ Len(medium') = s.at + n + 1 /\ medium'[s.at + n + 1].item = "part"
      <4>1. CASE part = <<>>
        <5>1. Len(part) = 0  BY <4>1
        <5>. QED  BY <5>1, <4>1, <3>1, <3>2, <3>4, <3>8, <1>2, <1>4
      <4>2. CASE part # <<>>
        <5>1. n + 1 \in 1..Len(t)  BY <4>2, <3>2, <3>5
        <5>2. medium'[Len(medium) + (n + 1)].item = "part"  BY <5>1, <4>2, <3>5, <3>8
        <5>3. Len(medium) + (n + 1) = s.at + n + 1  BY <3>2, <1>2, <1>4
        <5>. QED  BY <5>2, <5>3, <4>2, <3>5, <3>8, <1>2, <1>4, Zenon
      <4>. QED  BY <4>1, <4>2
    <3>11. Broken(medium', s)  BY <3>9, <3>10, <1>4 DEF Broken, e
    <3>12. Latest(s)'  BY <3>11, <3>1 DEF Latest
    <3>. QED  BY <3>7, <3>12, <3>1, <1>2, <1>3 DEF Typed
  <2>. QED  BY <2>1, <2>2, Zenon DEF WriteHeader
<1>7. Written'  BY <1>6 DEF Written
<1>8. Typed'  BY <1>2, <1>3, <1>6 DEF Typed
<1>9. Reached' /\ ReadsWhatWasWritten'  BY <1>3, <1>6, WriterSteps
<1>. QED  BY <1>7, <1>8, <1>9 DEF Inductive

(* Write: bytes of the last stream, behind everything else.                *)
LEMMA WriteStep ==
  ASSUME Inductive, NEW len \in 1..MaxSize, Write(len)
  PROVE  Inductive'
<1>. DEFINE L == Len(streams)
<1>1. /\ wpc = "writing" /\ len \in Nat /\ 1 <= len /\ len <= wleft /\ wleft \in Nat
      /\ UNCHANGED <<seek, eager, ends, pos, rleft, rpc, got>>
  BY BackupAssumption DEF Write, Inductive, Typed
<1>2. PICK n \in 0..len :
        /\ medium' = medium \o [k \in 1..n |-> Item("byte")]
        /\ wleft' = wleft - n
        /\ streams' = [streams EXCEPT ![L].data = @ + n]
        /\ wpc' = IF n = len THEN "writing" ELSE "cut"
  BY Zenon DEF Write
<1>3. PICK t : t = [k \in 1..n |-> Item("byte")]  BY Zenon
<1>4. n \in Nat /\ n <= wleft  BY <1>1
<1>5. t \in Seq(Items) /\ Len(t) = n
  <2>1. Item("byte") \in Items  BY ItemIs
  <2>. QED  BY <1>3, <1>4, <2>1
<1>6. /\ medium \in Seq(Items) /\ medium' = medium \o t /\ medium' \in Seq(Items)
      /\ Len(medium) \in Nat /\ Len(medium') = Len(medium) + n
  <2>1. medium \in Seq(Items) /\ medium' = medium \o t  BY <1>2, <1>3 DEF Inductive, Typed
  <2>. QED  BY <2>1, <1>5, Concat, Zenon
<1>7. streams \in Seq(Streams) /\ L \in Nat /\ Laid /\ (streams # <<>> => Latest(streams[L]))
  BY DEF Inductive, Typed, Written
<1>8. streams # <<>>  BY <1>1, <1>7 DEF Laid
<1>9. L \in 1..L /\ L # 0  BY <1>7, <1>8
<1>10. \A k \in 1..L : streams[k] \in Streams  BY <1>7
<1>11. PICK s : s = [hdr |-> streams[L].hdr, data |-> streams[L].data + n, at |-> streams[L].at]  BY Zenon
<1>12. /\ streams[L].hdr \in Headers /\ streams[L].data \in Nat /\ streams[L].at \in Nat
       /\ streams[L].hdr.size \in Nat
  BY <1>9, <1>10, BackupAssumption DEF Streams, Headers
<1>13. s \in Streams /\ s.hdr = streams[L].hdr /\ s.data = streams[L].data + n /\ s.at = streams[L].at
  BY <1>4, <1>11, <1>12 DEF Streams
<1>14. /\ Len(streams') = L /\ streams'[L] = s /\ streams' \in Seq(Streams)
       /\ \A k \in 1..(L - 1) : streams'[k] = streams[k]
  <2>1. streams[L] \in Streams /\ [streams[L] EXCEPT !.data = @ + n] = s
    BY <1>9, <1>10, <1>11 DEF Streams
  <2>2. streams' = [streams EXCEPT ![L] = s]  BY <1>2, <2>1, Zenon
  <2>. QED  BY <2>2, <1>7, <1>9, <1>13
<1>15. /\ Complete(medium, streams[L]) /\ Len(medium) = Data(streams[L]) + streams[L].data
       /\ wleft = streams[L].hdr.size - streams[L].data
  BY <1>1, <1>7, <1>8 DEF Latest
<1>16. Len(Encoded(streams[L].hdr)) \in Nat  BY <1>12, EncodedIs
<1>17. Data(s) = Data(streams[L]) /\ Data(s) \in Nat  BY <1>12, <1>13, <1>16 DEF Data
<1>18. Latest(s)'
  <2>1. Complete(medium, s)  BY <1>13, <1>15 DEF Complete, Starts
  <2>2. Complete(medium', s)  BY <2>1, <1>5, <1>6, <1>13, CompleteGrows
  <2>3. Len(medium') = Data(s) + s.data
    <3>1. (Data(s) + streams[L].data) + n = Data(s) + (streams[L].data + n)  BY <1>4, <1>12, <1>17, Sum, Zenon
    <3>2. Len(medium') = (Data(s) + streams[L].data) + n  BY <1>6, <1>15, <1>17, Zenon
    <3>. QED  BY <3>1, <3>2, <1>13, Zenon
  <2>4. wleft' = wleft - n  BY <1>2
  <2>5. wleft' = s.hdr.size - s.data  BY <2>4, <1>4, <1>12, <1>13, <1>15, SMTT(30)
  <2>. QED  BY <2>2, <2>3, <2>5 DEF Latest
<1>19. Laid'
  <2>1. streams' # <<>>  BY <1>9, <1>14
  <2>2. streams'[1].at = 0
    <3>1. CASE L = 1  BY <3>1, <1>7, <1>8, <1>13, <1>14 DEF Laid
    <3>2. CASE L # 1  BY <3>2, <1>7, <1>8, <1>9, <1>14 DEF Laid
    <3>. QED  BY <3>1, <3>2
  <2>3. ASSUME NEW k \in 1..L
        PROVE  streams'[k].at <= Len(medium') /\ streams'[k].data <= streams'[k].hdr.size
    <3>1. streams[k].at <= Len(medium) /\ streams[k].data <= streams[k].hdr.size  BY <1>7 DEF Laid
    <3>2. streams[k].at \in Nat  BY <1>10 DEF Streams
    <3>3. CASE k = L
      <4>1. s.at <= Len(medium')  BY <3>1, <3>2, <3>3, <1>4, <1>6, <1>13
      <4>2. s.data <= s.hdr.size  BY <1>1, <1>4, <1>12, <1>13, <1>15
      <4>. QED  BY <3>3, <4>1, <4>2, <1>14
    <3>4. CASE k # L
      <4>1. k \in 1..(L - 1)  BY <3>4, <1>7
      <4>. QED  BY <4>1, <3>1, <3>2, <1>4, <1>6, <1>14
    <3>. QED  BY <3>3, <3>4
  <2>4. ASSUME NEW k \in 1..(L - 1)
        PROVE  /\ Complete(medium', streams'[k]) /\ streams'[k].data = streams'[k].hdr.size
               /\ streams'[k + 1].at = End(streams'[k])
    <3>1. /\ Complete(medium, streams[k]) /\ streams[k].data = streams[k].hdr.size
          /\ streams[k + 1].at = End(streams[k])
      BY <1>7 DEF Laid
    <3>2. k \in 1..L /\ streams[k] \in Streams /\ streams'[k] = streams[k]  BY <1>7, <1>10, <1>14
    <3>3. streams'[k + 1].at = streams[k + 1].at
      <4>1. CASE k + 1 = L  BY <4>1, <1>13, <1>14
      <4>2. CASE k + 1 # L
        <5>1. k + 1 \in 1..(L - 1)  BY <4>2, <1>7
        <5>. QED  BY <5>1, <1>14
      <4>. QED  BY <4>1, <4>2
    <3>4. Complete(medium', streams[k])  BY <3>1, <3>2, <1>5, <1>6, CompleteGrows
    <3>. QED  BY <3>1, <3>2, <3>3, <3>4
  <2>5. streams' = <<>> => medium' = <<>> /\ wleft' = 0  BY <2>1
  <2>. QED  BY <2>1, <2>2, <2>3, <2>4, <2>5, <1>14 DEF Laid
<1>20. Written'
  <2>1. wpc' # "ended"  BY <1>2
  <2>. QED  BY <2>1, <1>14, <1>18, <1>19 DEF Written
<1>21. Typed'
  <2>1. wleft' \in Nat /\ wpc' \in {"writing", "cut", "ended"}  BY <1>1, <1>2, <1>4
  <2>. QED  BY <2>1, <1>1, <1>6, <1>14 DEF Inductive, Typed
<1>22. Reached' /\ ReadsWhatWasWritten'  BY <1>1, <1>14, WriterSteps
<1>. QED  BY <1>20, <1>21, <1>22 DEF Inductive

(* The caller stops: what is missing then is missing for good.             *)
LEMMA WriteEndsStep ==
  ASSUME Inductive, WriteEnds
  PROVE  Inductive'
<1>1. /\ wpc = "writing" /\ UNCHANGED <<medium, streams, wleft, seek, eager, ends, pos, rleft, rpc, got>>
      /\ wpc' = IF wleft = 0 THEN "ended" ELSE "cut"
  BY DEF WriteEnds
<1>2. Typed'  BY <1>1 DEF Inductive, Typed
<1>3. Written'
  <2>1. Laid'  BY <1>1 DEF Inductive, Written, Laid
  <2>2. streams # <<>> => Latest(streams[Len(streams)])'  BY <1>1 DEF Inductive, Written, Latest
  <2>. QED  BY <1>1, <2>1, <2>2 DEF Written
<1>4. streams' \in Seq(Streams)  BY <1>2 DEF Typed
<1>5. Reached' /\ ReadsWhatWasWritten'  BY <1>1, <1>4, WriterSteps
<1>. QED  BY <1>2, <1>3, <1>5 DEF Inductive

-----------------------------------------------------------------------------
(* The reader changes nothing of what was written.                         *)
LEMMA ReaderSteps ==
  ASSUME Inductive, UNCHANGED <<wvars, seek, eager, ends>>
  PROVE  Written'
<1>1. UNCHANGED <<medium, streams, wleft, wpc>>  BY DEF wvars
<1>2. Laid'  BY <1>1 DEF Inductive, Written, Laid
<1>3. streams # <<>> => Latest(streams[Len(streams)])'  BY <1>1 DEF Inductive, Written, Latest
<1>. QED  BY <1>1, <1>2, <1>3 DEF Inductive, Written

(* How many of a stream's bytes there are, for a stream the reader is at.  *)
LEMMA BytesThere ==
  ASSUME Typed, Written, NEW g \in 1..Len(streams), Complete(medium, streams[g])
  PROVE  /\ streams[g] \in Streams /\ streams[g].hdr.size \in Nat /\ streams[g].data \in Nat
         /\ Data(streams[g]) \in Nat /\ Len(medium) \in Nat
         /\ g = Len(streams) => /\ Len(medium) = Data(streams[g]) + streams[g].data
                                /\ wleft = streams[g].hdr.size - streams[g].data
         /\ g # Len(streams) => /\ streams[g].data = streams[g].hdr.size
                                /\ End(streams[g]) <= Len(medium)
                                /\ g + 1 \in 1..Len(streams) /\ streams[g + 1].at = End(streams[g])
<1>1. streams \in Seq(Streams) /\ Len(streams) \in Nat /\ medium \in Seq(Items) /\ Len(medium) \in Nat
  BY DEF Typed
<1>2. streams[g] \in Streams  BY <1>1
<1>3. streams[g].hdr \in Headers /\ streams[g].data \in Nat /\ streams[g].at \in Nat
  BY <1>2 DEF Streams
<1>4. streams[g].hdr.size \in Nat  BY <1>3, BackupAssumption DEF Headers
<1>5. Data(streams[g]) \in Nat  BY <1>3, EncodedIs DEF Data
<1>6. CASE g = Len(streams)
  <2>1. streams # <<>>  BY <1>1
  <2>2. ~Broken(medium, streams[g])  BY <1>1, <1>2, CompleteNotBroken
  <2>. QED  BY <2>1, <2>2, <1>1, <1>2, <1>3, <1>4, <1>5, <1>6 DEF Written, Latest
<1>7. CASE g # Len(streams)
  <2>1. g \in 1..(Len(streams) - 1) /\ g + 1 \in 1..Len(streams)  BY <1>1, <1>7
  <2>2. streams[g].data = streams[g].hdr.size /\ streams[g + 1].at = End(streams[g])
    BY <2>1 DEF Written, Laid
  <2>3. streams[g + 1].at <= Len(medium)  BY <2>1 DEF Written, Laid
  <2>. QED  BY <2>1, <2>2, <2>3, <1>1, <1>2, <1>3, <1>4, <1>5, <1>7
<1>. QED  BY <1>6, <1>7

(* The reader's stream.                                                    *)
LEMMA AtStream ==
  ASSUME Inductive, got # <<>>
  PROVE  LET g == Len(got) IN
         /\ g \in 1..Len(streams) /\ Complete(medium, streams[g])
         /\ got[g].hdr = streams[g].hdr /\ got[g].data \in Nat
         /\ pos = Data(streams[g]) + got[g].data /\ pos <= Len(medium)
         /\ got[g].data + rleft = streams[g].hdr.size
<1>1. got \in Seq(Delivered) /\ streams \in Seq(Streams)  BY DEF Inductive, Typed
<1>2. Len(got) \in Nat /\ Len(got) # 0 /\ DOMAIN got = 1..Len(got)  BY <1>1
<1>3. Len(got) <= Len(streams) /\ Len(streams) \in Nat  BY <1>1 DEF Inductive, ReadsWhatWasWritten
<1>4. Len(got) \in 1..Len(streams) /\ Len(got) \in 1..Len(got)  BY <1>2, <1>3
<1>5. got[Len(got)] \in Delivered  BY <1>1, <1>4
<1>6. got[Len(got)].hdr = streams[Len(got)].hdr  BY <1>2, <1>4 DEF Inductive, ReadsWhatWasWritten
<1>7. got[Len(got)].data \in Nat  BY <1>5 DEF Delivered
<1>. QED  BY <1>4, <1>6, <1>7 DEF Inductive, Reached

(* Read: bytes of the current stream, and an error only if one is missing  *)
(* or the source has said io.EOF too early.                                *)
LEMMA ReadStep ==
  ASSUME Inductive, NEW len \in 1..MaxSize, ReadStream(len)
  PROVE  Inductive'
<1>. DEFINE g == Len(got)
<1>1. wpc # "writing" /\ rpc = "ready" /\ rleft > 0 /\ UNCHANGED <<wvars, seek, eager, ends>>  BY DEF ReadStream
<1>2. /\ got \in Seq(Delivered) /\ streams \in Seq(Streams) /\ medium \in Seq(Items)
      /\ pos \in Nat /\ rleft \in Nat /\ wleft \in Nat /\ wpc \in {"writing", "cut", "ended"}
      /\ Typed /\ Written
  BY DEF Inductive, Typed
<1>3. got # <<>>  BY <1>1, <1>2 DEF Inductive, Reached
<1>4. /\ g \in 1..Len(streams) /\ Complete(medium, streams[g])
      /\ got[g].hdr = streams[g].hdr /\ got[g].data \in Nat
      /\ pos = Data(streams[g]) + got[g].data /\ pos <= Len(medium)
      /\ got[g].data + rleft = streams[g].hdr.size
  BY <1>3, AtStream
<1>5. /\ streams[g] \in Streams /\ streams[g].hdr.size \in Nat /\ streams[g].data \in Nat
      /\ Data(streams[g]) \in Nat /\ Len(medium) \in Nat
      /\ g = Len(streams) => /\ Len(medium) = Data(streams[g]) + streams[g].data
                             /\ wleft = streams[g].hdr.size - streams[g].data
      /\ g # Len(streams) => /\ streams[g].data = streams[g].hdr.size
                             /\ End(streams[g]) <= Len(medium)
  BY <1>2, <1>4, BytesThere
<1>6. Written'  BY <1>1, ReaderSteps
<1>7. UNCHANGED <<medium, streams, wleft, wpc, seek, eager, ends>>  BY <1>1 DEF wvars
<1>8. Len(got) \in Nat /\ g \in 1..Len(got) /\ DOMAIN got = 1..Len(got) /\ Len(got) <= Len(streams)
  BY <1>2, <1>4
<1>9. CASE \E n \in 1..len :
             /\ n <= rleft /\ pos + n <= Len(medium)
             /\ pos' = pos + n /\ rleft' = rleft - n
             /\ got' = [got EXCEPT ![g].data = @ + n]
             /\ rpc' = IF eager /\ pos' = Len(medium) THEN "error" ELSE "ready"
  <2>1. PICK n \in 1..len :
             /\ n <= rleft /\ pos + n <= Len(medium)
             /\ pos' = pos + n /\ rleft' = rleft - n
             /\ got' = [got EXCEPT ![g].data = @ + n]
             /\ rpc' = IF eager /\ pos' = Len(medium) THEN "error" ELSE "ready"
    BY <1>9, Zenon
  <2>2. n \in Nat  BY BackupAssumption
  <2>. DEFINE x == [hdr |-> got[g].hdr, data |-> got[g].data + n]
  <2>3. got[g] \in Delivered  BY <1>2, <1>8
  <2>4. x \in Delivered /\ x.hdr = got[g].hdr /\ x.data = got[g].data + n
        /\ [got[g] EXCEPT !.data = @ + n] = x
    BY <2>2, <2>3 DEF Delivered
  <2>. HIDE DEF x
  <2>5. got' = [got EXCEPT ![g] = x]  BY <2>1, <2>4, Zenon
  <2>6. /\ got' \in Seq(Delivered) /\ Len(got') = g /\ got'[g] = x /\ got' # <<>>
        /\ DOMAIN got' = 1..g /\ \A k \in 1..g : k # g => got'[k] = got[k]
    BY <2>4, <2>5, <1>2, <1>8
  <2>7. pos' \in Nat /\ rleft' \in Nat /\ rpc' \in {"ready", "error"} /\ pos' <= Len(medium)
    <3>1. /\ pos' = pos + n /\ rleft' = rleft - n /\ n <= rleft /\ pos + n <= Len(medium)
          /\ rpc' \in {"ready", "error"}
      BY <2>1, Zenon
    <3>. QED  BY <3>1, <2>2, <1>2
  <2>8. Typed'  BY <2>6, <2>7, <1>2, <1>7, Zenon DEF Typed
  <2>9. Reached'
    <3>1. pos' = Data(streams[g]) + x.data
      <4>1. pos' = (Data(streams[g]) + got[g].data) + n /\ x.data = got[g].data + n
        BY <2>1, <2>4, <1>4
      <4>2. (Data(streams[g]) + got[g].data) + n = Data(streams[g]) + (got[g].data + n)
        BY <2>2, <1>4, <1>5, Sum, Zenon
      <4>. QED  BY <4>1, <4>2, Zenon
    <3>2. x.data + rleft' = streams[g].hdr.size
      <4>1. rleft' = rleft - n /\ x.data = got[g].data + n /\ got[g].data + rleft = streams[g].hdr.size
        BY <2>1, <2>4, <1>4
      <4>. QED  BY <4>1, <2>2, <1>2, <1>4
    <3>. QED  BY <3>1, <3>2, <2>6, <2>7, <1>1, <1>4, <1>7, Zenon DEF Reached
  <2>10. ReadsWhatWasWritten'
    <3>1. x.data <= streams[g].data
      <4>0. n <= rleft /\ pos + n <= Len(medium) /\ x.data = got[g].data + n  BY <2>1, <2>4
      <4>1. x.data <= streams[g].hdr.size  BY <4>0, <2>2, <1>2, <1>4
      <4>2. Data(streams[g]) + x.data <= Len(medium)  BY <4>0, <2>2, <1>4, <1>5
      <4>3. x.data \in Nat  BY <2>2, <2>4, <1>4
      <4>4. CASE g = Len(streams)  BY <4>2, <4>3, <4>4, <1>5
      <4>5. CASE g # Len(streams)  BY <4>1, <4>5, <1>5
      <4>. QED  BY <4>4, <4>5
    <3>2. \A k \in 1..g : got[k].hdr = streams[k].hdr /\ got[k].data <= streams[k].data
      BY <1>8 DEF Inductive, ReadsWhatWasWritten
    <3>3. \A k \in 1..g : got'[k].hdr = streams[k].hdr /\ got'[k].data <= streams[k].data
      BY <3>1, <3>2, <2>4, <2>6, <1>4
    <3>4. rpc' = "error" => eager  BY <2>1
    <3>. QED  BY <3>3, <3>4, <2>6, <2>7, <1>7, <1>8, Zenon DEF ReadsWhatWasWritten
  <2>. QED  BY <1>6, <2>8, <2>9, <2>10 DEF Inductive
<1>10. CASE pos >= Len(medium) /\ rpc' = "error" /\ UNCHANGED <<pos, rleft, got>>
  <2>1. wpc = "cut"
    <3>1. g = Len(streams)  BY <1>1, <1>2, <1>4, <1>5, <1>10 DEF End
    <3>2. got[g].data = streams[g].data  BY <3>1, <1>2, <1>4, <1>5, <1>10
    <3>3. wleft = rleft  BY <3>1, <3>2, <1>2, <1>4, <1>5
    <3>. QED  BY <3>3, <1>1, <1>2 DEF Written
  <2>2. Typed'  BY <1>2, <1>7, <1>10 DEF Typed
  <2>3. Reached'  BY <2>1, <1>7, <1>10 DEF Inductive, Reached
  <2>4. ReadsWhatWasWritten'  BY <2>1, <1>7, <1>10 DEF Inductive, ReadsWhatWasWritten
  <2>. QED  BY <1>6, <2>2, <2>3, <2>4 DEF Inductive
<1>. QED  BY <1>9, <1>10 DEF ReadStream

(* Next skips to where the next stream begins, or to the end.              *)
LEMMA SkipsTo ==
  ASSUME Inductive
  PROVE  /\ pos + rleft \in Nat
         /\ Len(got) = Len(streams) => pos + rleft >= Len(medium)
         /\ Len(got) # Len(streams) => /\ Len(got) + 1 \in 1..Len(streams)
                                       /\ streams[Len(got) + 1].at = pos + rleft
<1>1. /\ got \in Seq(Delivered) /\ streams \in Seq(Streams) /\ medium \in Seq(Items)
      /\ pos \in Nat /\ rleft \in Nat /\ Typed /\ Written
  BY DEF Inductive, Typed
<1>2. Len(got) <= Len(streams) /\ Len(got) \in Nat /\ Len(streams) \in Nat
  BY <1>1 DEF Inductive, ReadsWhatWasWritten
<1>3. CASE got = <<>>
  <2>1. pos = 0 /\ rleft = 0 /\ Len(got) = 0  BY <1>3 DEF Inductive, Reached
  <2>2. CASE streams = <<>>
    <3>1. Len(medium) = 0 /\ Len(streams) = 0  BY <2>2, <1>1 DEF Written, Laid
    <3>. QED  BY <2>1, <3>1
  <2>3. CASE streams # <<>>
    <3>1. Len(streams) # 0 /\ streams[1].at = 0  BY <2>3, <1>1 DEF Written, Laid
    <3>. QED  BY <2>1, <3>1, <1>2
  <2>. QED  BY <2>2, <2>3
<1>4. CASE got # <<>>
  <2>. DEFINE g == Len(got)
  <2>1. /\ g \in 1..Len(streams) /\ Complete(medium, streams[g]) /\ got[g].data \in Nat
        /\ pos = Data(streams[g]) + got[g].data /\ got[g].data + rleft = streams[g].hdr.size
    BY <1>4, AtStream
  <2>2. /\ streams[g].hdr.size \in Nat /\ streams[g].data \in Nat
        /\ Data(streams[g]) \in Nat /\ Len(medium) \in Nat
        /\ g = Len(streams) => Len(medium) = Data(streams[g]) + streams[g].data
        /\ g # Len(streams) => g + 1 \in 1..Len(streams) /\ streams[g + 1].at = End(streams[g])
    BY <2>1, <1>1, BytesThere
  <2>3. pos + rleft = End(streams[g])  BY <2>1, <2>2, <1>1 DEF End
  <2>4. streams[g].data <= streams[g].hdr.size  BY <2>1 DEF Inductive, Written, Laid
  <2>5. g = Len(streams) => pos + rleft >= Len(medium)  BY <2>2, <2>3, <2>4 DEF End
  <2>. QED  BY <2>2, <2>3, <2>5, <1>1
<1>. QED  BY <1>3, <1>4

(* Next, where the header is whole: the reader delivers it, and stands at  *)
(* the first byte of its stream.                                           *)
LEMMA ReadsHeader ==
  ASSUME Typed, NEW s \in Streams, Complete(medium, s), NextHeader(s.at)
  PROVE  /\ pos' = Data(s) /\ rleft' = s.hdr.size /\ UNCHANGED rpc
         /\ got' = Append(got, [hdr |-> s.hdr, data |-> 0])
<1>. DEFINE e == Encoded(s.hdr)
            p == s.at
            fixed == medium[p + 1]
            rest == Len(Following(fixed.id, fixed.named))
            bad == {k \in 0..rest : ReadItem(p + k) # "ready"}
<1>1. /\ s.hdr \in Headers /\ p \in Nat /\ Len(medium) \in Nat
      /\ s.hdr.id \in {"data", "block"} /\ s.hdr.size \in Nat
  BY BackupAssumption DEF Streams, Headers, Typed
<1>2. /\ Len(e) = 1 + Len(Following(s.hdr.id, s.hdr.named)) /\ Len(e) \in Nat \ {0}
      /\ e[1] = Fixed(s.hdr.id, s.hdr.named, s.hdr.size + Extra(s.hdr.id))
      /\ \A j \in 1..Len(e) : e[j].item # "part"
  BY <1>1, EncodedIs
<1>3. p + Len(e) <= Len(medium) /\ \A j \in 1..Len(e) : medium[p + j] = e[j]
  BY DEF Complete, Starts
<1>4. fixed = e[1]  BY <1>2, <1>3
<1>5. /\ fixed.id = s.hdr.id /\ fixed.named = s.hdr.named
      /\ fixed.size = s.hdr.size + Extra(s.hdr.id)
  BY <1>2, <1>4 DEF Fixed
<1>6. rest = Len(e) - 1 /\ rest \in Nat
  <2>1. Len(Following(s.hdr.id, s.hdr.named)) \in Nat  BY FollowingIs
  <2>. QED  BY <2>1, <1>2, <1>5
<1>. HIDE DEF e, fixed, rest
<1>7. \A k \in 0..rest : ReadItem(p + k) = "ready"
  <2>. SUFFICES ASSUME NEW k \in 0..rest PROVE ReadItem(p + k) = "ready"  OBVIOUS
  <2>1. k + 1 \in 1..Len(e) /\ ~(p + k >= Len(medium)) /\ p + k + 1 = p + (k + 1)
    BY <1>1, <1>2, <1>3, <1>6
  <2>2. medium[p + k + 1].item # "part"  BY <2>1, <1>2, <1>3
  <2>. QED  BY <2>1, <2>2 DEF ReadItem
<1>8. ReadItem(p) = "ready"
  <2>1. 0 \in 0..rest /\ p + 0 = p  BY <1>1, <1>6
  <2>. QED  BY <2>1, <1>7
<1>9. bad = {}  BY <1>7
<1>10. /\ pos' = p + 1 + rest /\ rleft' = fixed.size - Extra(fixed.id) /\ UNCHANGED rpc
       /\ got' = Append(got, [hdr |-> [id |-> fixed.id, named |-> fixed.named, size |-> rleft'], data |-> 0])
  BY <1>8, <1>9 DEF NextHeader, fixed, rest
<1>11. Extra(s.hdr.id) \in Nat  BY DEF Extra, OffsetSize
<1>12. rleft' = s.hdr.size  BY <1>1, <1>5, <1>10, <1>11
<1>13. [id |-> fixed.id, named |-> fixed.named, size |-> rleft'] = s.hdr
  BY <1>1, <1>5, <1>12 DEF Headers
<1>14. pos' = p + Len(e)
  <2>1. pos' = p + 1 + rest  BY <1>10
  <2>. QED  BY <2>1, <1>1, <1>2, <1>6
<1>15. pos' = Data(s)  BY <1>14 DEF Data, e
<1>. QED  BY <1>10, <1>12, <1>13, <1>15

(* Next, where the header is cut: io.EOF if the cut is right behind an     *)
(* item that another should follow, and an unexpected EOF within one.      *)
LEMMA ReadsBroken ==
  ASSUME Typed, NEW s \in Streams, Broken(medium, s), NextHeader(s.at)
  PROVE  /\ UNCHANGED <<pos, rleft, got>> /\ rpc' \in {"EOF", "error"}
         /\ rpc' = "EOF" => medium[Len(medium)].item \in {"header", "name"}
<1>. DEFINE e == Encoded(s.hdr)
            p == s.at
            fixed == medium[p + 1]
            rest == Len(Following(fixed.id, fixed.named))
            bad == {k \in 0..rest : ReadItem(p + k) # "ready"}
<1>1. s.hdr \in Headers /\ p \in Nat /\ Len(medium) \in Nat  BY DEF Streams, Typed
<1>2. /\ Len(e) = 1 + Len(Following(s.hdr.id, s.hdr.named)) /\ Len(e) \in Nat \ {0}
      /\ e[1] = Fixed(s.hdr.id, s.hdr.named, s.hdr.size + Extra(s.hdr.id))
      /\ \A j \in 1..Len(e) : e[j].item # "part"
      /\ \A j \in 1..(Len(e) - 1) : e[j].item \in {"header", "name"}
  BY <1>1, EncodedIs
<1>3. PICK n \in 0..(Len(e) - 1) :
        /\ Starts(medium, s, n)
        /\ \/ n > 0 /\ Len(medium) = p + n
           \/ Len(medium) = p + n + 1 /\ medium[p + n + 1].item = "part"
  BY DEF Broken
<1>4. n \in Nat /\ n <= Len(e) - 1 /\ p + n <= Len(medium) /\ \A j \in 1..n : medium[p + j] = e[j]
  BY <1>2, <1>3 DEF Starts
<1>. HIDE DEF e
<1>5. ReadItem(p + n) = IF Len(medium) = p + n THEN ends ELSE "error"
  <2>1. CASE Len(medium) = p + n  BY <2>1, <1>1, <1>4 DEF ReadItem
  <2>2. CASE Len(medium) # p + n
    <3>1. medium[p + n + 1].item = "part" /\ ~(p + n >= Len(medium))  BY <2>2, <1>1, <1>3, <1>4
    <3>. QED  BY <3>1, <2>2 DEF ReadItem
  <2>. QED  BY <2>1, <2>2
<1>6. \A k \in 0..(n - 1) : ReadItem(p + k) = "ready"
  <2>. SUFFICES ASSUME NEW k \in 0..(n - 1) PROVE ReadItem(p + k) = "ready"  OBVIOUS
  <2>1. /\ p \in Nat /\ Len(medium) \in Nat /\ Len(e) \in Nat /\ n \in Nat /\ k \in Nat /\ k < n
        /\ n <= Len(e) - 1 /\ p + n <= Len(medium)
    BY <1>1, <1>2, <1>4
  <2>2. k + 1 \in 1..n /\ k + 1 \in 1..Len(e)  BY <2>1
  <2>3. ~(p + k >= Len(medium)) /\ p + k + 1 = p + (k + 1)  BY <2>1
  <2>4. medium[p + k + 1].item # "part"  BY <2>2, <2>3, <1>2, <1>4
  <2>. QED  BY <2>3, <2>4 DEF ReadItem
<1>7. UNCHANGED <<pos, rleft, got>> /\ rpc' = ReadItem(p + n)
  <2>1. CASE n = 0
    <3>1. p + n = p /\ ReadItem(p) # "ready"  BY <2>1, <1>1, <1>5 DEF Typed
    <3>. QED  BY <3>1 DEF NextHeader
  <2>2. CASE n # 0
    <3>1. 1 \in 1..n /\ 0 \in 0..(n - 1) /\ p + 0 = p  BY <2>2, <1>1, <1>4
    <3>2. fixed = e[1] /\ ReadItem(p) = "ready"  BY <3>1, <1>4, <1>6
    <3>3. fixed.id = s.hdr.id /\ fixed.named = s.hdr.named  BY <3>2, <1>2 DEF Fixed
    <3>4. rest = Len(e) - 1
      <4>1. Len(Following(s.hdr.id, s.hdr.named)) \in Nat  BY FollowingIs
      <4>. QED  BY <4>1, <3>3, <1>2
    <3>. HIDE DEF fixed, rest
    <3>5. n \in 0..rest /\ rest \in Nat  BY <3>4, <1>2, <1>4
    <3>6. n \in bad  BY <3>5, <1>5 DEF Typed
    <3>7. bad \subseteq Nat /\ \A j \in bad : n <= j
      <4>. SUFFICES ASSUME NEW j \in bad PROVE j \in Nat /\ n <= j  OBVIOUS
      <4>1. j \in Nat /\ ReadItem(p + j) # "ready"  BY <3>5
      <4>2. ~(j \in 0..(n - 1))  BY <4>1, <1>6
      <4>. QED  BY <4>1, <4>2, <1>4
    <3>8. /\ rpc' = ReadItem(p + CHOOSE k \in bad : \A j \in bad : k <= j)
          /\ UNCHANGED <<pos, rleft, got>>
      BY <3>2, <3>6 DEF NextHeader, fixed, rest
    <3>. HIDE DEF bad
    <3>9. (CHOOSE k \in bad : \A j \in bad : k <= j) = n
      <4>1. \A k \in bad : (\A j \in bad : k <= j) => k = n  BY <3>6, <3>7, <1>4
      <4>. QED  BY <3>6, <3>7, <4>1, Zenon
    <3>. QED  BY <3>8, <3>9, Zenon
  <2>. QED  BY <2>1, <2>2
<1>8. rpc' = "EOF" => medium[Len(medium)].item \in {"header", "name"}
  <2>. SUFFICES ASSUME rpc' = "EOF" PROVE medium[Len(medium)].item \in {"header", "name"}  OBVIOUS
  <2>1. Len(medium) = p + n  BY <1>5, <1>7
  <2>2. n > 0  BY <2>1, <1>1, <1>3, <1>4
  <2>3. n \in 1..n /\ n \in 1..(Len(e) - 1)  BY <2>2, <1>2, <1>4
  <2>4. medium[Len(medium)] = e[n]  BY <2>1, <2>3, <1>4
  <2>. QED  BY <2>3, <2>4, <1>2
<1>. QED  BY <1>5, <1>7, <1>8 DEF Typed

(* Next: the rest of the stream is skipped, if it is there, and the header *)
(* behind it is delivered, if it is there.                                 *)
LEMMA NextStreamStep ==
  ASSUME Inductive, NextStream
  PROVE  Inductive'
<1>. DEFINE g == Len(got)
<1>1. wpc # "writing" /\ rpc = "ready" /\ UNCHANGED <<wvars, seek, eager, ends>>  BY DEF NextStream
<1>2. UNCHANGED <<medium, streams, wleft, wpc, seek, eager, ends>>  BY <1>1 DEF wvars
<1>3. /\ got \in Seq(Delivered) /\ streams \in Seq(Streams) /\ medium \in Seq(Items) /\ Len(medium) \in Nat
      /\ pos \in Nat /\ rleft \in Nat /\ wleft \in Nat /\ wpc \in {"writing", "cut", "ended"}
      /\ Typed /\ Written
  BY DEF Inductive, Typed
<1>4. Written'  BY <1>1, ReaderSteps
<1>5. /\ g <= Len(streams) /\ g \in Nat /\ Len(streams) \in Nat /\ DOMAIN got = 1..g
      /\ \A k \in 1..g : got[k].hdr = streams[k].hdr /\ got[k].data <= streams[k].data
  BY <1>3 DEF Inductive, ReadsWhatWasWritten
<1>6. /\ pos + rleft \in Nat
      /\ g = Len(streams) => pos + rleft >= Len(medium)
      /\ g # Len(streams) => g + 1 \in 1..Len(streams) /\ streams[g + 1].at = pos + rleft
  BY SkipsTo
<1>7. \A k \in 1..Len(streams) : streams[k] \in Streams  BY <1>3
(* The calls that end the reading leave the reader where it is.            *)
<1>8. ASSUME UNCHANGED <<pos, rleft, got>>, rpc' \in {"EOF", "error"},
             rpc' = "EOF" =>
               /\ \/ g = Len(streams)
                  \/ g = Len(streams) - 1 /\ medium[Len(medium)].item \in {"header", "name"}
               /\ seek # "works" => \A k \in 1..g : streams[k].data = streams[k].hdr.size,
             rpc' = "error" => wpc = "cut" \/ eager \/ ends = "error" \/ seek = "breaks"
      PROVE  Inductive'
  <2>1. Typed'  BY <1>2, <1>3, <1>8 DEF Typed
  <2>2. Reached'  BY <1>1, <1>2, <1>8 DEF Inductive, Reached
  <2>3. ReadsWhatWasWritten'  BY <1>2, <1>5, <1>8 DEF ReadsWhatWasWritten
  <2>. QED  BY <1>4, <2>1, <2>2, <2>3 DEF Inductive
<1>9. CASE ~CanSkip
  <2>1. UNCHANGED <<pos, rleft, got>> /\ rpc' = "error"  BY <1>9 DEF NextStream
  <2>2. rleft > 0 /\ (pos + rleft > Len(medium) \/ eager \/ seek = "breaks")
    BY <1>3, <1>6, <1>9 DEF CanSkip
  <2>3. wpc = "cut" \/ eager \/ seek = "breaks"
    <3>. SUFFICES ASSUME pos + rleft > Len(medium) PROVE wpc = "cut"  BY <2>2
    <3>1. got # <<>>  BY <2>2, <1>3 DEF Inductive, Reached
    <3>2. /\ g \in 1..Len(streams) /\ Complete(medium, streams[g]) /\ got[g].data \in Nat
          /\ pos = Data(streams[g]) + got[g].data /\ got[g].data + rleft = streams[g].hdr.size
      BY <3>1, AtStream
    <3>3. /\ streams[g].hdr.size \in Nat /\ streams[g].data \in Nat /\ Data(streams[g]) \in Nat
          /\ g = Len(streams) => /\ Len(medium) = Data(streams[g]) + streams[g].data
                                 /\ wleft = streams[g].hdr.size - streams[g].data
          /\ g # Len(streams) => End(streams[g]) <= Len(medium)
      BY <3>2, <1>3, BytesThere
    <3>4. pos + rleft = End(streams[g])  BY <3>2, <3>3, <1>3 DEF End
    <3>5. g = Len(streams)  BY <3>3, <3>4, <1>3, <1>6 DEF End
    <3>6. wleft # 0  BY <3>3, <3>4, <3>5, <1>3 DEF End
    <3>. QED  BY <3>6, <1>1, <1>3 DEF Written
  <2>. QED  BY <2>1, <2>3, <1>8
<1>10. CASE CanSkip /\ g = Len(streams)
  <2>1. NextHeader(pos + rleft)  BY <1>10 DEF NextStream
  <2>2. ReadItem(pos + rleft) = ends /\ ends \in {"EOF", "error"}
    BY <1>3, <1>6, <1>10 DEF ReadItem, Typed
  <2>3. UNCHANGED <<pos, rleft, got>> /\ rpc' = ends  BY <2>1, <2>2 DEF NextHeader
  <2>4. ASSUME seek # "works", NEW k \in 1..g PROVE streams[k].data = streams[k].hdr.size
    <3>1. CASE k # g
      <4>0. g = Len(streams) /\ g \in Nat  BY <1>5, <1>10
      <4>1. k \in 1..(Len(streams) - 1)  BY <3>1, <4>0
      <4>. QED  BY <4>1, <1>3 DEF Written, Laid
    <3>2. CASE k = g
      <4>1. got # <<>>  BY <1>3
      <4>2. /\ g \in 1..Len(streams) /\ Complete(medium, streams[g]) /\ got[g].data \in Nat
            /\ pos = Data(streams[g]) + got[g].data /\ pos <= Len(medium)
            /\ got[g].data + rleft = streams[g].hdr.size
        BY <4>1, AtStream
      <4>3. /\ streams[g].hdr.size \in Nat /\ streams[g].data \in Nat /\ Data(streams[g]) \in Nat
            /\ Len(medium) = Data(streams[g]) + streams[g].data
        BY <4>2, <1>3, <1>10, BytesThere
      <4>4. pos + rleft = Data(streams[g]) + streams[g].hdr.size
        <5>1. pos = Data(streams[g]) + got[g].data /\ got[g].data + rleft = streams[g].hdr.size
          BY <4>2
        <5>2. got[g].data \in Nat /\ rleft \in Nat /\ Data(streams[g]) \in Nat
          BY <4>2, <4>3, <1>3
        <5>. QED  BY <5>1, <5>2
      <4>5. pos + rleft <= Len(medium)  BY <4>2, <4>3, <2>4, <1>3, <1>10 DEF CanSkip
      <4>6. streams[g].data <= streams[g].hdr.size  BY <4>2, <1>3 DEF Written, Laid
      <4>. QED  BY <3>2, <4>3, <4>4, <4>5, <4>6
    <3>. QED  BY <3>1, <3>2
  <2>. QED  BY <2>2, <2>3, <2>4, <1>8, <1>10
<1>11. CASE CanSkip /\ g # Len(streams)
  <2>. DEFINE s == streams[g + 1]
  <2>1. g + 1 \in 1..Len(streams) /\ s.at = pos + rleft /\ s \in Streams /\ NextHeader(s.at)
    <3>1. g + 1 \in 1..Len(streams) /\ s.at = pos + rleft /\ s \in Streams  BY <1>6, <1>7, <1>11
    <3>. QED  BY <3>1, <1>11 DEF NextStream
  <2>2. CASE Complete(medium, s)
    <3>. DEFINE x == [hdr |-> s.hdr, data |-> 0]
    <3>1. pos' = Data(s) /\ rleft' = s.hdr.size /\ UNCHANGED rpc /\ got' = Append(got, x)
      BY <2>1, <2>2, <1>3, ReadsHeader, Zenon
    <3>2. s.hdr \in Headers /\ s.hdr.size \in Nat /\ s.data \in Nat /\ s.at \in Nat
      BY <2>1, BackupAssumption DEF Streams, Headers
    <3>3. x \in Delivered /\ x.hdr = s.hdr /\ x.data = 0  BY <3>2 DEF Delivered
    <3>. HIDE DEF x
    <3>4. /\ got' \in Seq(Delivered) /\ Len(got') = g + 1 /\ got'[g + 1] = x /\ DOMAIN got' = 1..(g + 1)
          /\ \A k \in 1..g : got'[k] = got[k]
      BY <3>1, <3>3, <1>3
    <3>5. Len(Encoded(s.hdr)) \in Nat /\ Data(s) \in Nat /\ Data(s) <= Len(medium)
      <4>1. Len(Encoded(s.hdr)) \in Nat  BY <3>2, EncodedIs
      <4>. QED  BY <4>1, <2>2, <3>2 DEF Data, Complete, Starts
    <3>6. Typed'  BY <3>1, <3>2, <3>4, <3>5, <1>1, <1>2, <1>3 DEF Typed
    <3>7. Reached'
      <4>1. got' # <<>>  BY <3>4, <1>5
      <4>. HIDE DEF s
      <4>2. streams'[Len(got')] = s  BY <3>4, <1>2 DEF s
      <4>3. pos' = Data(s) + x.data /\ x.data + rleft' = s.hdr.size  BY <3>1, <3>2, <3>3, <3>5
      <4>. QED  BY <4>1, <4>2, <4>3, <2>2, <3>1, <3>4, <3>5, <1>1, <1>2 DEF Reached
    <3>8. ReadsWhatWasWritten'
      <4>1. \A k \in 1..(g + 1) : got'[k].hdr = streams[k].hdr /\ got'[k].data <= streams[k].data
        <5>. SUFFICES ASSUME NEW k \in 1..(g + 1)
                      PROVE  got'[k].hdr = streams[k].hdr /\ got'[k].data <= streams[k].data
          OBVIOUS
        <5>1. CASE k = g + 1  BY <5>1, <3>2, <3>3, <3>4
        <5>2. CASE k # g + 1
          <6>1. k \in 1..g  BY <5>2, <1>5
          <6>. QED  BY <6>1, <3>4, <1>5
        <5>. QED  BY <5>1, <5>2
      <4>2. g + 1 <= Len(streams)  BY <2>1, <1>5
      <4>3. rpc' = "ready"  BY <3>1, <1>1
      <4>. QED  BY <4>1, <4>2, <4>3, <3>4, <1>2 DEF ReadsWhatWasWritten
    <3>. QED  BY <1>4, <3>6, <3>7, <3>8 DEF Inductive
  <2>3. CASE ~Complete(medium, s)
    <3>1. g + 1 = Len(streams)
      <4>1. ~(g + 1 \in 1..(Len(streams) - 1))  BY <2>3, <1>3 DEF Written, Laid
      <4>. QED  BY <4>1, <2>1, <1>5
    <3>2. wpc = "cut" /\ Broken(medium, s)
      <4>1. streams # <<>>  BY <3>1, <1>3, <1>5
      <4>. QED  BY <4>1, <2>3, <3>1, <1>3 DEF Written, Latest
    <3>3. /\ UNCHANGED <<pos, rleft, got>> /\ rpc' \in {"EOF", "error"}
          /\ rpc' = "EOF" => medium[Len(medium)].item \in {"header", "name"}
      BY <2>1, <3>2, <1>3, ReadsBroken
    <3>4. \A k \in 1..g : streams[k].data = streams[k].hdr.size
      <4>1. \A k \in 1..g : k \in 1..(Len(streams) - 1)  BY <3>1, <1>5
      <4>. QED  BY <4>1, <1>3 DEF Written, Laid
    <3>5. g = Len(streams) - 1  BY <3>1, <1>5
    <3>. QED  BY <3>2, <3>3, <3>4, <3>5, <1>8
  <2>. QED  BY <2>2, <2>3
<1>. QED  BY <1>9, <1>10, <1>11

-----------------------------------------------------------------------------
(* BackupStreamWriter and BackupStreamReader, for all numbers and sizes of *)
(* streams, all buffers, every place where the writing may stop and every  *)
(* kind of source: what is read is what was written.                       *)
THEOREM BackupReadsWhatWasWritten == BSpec => []ReadsWhatWasWritten
<1>1. Inductive /\ [BNext]_bvars => Inductive'
  <2>. SUFFICES ASSUME Inductive, [BNext]_bvars PROVE Inductive'  OBVIOUS
  <2>1. CASE UNCHANGED bvars
    <3>1. UNCHANGED <<medium, streams, wleft, wpc, seek, eager, ends, pos, rleft, rpc, got>>
      BY <2>1 DEF bvars, wvars
    <3>2. UNCHANGED <<wvars, seek, eager, ends>>  BY <3>1 DEF wvars
    <3>3. Written'  BY <3>2, ReaderSteps
    <3>4. Typed' /\ Reached' /\ ReadsWhatWasWritten'
      BY <3>1 DEF Inductive, Typed, Reached, ReadsWhatWasWritten
    <3>. QED  BY <3>3, <3>4 DEF Inductive
  <2>. QED  BY <2>1, WriteHeaderStep, WriteStep, WriteEndsStep, ReadStep, NextStreamStep DEF BNext
<1>2. Inductive => ReadsWhatWasWritten  BY DEF Inductive
<1>. QED  BY <1>1, <1>2, InitInductive, PTL DEF BSpec
=============================================================================
