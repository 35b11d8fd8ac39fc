----------------------------- MODULE WimProofs ------------------------------
(***************************************************************************)
(* What Readdir lists, for every valid image and any number of goroutines: *)
(* one of them reads at a time (LockInv), at the place that curOffset says *)
(* while nothing was skipped (PlaceInv), and it has read the entries of    *)
(* its directory up to there (ListOf).                                     *)
(*                                                                         *)
(* What File.Open and Stream.Open read, for every WIM file: the table maps *)
(* a hash to a resource with that hash (TableInv), every image gets the    *)
(* XML element of its own index (InfosInv), and the streams read so far    *)
(* have made the file what the entry says (FileInv).                       *)
(***************************************************************************)
EXTENDS WimReader, WimImage, WellFoundedInduction, TLAPS

(* Readdir is called once the security descriptors have been read, and one *)
(* goroutine at a time reads.                                              *)
LockInv ==
  /\ gpc \in [Goroutines -> {"idle", "security", "readdir", "read", "returned"}]
  /\ offset \in [Goroutines -> Int] /\ DOMAIN list = Goroutines
  /\ DOMAIN result = Goroutines /\ DOMAIN sound = Goroutines
  /\ curOffset \in Int
  /\ sds => rootOffset = SecuritySize
  /\ ~sds => rootOffset = 0
  /\ \A g \in Goroutines :
       /\ gpc[g] \in {"readdir", "read"} => sds /\ offset[g] \in DOMAIN Directories
       /\ gpc[g] = "security" => g = Opener /\ ~sds
       /\ gpc[g] = "read" => m = g

(* As long as nothing was skipped, curOffset is the reader's place.        *)
PlaceInv ==
  sds /\ r # None /\ ~skipped => r \in ResourceReaders /\ PlaceOf(r) = curOffset

(* readdir has read the entries of its directory up to the reader's place. *)
Reading(g) ==
  LET k == Len(list[g])
  IN  /\ r \in ResourceReaders /\ list[g] \in Seq(DOMAIN Entries)
      /\ k <= Len(Directories[offset[g]])
      /\ \A j \in 1..k : list[g][j] = Directories[offset[g]][j]
      /\ PlaceOf(r) = Behind(offset[g], k)

ListOf(g) ==
  /\ gpc[g] = "read" /\ ~skipped => sound[g]
  /\ gpc[g] = "read" /\ sound[g] => Reading(g)
  /\ gpc[g] = "returned" /\ sound[g] =>
       /\ result[g] # "invalid"
       /\ result[g] = "ok" => list[g] = Directories[offset[g]]

ImageInv == LockInv /\ PlaceInv /\ \A g \in Goroutines : ListOf(g)

-----------------------------------------------------------------------------
(* The reader delivers one byte, the one it stands at, and then any number *)
(* of bytes that there are.                                                *)
LEMMA TakeIs ==
  ASSUME ReadsInOrder, NEW rd \in ResourceReaders, NEW n \in Nat, PlaceOf(rd) + n <= OriginalSize
  PROVE  /\ ReadBytes(rd, n).r \in ResourceReaders /\ PlaceOf(ReadBytes(rd, n).r) = PlaceOf(rd) + n
         /\ Len(ReadBytes(rd, n).bytes) = n
         /\ n > 0 => ReadBytes(rd, n).bytes # <<>> /\ ReadBytes(rd, n).bytes[1] = PlaceOf(rd)
<1>1. n \in 0..OriginalSize /\ PlaceOf(rd) \in Nat  BY DEF ReadsInOrder
<1>2. /\ ReadBytes(rd, n).bytes = [k \in 1..n |-> PlaceOf(rd) + k - 1]
      /\ ReadBytes(rd, n).r \in ResourceReaders /\ PlaceOf(ReadBytes(rd, n).r) = PlaceOf(rd) + n
  BY <1>1 DEF ReadsInOrder
<1>3. Len(ReadBytes(rd, n).bytes) = n  BY <1>2
<1>4. ASSUME n > 0 PROVE ReadBytes(rd, n).bytes # <<>> /\ ReadBytes(rd, n).bytes[1] = PlaceOf(rd)
  BY <1>1, <1>2, <1>3, <1>4
<1>. QED  BY <1>2, <1>3, <1>4

(* A directory's entries and its end mark lie where LaidOut says.          *)
LEMMA EntryIs ==
  ASSUME LaidOut, NEW dir \in DOMAIN Directories, NEW k \in Nat, k <= Len(Directories[dir])
  PROVE  /\ Behind(dir, k) \in 0..(OriginalSize - 1)
         /\ Behind(dir, k) \in EndMarks <=> k = Len(Directories[dir])
         /\ k < Len(Directories[dir]) =>
              /\ Behind(dir, k) \in DOMAIN Entries /\ Behind(dir, k) = Directories[dir][k + 1]
              /\ Behind(dir, k + 1) = Behind(dir, k) + EntrySize(Entries[Behind(dir, k)])
              /\ EntrySize(Entries[Behind(dir, k)]) \in Nat
<1>1. /\ k \in 0..Len(Directories[dir]) /\ Len(Directories[dir]) \in Nat
      /\ Directories[dir] \in Seq(DOMAIN Entries)
  BY DEF LaidOut
<1>2. /\ Behind(dir, k) \in 0..(OriginalSize - 1)
      /\ k < Len(Directories[dir]) => Directories[dir][k + 1] = Behind(dir, k)
      /\ ~(k < Len(Directories[dir])) => Behind(dir, k) \in EndMarks
  BY <1>1 DEF LaidOut
<1>3. ASSUME k < Len(Directories[dir])
      PROVE  /\ Behind(dir, k) \in DOMAIN Entries /\ Behind(dir, k) \notin EndMarks
             /\ Behind(dir, k + 1) = Behind(dir, k) + EntrySize(Entries[Behind(dir, k)])
             /\ EntrySize(Entries[Behind(dir, k)]) \in Nat
  <2>1. Behind(dir, k) \in DOMAIN Entries  BY <1>1, <1>2, <1>3
  <2>2. Behind(dir, k) \notin EndMarks  BY <2>1 DEF LaidOut
  <2>. DEFINE e == Behind(dir, k)
  <2>3. Entries[e].length \in Nat /\ Entries[e].streams \in Nat /\ e \in Int  BY <1>2, <2>1 DEF LaidOut
  <2>4. Behind(dir, k + 1) = e + Entries[e].length + Entries[e].streams
    <3>1. k + 1 # 0 /\ Directories[dir][k + 1] = e  BY <1>2, <1>3
    <3>. HIDE DEF e
    <3>. QED  BY <3>1 DEF Behind
  <2>. QED  BY <2>1, <2>2, <2>3, <2>4 DEF EntrySize
<1>. QED  BY <1>1, <1>2, <1>3

-----------------------------------------------------------------------------
(* A new image satisfies the invariant.                                    *)
LEMMA ImageInit == ReadsInOrder /\ LaidOut /\ DInit => ImageInv
<1>. SUFFICES ASSUME DInit PROVE ImageInv  OBVIOUS
<1>1. ~sds /\ ~skipped  BY Zenon DEF DInit
<1>2. LockInv  BY <1>1 DEF DInit, LockInv
<1>3. PlaceInv  BY <1>1 DEF PlaceInv
<1>4. \A g \in Goroutines : ListOf(g)  BY DEF DInit, ListOf
<1>. QED  BY <1>2, <1>3, <1>4 DEF ImageInv

(* Open, Readdir and Close keep to the lock and to the directories.        *)
LEMMA LockNext == ReadsInOrder /\ LaidOut /\ LockInv /\ [DNext]_dvars => LockInv'
<1>. SUFFICES ASSUME ReadsInOrder, LaidOut, LockInv, [DNext]_dvars PROVE LockInv'  OBVIOUS
<1>0. SecuritySize \in DOMAIN Directories /\ SecuritySize \in Int
      /\ (\A dir \in DOMAIN Directories : dir \in Int) /\ None \notin Goroutines
      /\ \A e \in DOMAIN Entries : EntrySize(Entries[e]) \in Nat
  BY DEF LaidOut, ReadsInOrder, EntrySize
<1>1. ASSUME NEW g \in Goroutines, Open(g) PROVE LockInv'
  BY <1>0, <1>1 DEF LockInv, Open, GoesTo, ivars
<1>2. ASSUME NEW g \in Goroutines, ReadSecurity(g) PROVE LockInv'
  <2>1. CASE UNCHANGED ivars  BY <2>1, <1>0, <1>2 DEF LockInv, ReadSecurity, GoesTo, Return, ivars
  <2>2. CASE /\ GoesTo(g, "security", "readdir") /\ sds' = TRUE
             /\ rootOffset' = SecuritySize /\ curOffset' = SecuritySize
             /\ offset' = [offset EXCEPT ![g] = SecuritySize]
             /\ UNCHANGED <<m, list, result, sound>>
    <3>1. sds'  BY <2>2, Zenon
    <3>2. \A h \in Goroutines : gpc[h] = "security" => h = g
      BY <2>2 DEF LockInv, GoesTo
    <3>. QED  BY <1>0, <2>2, <3>1, <3>2 DEF LockInv, GoesTo
  <2>. QED  BY <1>2, <2>1, <2>2 DEF ReadSecurity
<1>3. ASSUME NEW g \in Goroutines, NEW dir \in DOMAIN Directories, Readdir(g, dir) PROVE LockInv'
  BY <1>0, <1>3 DEF LockInv, Readdir, GoesTo, ivars
<1>4. ASSUME NEW g \in Goroutines, Seek(g) PROVE LockInv'
  <2>1. /\ gpc[g] = "readdir" /\ m = None /\ UNCHANGED <<sds, rootOffset, offset>>
        /\ DOMAIN list' = Goroutines /\ DOMAIN sound' = Goroutines /\ DOMAIN result' = Goroutines
        /\ curOffset' \in Int
        /\ \/ gpc' = [gpc EXCEPT ![g] = "returned"]
           \/ gpc' = [gpc EXCEPT ![g] = "read"] /\ m' = g
    BY <1>4 DEF LockInv, Seek, Fails, Return
  <2>. QED  BY <1>0, <2>1 DEF LockInv
<1>5. ASSUME NEW g \in Goroutines, ReadNextEntry(g) PROVE LockInv'
  <2>1. /\ gpc[g] = "read" /\ UNCHANGED <<sds, rootOffset, offset, sound>>
        /\ DOMAIN list' = Goroutines /\ DOMAIN result' = Goroutines
        /\ \/ gpc' = [gpc EXCEPT ![g] = "returned"]
           \/ gpc' = gpc /\ m' = m
    BY <1>5 DEF LockInv, ReadNextEntry, Fails, Return
  <2>2. curOffset' \in Int  BY <1>0, <1>5 DEF LockInv, ReadNextEntry, Fails
  <2>. QED  BY <1>0, <2>1, <2>2 DEF LockInv
<1>6. ASSUME NEW g \in Goroutines, Returned(g) PROVE LockInv'
  BY <1>0, <1>6 DEF LockInv, Returned, GoesTo, ivars
<1>7. CASE Close
  <2>1. curOffset' \in Int /\ UNCHANGED <<sds, rootOffset, m, gvars>>  BY <1>7 DEF Close
  <2>. QED  BY <2>1 DEF LockInv, gvars
<1>8. CASE UNCHANGED dvars  BY <1>8 DEF LockInv, dvars, ivars, gvars
<1>. QED  BY <1>1, <1>2, <1>3, <1>4, <1>5, <1>6, <1>7, <1>8 DEF DNext

(* A step of another goroutine, or one that this one does not read in.     *)
LEMMA Others ==
  ASSUME NEW h \in Goroutines, ListOf(h),
         gpc'[h] = gpc[h], offset'[h] = offset[h], list'[h] = list[h],
         result'[h] = result[h], sound'[h] = sound[h],
         gpc[h] = "read" => UNCHANGED <<r, skipped>>
  PROVE  ListOf(h)'
BY DEF ListOf, Reading, Behind

(* readdir, up to its loop.                                                *)
LEMMA SeekStep ==
  ASSUME ReadsInOrder, LaidOut, ImageInv, NEW g \in Goroutines, Seek(g)
  PROVE  PlaceInv' /\ ListOf(g)'
<1>. DEFINE off   == offset[g]
            again == Outside(off) \/ r = None
            from  == IF again THEN resourceReaderWithOffset(off) ELSE r
            ahead == IF again THEN 0 ELSE off - curOffset
            there == from # None /\ Len(ReadBytes(from, ahead).bytes) = ahead
<1>0. /\ gpc[g] = "readdir" /\ UNCHANGED <<sds, rootOffset, offset>>
      /\ list' = [list EXCEPT ![g] = <<>>]
      /\ sound' = [sound EXCEPT ![g] = again \/ ~skipped]
      /\ \/ \E res \in {"ioerror"} \cup (IF there THEN {} ELSE {"invalid"}) : Fails(g, res)
         \/ /\ there
            /\ gpc' = [gpc EXCEPT ![g] = "read"]
            /\ r' = ReadBytes(from, ahead).r
            /\ curOffset' = IF again THEN off ELSE curOffset
            /\ skipped' = (ahead > 0 \/ (~again /\ skipped))
  BY Zenon DEF Seek
<1>1. /\ g \in DOMAIN list /\ g \in DOMAIN sound /\ g \in DOMAIN gpc /\ g \in DOMAIN result
      /\ curOffset \in Int /\ sds /\ off \in DOMAIN Directories /\ off \in 0..(OriginalSize - 1)
      /\ OriginalSize \in Nat
      /\ list[g]' = <<>> /\ offset'[g] = off
  BY <1>0 DEF ImageInv, LockInv, LaidOut, ReadsInOrder
<1>2. (sound[g])' <=> (again \/ ~skipped)  BY <1>0, <1>1, Zenon
<1>3. ASSUME again \/ ~skipped
      PROVE  /\ there /\ ReadBytes(from, ahead).r \in ResourceReaders /\ PlaceOf(ReadBytes(from, ahead).r) = off
             /\ ahead \in Nat
             /\ ahead = 0 => off = IF again THEN off ELSE curOffset
  <2>1. CASE again
    <3>1. from = resourceReaderWithOffset(off) /\ ahead = 0  BY <2>1
    <3>2. from \in ResourceReaders /\ PlaceOf(from) = off /\ from # None
      BY <3>1, <1>1 DEF ReadsInOrder
    <3>3. /\ ReadBytes(from, 0).r \in ResourceReaders /\ PlaceOf(ReadBytes(from, 0).r) = off + 0
          /\ Len(ReadBytes(from, 0).bytes) = 0
      BY <3>2, <1>1, TakeIs
    <3>. QED  BY <2>1, <3>1, <3>2, <3>3, <1>1
  <2>2. CASE ~again
    <3>1. from = r /\ ahead = off - curOffset /\ r # None /\ ~Outside(off)  BY <2>2
    <3>2. r \in ResourceReaders /\ PlaceOf(r) = curOffset
      BY <1>3, <2>2, <3>1, <1>1 DEF ImageInv, PlaceInv
    <3>3. off >= curOffset /\ curOffset \in Nat /\ ahead \in Nat
      BY <3>1, <3>2, <1>1 DEF Outside, ReadsInOrder
    <3>4. PlaceOf(r) + ahead = off  BY <3>1, <3>2, <3>3, <1>1
    <3>. HIDE DEF ahead
    <3>5. /\ ReadBytes(r, ahead).r \in ResourceReaders /\ PlaceOf(ReadBytes(r, ahead).r) = off
          /\ Len(ReadBytes(r, ahead).bytes) = ahead
      BY <3>2, <3>3, <3>4, <1>1, TakeIs
    <3>. QED  BY <2>2, <3>1, <3>3, <3>5, <1>1
  <2>. QED  BY <2>1, <2>2
<1>. HIDE DEF off, again, ahead, there
<1>4. CASE \E res \in {"ioerror"} \cup (IF there THEN {} ELSE {"invalid"}) : Fails(g, res)
  <2>1. PICK res \in {"ioerror"} \cup (IF there THEN {} ELSE {"invalid"}) : Fails(g, res)  BY <1>4
  <2>2. r' = None /\ gpc'[g] = "returned" /\ result'[g] = res  BY <2>1, <1>1 DEF Fails, Return
  <2>3. sound'[g] => res = "ioerror"  BY <1>2, <1>3, <2>1
  <2>. QED  BY <2>2, <2>3 DEF PlaceInv, ListOf
<1>5. CASE /\ there
           /\ gpc' = [gpc EXCEPT ![g] = "read"]
           /\ r' = ReadBytes(from, ahead).r
           /\ curOffset' = IF again THEN off ELSE curOffset
           /\ skipped' = (ahead > 0 \/ (~again /\ skipped))
  <2>1. gpc'[g] = "read"  BY <1>5, <1>1
  <2>2. ~skipped' => ~(ahead > 0) /\ (again \/ ~skipped)  BY <1>5, Zenon
  <2>5. PlaceInv'
    <3>. SUFFICES ASSUME ~skipped' PROVE r' \in ResourceReaders /\ PlaceOf(r') = curOffset'
      BY DEF PlaceInv
    <3>. QED  BY <2>2, <1>3, <1>5
  <2>6. ASSUME sound'[g] PROVE Reading(g)'
    <3>1. r' \in ResourceReaders /\ PlaceOf(r') = off  BY <1>2, <1>3, <1>5, <2>6
    <3>2. list'[g] = <<>> /\ offset'[g] = off  BY <1>1
    <3>3. Directories[off] \in Seq(DOMAIN Entries)  BY <1>1 DEF LaidOut
    <3>. QED  BY <3>1, <3>2, <3>3 DEF Reading, Behind
  <2>. QED  BY <2>1, <2>2, <2>5, <2>6, <1>2 DEF ListOf
<1>. QED  BY <1>0, <1>4, <1>5

(* readdir's loop: the entry that is read is the next of the directory,    *)
(* and curOffset advances by as much as the reader.                        *)
LEMMA ReadNextEntryStep ==
  ASSUME ReadsInOrder, LaidOut, ImageInv, NEW g \in Goroutines, ReadNextEntry(g)
  PROVE  PlaceInv' /\ ListOf(g)'
<1>. DEFINE t == ReadBytes(r, 1)
            e == t.bytes[1]
            u == ReadBytes(r, Entries[e].length + Entries[e].streams)
            dir == offset[g]
            k == Len(list[g])
<1>0. /\ gpc[g] = "read" /\ UNCHANGED <<sds, rootOffset, offset, sound>>
      /\ \/ Fails(g, "ioerror") /\ UNCHANGED list
         \/ /\ ~(t.bytes # <<>> /\ e \in EndMarks \cup DOMAIN Entries)
            /\ Fails(g, "invalid") /\ UNCHANGED list
         \/ /\ t.bytes # <<>> /\ e \in EndMarks
            /\ gpc' = [gpc EXCEPT ![g] = "returned"] /\ Return(g, EndOf(g))
            /\ r' = t.r /\ curOffset' = curOffset + 1
            /\ UNCHANGED <<list, skipped>>
         \/ /\ t.bytes # <<>> /\ e \in DOMAIN Entries
            /\ list' = [list EXCEPT ![g] = Append(@, e)]
            /\ r' = u.r /\ curOffset' = curOffset + EntrySize(Entries[e])
            /\ UNCHANGED <<gpc, result, skipped>>
  BY Zenon DEF ReadNextEntry
<1>1. /\ g \in DOMAIN list /\ g \in DOMAIN gpc /\ g \in DOMAIN result
      /\ sds /\ dir \in DOMAIN Directories /\ curOffset \in Int /\ OriginalSize \in Nat
      /\ Directories[dir] \in Seq(DOMAIN Entries)
  BY <1>0 DEF ImageInv, LockInv, LaidOut, ReadsInOrder
<1>2. /\ ~skipped => sound[g]
      /\ ~skipped /\ r # None => PlaceOf(r) = curOffset
      /\ sound[g] => Reading(g)
  BY <1>0, <1>1 DEF ImageInv, ListOf, PlaceInv
<1>3. ASSUME sound[g]
      PROVE  /\ r \in ResourceReaders /\ r # None /\ list[g] \in Seq(DOMAIN Entries) /\ k \in Nat
             /\ k <= Len(Directories[dir]) /\ \A j \in 1..k : list[g][j] = Directories[dir][j]
             /\ t.bytes # <<>> /\ e = Behind(dir, k) /\ PlaceOf(r) = e /\ e \in 0..(OriginalSize - 1)
             /\ t.r \in ResourceReaders /\ PlaceOf(t.r) = e + 1
  <2>1. /\ r \in ResourceReaders /\ r # None /\ list[g] \in Seq(DOMAIN Entries)
        /\ k <= Len(Directories[dir]) /\ \A j \in 1..k : list[g][j] = Directories[dir][j]
        /\ PlaceOf(r) = Behind(dir, k)
    BY <1>2, <1>3 DEF Reading, ReadsInOrder
  <2>2. k \in Nat  BY <2>1
  <2>3. Behind(dir, k) \in 0..(OriginalSize - 1)  BY <1>1, <2>1, <2>2, EntryIs
  <2>4. PlaceOf(r) + 1 <= OriginalSize  BY <1>1, <2>1, <2>3
  <2>5. t.r \in ResourceReaders /\ PlaceOf(t.r) = PlaceOf(r) + 1 /\ t.bytes # <<>> /\ t.bytes[1] = PlaceOf(r)
    BY <2>1, <2>4, TakeIs
  <2>. QED  BY <2>1, <2>2, <2>3, <2>5
<1>. HIDE DEF t, e, u, dir, k
<1>4. CASE Fails(g, "ioerror")
  <2>1. r' = None /\ gpc'[g] = "returned" /\ result'[g] = "ioerror"  BY <1>4, <1>1 DEF Fails, Return
  <2>. QED  BY <2>1 DEF PlaceInv, ListOf
<1>5. CASE ~(t.bytes # <<>> /\ e \in EndMarks \cup DOMAIN Entries) /\ Fails(g, "invalid")
  <2>1. r' = None /\ gpc'[g] = "returned" /\ sound'[g] = sound[g]  BY <1>0, <1>5, <1>1 DEF Fails
  <2>2. ~sound[g]
    <3>. SUFFICES ASSUME sound[g] PROVE FALSE  OBVIOUS
    <3>1. e \in EndMarks \cup DOMAIN Entries  BY <1>1, <1>3, EntryIs
    <3>. QED  BY <3>1, <1>3, <1>5
  <2>. QED  BY <2>1, <2>2 DEF PlaceInv, ListOf
<1>6. CASE /\ t.bytes # <<>> /\ e \in EndMarks
           /\ gpc' = [gpc EXCEPT ![g] = "returned"] /\ Return(g, EndOf(g))
           /\ r' = t.r /\ curOffset' = curOffset + 1
           /\ UNCHANGED <<list, skipped>>
  <2>1. gpc'[g] = "returned" /\ result'[g] = EndOf(g) /\ sound'[g] = sound[g]
    BY <1>0, <1>6, <1>1 DEF Return
  <2>2. ASSUME sound[g] PROVE list'[g] = Directories[offset'[g]]
    <3>1. k = Len(Directories[dir])  BY <1>1, <1>3, <1>6, <2>2, EntryIs
    <3>2. list[g] = Directories[dir]  BY <1>1, <1>3, <2>2, <3>1 DEF k
    <3>. QED  BY <1>0, <1>6, <3>2 DEF dir
  <2>3. ASSUME sound[g] PROVE EndOf(g) # "invalid"
    <3>1. rootOffset = SecuritySize  BY <1>1 DEF ImageInv, LockInv
    <3>2. list[g] = Directories[offset[g]]  BY <1>0, <1>6, <2>2, <2>3
    <3>3. offset[g] = rootOffset => Len(list[g]) = 1  BY <3>1, <3>2 DEF LaidOut
    <3>. QED  BY <3>3 DEF EndOf
  <2>4. ASSUME ~skipped' PROVE r' \in ResourceReaders /\ PlaceOf(r') = curOffset'
    BY <1>2, <1>3, <1>6, <2>4
  <2>. QED  BY <2>1, <2>2, <2>3, <2>4 DEF PlaceInv, ListOf
<1>7. CASE /\ t.bytes # <<>> /\ e \in DOMAIN Entries
           /\ list' = [list EXCEPT ![g] = Append(@, e)]
           /\ r' = u.r /\ curOffset' = curOffset + EntrySize(Entries[e])
           /\ UNCHANGED <<gpc, result, skipped>>
  <2>1. gpc'[g] = "read" /\ sound'[g] = sound[g] /\ list'[g] = Append(list[g], e) /\ offset'[g] = dir
    BY <1>0, <1>7, <1>1 DEF dir
  <2>2. ASSUME sound[g]
        PROVE  r' \in ResourceReaders /\ PlaceOf(r') = e + EntrySize(Entries[e]) /\ Reading(g)'
    <3>1. k < Len(Directories[dir])
      <4>1. e \notin EndMarks  BY <1>7 DEF LaidOut
      <4>2. k # Len(Directories[dir])  BY <1>1, <1>3, <2>2, <4>1, EntryIs
      <4>. QED  BY <1>1, <1>3, <2>2, <4>2
    <3>2. /\ e = Directories[dir][k + 1] /\ Behind(dir, k + 1) = e + EntrySize(Entries[e])
          /\ EntrySize(Entries[e]) \in Nat
      BY <1>1, <1>3, <2>2, <3>1, EntryIs
    <3>3. Behind(dir, k + 1) \in 0..(OriginalSize - 1)
      <4>1. k + 1 \in Nat /\ k + 1 <= Len(Directories[dir])  BY <1>1, <1>3, <2>2, <3>1
      <4>. QED  BY <1>1, <4>1, EntryIs
    <3>4. r' \in ResourceReaders /\ PlaceOf(r') = e + EntrySize(Entries[e])
      <4>1. u = ReadBytes(r, EntrySize(Entries[e]))  BY DEF u, EntrySize
      <4>2. PlaceOf(r) + EntrySize(Entries[e]) <= OriginalSize  BY <1>1, <1>3, <2>2, <3>2, <3>3
      <4>3. u.r \in ResourceReaders /\ PlaceOf(u.r) = PlaceOf(r) + EntrySize(Entries[e])
        BY <1>3, <2>2, <3>2, <4>1, <4>2, TakeIs
      <4>. QED  BY <1>3, <1>7, <2>2, <4>3
    <3>5. /\ list'[g] \in Seq(DOMAIN Entries) /\ Len(list'[g]) = k + 1
          /\ \A j \in 1..k : list'[g][j] = list[g][j]
          /\ list'[g][k + 1] = e
      <4>. DEFINE l == list[g]  next == list'[g]
      <4>1. next = Append(l, e) /\ l \in Seq(DOMAIN Entries) /\ e \in DOMAIN Entries /\ k = Len(l)
        BY <1>3, <1>7, <2>1, <2>2 DEF k
      <4>. HIDE DEF l, next
      <4>2. next \in Seq(DOMAIN Entries) /\ Len(next) = k + 1  BY <4>1
      <4>3. (\A j \in 1..k : next[j] = l[j]) /\ next[k + 1] = e  BY <4>1
      <4>. QED  BY <4>2, <4>3 DEF l, next
    <3>6. \A j \in 1..(k + 1) : list'[g][j] = Directories[dir][j]
      BY <1>3, <2>2, <3>2, <3>5
    <3>7. k + 1 <= Len(Directories[dir])  BY <1>1, <1>3, <2>2, <3>1
    <3>8. Behind(offset[g], Len(list[g]))' = Behind(dir, k + 1)
      BY <2>1, <3>5 DEF Behind
    <3>. QED  BY <2>1, <3>2, <3>4, <3>5, <3>6, <3>7, <3>8 DEF Reading
  <2>3. ASSUME ~skipped' PROVE r' \in ResourceReaders /\ PlaceOf(r') = curOffset'
    BY <1>2, <1>3, <1>7, <2>2, <2>3
  <2>. QED  BY <1>2, <1>7, <2>1, <2>2, <2>3 DEF PlaceInv, ListOf
<1>. QED  BY <1>0, <1>4, <1>5, <1>6, <1>7

(* Every step of the image keeps the invariant.                            *)
LEMMA ImageNext == ReadsInOrder /\ LaidOut /\ ImageInv /\ [DNext]_dvars => ImageInv'
<1>. SUFFICES ASSUME ReadsInOrder, LaidOut, ImageInv, [DNext]_dvars
              PROVE  PlaceInv' /\ \A h \in Goroutines : ListOf(h)'
  BY LockNext DEF ImageInv
<1>0. LockInv /\ LockInv' /\ PlaceInv /\ (\A h \in Goroutines : ListOf(h)) /\ None \notin Goroutines
  BY LockNext DEF ImageInv, ReadsInOrder
<1>1. ASSUME NEW g \in Goroutines,
             Open(g) \/ Returned(g) \/ \E dir \in DOMAIN Directories : Readdir(g, dir)
      PROVE  PlaceInv' /\ \A h \in Goroutines : ListOf(h)'
  <2>1. UNCHANGED ivars /\ gpc'[g] \notin {"read", "returned"}
        /\ \A h \in Goroutines \ {g} :
             /\ gpc'[h] = gpc[h] /\ offset'[h] = offset[h] /\ list'[h] = list[h]
             /\ result'[h] = result[h] /\ sound'[h] = sound[h]
    BY <1>0, <1>1, ZenonT(40) DEF LockInv, Open, Returned, Readdir, GoesTo, ivars
  <2>2. PlaceInv'  BY <1>0, <2>1 DEF PlaceInv, ivars
  <2>3. ListOf(g)'  BY <2>1 DEF ListOf
  <2>4. \A h \in Goroutines \ {g} : ListOf(h)'  BY <1>0, <2>1, Others DEF ivars
  <2>. QED  BY <2>2, <2>3, <2>4
<1>2. ASSUME NEW g \in Goroutines, ReadSecurity(g)
      PROVE  PlaceInv' /\ \A h \in Goroutines : ListOf(h)'
  <2>1. /\ gpc[g] = "security" /\ ~sds /\ rootOffset = 0
        /\ \A h \in Goroutines : gpc[h] # "read"
        /\ \/ /\ UNCHANGED ivars /\ gpc'[g] = "returned" /\ result'[g] = "ioerror"
           \/ /\ gpc'[g] = "readdir" /\ r' = ReadBytes(resourceReaderWithOffset(0), SecuritySize).r
              /\ curOffset' = SecuritySize
        /\ \A h \in Goroutines \ {g} :
             /\ gpc'[h] = gpc[h] /\ offset'[h] = offset[h] /\ list'[h] = list[h]
             /\ result'[h] = result[h] /\ sound'[h] = sound[h]
    BY <1>0, <1>2 DEF LockInv, ReadSecurity, GoesTo, Return, ivars
  <2>2. /\ ReadBytes(resourceReaderWithOffset(0), SecuritySize).r \in ResourceReaders
        /\ PlaceOf(ReadBytes(resourceReaderWithOffset(0), SecuritySize).r) = SecuritySize
    <3>1. SecuritySize \in Nat /\ SecuritySize <= OriginalSize /\ 0 \in 0..(OriginalSize - 1)
      BY DEF LaidOut, ReadsInOrder
    <3>2. resourceReaderWithOffset(0) \in ResourceReaders /\ PlaceOf(resourceReaderWithOffset(0)) = 0
      BY <3>1 DEF ReadsInOrder
    <3>. QED  BY <3>1, <3>2, TakeIs
  <2>3. PlaceInv'
    <3>1. CASE UNCHANGED ivars  BY <1>0, <3>1 DEF PlaceInv, ivars
    <3>2. CASE r' \in ResourceReaders /\ PlaceOf(r') = curOffset'  BY <3>2 DEF PlaceInv
    <3>. QED  BY <2>1, <2>2, <3>1, <3>2, Zenon
  <2>4. ListOf(g)'  BY <2>1 DEF ListOf
  <2>5. \A h \in Goroutines \ {g} : ListOf(h)'  BY <1>0, <2>1, Others
  <2>. QED  BY <2>3, <2>4, <2>5
<1>3. ASSUME NEW g \in Goroutines, Seek(g) \/ ReadNextEntry(g)
      PROVE  PlaceInv' /\ \A h \in Goroutines : ListOf(h)'
  <2>1. PlaceInv' /\ ListOf(g)'  BY <1>3, SeekStep, ReadNextEntryStep, Zenon
  <2>2. \A h \in Goroutines \ {g} : gpc[h] # "read"
    <3>1. (gpc[g] = "readdir" /\ m = None) \/ gpc[g] = "read"
      BY <1>3, Zenon DEF Seek, ReadNextEntry
    <3>. QED  BY <1>0, <3>1 DEF LockInv
  <2>3. \A h \in Goroutines \ {g} :
          /\ gpc'[h] = gpc[h] /\ offset'[h] = offset[h] /\ list'[h] = list[h]
          /\ result'[h] = result[h] /\ sound'[h] = sound[h]
    <3>1. CASE Seek(g)  BY <1>0, <3>1 DEF LockInv, Seek, Fails, Return
    <3>2. CASE ReadNextEntry(g)  BY <1>0, <3>2, ZenonT(40) DEF LockInv, ReadNextEntry, Fails, Return
    <3>. QED  BY <1>3, <3>1, <3>2
  <2>4. \A h \in Goroutines \ {g} : ListOf(h)'  BY <1>0, <2>2, <2>3, Others
  <2>. QED  BY <2>1, <2>4
<1>4. CASE Close
  <2>1. r' = None /\ UNCHANGED gvars /\ \A h \in Goroutines : gpc[h] # "read"
    BY <1>0, <1>4 DEF Close, LockInv
  <2>2. PlaceInv'  BY <2>1 DEF PlaceInv
  <2>3. \A h \in Goroutines : ListOf(h)'  BY <1>0, <2>1, Others DEF gvars
  <2>. QED  BY <2>2, <2>3
<1>5. CASE UNCHANGED dvars
  <2>1. PlaceInv'  BY <1>0, <1>5 DEF PlaceInv, dvars, ivars
  <2>2. \A h \in Goroutines : ListOf(h)'  BY <1>0, <1>5, Others DEF dvars, ivars, gvars
  <2>. QED  BY <2>1, <2>2
<1>. QED  BY <1>1, <1>2, <1>3, <1>4, <1>5 DEF DNext

(* Image.Open and File.Readdir: with any number of goroutines, directories *)
(* and entries, and wherever reads fail or the Reader is closed, a Readdir *)
(* begun before bytes were skipped lists the entries of its directory.     *)
THEOREM ImageListsItsDirectory ==
  ReadsInOrder /\ LaidOut => (DSpec => []ReaddirListsItsDirectory)
<1>. SUFFICES ASSUME ReadsInOrder, LaidOut PROVE DSpec => []ReaddirListsItsDirectory  OBVIOUS
<1>1. DInit => ImageInv  BY ImageInit
<1>2. ImageInv /\ [DNext]_dvars => ImageInv'  BY ImageNext
<1>3. ImageInv => ReaddirListsItsDirectory
  BY DEF ImageInv, ListOf, ReaddirListsItsDirectory
<1>. QED  BY <1>1, <1>2, <1>3, PTL DEF DSpec

-----------------------------------------------------------------------------
Labels == {"header", "table", "xml", "infos", "entry", "streams", "returned"}

(* readOffsetTable: a hash leads to a resource that has it, and the images *)
(* are as many as the header says once the table is read.                  *)
TableInv ==
  /\ wim \in Wims /\ pc \in Labels /\ i \in Nat \ {0}
  /\ \A h \in DOMAIN fileData : fileData[h] \in Nat \ {0} /\ wim.table[fileData[h]].hash = h
  /\ images \in Seq(Nat)
  /\ pc \in {"xml", "infos"} => Len(images) = wim.imageCount

(* NewReader: the image information is that of the image's index.          *)
InfosInv ==
  pc \in {"entry", "streams"} \/ (pc = "returned" /\ ~err) =>
    /\ Len(infos) = wim.imageCount
    /\ \A n \in DOMAIN infos : infos[n] # 0 => wim.indexes[infos[n]] = n

(* A File, with a sequence of streams.                                     *)
IsFile ==
  /\ file = [hash |-> file.hash, size |-> file.size, offset |-> file.offset, streams |-> file.streams]
  /\ \E S : file.streams \in Seq(S)

(* What the file shows is what can be opened.                              *)
Shown ==
  /\ Contents(file.offset) = file.hash /\ file.size = Size(file.offset)
  /\ \A k \in DOMAIN file.streams : Contents(file.streams[k].offset) = file.streams[k].hash

(* The streams of the entry before the n-th have been taken.               *)
Taken(n) == InOrder(file.streams, wim.entry.streams, 1..(n - 1))

(* readNextEntry: the streams before the i-th have been taken.             *)
FileInv ==
  /\ pc = "streams" => /\ IsFile /\ Shown
                       /\ i <= Len(wim.entry.streams) + 1 /\ Taken(i)
  /\ pc = "returned" /\ ~err => Shown /\ InOrder(file.streams, wim.entry.streams, DOMAIN wim.entry.streams)

ReaderInv == TableInv /\ InfosInv /\ FileInv

-----------------------------------------------------------------------------
(* A set of positions that is not empty has a first one.                   *)
LEMMA First ==
  ASSUME NEW T \in SUBSET Nat, T # {}
  PROVE  \E k \in T : \A l \in T : k <= l
<1>. DEFINE less == {ss \in Nat \X Nat : ss[1] < ss[2]}
<1>1. IsWellFoundedOn(less, Nat)  BY NatLessThanWellFounded DEF OpToRel
<1>2. \A k, l \in Nat : l < k => <<l, k>> \in less  OBVIOUS
<1>. HIDE DEF less
<1>3. \E k \in T : \A l \in T : ~(<<l, k>> \in less)  BY <1>1, WFMin, Zenon
<1>4. PICK k \in T : \A l \in T : ~(<<l, k>> \in less)  BY <1>3
<1>5. \A l \in T : ~(l < k)  BY <1>2, <1>4, Zenon
<1>6. \A l \in T : k <= l  BY <1>5
<1>. QED  BY <1>6

(* InfoOf: the element found has the index asked for.                      *)
LEMMA InfoHasIndex ==
  ASSUME IsSequence(wim.indexes), NEW n, InfoOf(n) # 0
  PROVE  wim.indexes[InfoOf(n)] = n
<1>. DEFINE found == {k \in DOMAIN wim.indexes : wim.indexes[k] = n}
<1>1. found # {} /\ InfoOf(n) = CHOOSE k \in found : \A l \in found : k <= l
  BY DEF InfoOf
<1>2. found \in SUBSET Nat  BY DEF IsSequence
<1>. HIDE DEF found
<1>3. \E k \in found : \A l \in found : k <= l  BY <1>1, <1>2, First
<1>4. InfoOf(n) \in found  BY <1>1, <1>3
<1>. QED  BY <1>4 DEF found

(* The resource that a hash leads to has the hash.                         *)
LEMMA OffsetHasHash ==
  ASSUME TableInv, NEW hash, Found(hash)
  PROVE  Contents(Offset(hash)) = hash
BY DEF TableInv, Found, Offset, Contents

-----------------------------------------------------------------------------
(* NewReader starts with the invariant.                                    *)
LEMMA ReaderInit == InSequence /\ Init => ReaderInv
<1>. SUFFICES ASSUME Init PROVE ReaderInv  OBVIOUS
<1>1. TableInv  BY DEF Init, Given, TableInv, Labels
<1>2. InfosInv /\ FileInv  BY DEF Init, Given, InfosInv, FileInv
<1>. QED  BY <1>1, <1>2 DEF ReaderInv

(* readOffsetTable and the steps around it keep the table's invariant.     *)
LEMMA TableNext == TableInv /\ [Next]_vars => TableInv'
<1>. SUFFICES ASSUME TableInv, [Next]_vars PROVE TableInv'  OBVIOUS
<1>. USE DEF TableInv, Labels, Goto, Fail, Check
<1>1. CASE ReadHeader  BY <1>1 DEF ReadHeader
<1>2. CASE ReadOffsetTable
  <2>1. CASE i > Len(wim.table) \/ ~(wim.table[i].flags \subseteq supportedResFlags)
    BY <1>2, <2>1 DEF ReadOffsetTable
  <2>2. CASE /\ i' = i + 1 /\ UNCHANGED <<wim, infos, file, pc, err>> /\ pc = "table"
             /\ images' = Append(images, i) /\ UNCHANGED fileData
    BY <2>2
  <2>3. CASE /\ i' = i + 1 /\ UNCHANGED <<wim, infos, file, pc, err>> /\ pc = "table"
             /\ fileData' = [h \in DOMAIN fileData \cup {wim.table[i].hash} |->
                               IF h = wim.table[i].hash THEN i ELSE fileData[h]]
             /\ UNCHANGED images
    BY <2>3
  <2>. QED  BY <1>2, <2>1, <2>2, <2>3 DEF ReadOffsetTable
<1>3. CASE ReadXML  BY <1>3 DEF ReadXML
<1>4. CASE SetInfos  BY <1>4 DEF SetInfos
<1>5. CASE ReadEntry  BY <1>5 DEF ReadEntry
<1>6. CASE ReadNextStream
  <2>1. /\ pc = "streams" /\ UNCHANGED <<wim, fileData, images, infos>>
        /\ \/ pc' = "returned" /\ i' = 1
           \/ pc' = pc /\ i' = i + 1
    BY <1>6 DEF ReadNextStream
  <2>. QED  BY <2>1
<1>7. CASE UNCHANGED vars  BY <1>7 DEF vars
<1>. QED  BY <1>1, <1>2, <1>3, <1>4, <1>5, <1>6, <1>7 DEF Next

(* SetInfos gives every image its information; later steps leave it.       *)
LEMMA InfosNext == InSequence /\ TableInv /\ InfosInv /\ [Next]_vars => InfosInv'
<1>. SUFFICES ASSUME InSequence, TableInv, InfosInv, [Next]_vars PROVE InfosInv'  OBVIOUS
<1>. USE DEF InfosInv, Goto, Fail, Check
<1>1. CASE ReadHeader  BY <1>1 DEF ReadHeader
<1>2. CASE ReadOffsetTable  BY <1>2 DEF ReadOffsetTable
<1>3. CASE ReadXML  BY <1>3 DEF ReadXML
<1>4. CASE SetInfos
  <2>1. \A n : InfoOf(n) # 0 => wim.indexes[InfoOf(n)] = n
    BY InfoHasIndex DEF InSequence, TableInv
  <2>2. /\ infos' = [n \in 1..Len(images) |-> InfoOf(n)] /\ UNCHANGED wim
        /\ Len(images) \in Nat /\ Len(images) = wim.imageCount
    BY <1>4 DEF SetInfos, TableInv
  <2>. HIDE DEF InfoOf
  <2>3. Len(infos') = wim.imageCount /\ \A n \in DOMAIN infos' : infos'[n] = InfoOf(n)
    BY <2>2
  <2>. QED  BY <2>1, <2>2, <2>3
<1>5. CASE ReadEntry  BY <1>5 DEF ReadEntry
<1>6. CASE ReadNextStream  BY <1>6 DEF ReadNextStream
<1>7. CASE UNCHANGED vars  BY <1>7 DEF vars
<1>. QED  BY <1>1, <1>2, <1>3, <1>4, <1>5, <1>6, <1>7 DEF Next

-----------------------------------------------------------------------------
(* InOrder, from the map of a file's streams to the entry's.               *)
LEMMA InOrderBy ==
  ASSUME NEW got, NEW st, NEW among,
         NEW from \in [DOMAIN got -> {k \in among : st[k].name # unnamed}],
         \A k \in among : st[k].name # unnamed => \E j \in DOMAIN got : from[j] = k,
         \A j, k \in DOMAIN got : j < k => from[j] < from[k],
         \A j \in DOMAIN got : got[j].name = st[from[j]].name /\ got[j].hash = st[from[j]].hash
  PROVE  InOrder(got, st, among)
BY Zenon DEF InOrder

(* One more stream behind those of a file: its name and hash are those of  *)
(* the entry's next stream.                                                *)
LEMMA InOrderAppend ==
  ASSUME NEW S, NEW got \in Seq(S), NEW st, NEW q \in Nat \ {0}, InOrder(got, st, 1..(q - 1)),
         NEW x, x.name = st[q].name, x.hash = st[q].hash, st[q].name # unnamed
  PROVE  InOrder(Append(got, x), st, 1..q)
<1>. DEFINE named(k) == {l \in 1..k : st[l].name # unnamed}
            n == Len(got)
            more == Append(got, x)
<1>1. PICK from \in [DOMAIN got -> named(q - 1)] :
        /\ \A k \in 1..(q - 1) : st[k].name # unnamed => \E j \in DOMAIN got : from[j] = k
        /\ \A j, k \in DOMAIN got : j < k => from[j] < from[k]
        /\ \A j \in DOMAIN got : got[j].name = st[from[j]].name /\ got[j].hash = st[from[j]].hash
  BY DEF InOrder
<1>2. /\ n \in Nat /\ DOMAIN got = 1..n
      /\ DOMAIN more = 1..(n + 1)
      /\ \A j \in 1..n : more[j] = got[j]
      /\ more[n + 1] = x
  OBVIOUS
<1>. DEFINE to == [j \in 1..(n + 1) |-> IF j = n + 1 THEN q ELSE from[j]]
<1>. HIDE DEF n, more
<1>3. to \in [1..(n + 1) -> named(q)]  BY <1>1, <1>2
<1>4. \A j \in 1..n : to[j] = from[j] /\ from[j] \in 1..(q - 1)  BY <1>1, <1>2
<1>5. to[n + 1] = q  BY <1>2
<1>6. \A k \in 1..q : st[k].name # unnamed => \E j \in 1..(n + 1) : to[j] = k
  <2>. SUFFICES ASSUME NEW k \in 1..q, st[k].name # unnamed PROVE \E j \in 1..(n + 1) : to[j] = k
    OBVIOUS
  <2>. HIDE DEF to
  <2>1. CASE k = q  BY <2>1, <1>2, <1>5
  <2>2. CASE k # q
    <3>1. k \in 1..(q - 1)  BY <2>2
    <3>2. PICK j \in DOMAIN got : from[j] = k  BY <3>1, <1>1, Zenon
    <3>3. j \in 1..n /\ to[j] = k  BY <3>2, <1>2, <1>4, Zenon
    <3>4. j \in 1..(n + 1)  BY <3>3, <1>2
    <3>. QED  BY <3>3, <3>4
  <2>. QED  BY <2>1, <2>2
<1>. HIDE DEF to
<1>7. \A j, k \in 1..(n + 1) : j < k => to[j] < to[k]
  <2>. SUFFICES ASSUME NEW j \in 1..(n + 1), NEW k \in 1..(n + 1), j < k PROVE to[j] < to[k]  OBVIOUS
  <2>1. CASE k = n + 1  BY <2>1, <1>2, <1>4, <1>5
  <2>2. CASE k # n + 1
    <3>1. j \in 1..n /\ k \in 1..n  BY <2>2, <1>2
    <3>. QED  BY <3>1, <1>1, <1>2, <1>4, Zenon
  <2>. QED  BY <2>1, <2>2
<1>8. \A j \in 1..(n + 1) : more[j].name = st[to[j]].name /\ more[j].hash = st[to[j]].hash
  <2>. SUFFICES ASSUME NEW j \in 1..(n + 1)
                PROVE  more[j].name = st[to[j]].name /\ more[j].hash = st[to[j]].hash
    OBVIOUS
  <2>1. CASE j = n + 1  BY <2>1, <1>2, <1>5
  <2>2. CASE j # n + 1
    <3>1. j \in 1..n  BY <2>2, <1>2
    <3>. QED  BY <3>1, <1>1, <1>2, <1>4, Zenon
  <2>. QED  BY <2>1, <2>2
<1>9. InOrder(more, st, 1..q)
  <2>1. to \in [DOMAIN more -> {k \in 1..q : st[k].name # unnamed}]  BY <1>2, <1>3
  <2>2. \A k \in 1..q : st[k].name # unnamed => \E j \in DOMAIN more : to[j] = k  BY <1>2, <1>6
  <2>3. \A j, k \in DOMAIN more : j < k => to[j] < to[k]  BY <1>2, <1>7
  <2>4. \A j \in DOMAIN more : more[j].name = st[to[j]].name /\ more[j].hash = st[to[j]].hash
    BY <1>2, <1>8
  <2>. QED  BY <2>1, <2>2, <2>3, <2>4, InOrderBy, Zenon
<1>. QED  BY <1>9 DEF more

(* An unnamed stream leaves the named ones as they are.                    *)
LEMMA InOrderSkip ==
  ASSUME NEW got, NEW st, NEW q \in Nat \ {0}, InOrder(got, st, 1..(q - 1)), st[q].name = unnamed
  PROVE  InOrder(got, st, 1..q)
<1>1. {k \in 1..q : st[k].name # unnamed} = {k \in 1..(q - 1) : st[k].name # unnamed}  OBVIOUS
<1>2. \A k \in 1..q : st[k].name # unnamed => k \in 1..(q - 1)  OBVIOUS
<1>. QED  BY <1>1, <1>2 DEF InOrder

(* readNextEntry and readNextStream: the file stays what the entry and the *)
(* table say.                                                              *)
LEMMA FileNext == InSequence /\ TableInv /\ FileInv /\ [Next]_vars => FileInv'
<1>. SUFFICES ASSUME InSequence, TableInv, FileInv, [Next]_vars PROVE FileInv'  OBVIOUS
<1>0. /\ Len(wim.entry.streams) \in Nat
      /\ DOMAIN wim.entry.streams = 1..Len(wim.entry.streams)
  BY DEF InSequence, IsSequence, TableInv
<1>1. CASE ReadHeader  BY <1>1 DEF ReadHeader, FileInv, Goto, Fail, Check
<1>2. CASE ReadOffsetTable  BY <1>2 DEF ReadOffsetTable, FileInv, Goto, Fail, Check
<1>3. CASE ReadXML  BY <1>3 DEF ReadXML, FileInv, Goto, Fail, Check
<1>4. CASE SetInfos  BY <1>4 DEF SetInfos, FileInv, Goto, Fail, Check
<1>5. CASE ReadEntry
  <2>1. CASE Fail  BY <2>1 DEF Fail, Goto, FileInv
  <2>2. CASE ~Fail
    <3>. DEFINE hash == wim.entry.hash
    <3>1. /\ Found(hash) /\ UNCHANGED wim /\ pc' = "streams" /\ i' = 1
          /\ file' = [hash |-> hash, size |-> Size(Offset(hash)), offset |-> Offset(hash), streams |-> <<>>]
      BY <1>5, <2>2, Zenon DEF ReadEntry, Goto, noFile
    <3>2. Contents(Offset(hash)) = hash  BY <3>1, OffsetHasHash
    <3>. HIDE DEF hash
    <3>3. /\ file'.hash = hash /\ file'.size = Size(Offset(hash)) /\ file'.offset = Offset(hash)
          /\ file'.streams = <<>>
      BY <3>1
    <3>4. IsFile'
      <4>1. file'.streams \in Seq({})  BY <3>3
      <4>. QED  BY <3>1, <3>3, <4>1 DEF IsFile
    <3>5. Shown'  BY <3>1, <3>2, <3>3 DEF Shown, Contents, Size
    <3>6. Taken(i)'
      <4>1. 1..(i' - 1) = {} /\ DOMAIN file'.streams = {}  BY <3>1, <3>3
      <4>2. [j \in {} |-> 0] \in [{} -> {k \in {} : wim'.entry.streams[k].name # unnamed}]  OBVIOUS
      <4>. QED  BY <4>1, <4>2 DEF Taken, InOrder
    <3>7. i' <= Len(wim'.entry.streams) + 1  BY <3>1, <1>0
    <3>. QED  BY <3>1, <3>4, <3>5, <3>6, <3>7, Zenon DEF FileInv
  <2>. QED  BY <2>1, <2>2
<1>6. CASE ReadNextStream
  <2>. DEFINE s == wim.entry.streams[i]
  <2>0. /\ pc = "streams" /\ UNCHANGED <<wim, fileData, images, infos>>
        /\ IsFile /\ Shown /\ i <= Len(wim.entry.streams) + 1 /\ Taken(i)
        /\ i \in Nat \ {0}
    BY <1>6 DEF ReadNextStream, FileInv, TableInv
  <2>1. CASE Fail  BY <2>1 DEF Fail, Goto, FileInv
  <2>2. CASE i > Len(wim.entry.streams) /\ ~Fail
    <3>1. UNCHANGED <<file, wim>> /\ pc' = "returned"
      BY <1>6, <2>2 DEF ReadNextStream, Check, Goto
    <3>2. 1..(i - 1) = DOMAIN wim.entry.streams  BY <1>0, <2>0, <2>2, SMTT(30)
    <3>3. Shown' /\ InOrder(file.streams, wim.entry.streams, DOMAIN wim.entry.streams)'
      BY <2>0, <3>1, <3>2 DEF Shown, Taken, Contents, Size
    <3>. QED  BY <3>1, <3>3 DEF FileInv
  <2>3. CASE ~(i > Len(wim.entry.streams)) /\ ~Fail
    <3>1. /\ ~s.short /\ Found(s.hash) /\ i' = i + 1 /\ pc' = pc
          /\ file' = IF i = 1 /\ s.name = unnamed THEN FileStream(s)
                     ELSE IF s.name # unnamed
                       THEN [file EXCEPT !.streams =
                               Append(@, [name |-> s.name, hash |-> s.hash, offset |-> Offset(s.hash)])]
                     ELSE file
      BY <1>6, <2>3 DEF ReadNextStream
    <3>2. Contents(Offset(s.hash)) = s.hash  BY <3>1, OffsetHasHash
    <3>3. i' <= Len(wim.entry.streams) + 1  BY <1>0, <2>0, <2>3, <3>1
    <3>4. CASE s.name # unnamed
      <4>. DEFINE x == [name |-> s.name, hash |-> s.hash, offset |-> Offset(s.hash)]
      <4>1. file' = [hash |-> file.hash, size |-> file.size, offset |-> file.offset,
                     streams |-> Append(file.streams, x)]
        BY <2>0, <3>1, <3>4, Zenon DEF IsFile
      <4>2. /\ file'.hash = file.hash /\ file'.size = file.size /\ file'.offset = file.offset
            /\ file'.streams = Append(file.streams, x)
        BY <4>1
      <4>3. x.name = s.name /\ x.hash = s.hash /\ x.offset = Offset(s.hash)  OBVIOUS
      <4>. HIDE DEF x
      <4>4. PICK S : file.streams \in Seq(S)  BY <2>0 DEF IsFile
      <4>5. IsFile'
        <5>1. file.streams \in Seq(S \cup {x})  BY <4>4
        <5>2. file'.streams \in Seq(S \cup {x})  BY <4>2, <5>1
        <5>. QED  BY <4>1, <4>2, <5>2 DEF IsFile
      <4>6. Shown'
        <5>1. \A k \in DOMAIN file'.streams :
                \/ k \in DOMAIN file.streams /\ file'.streams[k] = file.streams[k]
                \/ file'.streams[k] = x
          BY <4>2, <4>4
        <5>2. \A o : Contents(o)' = Contents(o) /\ Size(o)' = Size(o)  BY <2>0 DEF Contents, Size
        <5>3. \A k \in DOMAIN file'.streams : Contents(file'.streams[k].offset) = file'.streams[k].hash
          BY <5>1, <4>3, <3>2, <2>0 DEF Shown
        <5>. QED  BY <5>2, <5>3, <4>2, <2>0 DEF Shown, Contents, Size
      <4>7. Taken(i)'
        <5>1. InOrder(Append(file.streams, x), wim.entry.streams, 1..i)
          BY <2>0, <3>4, <4>3, <4>4, InOrderAppend DEF Taken
        <5>2. 1..(i' - 1) = 1..i  BY <2>0, <3>1
        <5>. QED  BY <5>1, <5>2, <2>0, <4>2 DEF Taken
      <4>. QED  BY <2>0, <3>1, <3>3, <4>5, <4>6, <4>7 DEF FileInv
    <3>5. CASE s.name = unnamed
      <4>1. \/ file' = [hash |-> s.hash, size |-> Size(Offset(s.hash)), offset |-> Offset(s.hash),
                        streams |-> file.streams]
            \/ file' = file
        BY <2>0, <3>1, <3>5, Zenon DEF IsFile, FileStream
      <4>2. \/ /\ file'.hash = s.hash /\ file'.size = Size(Offset(s.hash)) /\ file'.offset = Offset(s.hash)
               /\ file'.streams = file.streams
            \/ file' = file
        BY <4>1
      <4>3. file'.streams = file.streams  BY <4>2
      <4>4. IsFile'  BY <2>0, <4>1, <4>2 DEF IsFile
      <4>5. Shown'  BY <2>0, <3>2, <4>2, <4>3, Zenon DEF Shown, Contents, Size
      <4>6. Taken(i)'
        <5>1. InOrder(file.streams, wim.entry.streams, 1..i)  BY <2>0, <3>5, InOrderSkip, ZenonT(40) DEF Taken
        <5>2. 1..(i' - 1) = 1..i  BY <2>0, <3>1
        <5>. QED  BY <5>1, <5>2, <2>0, <4>3 DEF Taken
      <4>. QED  BY <2>0, <3>1, <3>3, <4>4, <4>5, <4>6 DEF FileInv
    <3>. QED  BY <3>4, <3>5
  <2>. QED  BY <2>1, <2>2, <2>3
<1>7. CASE UNCHANGED vars  BY <1>7 DEF vars, FileInv, IsFile, Shown, Taken, Contents, Size
<1>. QED  BY <1>1, <1>2, <1>3, <1>4, <1>5, <1>6, <1>7 DEF Next

-----------------------------------------------------------------------------
(* NewReader, readNextEntry, File.Open and Stream.Open: from every file,   *)
(* whatever its table, XML data and streams, what is opened has the hash   *)
(* that is shown, and the streams and the images are the file's own.       *)
THEOREM ReaderOpensWhatItShows == InSequence => (Spec => []OpensWhatItShows)
<1>. SUFFICES ASSUME InSequence PROVE Spec => []OpensWhatItShows  OBVIOUS
<1>1. Init => ReaderInv  BY ReaderInit
<1>2. ReaderInv /\ [Next]_vars => ReaderInv'
  BY TableNext, InfosNext, FileNext DEF ReaderInv
<1>3. ReaderInv => OpensWhatItShows
  BY Zenon DEF ReaderInv, InfosInv, FileInv, Shown, OpensWhatItShows
<1>. QED  BY <1>1, <1>2, <1>3, PTL DEF Spec
=============================================================================
