------------------------------ MODULE MCBackup ------------------------------
(***************************************************************************)
(* The two layers of a backup: the streams as bytes, and the streams of a  *)
(* file in an archive.  A run is about one of them, and the other stays as *)
(* it is.                                                                  *)
(***************************************************************************)
EXTENDS BackupStream, SequencesExt

CONSTANTS Absent, MaxLen

VARIABLES
  layer,        \* "stream" or "tar"; "none" if a run is about something else
  tarFile, readTwice, fileStreams, tarPc, at, hdr, data, tarOffset, entries, out, info

tarVars ==
  <<tarFile, readTwice, fileStreams, tarPc, at, hdr, data, tarOffset, entries, out, info>>

-----------------------------------------------------------------------------
(* All contents of up to MaxLen bytes in both forms, two EAs of different  *)
(* padding, and one alternate stream or two; creation times on both sides  *)
(* of the epoch, with and without a part of a second; links.               *)
File(kind, content, form, eas, eaFirst, alts, created, old) ==
  [kind |-> kind, content |-> content, form |-> form, sd |-> <<1, 1>>, eas |-> eas,
   eaFirst |-> eaFirst, link |-> Absent, alts |-> alts, created |-> created, old |-> old]

Eas == {<<>>, <<[name |-> <<1>>, value |-> <<1, 0>>], [name |-> <<1, 1>>, value |-> <<>>]>>}

Alt(name, bytes, sparse) == [name |-> name, bytes |-> bytes, sparse |-> sparse]

Alts ==
  {<<>>, <<Alt(":a", <<1>>, FALSE), Alt(":b", <<>>, FALSE)>>, <<Alt(":a", <<>>, TRUE)>>}

(* Where a link leads, and the name it shows: the same place, or another   *)
(* name for it, or one with slashes, or none.                              *)
Places ==
  {[subst |-> s, print |-> p, relative |-> FALSE, plain |-> TRUE] : <<s, p>> \in
     {<< <<"\\", "?", "?", "\\", "x">>, <<"\\", "\\", "?", "\\", "x">> >>,
      << <<"\\", "?", "?", "\\", "UNC", "\\", "x", "\\", "y">>, <<"\\", "\\", "x", "\\", "y">> >>,
      << <<"\\", "?", "?", "\\", "c:", "\\", "x">>, <<"c:", "\\", "x">> >>}}
  \cup {[subst |-> p, print |-> p, relative |-> TRUE, plain |-> TRUE] :
     p \in {<<"x", "\\", "y">>, <<"\\", "x">>}}
  \cup {[subst |-> <<"\\", "?", "?", "\\", "c:", "\\", "x">>, print |-> p, relative |-> FALSE, plain |-> FALSE] :
     p \in {<<>>, <<"x">>, <<"c:", "/", "x">>, <<"/", "/", "x">>}}

Links ==
  {[tag |-> tag, subst |-> place.subst, print |-> place.print, relative |-> place.relative,
    printFirst |-> first, plain |-> place.plain] :
     tag \in {"symlink", "mountpoint", "other"}, place \in Places, first \in BOOLEAN}

IdleFile == File("dir", <<>>, "normal", <<>>, FALSE, <<>>, 0, FALSE)

MCFiles ==
  {File("file", c, form, eas, first, alts, 0, FALSE) :
     c \in BoundedSeq({0, 1}, MaxLen), form \in {"normal", "sparse"},
     eas \in Eas, first \in BOOLEAN, alts \in Alts}
  \cup {File("dir", <<>>, "normal", eas, first, alts, t, old) :
     eas \in Eas, first \in BOOLEAN, alts \in Alts, old \in BOOLEAN,
     t \in {-201, -200, -150, -100, -99, -1, 0, 1, 10, 100, 250}}
  \cup {[IdleFile EXCEPT !.kind = kind, !.link = link] : kind \in {"file", "dir"}, link \in Links}

Tar == INSTANCE BackupTar WITH Files <- MCFiles, None <- Absent, streams <- fileStreams,
         file <- tarFile, pc <- tarPc, i <- at, curOffset <- tarOffset

-----------------------------------------------------------------------------
BackupIdle == layer = "none" /\ New("none", FALSE, "EOF") /\ Tar!Given(IdleFile, FALSE)

BackupInit ==
  \/ layer = "stream" /\ BInit /\ Tar!Given(IdleFile, FALSE)
  \/ layer = "tar" /\ New("none", FALSE, "EOF") /\ Tar!Init

backupVars == <<layer, bvars, tarVars>>

BackupNext ==
  /\ UNCHANGED layer
  /\ \/ layer = "stream" /\ BNext /\ UNCHANGED tarVars
     \/ layer = "tar" /\ Tar!Next /\ UNCHANGED bvars

TarSpec == layer = "tar" /\ BackupInit /\ [][BackupNext]_backupVars

(* See BackupTar: WriteTarFileFromBackupStream, and then its inverse.      *)
RoundTrip == Tar!RoundTrip

(* See BackupTar: a sparse file and a reader that can seek.                *)
BlocksArePacked == Tar!BlocksArePacked
=============================================================================
