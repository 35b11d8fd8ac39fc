---------------------------- MODULE ReparsePoint ----------------------------
(***************************************************************************)
(* The REPARSE_DATA_BUFFER codec of reparse.go.  A path is a sequence of   *)
(* pieces: separators of either kind, "?", "c:" and names.  Offsets and    *)
(* lengths count pieces, and the flags of a symlink are one piece in front *)
(* of the names.                                                           *)
(***************************************************************************)
EXTENDS Naturals, Sequences, SequencesExt

DosDevice == <<"\\", "\\", "?", "\\">>      \* \\?\
Unc       == <<"\\", "\\">>
NtPrefix  == <<"\\", "?", "?", "\\">>       \* \??\

Drive(target) == target # <<>> /\ target[1] = "c:"

(* The path as the object manager knows it, and whether it is relative.    *)
ntTarget(target) ==
  IF IsPrefix(DosDevice, target) THEN NtPrefix \o SubSeq(target, 5, Len(target))
  ELSE IF IsPrefix(Unc, target) THEN NtPrefix \o <<"UNC", "\\">> \o SubSeq(target, 3, Len(target))
  ELSE IF Drive(target) THEN NtPrefix \o target
  ELSE target

relative(target) == ~IsPrefix(Unc, target) /\ ~Drive(target)

(* EncodeReparsePoint: both names, each with a NUL behind it.              *)
EncodeReparsePoint(rp) ==
  LET nt == Append(ntTarget(rp.target), "NUL")
  IN  [tag    |-> IF rp.mount THEN "mountpoint" ELSE "symlink",
       subst  |-> [offset |-> 0, length |-> Len(nt) - 1],
       print  |-> [offset |-> Len(nt), length |-> Len(rp.target)],
       buffer |-> (IF rp.mount THEN <<>> ELSE <<IF relative(rp.target) THEN "relative" ELSE "absolute">>)
                    \o nt \o Append(rp.target, "NUL")]

(* A name in a buffer, behind the flags if there are some.                 *)
NameAt(b, name) ==
  LET from == name.offset + (IF b.tag = "mountpoint" THEN 0 ELSE 1)
  IN  SubSeq(b.buffer, from + 1, from + name.length)

(* DecodeReparsePoint and DecodeReparsePointData: the print name, of a tag *)
(* that is supported.                                                      *)
DecodeReparsePoint(b) ==
  IF b.tag \notin {"mountpoint", "symlink"} THEN [ok |-> FALSE, target |-> <<>>, mount |-> FALSE]
  ELSE [ok |-> TRUE, target |-> NameAt(b, b.print), mount |-> b.tag = "mountpoint"]
=============================================================================
