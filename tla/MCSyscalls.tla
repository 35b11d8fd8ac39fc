----------------------------- MODULE MCSyscalls -----------------------------
(***************************************************************************)
(* The wrappers of Windows calls, or the goroutines of privilege.go: the   *)
(* two have nothing in common, and the one not chosen stays as it is.      *)
(***************************************************************************)
EXTENDS Syscalls, Privilege

VARIABLE chosen

(* One caller alone, two of one package, and mixed pairs; files of every   *)
(* kind for a caller alone.                                                *)
Pairs ==
  {<<p, p>> : p \in Packages} \cup {<<"none", p>> : p \in {"fs", "bindfilter"}}
    \cup {<<"vhd", "security">>, <<"backup", "bindfilter">>}

PairInit ==
  /\ SInit /\ <<uses[1], uses[2]>> \in Pairs
  /\ uses[1] # "none" => kind = IF uses[2] = "bindfilter" THEN "local" ELSE "restricted"

AloneInit ==
  /\ SInit /\ uses = [c \in Callers |-> "none"] /\ kind = "local"
  /\ size = CHOOSE n \in Sizes : TRUE

MCInit ==
  \/ chosen = "calls" /\ PairInit /\ RInit /\ process = {}
  \/ chosen = "privileges" /\ AloneInit /\ RInit

MCNext ==
  /\ UNCHANGED chosen
  /\ \/ chosen = "calls" /\ SNext /\ UNCHANGED rvars
     \/ chosen = "privileges" /\ RNext /\ UNCHANGED svars

MCSpec == MCInit /\ [][MCNext]_<<chosen, svars, rvars>> /\ SFair
=============================================================================
