------------------------------ MODULE Queries -------------------------------
(***************************************************************************)
(* What the package asks of Windows about accounts and processes, with a   *)
(* buffer whose length it has to find out.                                 *)
(***************************************************************************)
EXTENDS WinCalls

CONSTANT FirstCount   \* pkg/process: the first length of the buffer; 256 in
                      \* the code

-----------------------------------------------------------------------------
(* sd.go, LookupSidByName and LookupNameBySid: a first call asks for the   *)
(* lengths, a second one for the account, which may have changed by then.  *)

(* An empty name, or a string that is no SID, is refused.                  *)
LookupStarts(c) ==
  \/ Call(c, "SidByName", "size")
  \/ Call(c, "NameBySid", "sid")
  \/ /\ me[c].pc = "idle" /\ UNCHANGED table
     /\ me' = [me EXCEPT ![c] = [Caller EXCEPT !.api = "SidByName", !.out = "error"]]

convertStringSidToSid(c) ==
  /\ At(c, "NameBySid", "sid") /\ UNCHANGED table
  /\ \/ me' = [me EXCEPT ![c].mem = {"sid"}, ![c].pc = "size"]
     \/ Return(c, "error", "idle")

Fails(c) == Return(c, "error", IF me[c].api = "NameBySid" THEN "deferred" ELSE "idle")

(* Any error but that of the buffer's length ends the function.            *)
LookupSize(c) ==
  /\ me[c].pc = "size" /\ UNCHANGED table
  /\ me' = [me EXCEPT ![c].n = size, ![c].pc = "lookup"] \/ Fails(c)

LookupFits(c) == size <= me[c].n

Lookup(c) ==
  /\ me[c].pc = "lookup" /\ UNCHANGED table
  /\ \/ /\ LookupFits(c)
        /\ \/ /\ me[c].api = "SidByName"
              /\ me' = [me EXCEPT ![c].seen = size, ![c].got = Filled(me[c].n), ![c].pc = "convert"]
           \/ /\ me[c].api = "NameBySid"
              /\ me' = [me EXCEPT ![c].seen = size, ![c].got = Filled(me[c].n), ![c].out = "done",
                                  ![c].pc = "deferred"]
     \/ Fails(c)

(* convertSidToStringSid, and LocalFree of the string it makes.            *)
convertSidToStringSid(c) ==
  \/ /\ At(c, "SidByName", "convert") /\ UNCHANGED table
     /\ \/ me' = [me EXCEPT ![c].mem = {"string"}, ![c].pc = "free"]
        \/ Fails(c)
  \/ /\ At(c, "SidByName", "free") /\ UNCHANGED table
     /\ me' = [me EXCEPT ![c].mem = {}, ![c].out = "done", ![c].pc = "idle"]

LookupReturns(c) ==
  /\ At(c, "NameBySid", "deferred") /\ UNCHANGED table
  /\ me' = [me EXCEPT ![c].mem = {}, ![c].pc = "idle"]

AccountStep(c) ==
  /\ \/ LookupStarts(c) \/ convertStringSidToSid(c) \/ LookupSize(c) \/ Lookup(c)
     \/ convertSidToStringSid(c) \/ LookupReturns(c)
  /\ UNCHANGED <<size, changes>>

-----------------------------------------------------------------------------
(* pkg/process: EnumProcesses and QueryFullProcessImageName ask again with *)
(* a buffer of twice the length until everything fits.                     *)

Begin(c, api) ==
  /\ me[c].pc = "idle" /\ UNCHANGED table
  /\ me' = [me EXCEPT ![c] = [Caller EXCEPT !.api = api, !.n = FirstCount, !.pc = "ask"]]

Got(c) ==
  me' = [me EXCEPT ![c].seen = size, ![c].got = Filled(me[c].n), ![c].out = "done", ![c].pc = "idle"]

Double(c) == me' = [me EXCEPT ![c].n = 2 * @]

(* enumProcesses does not tell that there are more processes than fit.     *)
MayHaveMore(c) == Filled(me[c].n) = me[c].n

EnumProcesses(c) ==
  \/ Begin(c, "EnumProcesses")
  \/ /\ At(c, "EnumProcesses", "ask") /\ UNCHANGED table
     /\ \/ Return(c, "error", "idle")
        \/ MayHaveMore(c) /\ Double(c)
        \/ ~MayHaveMore(c) /\ Got(c)

(* ERROR_INSUFFICIENT_BUFFER; a name is followed by a zero.                *)
QueryFullProcessImageName(c) ==
  \/ Begin(c, "ImageName")
  \/ /\ At(c, "ImageName", "ask") /\ UNCHANGED table
     /\ \/ Return(c, "error", "idle")
        \/ size >= me[c].n /\ Double(c)
        \/ size < me[c].n /\ Got(c)

ProcessStep(c) ==
  /\ EnumProcesses(c) \/ QueryFullProcessImageName(c)
  /\ UNCHANGED <<size, changes>>
=============================================================================
