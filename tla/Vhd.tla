-------------------------------- MODULE Vhd ---------------------------------
(***************************************************************************)
(* vhd/vhd.go and internal/computestorage: functions that open or create a *)
(* virtual disk, make one call with its handle, and close it; and those    *)
(* that give the handle to the application, or take it from there.         *)
(***************************************************************************)
EXTENDS WinCalls

CONSTANT Versions    \* of the parameters: 2, and another

(* CreateVhdx and CreateDiffVhd: CloseHandle, of which the error counts.   *)
CreateThenClose(c, api) ==
  \/ Call(c, api, "create")
  \/ At(c, api, "create") /\ Open(c, "close", "idle")
  \/ /\ At(c, api, "close")
     /\ \E out \in {"done", "error"} :
          /\ table' = [table EXCEPT ![me[c].h] = Nil]
          /\ me' = [me EXCEPT ![c].h = Nil, ![c].out = out, ![c].pc = "idle"]

CreateVhdx(c) == CreateThenClose(c, "CreateVhdx")

CreateDiffVhd(c) == CreateThenClose(c, "CreateDiffVhd")

(* DetachVhd and AttachVhd: the handle is closed by a deferred call.       *)
OpenThenCall(c, api) ==
  \/ Call(c, api, "open")
  \/ At(c, api, "open") /\ Open(c, "call", "idle")
  \/ /\ At(c, api, "call") /\ UNCHANGED table
     /\ \E out \in {"done", "error"} : Return(c, out, "deferred")
  \/ At(c, api, "deferred") /\ CloseHandle(c, "idle")

DetachVhd(c) == OpenThenCall(c, "DetachVhd")

(* Mutant: the handle is closed after the call and by the deferred call.   *)
AttachVhd_Twice(c) ==
  \/ OpenThenCall(c, "AttachVhd")
  \/ /\ At(c, "AttachVhd", "call") /\ table' = [table EXCEPT ![me[c].h] = Nil]
     /\ Return(c, "done", "deferred")

AttachVhd(c) == OpenThenCall(c, "AttachVhd")

(* OpenVirtualDisk and CreateVirtualDisk hand the handle out.              *)
OpenVirtualDiskWithParameters(c) ==
  \/ \E version \in Versions :
       /\ me[c].pc = "idle" /\ UNCHANGED table
       /\ me' = [me EXCEPT ![c] = [Caller EXCEPT !.api = "Disk", !.n = version, !.pc = "version"]]
  \/ /\ At(c, "Disk", "version")
     /\ IF me[c].n # 2 THEN Return(c, "error", "idle") /\ UNCHANGED table
        ELSE Open(c, "use", "idle")

(* With the handle: AttachVirtualDisk, DetachVirtualDisk,                  *)
(* GetVirtualDiskPhysicalPath, FormatWritableLayerVHD, one call each.      *)
UseVirtualDisk(c) ==
  /\ At(c, "Disk", "use") /\ UNCHANGED table
  /\ \E out \in {"done", "error"} : Return(c, out, "use")

(* ConvertAndFreeCoTaskMemString copies the path and frees it.             *)
GetLayerVHDMountPath(c) ==
  \/ /\ At(c, "Disk", "use") /\ UNCHANGED table
     /\ \/ me' = [me EXCEPT ![c].mem = @ \cup {"path"}, ![c].pc = "convert"]
        \/ Return(c, "error", "use")
  \/ /\ At(c, "Disk", "convert") /\ UNCHANGED table
     /\ me' = [me EXCEPT ![c].mem = @ \ {"path"}, ![c].out = "done", ![c].pc = "use"]

(* The application is done with the handle.                                *)
CloseVirtualDisk(c) ==
  /\ At(c, "Disk", "use")
  /\ table' = [table EXCEPT ![me[c].h] = Nil]
  /\ me' = [me EXCEPT ![c].h = Nil, ![c].pc = "idle"]

VhdStep(c) ==
  /\ \/ CreateVhdx(c) \/ CreateDiffVhd(c) \/ DetachVhd(c) \/ AttachVhd(c)
     \/ OpenVirtualDiskWithParameters(c) \/ UseVirtualDisk(c) \/ GetLayerVHDMountPath(c)
     \/ CloseVirtualDisk(c)
  /\ UNCHANGED <<size, changes>>
=============================================================================
