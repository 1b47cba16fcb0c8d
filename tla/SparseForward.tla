--------------------------- MODULE SparseForward ---------------------------
(***************************************************************************)
(* A layer whose absorbed kernels read gathered records.  Before its       *)
(* attention kernel, forward_mqa has the remap kernel turn each row's      *)
(* selected tokens into slots of the gathered cache; both are launched on  *)
(* one stream, so the second finds the work of all tiles of the first.     *)
(* The row that is followed here is any one of the batch's.                *)
(***************************************************************************)
EXTENDS MlaLayer, TopkRemap

CONSTANT Followed   \* bound: the cases of which a row is followed

ForwardVars == <<vars, remapVars>>

Remaps ==
  /\ CkvUsed
  /\ [dcp |-> dcp, sparse |-> sparse, heads |-> heads, path |-> path,
      decodes |-> decodes, prefills |-> prefills] \in Followed

ForwardInit ==
  /\ Init
  /\ RemapInit
  /\ Remaps \/ (count = 0 /\ \A c \in RowColumns : out[c] = None)

RemapRow ==
  /\ stage = "load" /\ Remaps /\ ~KernelDone
  /\ RemapNext
  /\ UNCHANGED vars

ForwardLayer ==
  /\ (stage = "load" /\ Remaps) => KernelDone
  /\ Next
  /\ UNCHANGED remapVars

ForwardNext == RemapRow \/ ForwardLayer

ForwardSpec == ForwardInit /\ [][ForwardNext]_ForwardVars /\ WF_ForwardVars(ForwardNext)
=============================================================================
