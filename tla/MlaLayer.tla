------------------------------ MODULE MlaLayer ------------------------------
(***************************************************************************)
(* One call of an MLA attention layer.  A dense layer expands the keys for *)
(* its prefills and then takes its decodes through the absorbed kernels; a *)
(* sparse one takes the whole batch through these.                         *)
(***************************************************************************)
EXTENDS ContextChunks, MqaPaths

CONSTANT Cases   \* the batches and configurations to cover

\* A batch keeps to the limits its scheduler was configured with.
ASSUME CasesAssumption ==
  \A case \in Cases :
    /\ case.dcp \in GroupSizes /\ case.sparse \in BOOLEAN
    /\ case.heads \in Nat \ {0} /\ case.path \in Paths
    /\ case.decodes \in Seq(1 .. MaxModelLen)
    /\ case.prefills \in Seq([context : Nat, query : Nat \ {0}])
    /\ \A p \in 1 .. Len(case.prefills) :
         case.prefills[p].context + case.prefills[p].query <= MaxModelLen
    /\ Len(case.decodes) + Len(case.prefills) <= MaxNumSeqs
    /\ QueryTokens(case.prefills) \in 0 .. MaxBatched - Len(case.decodes)

vars == <<batchVars, chunkVars, mqaVars>>

\* The decodes of a dense layer come after its prefills, or alone.
Init ==
  /\ \E case \in Cases :
       /\ dcp = case.dcp
       /\ sparse = case.sparse
       /\ decodes = case.decodes
       /\ prefills = case.prefills
       /\ heads = case.heads
       /\ path = case.path
  /\ Ordered
  /\ ChunkInit
  /\ MqaInit

\* The prefills of a dense layer, on their expanded keys.
ForwardMha == step # "done" /\ ChunkNext /\ UNCHANGED mqaVars

\* The rows of the absorbed kernels.
ForwardMqa == step = "done" /\ T > 0 /\ MqaNext /\ UNCHANGED chunkVars

Next == ForwardMha \/ ForwardMqa

Spec == Init /\ [][Next]_vars
FairSpec == Spec /\ WF_vars(Next)

-----------------------------------------------------------------------------
TypeOK == ChunkTypeOK /\ MqaTypeOK

\* A page holds a run for every rank, and the workspace is dealt evenly.  The
\* code asks for less; without it an assertion on the chunks may fail.
EvenGeometry == PageSize % (dcp * Run) = 0 /\ WorkspaceSize % dcp = 0

\* With such pages every rank ends the layer with every row of the batch
\* written: the rows of the prefills and those of the absorbed kernels are all
\* of the batch, and no assertion of the metadata builder, of the loop over the
\* chunks, of the reorganization or of the backend's workspaces fails on the
\* way (a stage that fails is never left).
LayerFinishes == EvenGeometry => <>(step = "done" /\ (T > 0 => stage = "done"))
=============================================================================
