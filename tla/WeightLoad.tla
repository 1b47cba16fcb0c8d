----------------------------- MODULE WeightLoad -----------------------------
(***************************************************************************)
(* instanttensor_weights_iterator as the image has it.  A server iterates  *)
(* the checkpoint twice: once for the main model and once, with a filter   *)
(* on the names and for a few files, for the draft layers, when the main   *)
(* model already fills the device.  InstantTensor stages in device memory; *)
(* it may raise, or a native thread of it may take the process down.       *)
(***************************************************************************)
EXTENDS Naturals

CONSTANTS Tensors,     \* the tensors of the checkpoint
          Draft,       \* those the filter of the reload lets through
          Files,       \* [pass -> number of files] of the two passes
          SmallReload  \* a filtered reload of at most so many files is ordinary

ASSUME LoadAssumption ==
  /\ Draft \subseteq Tensors
  /\ Files \in [{"main", "draft"} -> Nat]
  /\ SmallReload \in Nat

VARIABLES pass,     \* the pass over the checkpoint
          reader,   \* what reads the files in this pass
          unread,   \* tensors the reader has not come to
          yielded,  \* [tensor -> times it was handed to the model] in this pass
          load      \* "loading", or how it ended

loadVars == <<pass, reader, unread, yielded, load>>

LoadTypeOK ==
  /\ pass \in {"main", "draft"}
  /\ reader \in {"none", "instant", "ordinary"}
  /\ unread \subseteq Tensors
  /\ yielded \in [Tensors -> 0..2]
  /\ load \in {"loading", "loaded", "raised", "aborted"}

LoadInit ==
  /\ pass = "main" /\ reader = "none" /\ unread = Tensors
  /\ yielded = [t \in Tensors |-> 0]
  /\ load = "loading"

Wanted == IF pass = "main" THEN Tensors ELSE Draft

\* Decided before anything is opened.
Bypass == pass = "draft" /\ Files[pass] <= SmallReload

Open ==
  /\ load = "loading" /\ reader = "none"
  /\ reader' = IF Bypass THEN "ordinary" ELSE "instant"
  /\ UNCHANGED <<pass, unread, yielded, load>>

\* The next tensor of the files; those the filter drops are passed over.
Read(t) ==
  /\ load = "loading" /\ reader # "none" /\ t \in unread
  /\ unread' = unread \ {t}
  /\ yielded' = IF t \in Wanted THEN [yielded EXCEPT ![t] = @ + 1] ELSE yielded
  /\ UNCHANGED <<pass, reader, load>>

\* A variant that falls back whenever memory is short.
FallsBackAlways(memory) == memory

\* Start over with the ordinary reader only if nothing was handed out.
FallsBack(memory) == memory /\ \A t \in Tensors : yielded[t] = 0

InstantRaises(memory) ==
  /\ load = "loading" /\ reader = "instant"
  /\ IF FallsBack(memory)
     THEN reader' = "ordinary" /\ unread' = Tensors /\ UNCHANGED load
     ELSE load' = "raised" /\ UNCHANGED <<reader, unread>>
  /\ UNCHANGED <<pass, yielded>>

\* A native thread aborts: no handler of Python's runs.
InstantAborts ==
  /\ load = "loading" /\ reader = "instant"
  /\ load' = "aborted"
  /\ UNCHANGED <<pass, reader, unread, yielded>>

EndPass ==
  /\ load = "loading" /\ reader # "none" /\ unread = {}
  /\ IF pass = "main"
     THEN /\ pass' = "draft" /\ reader' = "none" /\ unread' = Tensors
          /\ yielded' = [t \in Tensors |-> 0]
          /\ UNCHANGED load
     ELSE load' = "loaded" /\ UNCHANGED <<pass, reader, unread, yielded>>

LoadNext ==
  \/ Open \/ (\E t \in Tensors : Read(t)) \/ EndPass
  \/ (\E memory \in BOOLEAN : InstantRaises(memory)) \/ InstantAborts

-----------------------------------------------------------------------------
\* No pass hands a tensor to the model twice, however it fails and whatever
\* reader takes over, and a tensor is behind only if it was handed out when it
\* was wanted: nothing is skipped by the change of reader.
WeightsOnce ==
  \A t \in Tensors :
    yielded[t] = (IF t \in Wanted /\ t \notin unread /\ reader # "none" THEN 1 ELSE 0)
=============================================================================
