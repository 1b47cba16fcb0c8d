---------------------------- MODULE MCTopkMerge ----------------------------
EXTENDS TopkMerge

\* Only what remaps the merged result.
MCRemapModes ==
  {[path |-> "deepgemm", phase |-> "prefill", global |-> TRUE]}

\* No decode step is run.
MCDecodeLens == {}
=============================================================================
