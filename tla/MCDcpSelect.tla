---------------------------- MODULE MCDcpSelect ----------------------------
EXTENDS DcpSelect

\* All; for deepgemm's decode the option makes no difference.
MCModes ==
  {m \in [path : {"b12x", "deepgemm"}, phase : {"prefill", "decode"},
          global : BOOLEAN] :
     m.path = "deepgemm" /\ m.phase = "decode" => ~ m.global}

\* A long row with a short one, and two of middling length.
MCDecodeLens ==
  {[q \in RowSet |-> IF q = 0 THEN MaxLen ELSE 1],
   [q \in RowSet |-> 2 + (q % 2)]}
=============================================================================
