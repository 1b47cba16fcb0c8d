----------------------------- MODULE MCSparseForward -----------------------------
(***************************************************************************)
(* Long prefills of a dense layer on one configuration of the absorbed     *)
(* kernels, and short batches of a sparse layer on every configuration.    *)
(***************************************************************************)
EXTENDS SparseForward

PlainPath ==
  [a2a |-> FALSE, b12x |-> FALSE, large |-> "ag_rs", project |-> FALSE,
   inWorkspace |-> FALSE, gather |-> FALSE, extendAsDecode |-> FALSE]

\* Below a page, at and past the ends of a page and of a chunk of one request.
Contexts == {0, 1, 4, 5, 8, 11}
First == [context : Contexts, query : {2}]
Second == [context : Contexts, query : {3}]

DenseCases ==
  [dcp : {1, 2}, sparse : {FALSE}, heads : {1}, path : {PlainPath},
   decodes : {<<>>},
   prefills : {<<a>> : a \in Second} \cup {<<a, b>> : a \in First, b \in Second}]
  \cup
  [dcp : {4}, sparse : {FALSE}, heads : {1}, path : {PlainPath},
   decodes : {<<>>},
   prefills : {<<a>> : a \in Second}
                \cup {<<[context |-> 5, query |-> 2], [context |-> 1, query |-> 3]>>}]
  \cup
  [dcp : {1, 2}, sparse : {FALSE}, heads : {1}, path : {PlainPath},
   decodes : {<<a>> : a \in 1 .. MaxModelLen} \cup {<<14, a>> : a \in 1 .. MaxModelLen},
   prefills : {<<>>}]
  \cup
  [dcp : {1, 2}, sparse : {FALSE}, heads : {1}, path : {PlainPath},
   decodes : {<<4>>, <<7>>},
   prefills : {<<[context |-> 5, query |-> 2]>>}]

ShortRequests == [context : {0}, query : 2 .. 3]

SparseCases ==
  [dcp : {1, 2}, sparse : {TRUE}, heads : {1, 3}, path : Paths,
   decodes : {<<>>, <<4>>},
   prefills : {<<a>> : a \in ShortRequests}]
  \cup
  [dcp : {1, 2}, sparse : {TRUE}, heads : {1, 3}, path : Paths,
   decodes : {<<>>},
   prefills : {<<a, b>> : a, b \in ShortRequests}]
  \cup
  [dcp : {1, 2}, sparse : {TRUE}, heads : {1, 3}, path : Paths,
   decodes : {<<4>>, <<4, 4>>},
   prefills : {<<>>}]

MCCases == DenseCases \cup SparseCases

MCFollowed ==
  [dcp : {2}, sparse : {TRUE}, heads : {3}, path : {[PlainPath EXCEPT !.gather = TRUE]},
   decodes : {<<>>}, prefills : {<<[context |-> 0, query |-> 3]>>}]
=============================================================================
