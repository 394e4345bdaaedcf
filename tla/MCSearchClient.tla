--------------------------- MODULE MCSearchClient ---------------------------
(* Small instances of SearchClient. *)
EXTENDS SearchClient

CONSTANTS w1, w2

Workers2 == {w1, w2}
AfterTwoOrFive == {2, 5}
=============================================================================
