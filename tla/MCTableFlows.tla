----------------------------- MODULE MCTableFlows -----------------------------
(* Small instances of TableFlows. *)
EXTENDS TableFlows

Keys == 1 .. 3
Partitions == {{1}, {2, 3}}

\* Every table through either reader, but for the deletes of a partitioned one.
AllButPartitionedDeletes == Tables \X BOOLEAN \ {<<"orders", TRUE>>}
PartitionedDeletes == {<<"orders", TRUE>>}
=============================================================================
