---------------------------- MODULE MCRangeFetch ----------------------------
(* Small instances of RangeFetch. *)
EXTENDS RangeFetch

\* Five events, three of them in one second.
Events5 == 1 .. 5
Second5 == <<0, 1, 1, 1, 3>>
=============================================================================
