---------------------------- MODULE MCTsugaSync ----------------------------
(* Small instances of TsugaSync: events are numbers in sort order. *)
EXTENDS TsugaSyncInv

AnyPhase == Phases

\* Three events in two seconds.
Events3 == 1 .. 3
Second3 == <<1, 1, 2>>
Rank3 == <<1, 2, 3>>

\* Four events, two of them in one second.
Events4 == 1 .. 4
Second4 == <<0, 2, 2, 3>>
Rank4 == <<1, 2, 3, 4>>

\* A second that holds more events than max_records_per_batch.
SecondFull == <<0, 0, 1>>

\* One event in each second.
SecondSpread == <<0, 1, 2>>

NoPhase == {}
\* A run stops between two batches.
BetweenBatches == {"call"}
\* A run stops with a batch that is logged and not written.
BeforeWrite == {"write"}
=============================================================================
