------------------------ MODULE MCIngestionPipeline ------------------------
(* Small instances of IngestionPipeline. *)
EXTENDS IngestionPipeline

Words == {"source", "upsert", "delete", "snapshot", "append", "", "logs", "b", "x", "c", "s"}
Columns == {NullText, "k", "t"}
Options == {"query"}

\* The second name begins like a view name of the first.
Tables == {<<"logs">>, <<"logs", "upsert", "b">>}

Destinations ==
  {[catalog |-> NoName, schema |-> NoName, table |-> NoName],
   [catalog |-> <<"c">>, schema |-> NoName, table |-> <<"b", "upsert", "x">>],
   [catalog |-> <<"c">>, schema |-> <<"s">>, table |-> <<"x">>]}

Entry(kind, cols) == [kind |-> kind, cols |-> cols]
NoEntry == Entry("absent", <<>>)

Settings ==
  {[config |-> {}, scd |-> scd, keys |-> NoEntry, sequence |-> NoColumn] :
     scd \in {"absent", "null", "SCD_TYPE_2", "APPEND_ONLY"}}
  \cup
  {[config |-> {"query"}, scd |-> "absent", keys |-> keys, sequence |-> "t"] :
     keys \in {Entry("null", <<>>), Entry("list", <<"k">>), Entry("malformed", <<>>)}}

Objects ==
  {[source |-> t, catalog |-> d.catalog, schema |-> d.schema, table |-> d.table,
    config |-> s.config, scd |-> s.scd, keys |-> s.keys, sequence |-> s.sequence] :
     t \in Tables, d \in Destinations, s \in Settings}

\* No object, one object, or two.
SmallSpecs == {<<>>} \cup {<<o>> : o \in Objects} \cup {<<o, p>> : o \in Objects, p \in Objects}

TableAnswers ==
  {[known |-> known, keys |-> keys, cursor |-> cursor, type |-> type] :
     <<known, keys, cursor, type>> \in
       {<<TRUE, <<"k">>, "t", "cdc_with_deletes">>, <<TRUE, <<"k">>, NoColumn, "snapshot">>,
        <<TRUE, <<>>, "t", "absent">>, <<TRUE, <<"k">>, "t", "other">>,
        <<FALSE, <<>>, NoColumn, "absent">>}}

AllAnswers == [Tables -> TableAnswers]
=============================================================================
