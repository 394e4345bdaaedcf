--------------------------- MODULE MCSourceSession ---------------------------
(* A small instance of SourceSession. *)
EXTENDS SourceSession

Namespaces == {Root, <<"a">>, <<"a", "b">>}
Tables == {"logs"}

Asked ==
  {Request(METADATA_TABLE, o) :
     o \in {Absent, Malformed, Given(<<"logs">>), Given(<<"logs", "other", "logs">>),
            Given(<<"logs", "logs">>)}}
  \cup {[Request(METADATA_TABLE, Given(<<"logs">>)) EXCEPT !.configs = Malformed]}
  \cup {Request(t, o) : t \in {NAMESPACES_TABLE, TABLES_TABLE},
                        o \in {Absent, Malformed, Given(<<"a">>)}}
  \cup {Request(t, Absent) : t \in {"logs", "other", Typo}}

\* A column that takes no null and one that takes a list, and rows for them.
Fields == <<Field("id", Primitive("integer"), FALSE),
            Field("tags", ArrayOf(Primitive("string"), TRUE), TRUE)>>
Rows2 == {<< <<"id", Scalar("numeral")>>, <<"tags", Text>> >>,
          << <<"id", Scalar("blank")>> >>, << >>}

Own(name, kind, typed, required) ==
  [key |-> name, name |-> name, owner |-> "source", kind |-> kind, typed |-> typed,
   fields |-> Fields, required |-> required]
\* A _meta of its own, without a code and of a type that no error row has.
StatusOnly == Field("_meta", StructOf(<<TextField("status", FALSE)>>), FALSE)
Count == Field("_meta", Primitive("integer"), TRUE)
Report == [Own("report", "metadata", TRUE, {}) EXCEPT !.fields = Append(Fields, StatusOnly)]
Tally == [Own("tally", "metadata", TRUE, {}) EXCEPT !.fields = <<Count>>]
\* Mapped under a key that is not its name.
Alias == [Own("scan", "data", TRUE, {}) EXCEPT !.key = "alias"]
Offers ==
  {NoOffer, [NoOffer EXCEPT !.does = "raises"], [NoOffer EXCEPT !.does = "malformed"],
   [does |-> "answers",
    operations |-> {Own("describe", "metadata", TRUE, {"name"}), Own("scan", "data", TRUE, {}),
                    Own("untyped", "metadata", FALSE, {}),
                    Own("validate_connection", "metadata", TRUE, {}),
                    Report, Tally, Alias}]}

AgentRequest(name, given, table, compiles) ==
  [operation |-> name, given |-> given, table |-> table, compiles |-> compiles]
AgentRequests ==
  {AgentRequest(o, {}, "logs", TRUE) :
     o \in {"none", "list_objects", "list_operations", "validate_connection", "read_table",
            "get_object_metadata", "describe", "scan", "untyped", "report", "tally", "alias"}}
  \cup {AgentRequest("list_objects", {"path"}, "logs", TRUE),
        AgentRequest("list_objects", {"search"}, "logs", TRUE),
        AgentRequest("list_objects", {"search"}, "logs", FALSE)}
  \cup {AgentRequest("get_object_metadata", {"name"} \cup k, t, TRUE) :
          k \in {{}, {"metadataKey"}}, t \in {"logs", "other"}}
  \cup {AgentRequest("read_table", {"tableName"}, t, TRUE) : t \in {"logs", "other"}}
  \cup {AgentRequest("describe", {"name"}, "logs", TRUE)}

\* Without a _meta that tells anything, with it, and with the status alone.
Brought ==
  {Fields, RelaxNullability(Fields), EnsureMetaField(RelaxNullability(Fields)),
   Append(RelaxNullability(Fields), StatusOnly)}
=============================================================================
