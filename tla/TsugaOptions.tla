----------------------------- MODULE TsugaOptions -----------------------------
(***************************************************************************)
(* What the Tsuga connector makes of its options, and the theorem that the *)
(* options it accepts meet what TsugaSync and RangeFetch assume of them.   *)
(***************************************************************************)
EXTENDS Integers, TLAPS

(* The value of an option is absent, empty, an integer numeral or a text    *)
(* that is none; a text may still be one of the words for a truth value.    *)
Absent == [is |-> "absent", number |-> 0]
Empty == [is |-> "empty", number |-> 0]
Number(n) == [is |-> "number", number |-> n]
Word(class) == [is |-> class, number |-> 0]   \* "true", "false" or "text"
OptionValue ==
  [is : {"absent", "empty", "number", "true", "false", "text"}, number : Int]

Counts == {"initial_lookback_seconds", "incremental_overlap_seconds", "window_seconds",
           "page_size", "max_concurrency", "max_records_per_batch",
           "request_timeout_seconds"}
Keys == Counts \cup {"query", "cluster_id", "allow_truncated_seconds"}

IsUnset(v) == v.is \in {"absent", "empty"}

\* Each parser raises a ValueError unless Accepts; what it returns is Parsed.
AcceptsPositiveInt(v) == IsUnset(v) \/ (v.is = "number" /\ v.number > 0)
ParsePositiveInt(v, default) == IF IsUnset(v) THEN default ELSE v.number

AcceptsNonNegativeInt(v) == IsUnset(v) \/ (v.is = "number" /\ v.number >= 0)
ParseNonNegativeInt(v, default) == IF IsUnset(v) THEN default ELSE v.number

\* None where it is unset, which the models write 0: no cap.
ParseOptionalPositiveInt(v) == IF IsUnset(v) THEN 0 ELSE v.number

AcceptsBool(v) ==
  \/ IsUnset(v) \/ v.is \in {"true", "false"}
  \/ v.is = "number" /\ v.number \in {0, 1}
ParseBool(v) == v.is = "true" \/ (v.is = "number" /\ v.number = 1)

\* A table's option counts before the connection's default, unless it is empty.
OrDefault(option, default) == IF IsUnset(option) THEN default ELSE option

\* _parse_table_options: a query is required, "*" included, and every number
\* is in its range, whether or not the read will use it.
AcceptsTableOptions(options, defaultQuery) ==
  /\ ~IsUnset(OrDefault(options["query"], defaultQuery))
  /\ AcceptsNonNegativeInt(options["incremental_overlap_seconds"])
  /\ \A key \in Counts \ {"incremental_overlap_seconds"} : AcceptsPositiveInt(options[key])
  /\ AcceptsBool(options["allow_truncated_seconds"])

ParseTableOptions(options, defaultQuery, defaultCluster) ==
  [query |-> OrDefault(options["query"], defaultQuery),
   cluster_id |-> OrDefault(options["cluster_id"], defaultCluster),
   initial_lookback_seconds |-> ParsePositiveInt(options["initial_lookback_seconds"], 3600),
   incremental_overlap_seconds |-> ParseNonNegativeInt(options["incremental_overlap_seconds"], 60),
   window_seconds |-> ParsePositiveInt(options["window_seconds"], 300),
   page_size |-> ParsePositiveInt(options["page_size"], 1000),
   max_concurrency |-> ParsePositiveInt(options["max_concurrency"], 1),
   max_records_per_batch |-> ParseOptionalPositiveInt(options["max_records_per_batch"]),
   request_timeout_seconds |-> ParsePositiveInt(options["request_timeout_seconds"], 60),
   allow_truncated_seconds |-> ParseBool(options["allow_truncated_seconds"])]

-----------------------------------------------------------------------------

(* The options the connector accepts are those the other models assume      *)
(* (OptionsAssumption of TsugaOffsets, the page size of RangeFetch): a      *)
(* window is at least a second long, so the scan moves; a round has at      *)
(* least one window; the overlap never moves a cursor forward; a cap, if    *)
(* there is one, admits a record.                                           *)
THEOREM AcceptedOptionsAreInRange ==
  ASSUME NEW options \in [Keys -> OptionValue],
         NEW defaultQuery \in OptionValue, NEW defaultCluster \in OptionValue,
         AcceptsTableOptions(options, defaultQuery)
  PROVE  LET parsed == ParseTableOptions(options, defaultQuery, defaultCluster)
         IN /\ parsed.initial_lookback_seconds \in Nat \ {0}
            /\ parsed.incremental_overlap_seconds \in Nat
            /\ parsed.window_seconds \in Nat \ {0}
            /\ parsed.page_size \in Nat \ {0}
            /\ parsed.max_concurrency \in Nat \ {0}
            /\ parsed.max_records_per_batch \in Nat
            /\ ~IsUnset(parsed.query)
<1> DEFINE parsed == ParseTableOptions(options, defaultQuery, defaultCluster)
<1>1. \A key \in Keys : options[key].number \in Int
  BY DEF OptionValue
<1>2. \A key \in Counts \ {"incremental_overlap_seconds"}, default \in Nat \ {0} :
        ParsePositiveInt(options[key], default) \in Nat \ {0}
  <2> SUFFICES ASSUME NEW key \in Counts \ {"incremental_overlap_seconds"},
                      NEW default \in Nat \ {0}
               PROVE  ParsePositiveInt(options[key], default) \in Nat \ {0}
    OBVIOUS
  <2>1. AcceptsPositiveInt(options[key])
    BY DEF AcceptsTableOptions
  <2>2. options[key].number \in Int
    BY <1>1 DEF Keys
  <2> QED
    BY <2>1, <2>2 DEF AcceptsPositiveInt, ParsePositiveInt
<1>3. ParseNonNegativeInt(options["incremental_overlap_seconds"], 60) \in Nat
  <2>1. options["incremental_overlap_seconds"].number \in Int
    BY <1>1 DEF Keys, Counts
  <2> QED
    BY <2>1 DEF AcceptsTableOptions, AcceptsNonNegativeInt, ParseNonNegativeInt
<1>4. ParseOptionalPositiveInt(options["max_records_per_batch"]) \in Nat
  <2>1. options["max_records_per_batch"].number \in Int
    BY <1>1 DEF Keys, Counts
  <2>2. AcceptsPositiveInt(options["max_records_per_batch"])
    BY DEF AcceptsTableOptions, Counts
  <2> QED
    BY <2>1, <2>2 DEF AcceptsPositiveInt, ParseOptionalPositiveInt
<1>5. ~IsUnset(parsed.query)
  BY DEF AcceptsTableOptions, ParseTableOptions
<1>6. /\ parsed.initial_lookback_seconds \in Nat \ {0}
      /\ parsed.window_seconds \in Nat \ {0}
      /\ parsed.page_size \in Nat \ {0}
      /\ parsed.max_concurrency \in Nat \ {0}
  BY <1>2 DEF ParseTableOptions, Counts
<1>7. /\ parsed.incremental_overlap_seconds \in Nat
      /\ parsed.max_records_per_batch \in Nat
  BY <1>3, <1>4 DEF ParseTableOptions
<1> QED
  BY <1>5, <1>6, <1>7
=============================================================================
