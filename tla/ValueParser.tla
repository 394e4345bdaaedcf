----------------------------- MODULE ValueParser -----------------------------
(***************************************************************************)
(* parse_value: what becomes of a JSON value in a column of a given type.  *)
(*                                                                         *)
(* A value is told apart by what the parsers tell apart, and the outcome   *)
(* by who can catch it: a converted value, a ValueError, or an error of    *)
(* another class, which parse_value lets through unwrapped. Types nest two *)
(* levels under a row; deeper ones run the same code once more.            *)
(***************************************************************************)
EXTENDS Naturals, Sequences

(* Values. A scalar is a small natural number, a boolean, an infinity or NaN *)
(* (json.loads takes both), or a string: an integer or decimal numeral, an  *)
(* ISO date, blank, or another text.                                        *)
Numbers == {"number", "flag", "inf", "nan"}
Strings == {"numeral", "decimal", "date", "blank", "text"}

Null == [is |-> "null"]
Scalar(class) == [is |-> "scalar", class |-> class]
List(items) == [is |-> "list", items |-> items]
Dict(pairs) == [is |-> "dict", pairs |-> pairs]   \* <<key, value>>, in order

IsScalar(v, classes) == v.is = "scalar" /\ v.class \in classes

(* Types. A field of a struct is a record of name, type and nullable. *)
Primitive(class) == [is |-> "primitive", class |-> class]
ArrayOf(type, containsNull) ==
  [is |-> "array", type |-> type, containsNull |-> containsNull]
MapOf(type) == [is |-> "map", type |-> type]
StructOf(fields) == [is |-> "struct", fields |-> fields]
Field(name, type, nullable) ==
  [name |-> name, type |-> type, nullable |-> nullable]
IsField(f) == f = Field(f.name, f.type, f.nullable)

-----------------------------------------------------------------------------
(* The parsers of primitive types: which values each converts, and which    *)
(* make it raise something other than a ValueError or a TypeError.          *)

ParsesInteger(v) == IsScalar(v, {"numeral", "decimal", "number", "flag"})
ParsesFloat(v) == IsScalar(v, Numbers \cup {"numeral", "decimal"})
\* Decimal('x') raises InvalidOperation, an ArithmeticError.
ParsesDecimal(v) ==
  IsScalar(v, {"numeral", "decimal", "number", "inf", "nan"})
ParsesDate(v) == IsScalar(v, {"date"})
ParsesTimestamp(v) == IsScalar(v, {"date", "number", "flag"})
\* A list becomes bytes number by number; anything else through a string.
ParsesBinary(v) ==
  v.is = "list" =>
    \A i \in DOMAIN v.items : IsScalar(v.items[i], {"number", "flag"})
\* A string is parsed as JSON; anything else passes as it is.
ParsesVariant(v) ==
  IsScalar(v, Strings) => IsScalar(v, {"numeral", "decimal"})

Converts(v, class) ==
  CASE class \in {"string", "boolean"} -> TRUE
    [] class = "integer" -> ParsesInteger(v)
    [] class = "float" -> ParsesFloat(v)
    [] class = "decimal" -> ParsesDecimal(v)
    [] class = "date" -> ParsesDate(v)
    [] class = "timestamp" -> ParsesTimestamp(v)
    [] class = "binary" -> ParsesBinary(v)
    [] class = "variant" -> ParsesVariant(v)
    [] OTHER -> FALSE

\* int(inf) and fromtimestamp(inf) raise OverflowError.
EscapesUnwrapped(v, class) ==
  \/ class = "decimal"
  \/ class \in {"integer", "timestamp"} /\ IsScalar(v, {"inf"})

ParsePrimitive(v, type) ==
  IF v.is = "null" \/ Converts(v, type.class) THEN "parsed"
    ELSE IF EscapesUnwrapped(v, type.class) THEN "other_error" ELSE "value_error"

-----------------------------------------------------------------------------
(* Compound types. Parse is parse_value one level down. *)

\* The parts are parsed in order, up to the first that raises.
FirstError(outcomes) ==
  IF \A i \in DOMAIN outcomes : outcomes[i] = "parsed" THEN "parsed"
    ELSE outcomes[CHOOSE i \in DOMAIN outcomes :
                    /\ outcomes[i] # "parsed"
                    /\ \A j \in DOMAIN outcomes : j < i => outcomes[j] = "parsed"]

\* What d.get(key) returns; key is in d.
At(pairs, key) == pairs[CHOOSE i \in DOMAIN pairs : pairs[i][1] = key][2]
Has(pairs, key) == \E i \in DOMAIN pairs : pairs[i][1] = key

\* A null is taken in any field: only an absent one meets `nullable`.
ParseStruct(Parse(_, _), v, fields) ==
  LET Of(f) == IF Has(v.pairs, f.name)
                 THEN Parse(At(v.pairs, f.name), f.type)
                 ELSE IF f.nullable THEN "parsed" ELSE "value_error"
  IN IF v.is # "dict" \/ v = Dict(<< >>)
       THEN "value_error"
       ELSE FirstError([i \in DOMAIN fields |-> Of(fields[i])])

\* A value that is not a list becomes a list of one where nulls may occur.
ParseArray(Parse(_, _), v, type) ==
  IF v.is = "list"
    THEN FirstError([i \in DOMAIN v.items |-> Parse(v.items[i], type.type)])
    ELSE IF type.containsNull THEN Parse(v, type.type) ELSE "value_error"

\* The keys of a JSON object are strings, and so is the key type.
ParseMap(Parse(_, _), v, type) ==
  IF v.is # "dict" THEN "value_error"
    ELSE FirstError([i \in DOMAIN v.pairs |-> Parse(v.pairs[i][2], type.type)])

ParseLevel(Parse(_, _), v, type) ==
  CASE v.is = "null" -> "parsed"
    [] v.is # "null" /\ type.is = "struct" -> ParseStruct(Parse, v, type.fields)
    [] v.is # "null" /\ type.is = "array" -> ParseArray(Parse, v, type)
    [] v.is # "null" /\ type.is = "map" -> ParseMap(Parse, v, type)
    [] OTHER -> ParsePrimitive(v, type)

ParseColumn(v, type) == ParseLevel(ParsePrimitive, v, type)

\* parse_value(row, schema), as the readers call it.
ParseRow(row, fields) == ParseLevel(ParseColumn, row, StructOf(fields))
=============================================================================
