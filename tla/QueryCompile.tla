---------------------------- MODULE QueryCompile ----------------------------
(***************************************************************************)
(* From a query specification to a statement: the manifest's checks at     *)
(* start (loader.go, NewService, ValidateManifest), Validate               *)
(* (service.go:63-113) and Compile (postgres.go:78-158).  Compile appends  *)
(* to the arguments while it emits the text, and a placeholder's number is *)
(* the length of the arguments at that moment; the text is kept as the     *)
(* clauses of a record, names and values are only compared.                *)
(***************************************************************************)
EXTENDS Integers, Sequences

CONSTANTS
    Field,      \* keys of dimensions and metrics, known to the manifest or not
    Name,       \* parts of identifiers that consist of a-z, 0-9 and _
    Connectors, \* keys of the registered connectors
    Day,        \* dates time.Parse accepts, as numbers
    Value,      \* single filter values
    True,       \* the booleans among them
    False,
    Manifest,   \* manifest files the process may be started with
    Spec,       \* specifications a client may send
    None

Operator == {"eq", "in", "contains", "between", "isNull"}

(***************************************************************************)
(* A manifest: the dimensions with the operators each allows, the metrics. *)
(* A field's column is identified with its key.                            *)
(***************************************************************************)
MetricRow == [type : {"sum", "ratio", "other"}, numerator : Field \cup {None},
              denominator : Field \cup {None}]

ManifestRow ==
    [version : Nat, connector : Connectors \cup {None}, kind : STRING,
     identifier : Seq(Name \cup {None}), dimensions : SUBSET Field,
     filterOperators : [Field -> SUBSET Operator],
     metrics : [Field -> MetricRow \cup {None}], defaultRows : Int, maxRows : Int]

(***************************************************************************)
(* A filter's value is decoded JSON: a single value or an array.           *)
(***************************************************************************)
Filter == [field : Field, op : Operator, array : BOOLEAN, value : Seq(Value)]

Sort == [field : Field, direction : {"asc", "desc", "other"}]

QuerySpec ==
    [datasetKnown : BOOLEAN, start : Day \cup {None}, end : Day \cup {None},
     dimensions : Seq(Field), metrics : Seq(Field), filters : Seq(Filter),
     sort : Seq(Sort), limit : Int, offset : Int]

ASSUME ManifestAssumption == Manifest \subseteq ManifestRow
ASSUME SpecAssumption ==
    /\ Spec \subseteq QuerySpec
    /\ \A s \in Spec : \A i \in DOMAIN s.filters :
         s.filters[i].array \/ Len(s.filters[i].value) = 1
ASSUME DayAssumption == Day \subseteq Int /\ None \notin Day

VARIABLES
    manifest,   \* the manifest of the process
    stage,      \* where the request is
    spec,       \* the specification, normalised once it is validated
    args,       \* arguments so far
    statement   \* clauses so far

compileVars == <<manifest, stage, spec, args, statement>>

Blank == [select |-> <<>>, from |-> <<>>, where |-> <<>>, group |-> <<>>,
          order |-> <<>>, limit |-> 0, offset |-> 0]

NoSpec == [datasetKnown |-> FALSE, start |-> None, end |-> None,
           dimensions |-> <<>>, metrics |-> <<>>, filters |-> <<>>,
           sort |-> <<>>, limit |-> 0, offset |-> 0]

CompileInit ==
    /\ manifest \in Manifest
    /\ stage = "starting"
    /\ spec = NoSpec
    /\ args = <<>>
    /\ statement = Blank

-----------------------------------------------------------------------------
(***************************************************************************)
(* Start.                                                                  *)
(***************************************************************************)

identifier(parts) ==
    Len(parts) \in 1 .. 2 /\ \A i \in DOMAIN parts : parts[i] \in Name

ValidateManifest(m) ==
    m.kind \in {"table", "table_function"} /\ identifier(m.identifier)

(***************************************************************************)
(* The loader's check; every manifest here has a key.                      *)
(***************************************************************************)
LoadDirectory(m) == m.version = 1 /\ m.connector # None

(***************************************************************************)
(* The process ends unless the manifest loads, its connector is registered *)
(* and the connector takes it.  Nothing looks at its fields.               *)
(***************************************************************************)
NewService ==
    /\ stage = "starting"
    /\ stage' = IF /\ LoadDirectory(manifest)
                   /\ manifest.connector \in Connectors
                   /\ ValidateManifest(manifest)
                THEN "serving" ELSE "exited"
    /\ UNCHANGED <<manifest, spec, args, statement>>

-----------------------------------------------------------------------------
(***************************************************************************)
(* Validate.                                                               *)
(***************************************************************************)

Dimension(key) == key \in manifest.dimensions

Metric(key) == manifest.metrics[key] # None

(* Mutant: only the start is checked. *)
Dates_OnlyStart(s) == s.start \in Day /\ (s.end \in Day => s.start <= s.end)

Dates(s) == s.start \in Day /\ s.end \in Day /\ s.start <= s.end

(* Mutant: capped first, the default rows are not. *)
Rows_CapFirst(limit) ==
    IF limit > manifest.maxRows THEN manifest.maxRows
    ELSE IF limit <= 0 THEN manifest.defaultRows ELSE limit

Rows(limit) ==
    LET rows == IF limit <= 0 THEN manifest.defaultRows ELSE limit IN
    IF rows > manifest.maxRows THEN manifest.maxRows ELSE rows

Normalized(s) == [s EXCEPT !.limit = Rows(s.limit)]

Valid(s) ==
    /\ s.datasetKnown
    /\ Dates(s)
    /\ s.dimensions # <<>> \/ s.metrics # <<>>
    /\ \A i \in DOMAIN s.dimensions : Dimension(s.dimensions[i])
    /\ \A i \in DOMAIN s.metrics : Metric(s.metrics[i])
    /\ \A i \in DOMAIN s.filters :
         /\ Dimension(s.filters[i].field)
         /\ s.filters[i].op \in manifest.filterOperators[s.filters[i].field]
    /\ \A i \in DOMAIN s.sort :
         /\ s.sort[i].direction \in {"asc", "desc"}
         /\ Dimension(s.sort[i].field) \/ Metric(s.sort[i].field)
    /\ s.offset >= 0

Request(s) ==
    /\ stage = "serving"
    /\ stage' = "received"
    /\ spec' = s
    /\ UNCHANGED <<manifest, args, statement>>

Validate ==
    /\ stage = "received"
    /\ IF Valid(spec)
       THEN stage' = "valid" /\ spec' = Normalized(spec)
       ELSE stage' = "refused" /\ UNCHANGED spec
    /\ UNCHANGED <<manifest, args, statement>>

-----------------------------------------------------------------------------
(***************************************************************************)
(* Compile.                                                                *)
(***************************************************************************)

(***************************************************************************)
(* An argument: what kind of value it is, and what was asked for.          *)
(***************************************************************************)
Arg(as, value) == [as |-> as, value |-> value]

(***************************************************************************)
(* What metricSQL sums: the metric's own column, or those of the two       *)
(* metrics a ratio names, which must exist.                                *)
(***************************************************************************)
Parts(key) ==
    IF manifest.metrics[key].type = "sum" THEN <<key>>
    ELSE <<manifest.metrics[key].numerator, manifest.metrics[key].denominator>>

metricSQL(key) ==
    /\ manifest.metrics[key].type # "other"
    /\ \A i \in DOMAIN Parts(key) : Parts(key)[i] \in Field /\ Metric(Parts(key)[i])

(***************************************************************************)
(* Compile up to FROM: the dates are the first two arguments.  The groups  *)
(* are used only when something is aggregated.                             *)
(***************************************************************************)
Select ==
    /\ stage = "valid"
    /\ IF \A i \in DOMAIN spec.metrics : metricSQL(spec.metrics[i])
       THEN /\ stage' = "filters"
            /\ args' = <<Arg("date", <<spec.start>>), Arg("date", <<spec.end>>)>>
            /\ statement' = [Blank EXCEPT
                 !.select = spec.dimensions \o spec.metrics,
                 !.from = IF manifest.kind = "table_function" THEN <<1, 2>> ELSE <<>>,
                 !.group = IF spec.metrics # <<>> THEN spec.dimensions ELSE <<>>]
       ELSE stage' = "failed" /\ UNCHANGED <<args, statement>>
    /\ UNCHANGED <<manifest, spec>>

(* Mutant: a list of one is refused. *)
Shaped_MoreThanOne(f) ==
    /\ f.op = "in" => f.array /\ Len(f.value) > 1
    /\ f.op = "between" => f.array /\ Len(f.value) = 2

(***************************************************************************)
(* Only these two operators look at the shape of the value.                *)
(***************************************************************************)
Shaped(f) ==
    /\ f.op = "in" => f.array /\ f.value # <<>>
    /\ f.op = "between" => f.array /\ Len(f.value) = 2

(***************************************************************************)
(* The arguments a filter appends.  Text in an array and a pattern in % are*)
(* the same values in another form, which is all the tag says.             *)
(***************************************************************************)
Operands(f) ==
    CASE f.op = "eq" -> <<Arg("single", f.value)>>
      [] f.op = "in" -> <<Arg("array", f.value)>>
      [] f.op = "contains" -> <<Arg("pattern", f.value)>>
      [] f.op = "between" -> <<Arg("single", <<f.value[1]>>), Arg("single", <<f.value[2]>>)>>
      [] f.op = "isNull" -> <<>>

(***************************************************************************)
(* Anything but the boolean true asks for IS NOT NULL.                     *)
(***************************************************************************)
Test(f) == IF f.op # "isNull" THEN f.op
           ELSE IF ~f.array /\ f.value = <<True>> THEN "isNull" ELSE "isNotNull"

(* Mutant: numbers the placeholders from the filter's place. *)
Placeholders_ByPlace(f, sofar) ==
    [k \in DOMAIN Operands(f) |-> 2 + Len(statement.where) + k]

(***************************************************************************)
(* $n is the length of the arguments once the filter's own are appended.   *)
(***************************************************************************)
Placeholders(f, sofar) == [k \in DOMAIN Operands(f) |-> Len(sofar) + k]

AddFilter ==
    /\ stage = "filters"
    /\ Len(statement.where) < Len(spec.filters)
    /\ LET f == spec.filters[Len(statement.where) + 1] IN
         IF Shaped(f)
         THEN /\ args' = args \o Operands(f)
              /\ statement' = [statement EXCEPT !.where =
                   Append(@, [column |-> f.field, test |-> Test(f),
                              at |-> Placeholders(f, args)])]
              /\ UNCHANGED stage
         ELSE stage' = "failed" /\ UNCHANGED <<args, statement>>
    /\ UNCHANGED <<manifest, spec>>

(* Mutant: the limit's number stands in both places. *)
Limit_OneNumber ==
    /\ stage = "filters"
    /\ Len(statement.where) = Len(spec.filters)
    /\ stage' = "compiled"
    /\ args' = args \o <<Arg("rows", <<spec.limit>>), Arg("rows", <<spec.offset>>)>>
    /\ statement' = [statement EXCEPT !.order = spec.sort,
                       !.limit = Len(args) + 1, !.offset = Len(args) + 1]
    /\ UNCHANGED <<manifest, spec>>

Limit ==
    /\ stage = "filters"
    /\ Len(statement.where) = Len(spec.filters)
    /\ stage' = "compiled"
    /\ args' = args \o <<Arg("rows", <<spec.limit>>), Arg("rows", <<spec.offset>>)>>
    /\ statement' = [statement EXCEPT !.order = spec.sort,
                       !.limit = Len(args) + 1, !.offset = Len(args) + 2]
    /\ UNCHANGED <<manifest, spec>>

(***************************************************************************)
(* The request is answered: with an error, by validateQuery with the       *)
(* normalised specification, or by executeQuery once the statement has run.*)
(***************************************************************************)
Answer ==
    /\ stage \in {"refused", "failed", "valid", "compiled"}
    /\ stage' = "serving"
    /\ spec' = NoSpec
    /\ args' = <<>>
    /\ statement' = Blank
    /\ UNCHANGED manifest

CompileNext ==
    \/ NewService
    \/ \E s \in Spec : Request(s)
    \/ Validate \/ Select \/ AddFilter \/ Limit
    \/ Answer

CompileSpec == CompileInit /\ [][CompileNext]_compileVars

-----------------------------------------------------------------------------
(***************************************************************************)
(* The chart editor previews and saves only what passes this check         *)
(* (chartEditing.ts); a blank string is not a value.                       *)
(***************************************************************************)
filterIsComplete(f) ==
    CASE f.op = "isNull" -> ~f.array /\ f.value[1] \in {True, False}
      [] f.op = "in" -> f.array /\ f.value # <<>>
      [] f.op = "between" -> /\ f.array /\ Len(f.value) = 2
                            /\ \A i \in DOMAIN f.value : f.value[i] # False
      [] OTHER -> ~f.array /\ f.value[1] \notin {True, False}

chartDocumentReady(s) ==
    s.metrics # <<>> /\ \A i \in DOMAIN s.filters : filterIsComplete(s.filters[i])

-----------------------------------------------------------------------------
Argument == [as : {"date", "single", "array", "pattern", "rows"},
             value : Seq(Day \cup Value \cup Int)]

Predicate == [column : Field, at : Seq(Nat),
              test : Operator \cup {"isNotNull"}]

Statement == [select : Seq(Field), from : Seq(Nat), where : Seq(Predicate),
              group : Seq(Field), order : Seq(Sort), limit : Nat, offset : Nat]

(***************************************************************************)
(* The types of the request's state.                                       *)
(***************************************************************************)
CompileTypeOK ==
    /\ manifest \in Manifest
    /\ stage \in {"starting", "exited", "serving", "received", "refused", "valid",
                  "filters", "failed", "compiled"}
    /\ spec \in QuerySpec
    /\ args \in Seq(Argument)
    /\ statement \in Statement

(* What the placeholders of a predicate stand for. *)
Bound(at) == [k \in DOMAIN at |-> args[at[k]]]

(***************************************************************************)
(* With its arguments put back in place of its placeholders, a finished    *)
(* statement asks exactly what the specification asks: every filter is     *)
(* there, on its own column and with its own values, each in the form it is*)
(* converted to (single, array or pattern), and the dates, the limit and   *)
(* the offset are where they are read (postgres.go:83-156).                *)
(***************************************************************************)
StatementReadsBack ==
    stage = "compiled" =>
        /\ Len(statement.where) = Len(spec.filters)
        /\ \A i \in DOMAIN spec.filters :
             /\ statement.where[i].column = spec.filters[i].field
             /\ statement.where[i].test = Test(spec.filters[i])
             /\ Bound(statement.where[i].at) = Operands(spec.filters[i])
        /\ args[1] = Arg("date", <<spec.start>>) /\ args[2] = Arg("date", <<spec.end>>)
        /\ args[statement.limit] = Arg("rows", <<spec.limit>>)
        /\ args[statement.offset] = Arg("rows", <<spec.offset>>)

(***************************************************************************)
(* A statement on a table function names every one of its parameters:      *)
(* PostgreSQL refuses a parameter whose type nothing determines.  On a     *)
(* table the two dates are named nowhere (postgres.go:103-105).            *)
(***************************************************************************)
ParametersUsed ==
    stage = "compiled" /\ manifest.kind = "table_function" =>
        \A n \in DOMAIN args :
            \/ \E k \in DOMAIN statement.from : statement.from[k] = n
            \/ \E i \in DOMAIN statement.where :
                 \E k \in DOMAIN statement.where[i].at : statement.where[i].at[k] = n
            \/ n \in {statement.limit, statement.offset}

(***************************************************************************)
(* What /query/validate returns as normalizedSpec is itself valid and is   *)
(* its own normal form, so that sending it back asks, and is cached, as    *)
(* the same query (service.go:103-112).                                    *)
(***************************************************************************)
NormalizedStable == stage = "valid" => Valid(spec) /\ Normalized(spec) = spec

(***************************************************************************)
(* A specification the editor lets pass and Validate accepts compiles, but *)
(* for a metric of an unknown type or a ratio that names a metric the      *)
(* manifest does not have: nothing checks those at start                   *)
(* (postgres.go:160-176).                                                  *)
(***************************************************************************)
ReadyCompiles ==
    stage = "failed" /\ chartDocumentReady(spec) =>
        \E i \in DOMAIN spec.metrics : ~metricSQL(spec.metrics[i])
=============================================================================
